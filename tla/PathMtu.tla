------------------------------- MODULE PathMtu -------------------------------
(***************************************************************************)
(* Path MTU discovery (etherip/src/main.rs:216-259): every worker loads a  *)
(* tunnel's path MTU to size the packets it sends, and the worker whose    *)
(* queue receives an ICMPv6 Packet Too Big lowers it with a load and a     *)
(* separate store of one shared AtomicU32.  The routers between the        *)
(* endpoints are the environment; addresses identify them.                 *)
(***************************************************************************)
EXTENDS Fragmentation, FiniteSets

CONSTANTS
  Worker,
  Tunnels,       \* how many: they are 1 .. Tunnels, in the order given
  Remote,        \* Remote[t]: the address of tunnel t's remote
  Configured,    \* Configured[t]: its --mtu
  Router,        \* addresses of the routers
  LinkMtu,       \* LinkMtu[r]: what router r can forward
  Crossing,      \* Crossing[t]: the routers tunnel t's path may go through
  Queue,         \* Queue[r]: the worker RSS gives the packets of r to
  FrameLength,   \* lengths of the frames received on the LAN
  MaxWire, MaxNotices,      \* packets, and reports, in flight at once
  MaxFaults      \* changes of path and lost reports, in all

Tunnel == 1 .. Tunnels

ASSUME PathMtuAssumption ==
  /\ Tunnels \in Nat
  /\ Configured \in [Tunnel -> MinMtu .. MaxMtu]
  /\ LinkMtu \in [Router -> Nat]
  /\ Crossing \in [Tunnel -> SUBSET Router]
  /\ Queue \in [Router -> Worker]
  /\ FrameLength \subseteq Nat
  /\ DOMAIN Remote = Tunnel

VARIABLES
  pathMtu,    \* path_mtu: shared by the workers
  pending,    \* the store each worker is about to make, or none
  route,      \* the routers on each tunnel's path
  wire,       \* packets on their way through the routers
  notices,    \* reports on their way back
  faults      \* changes of path and lost reports so far

vars == <<pathMtu, pending, route, wire, notices, faults>>

Packet == [tunnel : Tunnel, size : Nat]
\* What icmpv6_packet_too_big returns of a report, and the router it came from.
Notice == [router : Router, mtu : Nat, remote : {Remote[t] : t \in Tunnel}]
Store == [tunnel : Tunnel, mtu : Nat]

\* The longest packet made of a frame for a path MTU.
Longest(frame, mtu) ==
  IF FitsWhole(frame, mtu) THEN IPv6Header + Payload(frame)
  ELSE IPv6Header + FragmentHeader + Chunk(mtu)

LeastPathMtu == 1280

\* Mutation: without the floor.
LoweredNoFloor(mtu, old) == IF mtu < old THEN mtu ELSE old
\* Mutation: without .min(old).
LoweredBlindly(mtu, old) == IF mtu > LeastPathMtu THEN mtu ELSE LeastPathMtu
\* Mutation: the report is of the first packet size that did not fit.
LoweredTooLittle(mtu, old) ==
  IF mtu + 1 >= old THEN old
  ELSE IF mtu < LeastPathMtu THEN LeastPathMtu ELSE mtu + 1

\* mtu.max(1280).min(old)
Lowered(mtu, old) ==
  LET floor == IF mtu > LeastPathMtu THEN mtu ELSE LeastPathMtu
  IN  IF floor < old THEN floor ELSE old

\* A source that is a tunnel's remote is taken for that tunnel's traffic.
FromRemote(n) == \E t \in Tunnel : Remote[t] = n.router

\* Mutation: the last tunnel rather than the one of the embedded packet.
OfLastTunnel(n, t) == t = Tunnels

\* position(): the first tunnel to the destination of the embedded packet.
OfTunnel(n, t) ==
  Remote[t] = n.remote /\ \A u \in 1 .. t - 1 : Remote[u] # n.remote

\* Who may report on the way to t's remote, and whether one queue gets it all.
Reporters(t) == UNION {Crossing[u] : u \in {v \in Tunnel : Remote[v] = Remote[t]}}
OneQueue(t) == \A r, q \in Reporters(t) : Queue[r] = Queue[q]

-----------------------------------------------------------------------------

Init ==
  /\ pathMtu = Configured
  /\ pending = [w \in Worker |-> {}]
  /\ route = Crossing
  /\ wire = {} /\ notices = {}
  /\ faults = 0

\* A worker between two stores loads the path MTU and sends a frame's packets.
Forward(w, t, f) ==
  /\ pending[w] = {} /\ Cardinality(wire) < MaxWire
  /\ wire' = wire \cup {[tunnel |-> t, size |-> Longest(f, pathMtu[t])]}
  /\ UNCHANGED <<pathMtu, pending, route, notices, faults>>

TooBig(p, r) == r \in route[p.tunnel] /\ p.size > LinkMtu[r]

Pass(p) ==
  /\ \A r \in Router : ~TooBig(p, r)
  /\ wire' = wire \ {p}
  /\ UNCHANGED <<pathMtu, pending, route, notices, faults>>

Report(p, r) ==
  /\ TooBig(p, r) /\ Cardinality(notices) < MaxNotices
  /\ wire' = wire \ {p}
  /\ notices' = notices \cup
       {[router |-> r, mtu |-> LinkMtu[r], remote |-> Remote[p.tunnel]]}
  /\ UNCHANGED <<pathMtu, pending, route, faults>>

Reroute(t, path) ==
  /\ faults < MaxFaults /\ path # route[t]
  /\ route' = [route EXCEPT ![t] = path] /\ faults' = faults + 1
  /\ UNCHANGED <<pathMtu, pending, wire, notices>>

Lose(n) ==
  /\ faults < MaxFaults
  /\ notices' = notices \ {n} /\ faults' = faults + 1
  /\ UNCHANGED <<pathMtu, pending, route, wire>>

\* The report goes the way of the tunnel's own packets, and is dropped there.
TakeForTraffic(n) ==
  /\ pending[Queue[n.router]] = {} /\ FromRemote(n)
  /\ notices' = notices \ {n}
  /\ UNCHANGED <<pathMtu, pending, route, wire, faults>>

Receive(n, t) ==
  LET w == Queue[n.router]
      new == Lowered(n.mtu, pathMtu[t])
  IN  /\ pending[w] = {} /\ ~FromRemote(n) /\ OfTunnel(n, t)
      /\ pending' = [pending EXCEPT ![w] =
           IF new # pathMtu[t] THEN {[tunnel |-> t, mtu |-> new]} ELSE {}]
      /\ notices' = notices \ {n}
      /\ UNCHANGED <<pathMtu, route, wire, faults>>

StoreMtu(w) ==
  \E s \in pending[w] :
    /\ pathMtu' = [pathMtu EXCEPT ![s.tunnel] = s.mtu]
    /\ pending' = [pending EXCEPT ![w] = {}]
    /\ UNCHANGED <<route, wire, notices, faults>>

Next ==
  \/ \E w \in Worker, t \in Tunnel, f \in FrameLength : Forward(w, t, f)
  \/ \E p \in wire : Pass(p)
  \/ \E p \in wire, r \in Router : Report(p, r)
  \/ \E t \in Tunnel : \E path \in SUBSET Crossing[t] : Reroute(t, path)
  \/ \E n \in notices : Lose(n) \/ TakeForTraffic(n)
  \/ \E n \in notices, t \in Tunnel : Receive(n, t)
  \/ \E w \in Worker : StoreMtu(w)

Spec == Init /\ [][Next]_vars

\* Every worker keeps polling both ports and reaches what is in its queue, in
\* order; LANs keep carrying frames, and a router answers or forwards.
Fairness ==
  /\ \A t \in Tunnel, f \in FrameLength :
       SF_vars(\E w \in Worker : Forward(w, t, f))
  /\ WF_vars(\E p \in wire : Pass(p))
  /\ \A t \in Tunnel :
       WF_vars(\E p \in wire, r \in Router : p.tunnel = t /\ Report(p, r))
  /\ \A t \in Tunnel : \A r \in Crossing[t] :
       SF_vars(\E n \in notices :
                 /\ n.router = r /\ n.remote = Remote[t]
                 /\ TakeForTraffic(n) \/ \E u \in Tunnel : Receive(n, u))
  /\ \A w \in Worker : WF_vars(StoreMtu(w))

FairSpec == Spec /\ Fairness

-----------------------------------------------------------------------------
(* Properties.                                                             *)

\* The types of the state; a path MTU is always one fragments can be cut for.
TypeOK ==
  /\ pathMtu \in [Tunnel -> MinMtu .. MaxMtu]
  /\ pending \in [Worker -> SUBSET Store]
  /\ \A w \in Worker : \A s, z \in pending[w] : s = z
  /\ route \in [Tunnel -> SUBSET Router]
  /\ wire \subseteq Packet /\ notices \subseteq Notice
  /\ faults \in Nat

\* The bottleneck a router makes of itself: no report lowers below the floor.
Floor(r) == IF LinkMtu[r] > LeastPathMtu THEN LinkMtu[r] ELSE LeastPathMtu

\* However the workers' loads and stores interleave, a tunnel's path MTU is
\* the configured one or, below it, what a router on the way to that tunnel's
\* remote reported, no less than 1280: never another tunnel's, never more.
Justified ==
  \A t \in Tunnel :
    \/ pathMtu[t] = Configured[t]
    \/ /\ pathMtu[t] < Configured[t]
       /\ \E r \in Reporters(t) : pathMtu[t] = Floor(r)

\* README.md:186: the path MTU is lowered to what was reported "and is not
\* raised again".  With the reports for a tunnel spread over two queues the
\* store of a higher report can undo that of a lower one.
NeverRises == [][\A t \in Tunnel : pathMtu'[t] <= pathMtu[t]]_vars

\* What is true of it (main.rs:247-250): a tunnel's path MTU never rises as
\* long as one worker gets every report for that tunnel, whatever the reports
\* for other tunnels do on other workers in the meantime.
FallsOnOneQueue ==
  [][\A t \in Tunnel : OneQueue(t) => pathMtu'[t] <= pathMtu[t]]_vars

\* README.md:187: fragmentation "follows changes of the MTU on the path":
\* despite lost reports, races and reroutes, in the end every packet of a
\* tunnel fits each link of its path that keeps IPv6's minimum MTU, unless
\* a router on that path is itself the remote of a tunnel: its reports are
\* dropped as that tunnel's traffic (main.rs:236).
PathFollowed ==
  <>[](\A t \in Tunnel : \A r \in route[t], f \in FrameLength :
         \/ LinkMtu[r] < LeastPathMtu
         \/ \E u \in Tunnel : Remote[u] \in route[t]
         \/ Longest(f, pathMtu[t]) <= LinkMtu[r])

=============================================================================
