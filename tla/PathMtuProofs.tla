---------------------------- MODULE PathMtuProofs ----------------------------
(***************************************************************************)
(* Proofs about path MTU discovery, for any number of workers, tunnels and *)
(* routers and however the loads and the stores interleave.                *)
(***************************************************************************)
EXTENDS PathMtu, TLAPS

\* m is what a router on a way to t's remote makes of a path.
ReportedFor(t, m) == \E r \in Reporters(t) : m = Floor(r)

\* Where a report comes from: Justified needs it of every report, and of
\* every store a worker is still to make, before it holds of the path MTU.
NoticesGenuine ==
  \A n \in notices : \E u \in Tunnel : /\ Remote[u] = n.remote
                                       /\ n.router \in Crossing[u]
                                       /\ n.mtu = LinkMtu[n.router]

StoresJustified ==
  \A w \in Worker : \A s \in pending[w] :
    s.mtu < Configured[s.tunnel] /\ ReportedFor(s.tunnel, s.mtu)

RoutesCross == \A t \in Tunnel : route[t] \subseteq Crossing[t]

Inv ==
  /\ TypeOK /\ Justified
  /\ NoticesGenuine /\ StoresJustified /\ RoutesCross

-----------------------------------------------------------------------------
(* Sizes.                                                                  *)

\* The bounds of MTUs are numbers in their order.
LEMMA Bounds ==
  MinMtu \in Nat /\ MaxMtu \in Nat /\ 56 <= MinMtu /\ MinMtu <= LeastPathMtu
BY DEF MinMtu, MaxMtu, LeastPathMtu

\* An MTU of the interval, as inequalities.
LEMMA MtuRange ==
  ASSUME NEW m
  PROVE  m \in MinMtu .. MaxMtu <=> m \in Nat /\ MinMtu <= m /\ m <= MaxMtu
BY Bounds

\* The longest packet made for an MTU is a number.
LEMMA LongestNat ==
  ASSUME NEW f \in Nat, NEW m \in MinMtu .. MaxMtu
  PROVE  Longest(f, m) \in Nat
<1>1. Payload(f) \in Nat /\ IPv6Header + Payload(f) \in Nat
  BY DEF Payload, EtherIPHeader, IPv6Header
<1>2. m \in Nat /\ 56 <= m
  BY MtuRange, Bounds
<1>3. Chunk(m) \in Nat
  BY <1>2 DEF Chunk, IPv6Header, FragmentHeader
<1>4. IPv6Header + FragmentHeader + Chunk(m) \in Nat
  BY <1>3 DEF IPv6Header, FragmentHeader
<1>5. QED
  BY <1>1, <1>4 DEF Longest

\* What a report lowers the path MTU to admits fragments.
LEMMA FloorAtLeast ==
  ASSUME NEW r \in Router
  PROVE  Floor(r) \in Nat /\ MinMtu <= Floor(r)
<1>1. LinkMtu[r] \in Nat
  BY PathMtuAssumption
<1>2. LeastPathMtu \in Nat
  BY DEF LeastPathMtu
<1>3. QED
  BY <1>1, <1>2, Bounds DEF Floor

\* A report changes an MTU only to its router's floor, and only downwards.
LEMMA LoweredIs ==
  ASSUME NEW r \in Router, NEW old \in Nat,
         Lowered(LinkMtu[r], old) # old
  PROVE  Lowered(LinkMtu[r], old) = Floor(r) /\ Floor(r) < old
BY PathMtuAssumption DEF Lowered, Floor, LeastPathMtu

\* Configured MTUs are within the bounds.
LEMMA ConfiguredRange ==
  ASSUME NEW t \in Tunnel
  PROVE  /\ Configured[t] \in MinMtu .. MaxMtu
         /\ Configured[t] \in Nat /\ Configured[t] <= MaxMtu
<1>1. Configured[t] \in MinMtu .. MaxMtu
  BY PathMtuAssumption
<1>2. QED
  BY <1>1, MtuRange

\* Path MTUs are within the bounds.
LEMMA PathMtuRange ==
  ASSUME TypeOK, NEW t \in Tunnel
  PROVE  pathMtu[t] \in MinMtu .. MaxMtu /\ pathMtu[t] \in Nat
<1>1. pathMtu[t] \in MinMtu .. MaxMtu
  BY DEF TypeOK
<1>2. QED
  BY <1>1, MtuRange

\* A justified path MTU is within the bounds, and no configured one is passed.
LEMMA JustifiedRange ==
  ASSUME NEW m, NEW t \in Tunnel,
         m = Configured[t] \/ (m < Configured[t] /\ ReportedFor(t, m))
  PROVE  m \in MinMtu .. MaxMtu /\ m <= Configured[t]
<1>1. CASE m = Configured[t]
  <2>1. Configured[t] <= Configured[t]
    BY ConfiguredRange
  <2>2. QED
    BY <1>1, <2>1, ConfiguredRange
<1>2. CASE m < Configured[t] /\ ReportedFor(t, m)
  <2>1. PICK r \in Reporters(t) : m = Floor(r)
    BY <1>2 DEF ReportedFor
  <2>2. r \in Router
    BY PathMtuAssumption DEF Reporters
  <2>3. m \in Nat /\ MinMtu <= m
    BY <2>1, <2>2, FloorAtLeast
  <2>4. m <= Configured[t] /\ m <= MaxMtu
    BY <1>2, <2>3, ConfiguredRange, Bounds
  <2>5. QED
    BY <2>3, <2>4, MtuRange
<1>3. QED
  BY <1>1, <1>2

-----------------------------------------------------------------------------
(* The invariant.                                                          *)

\* At the start every path MTU is the configured one.
LEMMA InitInv == Init => Inv
<1> SUFFICES ASSUME Init PROVE Inv
  OBVIOUS
<1>1. TypeOK
  BY PathMtuAssumption DEF Init, TypeOK
<1>2. Justified /\ NoticesGenuine /\ StoresJustified /\ RoutesCross
  BY DEF Init, Justified, NoticesGenuine, StoresJustified, RoutesCross
<1>3. QED
  BY <1>1, <1>2 DEF Inv

\* A worker sends packets of the path MTU it loads.
LEMMA ForwardInv ==
  ASSUME Inv, NEW w \in Worker, NEW t \in Tunnel, NEW f \in FrameLength,
         Forward(w, t, f)
  PROVE  Inv'
<1>1. Longest(f, pathMtu[t]) \in Nat
  BY PathMtuAssumption, LongestNat DEF Inv, TypeOK
<1>2. TypeOK'
  BY <1>1 DEF Inv, TypeOK, Forward, Packet
<1>3. (Justified /\ NoticesGenuine /\ StoresJustified /\ RoutesCross)'
  BY DEF Forward, Inv, Justified, NoticesGenuine, StoresJustified, RoutesCross
<1>4. QED
  BY <1>2, <1>3 DEF Inv

\* A router reports a packet that is too long.
LEMMA ReportInv ==
  ASSUME Inv, NEW p \in wire, NEW r \in Router, Report(p, r)
  PROVE  Inv'
<1> DEFINE n == [router |-> r, mtu |-> LinkMtu[r], remote |-> Remote[p.tunnel]]
<1>1. p.tunnel \in Tunnel /\ r \in Crossing[p.tunnel] /\ LinkMtu[r] \in Nat
  BY PathMtuAssumption DEF Inv, TypeOK, RoutesCross, Report, TooBig, Packet
<1>2. n \in Notice
  BY <1>1 DEF Notice
<1>3. /\ notices' = notices \cup {n} /\ wire' \subseteq wire
      /\ UNCHANGED <<pathMtu, pending, route, faults>>
  BY DEF Report
<1>4. TypeOK'
  BY <1>2, <1>3 DEF Inv, TypeOK
<1>5. NoticesGenuine'
  <2>1. /\ Remote[p.tunnel] = n.remote /\ n.router \in Crossing[p.tunnel]
        /\ n.mtu = LinkMtu[n.router]
    BY <1>1
  <2>2. QED
    BY <1>1, <1>3, <2>1 DEF Inv, NoticesGenuine
<1>6. (Justified /\ StoresJustified /\ RoutesCross)'
  BY <1>3 DEF Inv, Justified, StoresJustified, RoutesCross
<1>7. QED
  BY <1>4, <1>5, <1>6 DEF Inv

\* The steps that only lose packets or reports, or move a path.
LEMMA QuietInv ==
  ASSUME Inv,
         UNCHANGED <<pathMtu, pending>>,
         wire' \subseteq wire, notices' \subseteq notices,
         faults' \in Nat,
         route' \in [Tunnel -> SUBSET Router], RoutesCross'
  PROVE  Inv'
<1>1. TypeOK'
  BY DEF Inv, TypeOK
<1>2. (Justified /\ NoticesGenuine /\ StoresJustified)'
  BY DEF Inv, Justified, NoticesGenuine, StoresJustified
<1>3. QED
  BY <1>1, <1>2 DEF Inv

\* What a worker makes of a report: nothing, or one store.
LEMMA ReceiveStores ==
  ASSUME Inv, NEW n \in notices, NEW t \in Tunnel, Receive(n, t)
  PROVE  /\ n.router \in Router /\ Queue[n.router] \in Worker
         /\ \A w \in Worker : w # Queue[n.router] => pending'[w] = pending[w]
         /\ n.router \in Reporters(t)
         /\ \/ pending'[Queue[n.router]] = {}
            \/ /\ pending'[Queue[n.router]] =
                    {[tunnel |-> t, mtu |-> Floor(n.router)]}
               /\ Floor(n.router) \in Nat /\ Floor(n.router) < pathMtu[t]
               /\ ReportedFor(t, Floor(n.router))
<1> DEFINE w == Queue[n.router]
           new == Lowered(n.mtu, pathMtu[t])
<1>1. n.router \in Router /\ w \in Worker
  BY PathMtuAssumption DEF Inv, TypeOK, Notice
<1>2. pathMtu[t] \in Nat
  BY PathMtuRange DEF Inv
<1>3. PICK u \in Tunnel : /\ Remote[u] = n.remote /\ n.router \in Crossing[u]
                          /\ n.mtu = LinkMtu[n.router]
  BY DEF Inv, NoticesGenuine
<1>4. n.router \in Reporters(t) /\ ReportedFor(t, Floor(n.router))
  BY <1>3 DEF Receive, OfTunnel, ReportedFor, Reporters
<1>5. pending' = [pending EXCEPT ![w] =
        IF new # pathMtu[t] THEN {[tunnel |-> t, mtu |-> new]} ELSE {}]
  BY DEF Receive
<1>6. DOMAIN pending = Worker
  BY DEF Inv, TypeOK
<1>7. CASE new = pathMtu[t]
  BY <1>1, <1>4, <1>5, <1>6, <1>7
<1>8. CASE new # pathMtu[t]
  <2>1. new = Floor(n.router) /\ Floor(n.router) < pathMtu[t]
    BY <1>1, <1>2, <1>3, <1>8, LoweredIs
  <2>2. pending'[w] = {[tunnel |-> t, mtu |-> Floor(n.router)]}
    BY <1>1, <1>5, <1>6, <1>8, <2>1
  <2>3. QED
    BY <1>1, <1>4, <1>5, <1>6, <2>1, <2>2, FloorAtLeast
<1>9. QED
  BY <1>7, <1>8

\* A worker loads the path MTU and decides whether to store.
LEMMA ReceiveInv ==
  ASSUME Inv, NEW n \in notices, NEW t \in Tunnel, Receive(n, t)
  PROVE  Inv'
<1> DEFINE w == Queue[n.router]
           s == [tunnel |-> t, mtu |-> Floor(n.router)]
<1>1. /\ UNCHANGED <<pathMtu, route, wire, faults>>
      /\ notices' \subseteq notices
  BY DEF Receive
<1>2. Configured[t] \in Nat /\ pathMtu[t] \in Nat /\ pathMtu[t] <= Configured[t]
  BY JustifiedRange, ConfiguredRange, PathMtuRange DEF Inv, Justified, ReportedFor
<1>3. /\ w \in Worker
      /\ \A v \in Worker : v # w => pending'[v] = pending[v]
      /\ \/ pending'[w] = {}
         \/ /\ pending'[w] = {s}
            /\ Floor(n.router) \in Nat /\ Floor(n.router) < pathMtu[t]
            /\ ReportedFor(t, Floor(n.router))
  BY ReceiveStores
<1>4. pending' = [v \in Worker |-> pending'[v]]
  BY DEF Receive, Inv, TypeOK
<1>5. \/ pending'[w] = {}
      \/ /\ pending'[w] = {s} /\ s \in Store
         /\ s.mtu < Configured[s.tunnel] /\ ReportedFor(s.tunnel, s.mtu)
  BY <1>2, <1>3 DEF Store
<1>6. \A v \in Worker : /\ pending'[v] \subseteq Store
                        /\ \A x, z \in pending'[v] : x = z
                        /\ \A x \in pending'[v] :
                             /\ x.mtu < Configured[x.tunnel]
                             /\ ReportedFor(x.tunnel, x.mtu)
  <2> TAKE v \in Worker
  <2>1. CASE v = w
    BY <1>5, <2>1
  <2>2. CASE v # w
    <3>1. pending'[v] = pending[v]
      BY <1>3, <2>2
    <3>2. QED
      BY <3>1 DEF Inv, TypeOK, StoresJustified
  <2>3. QED
    BY <2>1, <2>2
<1>7. TypeOK'
  BY <1>1, <1>4, <1>6 DEF Inv, TypeOK
<1>8. (Justified /\ NoticesGenuine /\ RoutesCross)'
  BY <1>1 DEF Inv, Justified, NoticesGenuine, RoutesCross
<1>9. StoresJustified'
  BY <1>6 DEF StoresJustified
<1>10. QED
  BY <1>7, <1>8, <1>9 DEF Inv

\* A worker stores what it decided on.
LEMMA StoreInv ==
  ASSUME Inv, NEW w \in Worker, StoreMtu(w)
  PROVE  Inv'
<1>1. PICK s \in pending[w] :
        /\ pathMtu' = [pathMtu EXCEPT ![s.tunnel] = s.mtu]
        /\ pending' = [pending EXCEPT ![w] = {}]
        /\ UNCHANGED <<route, wire, notices, faults>>
  BY DEF StoreMtu
<1>2. /\ s \in Store /\ s.tunnel \in Tunnel
      /\ s.mtu < Configured[s.tunnel] /\ ReportedFor(s.tunnel, s.mtu)
  BY DEF Inv, TypeOK, StoresJustified, Store
<1>3. s.mtu \in MinMtu .. MaxMtu
  BY <1>2, JustifiedRange
<1>4. TypeOK'
  BY <1>1, <1>2, <1>3 DEF Inv, TypeOK
<1>5. Justified'
  <2> SUFFICES ASSUME NEW t \in Tunnel
               PROVE  \/ pathMtu'[t] = Configured[t]
                      \/ pathMtu'[t] < Configured[t] /\ ReportedFor(t, pathMtu'[t])
    BY DEF Justified, ReportedFor
  <2>1. CASE t = s.tunnel
    BY <1>1, <1>2, <2>1 DEF Inv, TypeOK
  <2>2. CASE t # s.tunnel
    <3>1. pathMtu'[t] = pathMtu[t]
      BY <1>1, <2>2 DEF Inv, TypeOK
    <3>2. QED
      BY <3>1 DEF Inv, Justified, ReportedFor
  <2>3. QED
    BY <2>1, <2>2
<1>6. (NoticesGenuine /\ RoutesCross)'
  BY <1>1 DEF Inv, NoticesGenuine, RoutesCross
<1>7. StoresJustified'
  BY <1>1 DEF Inv, TypeOK, StoresJustified
<1>8. QED
  BY <1>4, <1>5, <1>6, <1>7 DEF Inv

\* Every step keeps the invariant.
LEMMA NextInv == Inv /\ [Next]_vars => Inv'
<1> SUFFICES ASSUME Inv, [Next]_vars PROVE Inv'
  OBVIOUS
<1>1. ASSUME NEW w \in Worker, NEW t \in Tunnel, NEW f \in FrameLength,
             Forward(w, t, f)
      PROVE  Inv'
  BY <1>1, ForwardInv
<1>2. ASSUME NEW p \in wire, Pass(p)
      PROVE  Inv'
  BY <1>2, QuietInv DEF Pass, Inv, TypeOK, RoutesCross
<1>3. ASSUME NEW p \in wire, NEW r \in Router, Report(p, r)
      PROVE  Inv'
  BY <1>3, ReportInv
<1>4. ASSUME NEW t \in Tunnel, NEW path \in SUBSET Crossing[t], Reroute(t, path)
      PROVE  Inv'
  <2>1. route' \in [Tunnel -> SUBSET Router]
    BY <1>4, PathMtuAssumption DEF Reroute, Inv, TypeOK
  <2>2. RoutesCross'
    BY <1>4 DEF Reroute, Inv, TypeOK, RoutesCross
  <2>3. QED
    BY <1>4, <2>1, <2>2, QuietInv DEF Reroute, Inv, TypeOK
<1>5. ASSUME NEW n \in notices, Lose(n) \/ TakeForTraffic(n)
      PROVE  Inv'
  BY <1>5, QuietInv DEF Lose, TakeForTraffic, Inv, TypeOK, RoutesCross
<1>6. ASSUME NEW n \in notices, NEW t \in Tunnel, Receive(n, t)
      PROVE  Inv'
  BY <1>6, ReceiveInv
<1>7. ASSUME NEW w \in Worker, StoreMtu(w)
      PROVE  Inv'
  BY <1>7, StoreInv
<1>8. CASE UNCHANGED vars
  BY <1>8, QuietInv DEF vars, Inv, TypeOK, RoutesCross
<1>9. QED
  BY <1>1, <1>2, <1>3, <1>4, <1>5, <1>6, <1>7, <1>8 DEF Next

\* The inductive invariant holds in every behaviour of the workers.
THEOREM Invariance == Spec => []Inv
<1>1. QED
  BY InitInv, NextInv, PTL DEF Spec

\* The state keeps its types: no interleaving of loads and stores leaves a
\* path MTU that fragments cannot be cut for.
THEOREM TypeCorrect == Spec => []TypeOK
<1>1. Inv => TypeOK
  BY DEF Inv
<1>2. QED
  BY <1>1, Invariance, PTL

\* A tunnel's path MTU is always the configured one or, below it, one that a
\* router on the way to its remote reported, with any number of workers.
THEOREM OnlyReported == Spec => []Justified
<1>1. Inv => Justified
  BY DEF Inv
<1>2. QED
  BY <1>1, Invariance, PTL

-----------------------------------------------------------------------------
(* One queue for a tunnel's reports.                                       *)

\* A store still to make is made by the worker of a queue its tunnel's reports
\* come to.  If they come to one only, no other worker has stored to the tunnel
\* since this one's load: the store is below the value in force.
StoresLower ==
  \A w \in Worker : \A s \in pending[w] :
    /\ \E r \in Reporters(s.tunnel) : w = Queue[r]
    /\ OneQueue(s.tunnel) => s.mtu < pathMtu[s.tunnel]

\* No store is pending at the start.
LEMMA StoresLowerInit == Init => StoresLower
BY DEF Init, StoresLower

\* Where one queue gets the reports, a pending store stays a lower one.
LEMMA StoresLowerStep ==
  ASSUME Inv, StoresLower, [Next]_vars
  PROVE  StoresLower'
<1>1. CASE UNCHANGED <<pathMtu, pending>>
  BY <1>1 DEF StoresLower
<1>2. ASSUME NEW n \in notices, NEW t \in Tunnel, Receive(n, t)
      PROVE  StoresLower'
  <2> DEFINE s == [tunnel |-> t, mtu |-> Floor(n.router)]
  <2>1. pathMtu' = pathMtu
    BY <1>2 DEF Receive
  <2>2. /\ n.router \in Reporters(t)
        /\ \A w \in Worker : w # Queue[n.router] => pending'[w] = pending[w]
        /\ \/ pending'[Queue[n.router]] = {}
           \/ /\ pending'[Queue[n.router]] = {s}
              /\ Floor(n.router) < pathMtu[t]
    BY <1>2, ReceiveStores
  <2> SUFFICES ASSUME NEW w \in Worker, NEW x \in pending'[w]
               PROVE  /\ \E r \in Reporters(x.tunnel) : w = Queue[r]
                      /\ OneQueue(x.tunnel) => x.mtu < pathMtu[x.tunnel]
    BY <2>1 DEF StoresLower
  <2>3. CASE w = Queue[n.router]
    <3>1. x.tunnel = t /\ x.mtu = Floor(n.router) /\ Floor(n.router) < pathMtu[t]
      BY <2>2, <2>3
    <3>2. QED
      BY <2>2, <2>3, <3>1
  <2>4. CASE w # Queue[n.router]
    BY <2>2, <2>4 DEF StoresLower
  <2>5. QED
    BY <2>3, <2>4
<1>3. ASSUME NEW w \in Worker, StoreMtu(w)
      PROVE  StoresLower'
  <2>1. PICK s \in pending[w] : /\ pathMtu' = [pathMtu EXCEPT ![s.tunnel] = s.mtu]
                                /\ pending' = [pending EXCEPT ![w] = {}]
    BY <1>3 DEF StoreMtu
  <2> SUFFICES ASSUME NEW v \in Worker, NEW x \in pending'[v]
               PROVE  /\ \E r \in Reporters(x.tunnel) : v = Queue[r]
                      /\ OneQueue(x.tunnel) => x.mtu < pathMtu'[x.tunnel]
    BY DEF StoresLower
  <2>2. v # w /\ x \in pending[v]
    BY <2>1 DEF Inv, TypeOK
  <2>3. /\ \E r \in Reporters(x.tunnel) : v = Queue[r]
        /\ OneQueue(x.tunnel) => x.mtu < pathMtu[x.tunnel]
    BY <2>2 DEF StoresLower
  <2>4. ASSUME OneQueue(x.tunnel)
        PROVE  x.tunnel # s.tunnel
    <3>1. \E r \in Reporters(s.tunnel) : w = Queue[r]
      BY <2>1 DEF StoresLower
    <3>2. QED
      BY <2>2, <2>3, <2>4, <3>1 DEF OneQueue
  <2>5. x.tunnel # s.tunnel => pathMtu'[x.tunnel] = pathMtu[x.tunnel]
    <3>1. DOMAIN pathMtu = Tunnel /\ x.tunnel \in Tunnel
      BY <2>2 DEF Inv, TypeOK, Store
    <3>2. QED
      BY <2>1, <3>1
  <2>6. QED
    BY <2>3, <2>4, <2>5
<1>4. QED
  BY <1>1, <1>2, <1>3
     DEF Next, vars, Forward, Pass, Report, Reroute, Lose, TakeForTraffic

\* A tunnel's path MTU never rises while one queue gets every report for it,
\* whatever other workers do to other tunnels.
THEOREM NeverRisesOnOneQueue == Spec => FallsOnOneQueue
<1>1. ASSUME Inv, StoresLower, [Next]_vars
      PROVE  [\A t \in Tunnel : OneQueue(t) => pathMtu'[t] <= pathMtu[t]]_vars
  <2>1. CASE pathMtu' = pathMtu
    <3>1. \A t \in Tunnel : pathMtu[t] \in Nat
      BY <1>1, PathMtuRange DEF Inv
    <3>2. QED
      BY <2>1, <3>1
  <2>2. ASSUME NEW w \in Worker, StoreMtu(w)
        PROVE  \A t \in Tunnel : OneQueue(t) => pathMtu'[t] <= pathMtu[t]
    <3>1. PICK s \in pending[w] :
            pathMtu' = [pathMtu EXCEPT ![s.tunnel] = s.mtu]
      BY <2>2 DEF StoreMtu
    <3>2. /\ s \in Store
          /\ OneQueue(s.tunnel) => s.mtu < pathMtu[s.tunnel]
      BY <1>1 DEF StoresLower, Inv, TypeOK
    <3>3. /\ DOMAIN pathMtu = Tunnel
          /\ \A t \in Tunnel : pathMtu[t] \in Nat
      BY <1>1, PathMtuRange DEF Inv, TypeOK
    <3>4. s.tunnel \in Tunnel /\ s.mtu \in Nat
      BY <3>2 DEF Store
    <3>5. QED
      BY <3>1, <3>2, <3>3, <3>4
  <2>3. QED
    BY <1>1, <2>1, <2>2
       DEF Next, vars, Forward, Pass, Report, Reroute, Lose, TakeForTraffic, Receive
<1>2. Inv /\ StoresLower /\ [Next]_vars => StoresLower'
  BY StoresLowerStep
<1>3. QED
  BY <1>1, <1>2, Invariance, StoresLowerInit, PTL DEF Spec, FallsOnOneQueue

=============================================================================
