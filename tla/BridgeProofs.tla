---------------------------- MODULE BridgeProofs ----------------------------
(***************************************************************************)
(* Proofs about the bridge, for any workers, tunnels, addresses and stacks *)
(* of tags, and any number of frames.                                      *)
(***************************************************************************)
EXTENDS Bridge, TLAPS

Waiting == UNION {lanPackets[w] : w \in Worker}

\* A remote's frame was tagged for the tunnel t its packet was taken to be of,
\* and t's table knows its source since it arrived or later.
PlacedIn(f, t) ==
  /\ ForWan(tunnels[f.from].remote, t)
  /\ tunnels[t].vlan # None => f.tags # <<>> /\ f.tags[1] = tunnels[t].vlan
  /\ (f.mac \notin Group /\ f.age < Age) =>
       table[t][f.mac] # None /\ table[t][f.mac] <= f.age

Placed(f) == f.from \in Tunnel /\ \E t \in Tunnel : PlacedIn(f, t)

FramesPlaced == \A f \in lan \cup Waiting : Placed(f)

\* How much older than the last sweep an entry can be: a sweep leaves entries
\* younger than Age.
AgesBounded ==
  \A t \in Tunnel, m \in Mac :
    table[t][m] # None => table[t][m] < Age + sinceSweep[t]

Inv ==
  /\ TypeOK /\ Accepted(tunnels)
  /\ FramesPlaced /\ AgesBounded
  /\ NoReflection

-----------------------------------------------------------------------------
(* Tags and tables.                                                        *)

\* Only a tunnel that is alone has no VLAN.
LEMMA VlanOf ==
  ASSUME TypeOK, NEW t \in Tunnel
  PROVE  tunnels[t].vlan \in VlanId \/ (tunnels[t].vlan = None /\ Tunnel = {1})
<1>1. tunnels \in Config
  BY DEF TypeOK
<1>2. /\ Tunnel = 1 .. Len(tunnels) /\ Len(tunnels) \in Nat
      /\ \/ tunnels[t].vlan \in VlanId
         \/ tunnels[t].vlan = None /\ Len(tunnels) = 1
  BY <1>1, BridgeAssumption DEF Tunnel
<1>3. 1 .. 1 = {1}
  OBVIOUS
<1>4. QED
  BY <1>2, <1>3

\* 0, which stands for the LAN, is no tunnel.
LEMMA TunnelPositive ==
  ASSUME TypeOK
  PROVE  0 \notin Tunnel
<1>1. Tunnel = 1 .. Len(tunnels) /\ Len(tunnels) \in Nat
  BY BridgeAssumption DEF TypeOK, Tunnel
<1>2. QED
  BY <1>1

\* Tags put on are a stack of tags.
LEMMA TaggedType ==
  ASSUME TypeOK, NEW t \in Tunnel, NEW tags \in Stacks
  PROVE  /\ Tagged(tags, t) \in Seq(VlanId)
         /\ tunnels[t].vlan # None =>
              Tagged(tags, t) # <<>> /\ Tagged(tags, t)[1] = tunnels[t].vlan
<1>1. tags \in Seq(VlanId)
  BY BridgeAssumption
<1>2. CASE tunnels[t].vlan = None
  BY <1>1, <1>2 DEF Tagged
<1>3. CASE tunnels[t].vlan # None
  <2> DEFINE v == tunnels[t].vlan
  <2>1. v \in VlanId
    BY <1>3, VlanOf
  <2> HIDE DEF v
  <2>2. <<v>> \o tags \in Seq(VlanId)
    BY <1>1, <2>1
  <2>3. <<v>> \o tags # <<>> /\ (<<v>> \o tags)[1] = v
    BY <1>1, <2>1
  <2>4. QED
    BY <1>3, <2>2, <2>3 DEF Tagged, v
<1>4. QED
  BY <1>2, <1>3

\* Tags with one taken off are a stack of tags.
LEMMA StrippedType ==
  ASSUME NEW t \in Tunnel, NEW f \in Frames, ForLan(f, t)
  PROVE  [f EXCEPT !.tags = Stripped(f, t)] \in Frames
<1>1. f.tags \in Seq(VlanId)
  BY DEF Frames
<1>2. Stripped(f, t) \in Seq(VlanId)
  <2>1. CASE tunnels[t].vlan = None
    BY <1>1, <2>1 DEF Stripped
  <2>2. CASE tunnels[t].vlan # None
    <3>1. f.tags # <<>>
      BY <2>2 DEF ForLan
    <3>2. QED
      BY <1>1, <2>2, <3>1 DEF Stripped
  <2>3. QED
    BY <2>1, <2>2
<1>3. QED
  BY <1>2 DEF Frames

\* A frame placed in a tunnel is of no other, seen from the LAN.
LEMMA BackToItsTunnel ==
  ASSUME TypeOK, Accepted(tunnels),
         NEW f, NEW t \in Tunnel, NEW u \in Tunnel, PlacedIn(f, t), ForLan(f, u)
  PROVE  t = u
<1>1. CASE Tunnel = {1}
  BY <1>1
<1>2. CASE tunnels[t].vlan \in VlanId /\ tunnels[u].vlan \in VlanId
  <2>1. tunnels[t].vlan = f.tags[1] /\ tunnels[u].vlan = f.tags[1]
    BY <1>2, BridgeAssumption DEF PlacedIn, ForLan
  <2>2. QED
    BY <2>1 DEF Accepted, Tunnel
<1>3. QED
  BY <1>1, <1>2, VlanOf

\* A frame that grows older stays the frame it was.
LEMMA OlderFrame ==
  ASSUME NEW f \in Frames
  PROVE  LET g == [f EXCEPT !.age = IF @ = Age THEN Age ELSE @ + 1] IN
           /\ g \in Frames /\ g.from = f.from /\ g.mac = f.mac /\ g.tags = f.tags
           /\ g.age < Age => f.age < Age /\ g.age = f.age + 1
<1>1. f.age \in Nat /\ f.age <= Age /\ Age \in Nat
  BY BridgeAssumption DEF Frames
<1>2. QED
  BY <1>1 DEF Frames

-----------------------------------------------------------------------------
(* The invariant.                                                          *)

\* At the start nothing is under way and no table holds a source.
LEMMA InitInv == Init => Inv
<1> SUFFICES ASSUME Init PROVE Inv
  OBVIOUS
<1>1. TypeOK
  <2>1. 0 \in 0 .. Age + Late
    BY BridgeAssumption
  <2>2. QED
    BY <2>1, BridgeAssumption DEF Init, TypeOK
<1>2. Accepted(tunnels) /\ FramesPlaced /\ AgesBounded /\ NoReflection
  BY DEF Init, FramesPlaced, Waiting, AgesBounded, NoReflection
<1>3. QED
  BY <1>1, <1>2 DEF Inv

\* A worker learns a source and queues the frame.
LEMMA ReceiveWanInv ==
  ASSUME Inv, NEW w \in Worker, NEW via \in Tunnel, NEW m \in Mac,
         NEW tags \in Stacks, ReceiveWan(w, via, m, tags)
  PROVE  Inv'
<1>0. tunnels' = tunnels /\ Tunnel' = Tunnel /\ Frames' = Frames
  BY DEF ReceiveWan, Tunnel, Frames
<1> USE <1>0
<1>1. PICK t \in Tunnel :
        /\ ForWan(tunnels[via].remote, t)
        /\ LearnSource(t, m)
        /\ lanPackets' = [lanPackets EXCEPT ![w] = @ \cup
             {[mac |-> m, tags |-> Tagged(tags, t), from |-> via, age |-> 0]}]
  BY DEF ReceiveWan
<1>f. PICK f : f = [mac |-> m, tags |-> Tagged(tags, t), from |-> via, age |-> 0]
  OBVIOUS
<1>2. lastSent' = None /\ UNCHANGED <<sinceSweep, lan>>
  BY DEF ReceiveWan
<1>3. Age \in Nat /\ 0 < Age
  BY BridgeAssumption
<1>4. f \in Frames
  BY <1>3, <1>f, TaggedType DEF Inv, Frames
<1>5. \A u \in Tunnel, n \in Mac :
        \/ table'[u][n] = table[u][n]
        \/ u = t /\ n = m /\ m \notin Group /\ table'[u][n] = 0
  BY <1>1 DEF LearnSource, Inv, TypeOK
<1>6. table' \in [Tunnel -> [Mac -> Nat \cup {None}]]
  BY <1>1 DEF LearnSource, Inv, TypeOK
<1>7. TypeOK'
  <2>1. lanPackets' \in [Worker -> SUBSET Frames]
    BY <1>1, <1>4, <1>f DEF Inv, TypeOK
  <2>2. QED
    BY <1>2, <1>6, <2>1 DEF Inv, TypeOK
<1>8. PlacedIn(f, t)'
  <2>1. m \notin Group => table'[t][m] = 0
    BY <1>1 DEF LearnSource, Inv, TypeOK
  <2>2. /\ f.from = via /\ f.mac = m /\ f.age = 0 /\ f.tags = Tagged(tags, t)
        /\ tunnels[t].vlan # None => f.tags # <<>> /\ f.tags[1] = tunnels[t].vlan
    BY <1>f, TaggedType DEF Inv
  <2>3. QED
    BY <1>1, <2>1, <2>2, BridgeAssumption DEF PlacedIn, ForWan
<1>9. FramesPlaced'
  <2>1. \A g \in lan \cup Waiting : g \in Frames /\ Placed(g)'
    <3> TAKE g \in lan \cup Waiting
    <3>1. g \in Frames
      BY DEF Waiting, Inv, TypeOK
    <3>2. PICK u \in Tunnel : PlacedIn(g, u)
      BY DEF Inv, FramesPlaced, Placed
    <3>3. g.mac \in Mac /\ g.age \in Nat
      BY <3>1, <1>3 DEF Frames
    <3>4. \/ table'[u][g.mac] = table[u][g.mac]
          \/ table'[u][g.mac] = 0
      BY <1>5, <3>3
    <3>5. PlacedIn(g, u)'
      BY <3>2, <3>3, <3>4, BridgeAssumption DEF PlacedIn, ForWan
    <3>6. QED
      BY <3>1, <3>5 DEF Inv, FramesPlaced, Placed
  <2>2. (lan \cup Waiting)' \subseteq (lan \cup Waiting) \cup {f}
    BY <1>1, <1>2, <1>f DEF Waiting, Inv, TypeOK
  <2>3. Placed(f)'
    BY <1>8, <1>f DEF Placed
  <2>4. QED
    BY <2>1, <2>2, <2>3 DEF FramesPlaced
<1>10. AgesBounded'
  BY <1>2, <1>3, <1>5 DEF Inv, TypeOK, AgesBounded
<1>11. NoReflection'
  BY <1>2 DEF NoReflection
<1>12. QED
  BY <1>7, <1>9, <1>10, <1>11 DEF Inv

\* Steps that only move or drop the remotes' frames.
LEMMA QuietInv ==
  ASSUME Inv, UNCHANGED <<tunnels, table, sinceSweep>>, lastSent' \in {None, lastSent},
         lanPackets' \in [Worker -> SUBSET Frames],
         (lan \cup Waiting)' \subseteq lan \cup Waiting, lan' \subseteq Frames
  PROVE  Inv'
<1>0. tunnels' = tunnels /\ Tunnel' = Tunnel /\ Frames' = Frames
  BY DEF Tunnel, Frames
<1> USE <1>0
<1>1. TypeOK' /\ AgesBounded' /\ NoReflection'
  BY DEF Inv, TypeOK, AgesBounded, NoReflection
<1>2. FramesPlaced'
  <2> SUFFICES ASSUME NEW f \in (lan \cup Waiting)'
               PROVE  Placed(f)'
    BY DEF FramesPlaced
  <2>1. Placed(f)
    BY DEF Inv, FramesPlaced
  <2>2. QED
    BY <2>1 DEF Placed, PlacedIn, ForWan
<1>3. QED
  BY <1>1, <1>2 DEF Inv

\* A worker hands its frames to the LAN.
LEMMA TransmitInv ==
  ASSUME Inv, NEW w \in Worker, NEW f \in lanPackets[w], TransmitLan(w, f)
  PROVE  Inv'
<1>0. tunnels' = tunnels /\ Tunnel' = Tunnel /\ Frames' = Frames
  BY DEF TransmitLan, Tunnel, Frames
<1> USE <1>0
<1>1. /\ lanPackets' = [lanPackets EXCEPT ![w] = @ \ {f}]
      /\ lan' = lan \cup {f} /\ lastSent' = None
      /\ UNCHANGED <<table, sinceSweep>>
  BY DEF TransmitLan
<1>2. f \in Frames /\ f \in Waiting
  BY DEF Inv, TypeOK, Waiting
<1>3. lanPackets' \in [Worker -> SUBSET Frames] /\ lan' \subseteq Frames
  BY <1>1, <1>2 DEF Inv, TypeOK
<1>4. (lan \cup Waiting)' \subseteq lan \cup Waiting
  BY <1>1, <1>2 DEF Waiting, Inv, TypeOK
<1>5. QED
  BY <1>1, <1>3, <1>4, QuietInv

\* A worker forwards or drops a frame from the LAN.
LEMMA ReceiveLanInv ==
  ASSUME Inv, NEW f \in lan \cup LanOwn, ReceiveLan(f)
  PROVE  Inv'
<1>0. tunnels' = tunnels /\ Tunnel' = Tunnel /\ Frames' = Frames
  BY DEF ReceiveLan, ForwardLan, DropLan, Tunnel, Frames
<1> USE <1>0
<1>1. UNCHANGED <<table, sinceSweep, lanPackets, lan>>
  BY DEF ReceiveLan, ForwardLan, DropLan
<1>2. FramesPlaced' /\ AgesBounded'
  BY <1>1 DEF Inv, FramesPlaced, Waiting, Placed, PlacedIn, ForWan, AgesBounded
<1>3. f \in Frames
  <2>1. LanOwn \subseteq Frames
    BY BridgeAssumption DEF LanOwn, Frames
  <2>2. QED
    BY <2>1 DEF Inv, TypeOK
<1>4. CASE ForwardLan(f)
  <2>1. PICK t \in Tunnel :
          /\ ForLan(f, t) /\ ~ContainsSource(t, f.mac)
          /\ lastSent' = [tunnel |-> t, frame |-> [f EXCEPT !.tags = Stripped(f, t)]]
    BY <1>4 DEF ForwardLan
  <2> DEFINE g == [f EXCEPT !.tags = Stripped(f, t)]
  <2>2. g \in Frames
    BY <1>3, <2>1, StrippedType DEF Inv
  <2>3. TypeOK'
    BY <1>1, <2>1, <2>2 DEF Inv, TypeOK
  <2>4. g.from = f.from /\ g.mac = f.mac /\ g.age = f.age
    BY <1>3 DEF Frames
  <2>5. ASSUME f.from # 0, f.mac \notin Group
        PROVE  f.age >= Age
    <3>1. f \in lan
      BY <2>5 DEF LanOwn
    <3>2. PICK u \in Tunnel : PlacedIn(f, u)
      BY <3>1 DEF Inv, FramesPlaced, Placed
    <3>3. u = t
      BY <2>1, <3>2, BackToItsTunnel DEF Inv
    <3>4. f.age \in Nat /\ f.mac \in Mac /\ Age \in Nat
      BY <1>3, BridgeAssumption DEF Frames
    <3>5. table[t][f.mac] \in Nat \cup {None}
      BY <3>4 DEF Inv, TypeOK
    <3>6. QED
      BY <2>1, <2>5, <3>2, <3>3, <3>4, <3>5 DEF PlacedIn, ContainsSource
  <2>6. NoReflection'
    BY <2>1, <2>4, <2>5 DEF NoReflection
  <2>7. QED
    BY <1>2, <2>3, <2>6 DEF Inv
<1>5. CASE DropLan(f)
  <2>1. TypeOK' /\ NoReflection'
    BY <1>1, <1>5 DEF DropLan, Inv, TypeOK, NoReflection
  <2>2. QED
    BY <1>2, <2>1 DEF Inv
<1>6. QED
  BY <1>4, <1>5 DEF ReceiveLan

\* MacTable::expire sweeps a table.
LEMMA SweepInv ==
  ASSUME Inv, NEW t \in Tunnel, Sweep(t)
  PROVE  Inv'
<1>0. tunnels' = tunnels /\ Tunnel' = Tunnel /\ Frames' = Frames
  BY DEF Sweep, Tunnel, Frames
<1> USE <1>0
<1>1. /\ sinceSweep' = [sinceSweep EXCEPT ![t] = 0]
      /\ table' = [table EXCEPT ![t] =
           [m \in Mac |-> IF Keeps(table[t][m]) THEN table[t][m] ELSE None]]
      /\ lastSent' = None /\ UNCHANGED <<lanPackets, lan>>
  BY DEF Sweep
<1>2. Age \in Nat /\ 0 < Age /\ Late \in Nat
  BY BridgeAssumption
<1>3. \A u \in Tunnel, m \in Mac :
        /\ u # t => table'[u][m] = table[u][m] /\ sinceSweep'[u] = sinceSweep[u]
        /\ u = t => /\ sinceSweep'[u] = 0
                    /\ \/ table'[u][m] = None /\ ~Keeps(table[u][m])
                       \/ table'[u][m] = table[u][m] /\ Keeps(table[u][m])
  BY <1>1 DEF Inv, TypeOK
<1>4. TypeOK'
  <2>1. table' \in [Tunnel -> [Mac -> Nat \cup {None}]]
    BY <1>1 DEF Inv, TypeOK
  <2>2. sinceSweep' \in [Tunnel -> 0 .. Age + Late]
    <3>1. 0 \in 0 .. Age + Late
      BY <1>2
    <3>2. QED
      BY <1>1, <3>1 DEF Inv, TypeOK
  <2>3. QED
    BY <1>1, <2>1, <2>2 DEF Inv, TypeOK
<1>5. FramesPlaced'
  <2> SUFFICES ASSUME NEW f \in lan \cup Waiting PROVE Placed(f)'
    BY <1>1 DEF FramesPlaced, Waiting
  <2>1. f \in Frames /\ Placed(f)
    BY DEF Inv, TypeOK, FramesPlaced, Waiting
  <2>2. PICK u \in Tunnel : PlacedIn(f, u)
    BY <2>1 DEF Placed
  <2>3. f.mac \in Mac /\ f.age \in Nat
    BY <1>2, <2>1 DEF Frames
  <2>4. table[u][f.mac] \in Nat \cup {None}
    BY <2>3 DEF Inv, TypeOK
  <2>5. (f.mac \notin Group /\ f.age < Age) => Keeps(table[u][f.mac])
    BY <1>2, <2>2, <2>3, <2>4 DEF PlacedIn, Keeps
  <2>6. (f.mac \notin Group /\ f.age < Age) => table'[u][f.mac] = table[u][f.mac]
    BY <1>3, <2>3, <2>5
  <2>7. PlacedIn(f, u)'
    BY <2>2, <2>6 DEF PlacedIn, ForWan
  <2>8. QED
    BY <2>1, <2>7 DEF Placed
<1>6. AgesBounded'
  <2> SUFFICES ASSUME NEW u \in Tunnel, NEW m \in Mac, table'[u][m] # None
               PROVE  table'[u][m] < Age + sinceSweep'[u]
    BY DEF AgesBounded
  <2>1. table[u][m] \in Nat \cup {None}
    BY DEF Inv, TypeOK
  <2>2. QED
    BY <1>2, <1>3, <2>1 DEF Inv, AgesBounded, Keeps
<1>7. NoReflection'
  BY <1>1 DEF NoReflection
<1>8. QED
  BY <1>4, <1>5, <1>6, <1>7 DEF Inv

\* Time passes.
LEMMA TickInv ==
  ASSUME Inv, Tick
  PROVE  Inv'
<1>0. tunnels' = tunnels /\ Tunnel' = Tunnel /\ Frames' = Frames
  BY DEF Tick, Tunnel, Frames
<1> USE <1>0
<1>1. Age \in Nat /\ 0 < Age /\ Late \in Nat
  BY BridgeAssumption
<1>2. \A t \in Tunnel : /\ sinceSweep[t] \in Nat /\ sinceSweep[t] < Age + Late
                        /\ sinceSweep'[t] = sinceSweep[t] + 1
  BY <1>1 DEF Tick, Inv, TypeOK
<1>3. \A t \in Tunnel, m \in Mac :
        /\ table[t][m] \in Nat \cup {None}
        /\ table'[t][m] = IF table[t][m] = None THEN None ELSE table[t][m] + 1
  BY DEF Tick, Inv, TypeOK
<1>4. ASSUME NEW S, S \subseteq Frames
      PROVE  Older(S) \subseteq Frames
  BY <1>4, OlderFrame DEF Older
<1>5. TypeOK'
  <2>1. table' \in [Tunnel -> [Mac -> Nat \cup {None}]]
    BY <1>3 DEF Tick
  <2>2. sinceSweep' \in [Tunnel -> 0 .. Age + Late]
    <3>1. \A t \in Tunnel : sinceSweep[t] + 1 \in 0 .. Age + Late
      BY <1>1, <1>2
    <3>2. QED
      BY <3>1 DEF Tick
  <2>3. lanPackets' \in [Worker -> SUBSET Frames] /\ lan' \subseteq Frames
    BY <1>4 DEF Tick, Inv, TypeOK
  <2>4. QED
    BY <2>1, <2>2, <2>3 DEF Tick, Inv, TypeOK
<1>6. FramesPlaced'
  <2>1. ASSUME NEW f \in Frames, Placed(f)
        PROVE  Placed([f EXCEPT !.age = IF @ = Age THEN Age ELSE @ + 1])'
    <3> DEFINE g == [f EXCEPT !.age = IF @ = Age THEN Age ELSE @ + 1]
    <3>1. PICK t \in Tunnel : PlacedIn(f, t)
      BY <2>1 DEF Placed
    <3>2. /\ g.from = f.from /\ g.mac = f.mac /\ g.tags = f.tags
          /\ g.age < Age => f.age < Age /\ g.age = f.age + 1
      BY OlderFrame
    <3>3. f.mac \in Mac /\ f.age \in Nat
      BY <1>1 DEF Frames
    <3> HIDE DEF g
    <3>4. (g.mac \notin Group /\ g.age < Age) =>
            table'[t][g.mac] # None /\ table'[t][g.mac] <= g.age
      <4>1. SUFFICES ASSUME g.mac \notin Group, g.age < Age
                     PROVE  table'[t][g.mac] # None /\ table'[t][g.mac] <= g.age
        OBVIOUS
      <4>2. /\ table[t][f.mac] # None /\ table[t][f.mac] <= f.age
            /\ g.age = f.age + 1
        BY <3>1, <3>2, <4>1 DEF PlacedIn, ForWan
      <4>3. table'[t][g.mac] = table[t][f.mac] + 1 /\ table[t][f.mac] \in Nat
        BY <1>3, <3>2, <3>3, <4>2
      <4>4. table'[t][g.mac] <= g.age
        BY <3>3, <4>2, <4>3
      <4>5. table'[t][g.mac] \in Nat
        BY <4>3
      <4>6. QED
        BY <4>4, <4>5, BridgeAssumption
    <3>5. PlacedIn(g, t)'
      BY <3>1, <3>2, <3>4 DEF PlacedIn, ForWan
    <3>6. g.from \in Tunnel
      BY <2>1, <3>2 DEF Placed
    <3>7. QED
      BY <3>5, <3>6 DEF Placed, g
  <2>2. \A f \in lan \cup Waiting : f \in Frames /\ Placed(f)
    BY DEF Inv, TypeOK, FramesPlaced, Waiting
  <2>3. \A g \in (lan \cup Waiting)' : \E f \in lan \cup Waiting :
          g = [f EXCEPT !.age = IF @ = Age THEN Age ELSE @ + 1]
    <3>1. lan' = Older(lan) /\ \A w \in Worker : lanPackets'[w] = Older(lanPackets[w])
      BY DEF Tick
    <3>2. \A g \in lan' : \E f \in lan :
            g = [f EXCEPT !.age = IF @ = Age THEN Age ELSE @ + 1]
      BY <3>1 DEF Older
    <3>3. \A g \in Waiting' : \E f \in Waiting :
            g = [f EXCEPT !.age = IF @ = Age THEN Age ELSE @ + 1]
      <4> TAKE g \in Waiting'
      <4>1. PICK w \in Worker : g \in Older(lanPackets[w])
        BY <3>1 DEF Waiting
      <4>2. PICK f \in lanPackets[w] :
              g = [f EXCEPT !.age = IF @ = Age THEN Age ELSE @ + 1]
        BY <4>1 DEF Older
      <4>3. f \in Waiting
        BY DEF Waiting
      <4>4. QED
        BY <4>2, <4>3
    <3>4. QED
      BY <3>2, <3>3
  <2>4. QED
    BY <2>1, <2>2, <2>3 DEF FramesPlaced
<1>7. AgesBounded'
  <2> SUFFICES ASSUME NEW t \in Tunnel, NEW m \in Mac, table'[t][m] # None
               PROVE  table'[t][m] < Age + sinceSweep'[t]
    BY DEF AgesBounded
  <2>1. table[t][m] # None /\ table[t][m] \in Nat /\ table'[t][m] = table[t][m] + 1
    BY <1>3
  <2>2. table[t][m] < Age + sinceSweep[t]
    BY <2>1 DEF Inv, AgesBounded
  <2>3. QED
    BY <1>1, <1>2, <2>1, <2>2
<1>8. NoReflection'
  BY DEF Tick, NoReflection
<1>9. QED
  BY <1>5, <1>6, <1>7, <1>8 DEF Inv

\* Every step keeps the invariant.
LEMMA NextInv == Inv /\ [Next]_vars => Inv'
<1> SUFFICES ASSUME Inv, [Next]_vars PROVE Inv'
  OBVIOUS
<1>1. ASSUME NEW w \in Worker, NEW via \in Tunnel, NEW m \in Mac,
             NEW tags \in Stacks, ReceiveWan(w, via, m, tags)
      PROVE  Inv'
  BY <1>1, ReceiveWanInv
<1>2. ASSUME NEW w \in Worker, NEW f \in lanPackets[w], TransmitLan(w, f)
      PROVE  Inv'
  BY <1>2, TransmitInv
<1>3. ASSUME NEW f \in lan \cup LanOwn, ReceiveLan(f)
      PROVE  Inv'
  BY <1>3, ReceiveLanInv
<1>4. ASSUME NEW f \in lan, Leave(f)
      PROVE  Inv'
  <2>1. (lan \cup Waiting)' \subseteq lan \cup Waiting /\ lan' \subseteq lan
    BY <1>4 DEF Leave, Waiting
  <2>2. QED
    BY <1>4, <2>1, QuietInv DEF Leave, Inv, TypeOK
<1>5. ASSUME NEW t \in Tunnel, Sweep(t)
      PROVE  Inv'
  BY <1>5, SweepInv
<1>6. CASE Tick
  BY <1>6, TickInv
<1>7. CASE UNCHANGED vars
  BY <1>7, QuietInv DEF vars, Waiting, Inv, TypeOK
<1>8. QED
  BY <1>1, <1>2, <1>3, <1>4, <1>5, <1>6, <1>7 DEF Next

\* The inductive invariant holds in every behaviour of the bridge.
THEOREM Invariance == Spec => []Inv
<1>1. QED
  BY InitInv, NextInv, PTL DEF Spec

\* The state keeps its types; no tag on the LAN is anything but a VLAN.
THEOREM TypeCorrect == Spec => []TypeOK
<1>1. Inv => TypeOK
  BY DEF Inv
<1>2. QED
  BY <1>1, Invariance, PTL

\* A remote's frame that the LAN brings back within MAC_AGE of its arrival is
\* sent into no tunnel.
THEOREM NothingReflected == Spec => []NoReflection
<1>1. Inv => NoReflection
  BY DEF Inv
<1>2. QED
  BY <1>1, Invariance, PTL

\* No source is held for twice MAC_AGE and the lateness of one sweep after its
\* last frame, however late each sweep was.
THEOREM SourcesForgotten == Spec => []Forgotten
<1>1. Inv => Forgotten
  <2> SUFFICES ASSUME Inv, NEW t \in Tunnel, NEW m \in Mac, table[t][m] # None
               PROVE  table[t][m] < 2 * Age + Late
    BY DEF Forgotten
  <2>1. /\ table[t][m] \in Nat /\ Age \in Nat /\ Late \in Nat
        /\ sinceSweep[t] \in Nat /\ sinceSweep[t] <= Age + Late
    BY BridgeAssumption DEF Inv, TypeOK
  <2>2. table[t][m] < Age + sinceSweep[t]
    BY DEF Inv, AgesBounded
  <2>3. QED
    BY <2>1, <2>2
<1>2. QED
  BY <1>1, Invariance, PTL

-----------------------------------------------------------------------------
(* VLANs, of the tunnels that share their remote with no other.            *)

\* The tunnels are fixed at the start.
LEMMA StepKeepsTunnels ==
  ASSUME [Next]_vars
  PROVE  tunnels' = tunnels
BY DEF Next, vars, ReceiveWan, TransmitLan, ReceiveLan, ForwardLan, DropLan,
       Leave, Sweep, Tick

\* A frame of a tunnel alone at its remote bears that tunnel's tag.
LEMMA PlacedInSole ==
  ASSUME NEW f, Placed(f), SoleRemote(f.from)
  PROVE  PlacedIn(f, f.from)
BY DEF Placed, PlacedIn, ForWan, SoleRemote

\* A step of the LAN sends a remote's frame only into the tunnel it came by.
LEMMA SentBack ==
  ASSUME Inv, NEW f \in lan \cup LanOwn, ForwardLan(f), NEW t \in Tunnel,
         SoleRemote(t), lastSent'.frame.from = t, t # 0
  PROVE  lastSent'.tunnel = t
<1>1. PICK u \in Tunnel :
        /\ ForLan(f, u)
        /\ lastSent' = [tunnel |-> u, frame |-> [f EXCEPT !.tags = Stripped(f, u)]]
  BY DEF ForwardLan
<1>2. f \in Frames
  <2>1. LanOwn \subseteq Frames
    BY BridgeAssumption DEF LanOwn, Frames
  <2>2. QED
    BY <2>1 DEF Inv, TypeOK
<1>3. lastSent'.tunnel = u /\ f.from = t
  BY <1>1, <1>2 DEF Frames
<1>4. f \in lan
  BY <1>3 DEF LanOwn
<1>5. PlacedIn(f, t)
  BY <1>3, <1>4, PlacedInSole DEF Inv, FramesPlaced
<1>6. u = t
  BY <1>1, <1>5, BackToItsTunnel DEF Inv
<1>7. QED
  BY <1>3, <1>6

\* No step sends a frame of such a tunnel into another.
LEMMA SoleStep ==
  ASSUME Inv, [Next]_vars, SoleStaysInVlan
  PROVE  SoleStaysInVlan'
<1>1. tunnels' = tunnels
  BY StepKeepsTunnels
<1>2. Inv'
  BY NextInv
<1> SUFFICES ASSUME NEW t \in Tunnel, SoleRemote(t)
             PROVE  InVlanOf(t)'
  BY <1>1 DEF SoleStaysInVlan, Tunnel, SoleRemote
<1>3. \A f \in lan' : (f.from = t /\ tunnels'[t].vlan # None) =>
        f.tags # <<>> /\ f.tags[1] = tunnels'[t].vlan
  <2>1. t \in Tunnel' /\ SoleRemote(t)'
    BY <1>1 DEF Tunnel, SoleRemote
  <2> SUFFICES ASSUME NEW f \in lan', f.from = t, tunnels'[t].vlan # None
               PROVE  f.tags # <<>> /\ f.tags[1] = tunnels'[t].vlan
    OBVIOUS
  <2>2. Placed(f)'
    BY <1>2 DEF Inv, FramesPlaced
  <2>3. PICK u \in Tunnel' : PlacedIn(f, u)'
    BY <2>2 DEF Placed
  <2>4. u = t
    BY <2>1, <2>3 DEF PlacedIn, ForWan, SoleRemote
  <2>5. QED
    BY <2>3, <2>4 DEF PlacedIn
<1>4. (lastSent' # None /\ lastSent'.frame.from = t) => lastSent'.tunnel = t
  <2>1. CASE lastSent' = None
    BY <2>1
  <2>2. CASE lastSent' = lastSent
    BY <2>2 DEF SoleStaysInVlan, InVlanOf
  <2>3. ASSUME NEW f \in lan \cup LanOwn, ForwardLan(f), lastSent'.frame.from = t
        PROVE  lastSent'.tunnel = t
    <3>1. t # 0
      BY TunnelPositive DEF Inv
    <3>2. QED
      BY <2>3, <3>1, SentBack
  <2>4. QED
    BY <2>1, <2>2, <2>3
       DEF Next, vars, ReceiveWan, TransmitLan, ReceiveLan, DropLan, Leave, Sweep, Tick
<1>5. QED
  BY <1>3, <1>4 DEF InVlanOf

\* No frame of a tunnel's remote leaves with another tunnel's tag or enters
\* another tunnel, if no other tunnel has that remote.
THEOREM VlansKept == Spec => []SoleStaysInVlan
<1>1. Init => SoleStaysInVlan
  BY DEF Init, SoleStaysInVlan, InVlanOf
<1>2. Inv /\ SoleStaysInVlan /\ [Next]_vars => SoleStaysInVlan'
  BY SoleStep
<1>3. QED
  BY <1>1, <1>2, Invariance, PTL DEF Spec

=============================================================================
