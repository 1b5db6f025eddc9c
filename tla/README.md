# Verification of etherip-dpdk

TLA+ models of etherip-dpdk, the TLC runs that check them on small instances,
and proofs, checked by TLAPS, of what holds for every instance. Line numbers
refer to the repository, mostly `etherip/src/` (`etherip.rs`, `main.rs`,
`reassembly.rs`, `mac_table.rs`, `config.rs`, `ndp.rs`, `protocol.rs`) and
`dpdk/src/lib.rs`.

    tlc -workers 2 -config MCLink_faults.cfg MCLink      # a run
    tlapm LinkProofs.tla                                 # the proofs of a module

## 1. The system

An endpoint bridges a LAN port to one or more EtherIP tunnels over IPv6 on a
WAN port. One or several workers, each on an lcore with a queue of its own on
both ports, run the same loop for ever (`main.rs:178-301`):

1. take a burst from the LAN; for each frame find the tunnel (by VLAN), drop
   it if its source was learned from that tunnel, strip the tag, load the
   tunnel's path MTU and encapsulate, in fragments if need be; transmit;
2. take a burst from the WAN; for each packet find the tunnel (by the outer
   source), or else answer a neighbour solicitation or lower a path MTU for an
   ICMPv6 Packet Too Big; decapsulate, reassembling fragments; learn the
   source; put the tag back; transmit to both ports;
3. every 5 s call `expire` of the MAC tables and of the reassembly table.

| Component | State | Operations | Hard because |
|---|---|---|---|
| Fragment reassembly (`reassembly.rs`) | map from (source, destination, id) to fragments, total, last time; one `Mutex` shared by the workers | `insert`, `expire` | fragments come in any order, overlap, repeat, are missing; limits; expiry races with the last fragment |
| Encapsulation (`etherip.rs:73-175`) | `frag_id`, an `AtomicU32` shared by the workers | `encapsulate_packet`, `fragment_packets` | 13-bit offsets, casts to `u16`, MTUs that are no multiple of 8, the shortest and longest frames |
| Decapsulation (`etherip.rs:179-267`) | none of its own | `decapsulate_packet`, `tunnel_index_for_wan` | reads back what the peer wrote; feeds `insert` |
| Path MTU discovery (`main.rs:216-258`, `ndp.rs:97-127`) | `path_mtu`, an `AtomicU32` per tunnel | load by every sender; load and separate store on a report | two workers with reports of one tunnel at once; lost reports; floor and configured value |
| Bridging (`main.rs:194-216, 281-288`, `mac_table.rs`, `etherip.rs:15-68`) | a `RwLock<MacTable>` per tunnel | `contains_source`, `learn_source`, `expire`; tags off and on | the reflected frame races with learning, ageing and sweeping; double tags; VLANs of other tunnels |
| Neighbour discovery (`ndp.rs:8-92`) | none | `ndp_advertisement`, `icmpv6_checksum` | the checksum's carries; what a solicitation may be sent to |
| Command line (`config.rs`) | the tunnels, fixed at start | `build_tunnels`, `parse_mtu`, `parse_vlan`, `parse_burst_size`, `parse_workers` | what it lets through is what the rest must cope with |
| Worker loop (`main.rs:167-309`) | bursts and backlogs of each worker | receive, handle, transmit, stop on an error | one packet's error ends the worker; a port takes part of a burst; the pool is shared |
| Startup and supervision (`main.rs:22-149`) | ports, lcores launched, who holds which `Arc` | open, launch, wait in order, return | failure half-way; a worker that outlives main or another worker; a dead worker noticed late or never |
| DPDK bindings (`dpdk/src/lib.rs`, `shim.c`) | mbufs, pool, ports | packet construction, room in an mbuf, bursts, `Drop` | who owns an mbuf after a partial burst; what is freed in which order |

The components meet through shared state (`path_mtu`, `frag_id`, the tables),
through the frames a worker hands on, and, between two endpoints, through
packets over a network that may lose, repeat, delay and reorder them.

What makes each of them correct:

* **Reassembly**: what `insert` returns covers the packet exactly once; a
  packet that has all its bytes is returned; limits hold; no packet is pushed
  out by others or early, and each leaves in the end.
* **Encapsulation**: packets fit the path and their header fields, and the peer
  reads back what was cut.
* **A direction of a tunnel**: the far LAN gets frames that were sent, and all
  of those the network loses nothing of.
* **Path MTU**: configured or reported for that very tunnel, does not rise, and
  in the end fits the path.
* **Bridging**: no frame is sent back where it came from, or into another
  tunnel; what is learned is forgotten, a late sweep allowed for.
* **Worker loop and bindings**: every mbuf has one owner, through partial bursts
  and errors; order is kept; a worker stops for no avoidable cause.
* **Startup and supervision**: a running worker has its ports, pool, queues and
  lcore to itself or in common as the bindings need; what was opened is closed,
  the pool last; the death of the first worker ends the process.
* **Neighbour discovery**: an answer convinces the one who asked.

## 2. The modules

| Module | Models | Run by | Proofs |
|---|---|---|---|
| `Reassembly` | `reassembly.rs` | `MCReassembly` | `ReassemblyProofs` |
| `Fragmentation` | the packets made of a frame, and what the peer reads of them; operators only | through its users | `FragmentationProofs` |
| `Encapsulation` | a worker that encapsulates, at the real widths | `MCEncapsulation` | `EncapsulationProofs` |
| `Link` | one direction of a tunnel: senders, network, the peer's `Reassembly` | `MCLink` | `LinkProofs` |
| `FrameChannel` | abstract specification of such a direction | as a property of `Link` | - |
| `PathMtu` | workers, routers and reports around `path_mtu` | `MCPathMtu` | `PathMtuProofs` |
| `Bridge` | tunnels, VLAN tags and MAC tables between LAN and remotes | `MCBridge` | `BridgeProofs` |
| `PacketRoom` | headroom, length and tailroom of an mbuf under `Packet`'s calls; operators only | through `Forwarding` | with `ForwardingProofs` |
| `NeighbourDiscovery` | which solicitation is answered, how, and the ICMPv6 checksum; operators only | through `Forwarding` | with `ForwardingProofs` |
| `Forwarding` | the workers' loop and the mbufs it moves; actions without Init | through `Startup` | `ForwardingProofs` |
| `Startup` | `main`: ports, pool, launching, waiting, leaving, composed with `Forwarding` | `MCStartup` | `StartupProofs` |
| `MbufPool` | abstract specification of what DPDK asks of a program that shares mbufs | as a property of `Startup` | - |

`Link` composes `Fragmentation` (EXTENDS) with `Reassembly` (INSTANCE, a key
being an identification, as source and destination are those of the
direction). `PathMtu` extends `Fragmentation`, for the packets an MTU leads to.
`Forwarding` extends `PacketRoom`, `NeighbourDiscovery` and `Fragmentation`;
`Startup` extends `Forwarding` and is the whole process: its `Next` is a step of
main, of a worker or of a port.

### State and actions against the code

**Reassembly.** `packets[k]` is the entry of the map: `idle` is the time since
`Partial::updated`, saturated at the timeout as `expire` compares it with no
more; `total` and `fragments` are the fields of those names. A payload is its
offset, its length and a tag. The mutex makes each call a step. `Insert` is a
disjunction of its five ways to return: malformed (`33-36`), refused by a full
map (`37-40`), discarded (`46-58`), stored, and completed (`59-79`). The
unstable sort is any sorted arrangement. `lastInsert` is the arguments and the
result of the step's call, not state of the program.

**Fragmentation, Encapsulation.** A packet is its next header, its bytes
behind the IPv6 header, and the payload length and offset/flags field it
claims, computed at their 16 bits. `Packets(frame, mtu)` is what
`encapsulate_packet` appends; `ReadOffset`, `ReadMore`, `ReadLength` and
`Accepted` are what `decapsulate_packet` takes from the header. A worker's step
is split where another worker can come between: taking the frame, loading the
MTU, encapsulating.

**Link.** `SendWhole` and `SendFragments` are `encapsulate_packet` with the
`fetch_add` of `frag_id`; the path MTU is any in `Mtu` at each frame, which is
all `PathMtu` promises it. `Deliver` is `decapsulate_packet` with the lock held
across `insert` (`main.rs:277-281`), then `Forward` to the LAN. `epoch` counts
how often identifications began again at 0, by wrapping or by a restart of the
process (`main.rs:81`); `log` remembers under which epoch and identification a
frame was sent. Both are history, not state of the program. The restarts forget
what each process has in memory: `frag_id`, or the reassembly table.

**PathMtu.** `Receive` is a worker's load of the shared value and its decision
(`main.rs:242-249`); `StoreMtu` the store (`250`), with `pending` between the
two. `TakeForTraffic` is the path a report takes when its source is a tunnel's
remote: `tunnel_index_for_wan` takes it for traffic of that tunnel, and
`decapsulate_packet` drops it. Routers, reports in flight and reroutes are the
environment, and a notice is what `icmpv6_packet_too_big` returns of a report,
with the router it came from; `Queue` is the RSS choice, which is by address.
Relaxed ordering matters only between different atomics, and nothing reads two
of them together, so one value per tunnel in one order is what the code can see.

**Bridge.** A frame is its source and its stack of VLAN tags; `from` and `age`,
where it came from and how long ago, are history. What a worker does with one
packet touches one table once, under its lock, and is one step: `ReceiveWan`
learns and then queues (`main.rs:277-289`), `ForwardLan`/`DropLan` look up
(`194-227`), `Sweep` is `MacTable::expire` past `next_expiry`, which counts the
next MAC_AGE from the time of the call. Workers call it every 5 s only, so it
may come up to `Late` after `next_expiry`; `sinceSweep` is the time since the
last one, and `Tick` lets a sweep be that late and no later. The LAN may bring
back any frame it got, any number of times. `Accepted` is the duplicate test of
`build_tunnels`; the tunnels are any list of `Config` it accepts.

**PacketRoom.** An mbuf of one segment is where its data begin and how long they
are. `CanPrepend`, `CanAdjust`, `CanTrim` and `CanAppend` are the tests of DPDK
behind `Packet::prepend`, `adjust`, `trim_tail` and `append`, with the cast to
`u16` before them (`lib.rs:504`). A frame of more than 2048 bytes comes in
several segments, and `data()` is None.

**NeighbourDiscovery.** A message is the fields `ndp_advertisement` reads, an
address being a value with the sum of its words, `WordSum`, as all the checksum
needs of it. `Folded` is the loop of `icmpv6_checksum`, unrolled to the two
carries a sum of 16-bit words in a `u32` can have. `Convinces` is what the node
that asked requires of an answer, RFC 4861's rules for an advertisement.

**Forwarding.** `list[<<w, k, p>>]` are the packets of worker `w` and port `p`
in an RX queue (`"queue"`), received and not yet handled (`lan_received`,
`wan_received`), waiting to be sent (`"out"`: `tunnel_packets` for the WAN,
`lan_packets` for the LAN), and handed to the port (`"ring"`); `free` is the
pool. A packet is its mbuf and, as history, the number of its arrival and of its
fragment, and the answer it is. `pc[w]` is where `w` is in the loop, `cut` the
frame whose fragments it is pushing. What a packet turns out to be (of no
tunnel, a report, a whole frame, the last fragment of a packet) is chosen when
it is handled, which is more than the tables would choose. `Transmit(w, p, n)`
is `send_burst` and `drain` when DPDK takes `n`, any number up to what is
offered. `CallErrors`, `LanErrors` and `WanErrors` are the `?`s of `forward`,
each under the condition the code or DPDK fails it; `Fail` takes one of them,
frees all the worker holds and records the cause with the length it was about.
`Panics` is the one call that panics: `add_vlan_tag` on a frame of less than 12
bytes, whole or reassembled, in a tunnel with a VLAN (`etherip.rs:62`); the
other slices and indexes of the loop follow a test of the length. With one
worker, on the main thread, the stack is unwound, which frees what an error
does, and `Fail` has it too.

**Startup.** `main` is the place in `main`, `stage[p]` how far
`open_with_config` came with a port, `held[r]` who has an `Arc` of a port or of
the environment, `lcore` and `launched` the loop's. Each call of DPDK that the
code checks may fail. `Drop(h, r)` is one `Arc` going out of scope, in the order
Rust drops locals (last first) and fields (first first); the last one of a port
closes it (`LastDrop`). The pool goes with the last port or environment; every
`Packet` has an `Arc` of it too, and belongs to a worker that holds both ports.
`Running` ends with main's return, and with it every worker, or with `Abort`: a
panic of one of several workers would unwind into DPDK through the `extern "C"`
trampoline (`lib.rs:268-272`), which aborts the process. A port opened and not
yet in promiscuous mode is started: packets may come before any worker is there,
and DPDK may refuse to close it when promiscuous mode fails, as it is closed
without being stopped (`lib.rs:228-232`); `FailOpen` has both outcomes. A port
left started so goes on receiving (`PortStep`) when main has freed the pool.

## 3. The runs

| Run | Checks | Instance and why it is enough | States |
|---|---|---|---|
| `slot` | `TypeOK` `NoByteTwice` `ReturnedExact` `CompleteNeverStored` | one slot, two keys, offsets 0, 8, 16 and 65528, lengths 0, 4, 8 and 16, three fragments, one total announced over another: every arrangement of gaps, overlaps, empty and misaligned fragments, and the end of the 65535 bytes; a third key adds no case, as keys do not interact but by the limit | 133 k |
| `crowd` | `WithinLimits` `VanishesOnlyForCause` `EveryPartialLeaves` | three keys for two slots, two fragments, some past byte 65535, with the clock: each limit is met and exceeded | 4 k |
| `duplicate` | *violation* of `DuplicateDiscarded` | finding 1: the same last fragment twice | |
| `encapsulation` | `TypeOK` `FitsPath` `ReadsBack` `PeerCanHold` | frames of 0..60 bytes and around every boundary to 65535, MTUs 70..90 and around the largest | 12 k |
| `link_faults` | `TypeOK` `OriginalWithinEpoch` `NeverMixedWithinEpoch` `NoneHeldWhole` `FragmentsKept` `ImplementsChannel` | frames of two and three fragments, one repetition, a restart of the sender, restarts of the receiver at any time, two slots, reordering and expiry at any time | 278 k |
| `link_arrives` | `NoneMissing` `EveryFrameArrives` | frames sent whole, in two fragments, and in three or four by the MTU, of which the peer keeps three; packets of one frame lost | 36 k |
| `link_restart` | *violation* of `OriginalFrames` | finding 2 | |
| `mtu` | `TypeOK` `Justified` `FallsOnOneQueue` `PathFollowed` | two workers; tunnel 1 has reports on both queues, tunnel 2 is configured at 1279 and routed through a remote, tunnel 3 has one queue; reports of 48, 1270, 1300 and 1400; one lost report or reroute, two reports at once | 18 k |
| `mtu_race` | *violation* of `NeverRises` | finding 3 | |
| `bridge` | `TypeOK` `NoReflection` `SoleStaysInVlan` `Forgotten` | two workers; one tunnel without VLAN, two with VLANs to two remotes and to one; a list with a VLAN twice is refused; frames without a tag and with two, a group source; two frames; MAC_AGE of two ticks and sweeps up to one late, so an age before, at and after a sweep | 1.9 M |
| `bridge_shared` | *violation* of `StaysInVlan` | finding 4 | |
| `endpoint` | `TypeOK` `OneOwner` `InOrder` `OnlyForCause` `AnswersConvince` `OwnQueues` `EnoughLcores` `PortsServeWorkers` `PoolFreedLast` `BacklogSent` `NoneOvertaken` `FirstFailureEnds` `ImplementsPool` | one worker with three packets and three mbufs, so that a burst of two leaves one behind, a frame in two fragments empties the pool, and a backlog meets a later packet; two workers with two packets and two mbufs that one can take from the other; an odd burst (refused), `--rx-queue 65535`, an lcore too few, three workers (refused); frames at and beyond the lengths that have room, and at and below the 12 bytes a tag needs; solicitations to answer, to ignore, with a wrong checksum, and sums that carry twice; every call of DPDK fails in some behaviour | 62 k |

A burst is two packets there instead of eight (`BurstStep`), a queue holds three
(`Descriptors`), packets that come are numbered up to `MaxArrivals`; `Pool` are
the mbufs that do not lie idle in descriptors, fewer with more queues.

Symmetry is declared for keys (`slot`) and workers (`bridge`) only, which the
modules do not tell apart, and in no run with a liveness property. Deadlock is
checked everywhere but in `encapsulation`, where a frame too long for an IPv6
packet really ends the worker (`etherip.rs:116-121`), and in `endpoint`, where
the process ends.

Bounds are constants of the modules: `MaxCopies`, `MaxLost`, `MaxNear` (`Link`),
`MaxWire`, `MaxNotices`, `MaxFaults` (`PathMtu`), `MaxFrames` (`Bridge`),
`MaxArrivals`, `Descriptors`, `Pool` (`Forwarding`). The limits `MaxPackets`
(1024), `MaxFragments` (128), `Timeout`, `Age`, `Late` (5 s and a round of the
loop) and `IdSpace` (2^32) are the code's, smaller in the runs; the proofs are
for any.

The code discards the 129th fragment of a packet. `PeerCanHold` shows that no
Ethernet frame needs so many; a frame of 2047 or 2048 bytes does at an MTU of 70
or 71. `Roomy` in `Link` are the frames in no more fragments than the peer keeps
at any path MTU of the direction: `FragmentsKept` allows the discard of others,
`NoneMissing` and `EveryFrameArrives` are about these alone. The largest
frame of `link_faults` fills the limit, that of `link_arrives` exceeds it at one
of its MTUs, and is lost then.

`ImplementsChannel` is refinement: `Link` maps `sent` to the frames logged and
`renewed` to `epoch > 0`, and every step of it is one of `FrameChannel` or none.
The channel says that a frame is delivered no more often than once and once
more for each packet of it the network repeated, and that nothing but a sent
frame is delivered until the identifications begin again.

`ImplementsPool` is refinement too: `Startup` maps `owner` to who has the place
an mbuf is in, and `running` to the ports that are started. `MbufPool` lets an
mbuf pass from the pool to a worker and back, from a worker's own queue to the
worker and from there to its own ring, through a port that runs, and from a
ring to the pool; a port that is closed gives back all it has, and the pool is
freed when no worker has any. One exception is stated in `ImplementsPool` and is
needed: a port left started after promiscuous mode failed goes on using a pool
that is freed (`LeftStarted`). `OneOwner` says where mbufs are in each state,
this says how they get there, and while what is open.

### Fairness

* `crowd`: time passes, and `expire` is called again and again; every running
  worker calls it every 5 s. No insert is assumed.
* `link_arrives`: what the network does not lose it hands over, to a worker that
  polls its queue for ever. The clock and `expire` need no fairness. `Prompt`
  there says that no packet is in flight as long as a tick (60 s); without it a
  fragment could come after its packet expired, which is loss.
* `mtu`: LANs keep carrying their frames, so each tunnel keeps sending; a router
  reports or forwards what it has; a worker reaches every packet of its queue,
  strongly fair because it polls in order whatever else it does in between; a
  store that was decided on is made.
* `endpoint`: the main thread and each worker run, each on its lcore, so each
  takes a step as long as it has one to take. A port that is offered packets
  again and again takes some of them: strong fairness of `Takes`, as between two
  offers the worker does other things. It need not take all, nor at once. No
  fairness is assumed of packets that come or of errors.

## 4. The findings

Each is a run in which TLC violates what the README says.

1. `duplicate`: an exact duplicate of a stored fragment, its M flag included,
   overlaps it, and `insert` removes the packet (`reassembly.rs:51-58`).
   `README.md:21` has duplicates discarded; here the original goes too, and a
   network that repeats a fragment loses the frame.
2. `link_restart`: identifications start at 0 in every run of the process
   (`main.rs:81`). Within 60 s of a restart, the peer can complete a packet of
   the old run with a fragment of the new, and put a frame no one sent on its
   LAN (`README.md:265`: the original frame).
3. `mtu_race`: two workers load, two store, the higher one last: the path MTU
   rises (`main.rs:247-250`; `README.md:186`: it does not rise again).
   `FallsOnOneQueue` is what does hold, and `PathFollowed` shows that the race
   heals itself by the reports that follow.
4. `bridge_shared`: `build_tunnels` refuses a VLAN given twice and not a remote
   (`config.rs:134-143`); frames of the second tunnel get the tag of the first
   (`README.md:161-162`). `SoleStaysInVlan` is what does hold.

## 5. The proofs

They hold for every value of the constants the ASSUMEs admit. The assumptions
are the ranges the command line enforces (MTUs from 70 to 65575, VLAN lists as
`build_tunnels` makes them), positive limits, and that `None` is none of the
values; TLC evaluates them in the runs. Each state machine has one inductive
invariant, `Inv` or `IInv`, one lemma for each action that it survives, and
theorems that draw the properties from it.

* **ReassemblyProofs**: `TypeOK`, `WithinLimits`, `NoByteTwice`,
  `VanishesOnlyForCause`, `CompleteNeverStored`, `ReturnedExact`. The stored
  fragments of a packet are kept sorted, pairwise apart and none complete with
  the announced total; `NoByteTwice` alone is not inductive, as an empty
  fragment has no bytes and still a place in the order. That covering every
  byte makes the running sum reach the total (`CoveringIsComplete`) and the
  converse (`ContiguousCovers`) are shown by looking at the least index where
  they would fail, not by induction on the list.
* **FragmentationProofs**: for every frame and MTU each fragment fits and is
  read back as cut, from bounds on the quotient `chunk`.
* **EncapsulationProofs**: `TypeOK`, `FitsPath`, `ReadsBack` from it, and
  `PeerCanHold`, given that a peer keeps at least 96 fragments of a packet: a
  fragment but the last carries at least 16 bytes (`FewPackets`).
* **LinkProofs**: `TypeOK`, `OriginalWithinEpoch`, `NeverMixedWithinEpoch`,
  `NoneHeldWhole`, `FragmentsKept`, `NoneMissing` and the refinement
  `ImplementsChannel`. The invariant relates every packet in flight and every
  stored fragment to the log: it is cut from the frame, for one MTU, that took
  its identification, and within an epoch no identification is taken twice. So
  fragments of one key and one epoch are of one frame, and a contiguous list up
  to that frame's total is all of it. The epoch is needed: without it the
  statement is false (finding 2). For the refinement an account is added
  (`Accounted`): how often a frame was received, the packets in flight that have
  its first byte, and one if its first byte is in the table, are never more than
  one and its repetitions. Each is spent when its packet is delivered, so no
  delivery can go beyond what `FrameChannel` allows. For the other three, one
  path MTU is found for each frame such that all that is in flight or stored are
  pieces of the frame cut for it (`Laid`), distinct ones, and a piece of a frame
  none of whose packets was repeated is not in both places. `FragmentsKept`
  follows, as two pieces of a frame never overlap and there are no more of them
  than are kept, the frame being `Roomy` (`PeerHolds` says which are).
  `NoneHeldWhole` needs also that the last piece is stored only with the total
  it announces. `NoneMissing`, the safety half of `EveryFrameArrives`, adds that
  each piece of a frame still outstanding is in flight or in the table
  (`AllPlaced`), and that its entry is fresh: the clock ticks only when nothing
  is in flight, and a slot for every frame keeps the table from being full.
* **PathMtuProofs**: `TypeOK`, `Justified` and `FallsOnOneQueue`. The first two
  need that every report in flight and every store still pending is genuine. The
  third needs that a pending store, of a tunnel whose reports come to one queue,
  is still below the value in force: no other worker can have stored since.
* **BridgeProofs**: `TypeOK`, `NoReflection`, `Forgotten` and
  `SoleStaysInVlan`. The invariant places each frame on or bound for the LAN: it
  has the tag of the tunnel it was received for, and while younger than MAC_AGE
  that tunnel's table has its source with an age no greater. `Forgotten` is from
  age < MAC_AGE + time since the last sweep (`AgesBounded`), whatever `Late` is.

* **ForwardingProofs**: lemmas for `StartupProofs`. `PacketsInv` is `TypeOK`'s
  part, `OneOwner`, and `Cutting`: a worker that pushes fragments has their
  frame in its hand. It survives every action, by lemmas on lists (`TakeOwned`,
  `PutOwned`, `MoveOwned`, `FreeOwned`) that say how a partition of the pool
  into places changes when packets move. `Accounted` traces each error that
  `forward` can return, and `PanicAccounted` its panic, to its cause: a list is
  never as long as 65536 because its packets are distinct mbufs of the pool
  (`ListFits`), a fragment fits an mbuf if its frame does (`FragmentTooLong`).
  `AdvertisementConvinces` is the checksum: `Carried` keeps a sum modulo 2^16 -
  1, two folds leave at most 16 bits for any sum of as many words (`OneCarry`,
  `HighBound`), and the complement put into the message makes its own sum come
  out. `Ordered` is what `InOrder` needs to be inductive: the packets of one
  origin are in order all the way from a worker's queue to the wire (`Lined`), a
  frame that is being cut counting as its next fragment (`Due`), and no packet
  has a later number than the last arrival (`Raw`). The steps that move, replace
  or drop packets keep it (`MoveOrdered`, `ShrinkOrdered`, `PushOrdered`): none
  passes one before it.
* **StartupProofs**: `TypeOK`, `OneOwner`, `InOrder`, `OnlyForCause`,
  `AnswersConvince`, `EnoughLcores`, `OwnQueues`, `PortsServeWorkers`,
  `PoolFreedLast`, `NoneOvertaken` and the refinement `ImplementsPool`. The
  invariant adds who holds what (`Holding`: a port is open as long as it is
  held, and a worker in `forward` holds everything), what main holds at each
  stage (`Opening`), that exactly the workers below `launched` exist
  (`Launching`), that their lcores ascend and leave none out below the last
  (`Lcores`: as many lcores up to it as workers, so the count that was checked
  leaves one for each worker to come), and that who does not run has no packets
  (`Idle`). `LcoreFound` takes the least lcore above the last by
  well-foundedness of the naturals. Where packets go is shown once, step by
  step, on the lists (`PassGoes`, `HeadGoes`, `MadeGoes`, `ReplaceGoes`):
  `NoneOvertaken` reads from it which place a waiting packet has afterwards, the
  refinement whose every mbuf is (`WorkGoes`, `WhoseIs`). The refinement needs
  `Holding` (a worker that moves packets holds both ports and the pool), `Idle`
  (a worker that has gone has nothing left when the pool is freed, a port that
  was not started nothing to give back), and `EnvHeld`: whoever holds a port
  holds the environment, so a port is always closed while the pool lives; and a
  port that runs without a pool was left started (`StartedWithoutPool`).

Only model-checked: the liveness properties (`EveryPartialLeaves`,
`EveryFrameArrives`, `PathFollowed`, `BacklogSent`, `FirstFailureEnds`) and with
them fairness and ENABLED, which are out of the prover's reach. Two of them have
their safety half proved: `NoneMissing` that of `EveryFrameArrives`,
`NoneOvertaken` that of `BacklogSent`. Induction over data is out of reach too;
no module uses a RECURSIVE operator, so that all can be proved about.

## 6. What is not modelled

* One endpoint in a single module: `Forwarding` moves the packets of `Bridge`,
  `Link` and `PathMtu` without their tables. It allows every outcome the tables
  could lead to, so what it shows holds with them; and bursts, which those
  modules leave out, only group steps whose every order they allow.
* Which queue a NIC fills, with RSS or without, and how many mbufs a driver puts
  into its descriptors: outside the repository. With one worker and
  `--rx-queue N`, N + 1 queues are set up and only N is polled.
* The scratch arrays of a burst (`lib.rs:298-299`), private to a call under a
  mutex; the metadata of an mbuf.
* The tests by which `icmpv6_packet_too_big` recognises a report
  (`ndp.rs:99-123`: length, EtherType, version, destination, type, checksum,
  embedded version).
* Reading the arguments, beyond the ranges and rules they must satisfy;
  `shim.c`, one-line wrappers; `build.rs`, which generates bindings.
* `README.md:172-178` starts four workers on four lcores, which
  `main.rs:107-116` refuses (`README.md:170` asks for five); a wrong example,
  not a state of the program.
* A solicitation from a tunnel's remote is taken for traffic of that tunnel and
  not answered (`main.rs:236`), unlike any other for the local address
  (`README.md:23`): `Solicited` are those from other sources.
* MAC and IPv6 addresses of the outer headers, hop limits, the EtherIP version
  byte and inner payloads: no property tells them apart.
* One hub topology: a report whose source is itself a tunnel's remote is
  dropped, so `PathFollowed` excepts tunnels routed through a remote.
