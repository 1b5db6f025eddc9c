----------------------------- MODULE Reassembly -----------------------------
(***************************************************************************)
(* The IPv6 fragment reassembly table (etherip/src/reassembly.rs).         *)
(*                                                                         *)
(* A HashMap from (source, destination, id) to the fragments received so   *)
(* far.  Every worker calls insert and expire under one Mutex, so each     *)
(* call is one atomic step.  A payload is abstracted to its offset, its    *)
(* length and a tag for its contents; an Instant is abstracted to the time *)
(* passed since it, in ticks, kept no further than the 60 s that expire    *)
(* compares it with.                                                       *)
(***************************************************************************)
EXTENDS Integers, Sequences, FiniteSets, Functions

CONSTANTS
  Key,           \* (source, destination, id) of a fragmented packet
  Data,          \* tags for the contents of a fragment
  Offset,        \* offsets a Fragment Header can name: multiples of 8
  Length,        \* lengths of the data after the Fragment Header
  MaxPackets,    \* packets under reassembly at once: 1024 in the code
  MaxFragments,  \* fragments kept of one packet: 128 in the code
  Timeout,       \* the 60 s of expire, in ticks
  None           \* Rust's None, and an absent entry of the map

ASSUME ReassemblyAssumption ==
  /\ Offset \subseteq Nat /\ Length \subseteq Nat
  /\ MaxPackets \in Nat \ {0} /\ MaxFragments \in Nat \ {0}
  /\ Timeout \in Nat \ {0}
  /\ None \notin Nat

VARIABLES
  packets,     \* the map: Key to a partial packet, or None
  lastInsert   \* arguments and result of the step's insert, None for others

vars == <<packets, lastInsert>>

Block == 8             \* the unit of fragment offsets
MaxPacket == 65535     \* MAX_PACKET

Fragment == [off : Nat, len : Nat, data : Data]
End(f) == f.off + f.len

Partial == [idle : 0 .. Timeout, total : 0 .. MaxPacket \cup {None},
            fragments : Seq(Fragment)]
Fresh == [idle |-> 0, total |-> None, fragments |-> <<>>]

Call == [key : Key, frag : Fragment, more : BOOLEAN,
         out : Seq(Fragment) \cup {None}]

ASSUME NoneAssumption == None \notin Partial \cup Call \cup Seq(Fragment)

Held == {k \in Key : packets[k] # None}

-----------------------------------------------------------------------------
(* What insert computes.                                                   *)

\* Mutation: the reach of a fragment goes unchecked.
MalformedReachUnchecked(f, more) == more /\ f.len % Block # 0

Malformed(f, more) == (more /\ f.len % Block # 0) \/ End(f) > MaxPacket

\* Mutation: the limit compared with > instead of >=.
FullOffByOne(k) == packets[k] = None /\ Cardinality(Held) > MaxPackets

\* Only a packet not yet in the map is held back by the limit.
Full(k) == packets[k] = None /\ Cardinality(Held) >= MaxPackets

\* Mutation: a new fragment that starts before a stored one is not compared.
OverlapsForward(f, g) == g.off <= f.off /\ f.off < End(g)

\* Mutation: fragments that touch are taken to overlap.
OverlapsTouching(f, g) == f.off <= End(g) /\ g.off <= End(f)

Overlaps(f, g) == f.off < End(g) /\ g.off < End(f)

SortedByOffset(s) == \A i, j \in DOMAIN s : i < j => s[i].off <= s[j].off

\* Mutation: the list is left in order of arrival.
SortSkipped(s) == {s}

\* sort_unstable_by_key leaves fragments of equal offset (an empty one beside
\* another) in any order, so every sorted arrangement is an outcome.
Sort(s) ==
  {t \in {[i \in DOMAIN s |-> s[p[i]]] : p \in Bijection(DOMAIN s, DOMAIN s)} :
     SortedByOffset(t)}

Contiguous(s) ==
  /\ s[1].off = 0
  /\ \A i \in 2 .. Len(s) : s[i].off = End(s[i - 1])

\* Mutation: only the end of the last fragment is compared with the total.
CompleteIgnoresGaps(s, total) == total = End(s[Len(s)])

\* The running sum of try_fold reaches the total that a last fragment gave.
Complete(s, total) == Contiguous(s) /\ total = End(s[Len(s)])

\* Mutation: expire keeps the first fragments for ever, waiting for the last.
StaleIfTotalKnown(p) == p.idle >= Timeout /\ p.total # None

\* Mutation: expire strikes one tick early.
StaleEarly(p) == p.idle + 1 >= Timeout

Stale(p) == p.idle >= Timeout

-----------------------------------------------------------------------------
(* insert, one action for each way it returns.                             *)

Entry(k) == IF packets[k] = None THEN Fresh ELSE packets[k]

Remove(k) == packets' = [packets EXCEPT ![k] = None]

Returns(k, f, more, out) ==
  lastInsert' = [key |-> k, frag |-> f, more |-> more, out |-> out]

InsertMalformed(k, f, more) ==
  /\ Malformed(f, more)
  /\ Remove(k)
  /\ Returns(k, f, more, None)

InsertRefused(k, f, more) ==
  /\ ~Malformed(f, more)
  /\ Full(k)
  /\ Returns(k, f, more, None)
  /\ UNCHANGED packets

Discards(k, f) ==
  LET stored == Entry(k).fragments
  IN  \/ Len(stored) >= MaxFragments
      \/ \E i \in DOMAIN stored : Overlaps(f, stored[i])

InsertDiscards(k, f, more) ==
  /\ ~Malformed(f, more) /\ ~Full(k)
  /\ Discards(k, f)
  /\ Remove(k)
  /\ Returns(k, f, more, None)

\* Mutation: the total is known only while the last fragment is the newest.
TotalForgotten(k, f, more) == IF more THEN None ELSE End(f)

\* Mutation: a total, once known, is kept.
TotalKept(k, f, more) ==
  IF more \/ Entry(k).total # None THEN Entry(k).total ELSE End(f)

Total(k, f, more) == IF more THEN Entry(k).total ELSE End(f)

InsertStores(k, f, more) ==
  /\ ~Malformed(f, more) /\ ~Full(k)
  /\ ~Discards(k, f)
  /\ \E s \in Sort(Append(Entry(k).fragments, f)) :
       /\ ~Complete(s, Total(k, f, more))
       /\ packets' = [packets EXCEPT ![k] =
            [idle |-> 0, total |-> Total(k, f, more), fragments |-> s]]
  /\ Returns(k, f, more, None)

InsertCompletes(k, f, more) ==
  /\ ~Malformed(f, more) /\ ~Full(k)
  /\ ~Discards(k, f)
  /\ Remove(k)
  /\ \E s \in Sort(Append(Entry(k).fragments, f)) :
       /\ Complete(s, Total(k, f, more))
       /\ Returns(k, f, more, s)

Insert(k, f, more) ==
  \/ InsertMalformed(k, f, more)
  \/ InsertRefused(k, f, more)
  \/ InsertDiscards(k, f, more)
  \/ InsertStores(k, f, more)
  \/ InsertCompletes(k, f, more)

-----------------------------------------------------------------------------
(* The clock, and expire.                                                  *)

Tick ==
  /\ packets' = [k \in Key |->
       IF packets[k] = None \/ packets[k].idle = Timeout THEN packets[k]
       ELSE [packets[k] EXCEPT !.idle = @ + 1]]
  /\ lastInsert' = None

Expire ==
  /\ packets' = [k \in Key |->
       IF packets[k] # None /\ Stale(packets[k]) THEN None ELSE packets[k]]
  /\ lastInsert' = None

Init ==
  /\ packets = [k \in Key |-> None]
  /\ lastInsert = None

Next ==
  \/ \E k \in Key, off \in Offset, len \in Length, d \in Data, more \in BOOLEAN :
       Insert(k, [off |-> off, len |-> len, data |-> d], more)
  \/ Tick
  \/ Expire

Spec == Init /\ [][Next]_vars

\* Time passes, and every worker that runs its loop calls expire every 5 s.
Fairness == WF_vars(Tick) /\ WF_vars(Expire)

FairSpec == Spec /\ Fairness

-----------------------------------------------------------------------------
(* Properties.                                                             *)

\* The types of the map and of the last call; an announced total fits the
\* length field of an IPv6 packet.
TypeOK ==
  /\ packets \in [Key -> Partial \cup {None}]
  /\ lastInsert \in Call \cup {None}

Bytes(f) == f.off .. End(f) - 1

\* No byte of a packet is ever held twice: whatever order fragments of
\* whatever size arrive in, the overlap test of insert keeps the stored ones
\* disjoint, so no byte of the result has two sources.
NoByteTwice ==
  \A k \in Held : LET s == packets[k].fragments IN
    \A i, j \in DOMAIN s : i # j => Bytes(s[i]) \cap Bytes(s[j]) = {}

\* Reassembly memory is bounded ("fixed limits prevent fragment-memory
\* exhaustion"): packets, fragments of one packet and the reach of a fragment
\* stay within their limits however insert and expire interleave.
WithinLimits ==
  /\ Cardinality(Held) <= MaxPackets
  /\ \A k \in Held : LET s == packets[k].fragments IN
       /\ Len(s) \in 1 .. MaxFragments
       /\ \A i \in DOMAIN s : End(s[i]) <= MaxPacket

\* What insert returns is a packet without gap or overlap from its first byte
\* on, in order: the running sum that insert checks means coverage.  If it was
\* called with a last fragment, the packet ends where that one says, also when
\* an earlier one said otherwise (reassembly.rs:61-63).
ReturnedExact ==
  lastInsert # None =>
    LET out == lastInsert.out IN
      out # None =>
        /\ SortedByOffset(out)
        /\ UNION {Bytes(out[i]) : i \in DOMAIN out}
             = 0 .. End(out[Len(out)]) - 1
        /\ \A i, j \in DOMAIN out :
             i # j => Bytes(out[i]) \cap Bytes(out[j]) = {}
        /\ ~lastInsert.more => End(out[Len(out)]) = End(lastInsert.frag)

\* insert "returns the reassembled payload once every fragment has arrived":
\* a packet whose stored fragments, none empty and none past the announced
\* end, hold every byte is never left waiting in the map.
CompleteNeverStored ==
  \A k \in Held : LET s == packets[k].fragments
                      total == packets[k].total IN
    (total # None /\ \A i \in DOMAIN s : s[i].len > 0 /\ End(s[i]) <= total)
      => UNION {Bytes(s[i]) : i \in DOMAIN s} # 0 .. total - 1

\* A packet leaves the map only through a fragment of its own or after the
\* full timeout without one: neither another packet's fragments, nor a full
\* map, nor expire come between the fragments of a live packet.
VanishesOnlyForCause ==
  [][\A k \in Key : (packets[k] # None /\ packets'[k] = None) =>
        \/ lastInsert' # None /\ lastInsert'.key = k
        \/ packets[k].idle = Timeout]_vars

\* Every packet under reassembly leaves the map, completed or not, so that
\* slots are freed for ever: fragments that keep arriving refresh the timer,
\* but only MaxFragments times.
EveryPartialLeaves ==
  \A k \in Key : packets[k] # None ~> packets[k] = None

\* f is a second copy of a fragment stored of k, its M flag included: the flags
\* are not stored, but all had it while there is no total, and the fragment that
\* gave the total is the one that ends there.
IsCopy(k, f, more) ==
  LET p == packets[k] IN
    /\ f \in Range(p.fragments)
    /\ p.total = IF more THEN None ELSE End(f)
    /\ \A g \in Range(p.fragments) : End(g) = End(f) => g = f

\* README.md:21: duplicate fragments are discarded.  Read as written, a second
\* copy of a stored fragment, as a network that repeats packets brings it,
\* changes nothing of what the map holds.
DuplicateDiscarded ==
  [][(/\ lastInsert' # None
      /\ packets[lastInsert'.key] # None
      /\ IsCopy(lastInsert'.key, lastInsert'.frag, lastInsert'.more))
       => packets' = packets]_vars

=============================================================================
