-------------------------- MODULE ReassemblyProofs --------------------------
(***************************************************************************)
(* Proofs about the reassembly table, for every set of keys, every limit   *)
(* and every timeout.                                                      *)
(***************************************************************************)
EXTENDS Reassembly, FiniteSetTheorems, SequenceTheorems,
        WellFoundedInduction, TLAPS

-----------------------------------------------------------------------------
(* Lemmas about sorted arrangements and disjoint fragments.                *)

\* insert's own notion of disjointness, which also places empty fragments.
Apart(s) == \A i, j \in DOMAIN s : i # j => ~Overlaps(s[i], s[j])

\* Sorting keeps the number and the type of the fragments, and permutes them.
LEMMA SortArranges ==
  ASSUME NEW s \in Seq(Fragment), NEW t \in Sort(s)
  PROVE  /\ t \in Seq(Fragment)
         /\ Len(t) = Len(s)
         /\ SortedByOffset(t)
         /\ \E p \in Bijection(1 .. Len(s), 1 .. Len(s)) :
              \A i \in 1 .. Len(s) : t[i] = s[p[i]]
<1>1. DOMAIN s = 1 .. Len(s) /\ Len(s) \in Nat
  BY LenProperties
<1>2. PICK p \in Bijection(1 .. Len(s), 1 .. Len(s)) :
        t = [i \in 1 .. Len(s) |-> s[p[i]]]
  BY <1>1 DEF Sort
<1>3. p \in [1 .. Len(s) -> 1 .. Len(s)]
  BY <1>2 DEF Bijection, Injection
<1>4. \A i \in 1 .. Len(s) : s[p[i]] \in Fragment
  BY <1>3, ElementOfSeq
<1>5. t \in Seq(Fragment) /\ Len(t) = Len(s)
  BY <1>1, <1>2, <1>4
<1>6. QED
  BY <1>1, <1>2, <1>5 DEF Sort

\* A fragment that overlaps none of the stored ones keeps them apart.
LEMMA AppendKeepsApart ==
  ASSUME NEW s \in Seq(Fragment), NEW f \in Fragment, Apart(s),
         \A i \in DOMAIN s : ~Overlaps(f, s[i])
  PROVE  Apart(Append(s, f))
<1> DEFINE t == Append(s, f)
<1>1. /\ DOMAIN s = 1 .. Len(s) /\ Len(s) \in Nat
      /\ DOMAIN t = 1 .. Len(s) + 1
      /\ \A i \in 1 .. Len(s) : t[i] = s[i]
      /\ t[Len(s) + 1] = f
  BY AppendProperties, LenProperties
<1>2. \A g, h \in Fragment : Overlaps(g, h) => Overlaps(h, g)
  BY DEF Overlaps
<1>3. \A i \in 1 .. Len(s) : s[i] \in Fragment
  BY ElementOfSeq
<1>4. SUFFICES ASSUME NEW i \in 1 .. Len(s) + 1, NEW j \in 1 .. Len(s) + 1,
                      i # j
               PROVE  ~Overlaps(t[i], t[j])
  BY <1>1 DEF Apart
<1>5. CASE i = Len(s) + 1
  <2>1. j \in 1 .. Len(s)
    BY <1>1, <1>4, <1>5
  <2>2. QED
    BY <1>1, <1>5, <2>1
<1>6. CASE j = Len(s) + 1
  <2>1. i \in 1 .. Len(s)
    BY <1>1, <1>4, <1>6
  <2>2. QED
    BY <1>1, <1>2, <1>3, <1>6, <2>1
<1>7. CASE i \in 1 .. Len(s) /\ j \in 1 .. Len(s)
  BY <1>1, <1>4, <1>7 DEF Apart
<1>8. QED
  BY <1>1, <1>5, <1>6, <1>7

\* Sorting moves fragments, it brings none together.
LEMMA SortKeepsApart ==
  ASSUME NEW s \in Seq(Fragment), Apart(s), NEW t \in Sort(s)
  PROVE  Apart(t)
<1>1. PICK p \in Bijection(1 .. Len(s), 1 .. Len(s)) :
        \A i \in 1 .. Len(s) : t[i] = s[p[i]]
  BY SortArranges
<1>2. DOMAIN s = 1 .. Len(s) /\ DOMAIN t = 1 .. Len(s)
  BY SortArranges, LenProperties
<1>3. \A i, j \in 1 .. Len(s) :
        /\ p[i] \in 1 .. Len(s) /\ p[j] \in 1 .. Len(s)
        /\ i # j => p[i] # p[j]
  BY <1>1 DEF Bijection, Injection, IsInjective
<1>4. QED
  BY <1>1, <1>2, <1>3 DEF Apart

\* Fragments that do not overlap share no byte.
LEMMA ApartBytes ==
  ASSUME NEW s \in Seq(Fragment), Apart(s)
  PROVE  \A i, j \in DOMAIN s : i # j => Bytes(s[i]) \cap Bytes(s[j]) = {}
<1> SUFFICES ASSUME NEW i \in DOMAIN s, NEW j \in DOMAIN s, i # j
             PROVE  Bytes(s[i]) \cap Bytes(s[j]) = {}
  OBVIOUS
<1>1. s[i] \in Fragment /\ s[j] \in Fragment
  BY ElementOfSeq, LenProperties
<1>2. ~Overlaps(s[i], s[j])
  BY DEF Apart
<1>3. QED
  BY <1>1, <1>2 DEF Overlaps, Bytes, End, Fragment

-----------------------------------------------------------------------------
(* The inductive invariant.  TypeOK and WithinLimits bound what a step can *)
(* add; the limit on packets speaks of a cardinality, which grows by one   *)
(* only for a finite set; and NoByteTwice says nothing of where empty      *)
(* fragments lie, so the invariant keeps the fragments Apart as insert     *)
(* itself tests it.  That what is held is sorted and was found incomplete  *)
(* when it was stored is what CompleteNeverStored rests on.                *)

AllApart == \A k \in Held : Apart(packets[k].fragments)

AllWaiting == \A k \in Held :
  /\ SortedByOffset(packets[k].fragments)
  /\ ~Complete(packets[k].fragments, packets[k].total)

IInv == /\ TypeOK /\ IsFiniteSet(Held) /\ WithinLimits
        /\ AllApart /\ AllWaiting

\* The table begins empty.
LEMMA InitIInv == Init => IInv
<1> SUFFICES ASSUME Init PROVE IInv
  OBVIOUS
<1>1. Held = {}
  BY DEF Init, Held
<1>2. TypeOK
  BY DEF Init, TypeOK
<1>3. QED
  BY <1>1, <1>2, FS_EmptySet, ReassemblyAssumption
  DEF IInv, WithinLimits, AllApart, AllWaiting

\* The entry insert works on is a partial packet within the limits, its
\* fragments apart, whether it was in the map or is created.
LEMMA EntryIsPartial ==
  ASSUME IInv, NEW k \in Key
  PROVE  /\ Entry(k) \in Partial
         /\ Apart(Entry(k).fragments)
         /\ \A i \in DOMAIN Entry(k).fragments :
              End(Entry(k).fragments[i]) <= MaxPacket
<1>1. CASE packets[k] = None
  <2>1. Fresh \in Partial
    BY ReassemblyAssumption DEF Fresh, Partial
  <2>2. QED
    BY <1>1, <2>1, EmptySeq DEF Entry, Fresh, Apart
<1>2. CASE packets[k] # None
  BY <1>2 DEF IInv, TypeOK, AllApart, WithinLimits, Entry, Held
<1>3. QED
  BY <1>1, <1>2

\* Taking packets out of the map keeps the invariant, when the rest stay as
\* they were but for their timers.
LEMMA RemovalKeepsIInv ==
  ASSUME IInv, TypeOK',
         \A k \in Held' : k \in Held
                          /\ packets'[k].fragments = packets[k].fragments
                          /\ packets'[k].total = packets[k].total
  PROVE  IInv'
<1>1. Held' \in SUBSET Held
  OBVIOUS
<1>2. IsFiniteSet(Held') /\ Cardinality(Held') <= Cardinality(Held)
  BY <1>1, FS_Subset DEF IInv
<1>3. Cardinality(Held') <= MaxPackets
  BY <1>2, FS_CardinalityType, ReassemblyAssumption DEF IInv, WithinLimits
<1>4. WithinLimits'
  BY <1>3 DEF IInv, WithinLimits
<1>5. AllApart' /\ AllWaiting'
  BY DEF IInv, AllApart, AllWaiting
<1>6. QED
  BY <1>2, <1>4, <1>5 DEF IInv

\* A fragment that insert accepts is stored within the limits, apart from the
\* others of its packet.
LEMMA ArrangementFits ==
  ASSUME IInv, NEW k \in Key, NEW f \in Fragment, NEW more \in BOOLEAN,
         ~Malformed(f, more), ~Discards(k, f),
         NEW s \in Sort(Append(Entry(k).fragments, f))
  PROVE  /\ s \in Seq(Fragment)
         /\ Apart(s) /\ SortedByOffset(s)
         /\ Len(s) \in 1 .. MaxFragments
         /\ \A i \in DOMAIN s : End(s[i]) <= MaxPacket
         /\ Total(k, f, more) \in 0 .. MaxPacket \cup {None}
<1> DEFINE stored == Entry(k).fragments
           longer == Append(stored, f)
<1>1. Entry(k) \in Partial
  BY EntryIsPartial
<1>2. stored \in Seq(Fragment)
  BY <1>1 DEF Partial
<1>3. /\ longer \in Seq(Fragment) /\ Len(longer) = Len(stored) + 1
      /\ \A i \in 1 .. Len(stored) : longer[i] = stored[i]
      /\ longer[Len(stored) + 1] = f
      /\ Len(stored) \in Nat /\ DOMAIN stored = 1 .. Len(stored)
  BY <1>2, AppendProperties, LenProperties
<1>4. Apart(longer)
  BY <1>2, EntryIsPartial, AppendKeepsApart DEF Discards
<1>5. /\ s \in Seq(Fragment) /\ Len(s) = Len(longer)
      /\ Apart(s) /\ SortedByOffset(s)
  BY <1>3, <1>4, SortArranges, SortKeepsApart
<1>6. End(f) \in Nat /\ End(f) <= MaxPacket
  BY DEF Malformed, End, Fragment, MaxPacket
<1>7. \A i \in 1 .. Len(longer) : End(longer[i]) <= MaxPacket
  BY <1>3, <1>6, EntryIsPartial
<1>8. PICK p \in Bijection(1 .. Len(longer), 1 .. Len(longer)) :
        \A i \in 1 .. Len(longer) : s[i] = longer[p[i]]
  BY <1>3, SortArranges
<1>9. \A i \in DOMAIN s : End(s[i]) <= MaxPacket
  <2>1. DOMAIN s = 1 .. Len(longer)
    BY <1>5, LenProperties
  <2>2. \A i \in 1 .. Len(longer) : p[i] \in 1 .. Len(longer)
    BY <1>8 DEF Bijection, Injection
  <2>3. QED
    BY <1>7, <1>8, <2>1, <2>2
<1>10. Len(s) \in 1 .. MaxFragments
  <2>1. Len(stored) < MaxFragments
    BY <1>3, ReassemblyAssumption DEF Discards
  <2>2. QED
    BY <1>3, <1>5, <2>1, ReassemblyAssumption
<1>11. Total(k, f, more) \in 0 .. MaxPacket \cup {None}
  <2>1. Entry(k).total \in 0 .. MaxPacket \cup {None}
    BY <1>1 DEF Partial
  <2>2. End(f) \in 0 .. MaxPacket
    <3>1. MaxPacket \in Nat
      BY DEF MaxPacket
    <3>2. QED
      BY <1>6, <3>1
  <2>3. QED
    BY <2>1, <2>2 DEF Total
<1>12. QED
  BY <1>5, <1>9, <1>10, <1>11

\* insert, whatever it returns.
LEMMA InsertKeepsIInv ==
  ASSUME IInv, NEW k \in Key, NEW f \in Fragment, NEW more \in BOOLEAN,
         Insert(k, f, more)
  PROVE  IInv'
<1>1. packets \in [Key -> Partial \cup {None}]
  BY DEF IInv, TypeOK
<1>2. CASE Remove(k) /\ lastInsert' \in Call \cup {None}
  <2>1. TypeOK'
    BY <1>1, <1>2 DEF TypeOK, Remove
  <2>2. \A q \in Held' : q \in Held /\ packets'[q] = packets[q]
    BY <1>1, <1>2 DEF Held, Remove
  <2>3. QED
    BY <2>1, <2>2, RemovalKeepsIInv
<1>3. ASSUME NEW out \in Seq(Fragment) \cup {None}, Returns(k, f, more, out)
      PROVE  lastInsert' \in Call \cup {None}
  BY <1>3 DEF Returns, Call
<1>4. CASE InsertMalformed(k, f, more)
  BY <1>2, <1>3, <1>4 DEF InsertMalformed
<1>5. CASE InsertRefused(k, f, more)
  <2>1. packets' = packets /\ lastInsert' \in Call \cup {None}
    BY <1>3, <1>5 DEF InsertRefused
  <2>2. TypeOK'
    BY <1>1, <2>1 DEF TypeOK
  <2>3. QED
    BY <2>1, <2>2, RemovalKeepsIInv DEF Held
<1>6. CASE InsertDiscards(k, f, more)
  BY <1>2, <1>3, <1>6 DEF InsertDiscards
<1>7. CASE InsertStores(k, f, more)
  <2>1. PICK s \in Sort(Append(Entry(k).fragments, f)) :
          /\ ~Complete(s, Total(k, f, more))
          /\ packets' = [packets EXCEPT ![k] =
            [idle |-> 0, total |-> Total(k, f, more), fragments |-> s]]
    BY <1>7 DEF InsertStores
  <2>2. ~Malformed(f, more) /\ ~Full(k) /\ ~Discards(k, f)
    BY <1>7 DEF InsertStores
  <2>3. /\ s \in Seq(Fragment) /\ Apart(s) /\ SortedByOffset(s)
        /\ Len(s) \in 1 .. MaxFragments
        /\ \A i \in DOMAIN s : End(s[i]) <= MaxPacket
        /\ Total(k, f, more) \in 0 .. MaxPacket \cup {None}
    BY <2>1, <2>2, ArrangementFits
  <2>4. lastInsert' \in Call \cup {None}
    BY <1>3, <1>7 DEF InsertStores
  <2>5. /\ packets'[k] \in Partial /\ packets'[k].fragments = s
        /\ packets'[k].total = Total(k, f, more)
    BY <1>1, <2>1, <2>3, ReassemblyAssumption DEF Partial
  <2>6. \A q \in Held \ {k} : packets'[q] = packets[q]
    BY <1>1, <2>1 DEF Held
  <2>7. TypeOK'
    BY <1>1, <2>1, <2>4, <2>5 DEF TypeOK
  <2>8. Held' = Held \cup {k}
    BY <1>1, <2>1, <2>5, NoneAssumption DEF Held
  <2>9. IsFiniteSet(Held')
    BY <2>8, FS_AddElement DEF IInv
  <2>10. Cardinality(Held') <= MaxPackets
    <3>1. /\ Cardinality(Held') = IF k \in Held THEN Cardinality(Held)
                                   ELSE Cardinality(Held) + 1
          /\ Cardinality(Held) \in Nat
      BY <2>8, FS_AddElement, FS_CardinalityType DEF IInv
    <3>2. k \notin Held => Cardinality(Held) < MaxPackets
      BY <2>2, <3>1, ReassemblyAssumption DEF Full, Held
    <3>3. QED
      BY <3>1, <3>2, ReassemblyAssumption DEF IInv, WithinLimits
  <2>11. WithinLimits'
    BY <2>3, <2>5, <2>6, <2>8, <2>10 DEF IInv, WithinLimits
  <2>12. AllApart'
    BY <2>3, <2>5, <2>6, <2>8 DEF IInv, AllApart
  <2>13. AllWaiting'
    BY <2>1, <2>3, <2>5, <2>6, <2>8 DEF IInv, AllWaiting
  <2>14. QED
    BY <2>7, <2>9, <2>11, <2>12, <2>13 DEF IInv
<1>8. CASE InsertCompletes(k, f, more)
  <2>1. PICK s \in Sort(Append(Entry(k).fragments, f)) :
          Returns(k, f, more, s)
    BY <1>8 DEF InsertCompletes
  <2>2. s \in Seq(Fragment)
    BY <1>8, <2>1, ArrangementFits DEF InsertCompletes
  <2>3. QED
    BY <1>2, <1>3, <1>8, <2>1, <2>2 DEF InsertCompletes
<1>9. QED
  BY <1>4, <1>5, <1>6, <1>7, <1>8 DEF Insert

\* A tick ages a packet and leaves its fragments alone.
LEMMA TickKeepsPacket ==
  ASSUME Tick, NEW k \in Key, packets[k] \in Partial
  PROVE  /\ packets'[k] \in Partial
         /\ packets'[k].fragments = packets[k].fragments
         /\ packets'[k].total = packets[k].total
<1>1. CASE packets[k].idle = Timeout
  BY <1>1 DEF Tick
<1>2. CASE packets[k].idle # Timeout
  <2>1. packets[k].idle + 1 \in 0 .. Timeout
    BY <1>2, ReassemblyAssumption DEF Partial
  <2>2. packets'[k] = [packets[k] EXCEPT !.idle = @ + 1]
    BY <1>2, NoneAssumption DEF Tick
  <2>3. QED
    BY <2>1, <2>2 DEF Partial
<1>3. QED
  BY <1>1, <1>2

\* Time passes.
LEMMA TickKeepsIInv == IInv /\ Tick => IInv'
<1> SUFFICES ASSUME IInv, Tick PROVE IInv'
  OBVIOUS
<1>1. packets \in [Key -> Partial \cup {None}]
  BY DEF IInv, TypeOK
<1>2. \A k \in Key : packets[k] # None =>
        /\ packets'[k] \in Partial
        /\ packets'[k].fragments = packets[k].fragments
        /\ packets'[k].total = packets[k].total
  BY <1>1, TickKeepsPacket
<1>3. \A k \in Key : packets[k] = None => packets'[k] = None
  BY DEF Tick
<1>4. TypeOK'
  <2>1. packets' \in [Key -> Partial \cup {None}]
    BY <1>1, <1>2, <1>3 DEF Tick
  <2>2. QED
    BY <2>1 DEF TypeOK, Tick
<1>5. QED
  BY <1>2, <1>3, <1>4, RemovalKeepsIInv DEF Held

\* expire.
LEMMA ExpireKeepsIInv == IInv /\ Expire => IInv'
<1> SUFFICES ASSUME IInv, Expire PROVE IInv'
  OBVIOUS
<1>1. packets \in [Key -> Partial \cup {None}]
  BY DEF IInv, TypeOK
<1>2. TypeOK'
  BY <1>1 DEF TypeOK, Expire
<1>3. \A k \in Held' : k \in Held /\ packets'[k] = packets[k]
  BY DEF Held, Expire
<1>4. QED
  BY <1>2, <1>3, RemovalKeepsIInv

\* Every step keeps the invariant.
LEMMA NextKeepsIInv == IInv /\ [Next]_vars => IInv'
<1> SUFFICES ASSUME IInv, [Next]_vars PROVE IInv'
  OBVIOUS
<1>1. ASSUME NEW k \in Key, NEW off \in Offset, NEW len \in Length,
             NEW d \in Data, NEW more \in BOOLEAN,
             Insert(k, [off |-> off, len |-> len, data |-> d], more)
      PROVE  IInv'
  <2>1. [off |-> off, len |-> len, data |-> d] \in Fragment
    BY ReassemblyAssumption DEF Fragment
  <2>2. QED
    BY <1>1, <2>1, InsertKeepsIInv
<1>2. CASE Tick
  BY <1>2, TickKeepsIInv
<1>3. CASE Expire
  BY <1>3, ExpireKeepsIInv
<1>4. CASE UNCHANGED vars
  BY <1>4 DEF vars, IInv, TypeOK, WithinLimits, AllApart, AllWaiting,
                    Held
<1>5. QED
  BY <1>1, <1>2, <1>3, <1>4 DEF Next

\* The inductive invariant holds in every behaviour of the table.
THEOREM Invariance == Spec => []IInv
<1>1. QED
  BY InitIInv, NextKeepsIInv, PTL DEF Spec

\* The map and the last call keep their types for every set of keys, offsets
\* and lengths.
THEOREM TypeCorrect == Spec => []TypeOK
<1>1. IInv => TypeOK
  BY DEF IInv
<1>2. QED
  BY <1>1, Invariance, PTL

\* Whatever arrives, at most MaxPackets packets of at most MaxFragments
\* fragments are held (reassembly.rs:37-49).
THEOREM Bounded == Spec => []WithinLimits
<1>1. IInv => WithinLimits
  BY DEF IInv
<1>2. QED
  BY <1>1, Invariance, PTL

\* The overlap test (reassembly.rs:50-58) keeps every byte of a packet to one
\* fragment, for fragments of every size in every order.
THEOREM EachByteOnce == Spec => []NoByteTwice
<1>1. IInv => NoByteTwice
  <2> SUFFICES ASSUME IInv, NEW k \in Held
               PROVE  \A i, j \in DOMAIN packets[k].fragments :
                        i # j => Bytes(packets[k].fragments[i])
                                   \cap Bytes(packets[k].fragments[j]) = {}
    BY DEF NoByteTwice
  <2>1. packets[k].fragments \in Seq(Fragment)
    BY DEF IInv, TypeOK, Held, Partial
  <2>2. QED
    BY <2>1, ApartBytes DEF IInv, AllApart
<1>2. QED
  BY <1>1, Invariance, PTL

\* Nothing but a fragment of its own, or a full timeout, takes a packet out
\* of the map.
THEOREM OnlyForCause == Spec => VanishesOnlyForCause
<1> DEFINE Cause == \A k \in Key :
             (packets[k] # None /\ packets'[k] = None) =>
               \/ lastInsert' # None /\ lastInsert'.key = k
               \/ packets[k].idle = Timeout
<1>1. IInv /\ [Next]_vars => [Cause]_vars
  <2> SUFFICES ASSUME IInv, Next, NEW k \in Key,
                      packets[k] # None, packets'[k] = None
               PROVE  \/ lastInsert' # None /\ lastInsert'.key = k
                      \/ packets[k].idle = Timeout
    OBVIOUS
  <2>1. packets \in [Key -> Partial \cup {None}] /\ packets[k] \in Partial
    BY DEF IInv, TypeOK
  <2>2. ASSUME NEW q \in Key, NEW f \in Fragment, NEW more \in BOOLEAN,
               Insert(q, f, more)
        PROVE  lastInsert' # None /\ lastInsert'.key = k
    <3>1. q = k
      BY <2>1, <2>2 DEF Insert, InsertMalformed, InsertRefused,
           InsertDiscards, InsertStores, InsertCompletes, Remove
    <3>2. /\ lastInsert' \in Call
          /\ lastInsert'.key = q
      <4>1. PICK out \in Seq(Fragment) \cup {None} : Returns(q, f, more, out)
        BY <2>2, ArrangementFits DEF Insert, InsertMalformed, InsertRefused,
             InsertDiscards, InsertStores, InsertCompletes
      <4>2. QED
        BY <4>1 DEF Returns, Call
    <3>3. QED
      BY <3>1, <3>2, NoneAssumption
  <2>3. CASE Tick
    BY <2>1, <2>3, TickKeepsPacket, NoneAssumption
  <2>4. CASE Expire
    BY <2>1, <2>4, ReassemblyAssumption DEF Expire, Stale, Partial
  <2>5. QED
    BY <2>2, <2>3, <2>4, ReassemblyAssumption DEF Next, Fragment
<1>2. QED
  BY <1>1, Invariance, PTL DEF Spec, VanishesOnlyForCause

-----------------------------------------------------------------------------
(* What a sorted list of disjoint fragments covers.                        *)

Before == {p \in Nat \X Nat : p[1] < p[2]}

\* Every set of naturals with an element has a least one: the form in which
\* an induction is available to the provers.
LEMMA LeastElement ==
  ASSUME NEW T \in SUBSET Nat, T # {}
  PROVE  \E m \in T : \A n \in T : m <= n
<1>1. OpToRel(<, Nat) = Before
  BY Zenon DEF OpToRel, Before
<1>2. PICK m \in T : \A n \in T : ~(<<n, m>> \in Before)
  BY <1>1, WFMin, NatLessThanWellFounded
<1>3. \A i, j \in Nat : i < j => <<i, j>> \in Before
  BY DEF Before
<1>4. m \in Nat /\ \A n \in T : n \in Nat
  OBVIOUS
<1>5. \A n \in T : ~(n < m)
  BY <1>2, <1>3, <1>4
<1>6. \A n \in T : m <= n
  BY <1>4, <1>5
<1>7. QED
  BY <1>6

\* Fragments that follow one another from offset 0 cover every byte up to the
\* end of the last one, and no other.
LEMMA ContiguousCovers ==
  ASSUME NEW s \in Seq(Fragment), s # <<>>, Contiguous(s), SortedByOffset(s)
  PROVE  UNION {Bytes(s[i]) : i \in DOMAIN s} = 0 .. End(s[Len(s)]) - 1
<1> DEFINE n == Len(s)
<1>1. n \in Nat /\ n >= 1 /\ DOMAIN s = 1 .. n
  BY LenProperties, EmptySeq
<1>2. \A i \in 1 .. n : s[i] \in Fragment
  BY ElementOfSeq
<1>3. \A i \in 1 .. n : /\ s[i].off \in Nat /\ End(s[i]) \in Nat
                         /\ s[i].off <= End(s[i])
  BY <1>2 DEF Fragment, End
<1>4. ASSUME NEW i \in 1 .. n PROVE End(s[i]) <= End(s[n])
  <2> n \in Nat /\ i \in Nat /\ i <= n
    BY <1>1
  <2>1. CASE i = n
    BY <1>3, <2>1
  <2>2. CASE i < n
    <3>1. i + 1 \in 2 .. n /\ i + 1 \in 1 .. n /\ (i + 1) - 1 = i
      BY <1>1, <2>2
    <3>2. s[i + 1].off = End(s[i])
      BY <3>1 DEF Contiguous
    <3>3. s[i + 1].off <= s[n].off
      <4>1. CASE i + 1 = n
        BY <1>1, <1>3, <4>1
      <4>2. CASE i + 1 < n
        BY <1>1, <3>1, <4>2 DEF SortedByOffset
      <4>3. QED
        BY <2>2, <4>1, <4>2
    <3>4. QED
      BY <1>1, <1>3, <3>1, <3>2, <3>3
  <2>3. QED
    BY <2>1, <2>2
<1>5. ASSUME NEW b \in 0 .. End(s[n]) - 1
      PROVE  \E i \in 1 .. n : b \in Bytes(s[i])
  <2> DEFINE T == {i \in 1 .. n : b < End(s[i])}
  <2>1. T \in SUBSET Nat /\ T # {}
    BY <1>1, <1>3
  <2>2. PICK m \in T : \A i \in T : m <= i
    BY <2>1, LeastElement
  <2>3. s[m].off <= b
    <3>1. CASE m = 1
      BY <3>1 DEF Contiguous
    <3>2. CASE m # 1
      <4>1. m \in 2 .. n /\ m - 1 \in 1 .. n /\ m - 1 \notin T
        BY <1>1, <2>2, <3>2
      <4>2. End(s[m - 1]) <= b
        BY <1>3, <4>1
      <4>3. QED
        BY <4>1, <4>2 DEF Contiguous
    <3>3. QED
      BY <3>1, <3>2
  <2>4. QED
    BY <1>1, <1>3, <2>2, <2>3 DEF Bytes
<1>6. ASSUME NEW i \in 1 .. n, NEW b \in Bytes(s[i])
      PROVE  b \in 0 .. End(s[n]) - 1
  BY <1>1, <1>3, <1>4 DEF Bytes
<1>7. QED
  BY <1>1, <1>5, <1>6

\* Disjoint fragments in order, none empty, leave each other's ends behind.
LEMMA EndsInOrder ==
  ASSUME NEW s \in Seq(Fragment), SortedByOffset(s), Apart(s),
         \A i \in DOMAIN s : s[i].len > 0,
         NEW i \in DOMAIN s, NEW j \in DOMAIN s, i < j
  PROVE  End(s[i]) <= s[j].off
<1>1. s[i] \in Fragment /\ s[j] \in Fragment
  BY ElementOfSeq, LenProperties
<1>2. s[i].off <= s[j].off /\ ~Overlaps(s[i], s[j])
  BY LenProperties DEF SortedByOffset, Apart
<1>3. QED
  BY <1>1, <1>2 DEF Overlaps, End, Fragment

\* Disjoint fragments in order, none empty, that hold every byte of a packet
\* and no more are the complete packet insert looks for.
LEMMA CoveringIsComplete ==
  ASSUME NEW s \in Seq(Fragment), s # <<>>, NEW total \in Nat,
         SortedByOffset(s), Apart(s),
         \A i \in DOMAIN s : s[i].len > 0 /\ End(s[i]) <= total,
         UNION {Bytes(s[i]) : i \in DOMAIN s} = 0 .. total - 1
  PROVE  Complete(s, total)
<1> DEFINE n == Len(s)
<1>1. n \in Nat /\ n >= 1 /\ DOMAIN s = 1 .. n
  BY LenProperties, EmptySeq
<1>2. \A i \in 1 .. n : s[i] \in Fragment
  BY ElementOfSeq
<1>3. \A i \in 1 .. n : /\ s[i].off \in Nat /\ End(s[i]) \in Nat
                         /\ s[i].off < End(s[i]) /\ End(s[i]) <= total
  BY <1>1, <1>2 DEF Fragment, End
<1>4. \A b \in 0 .. total - 1 :
        \E i \in 1 .. n : s[i].off <= b /\ b < End(s[i])
  <2> TAKE b \in 0 .. total - 1
  <2>1. b \in UNION {Bytes(s[i]) : i \in DOMAIN s}
    OBVIOUS
  <2>2. PICK i \in DOMAIN s : b \in Bytes(s[i])
    BY <2>1
  <2>3. s[i].off <= b /\ b <= End(s[i]) - 1
    BY <1>1, <1>3, <2>2 DEF Bytes
  <2>4. QED
    BY <1>1, <1>3, <2>3
<1>5. \A i, j \in 1 .. n : i < j => End(s[i]) <= s[j].off
  BY <1>1, EndsInOrder
<1>6. s[1].off = 0
  <2>1. PICK i \in 1 .. n : s[i].off <= 0
    BY <1>1, <1>3, <1>4
  <2>2. QED
    BY <1>1, <1>3, <1>5, <2>1
<1>7. ASSUME NEW i \in 2 .. n PROVE s[i].off = End(s[i - 1])
  <2> DEFINE b == End(s[i - 1])
  <2>1. i - 1 \in 1 .. n /\ i \in 1 .. n /\ b <= s[i].off
    BY <1>1, <1>5
  <2>2. SUFFICES ASSUME b < s[i].off PROVE FALSE
    BY <1>3, <2>1
  <2>3. b \in 0 .. total - 1
    BY <1>3, <2>1, <2>2
  <2>4. PICK j \in 1 .. n : s[j].off <= b /\ b < End(s[j])
    BY <1>4, <2>3
  <2>5. CASE j < i - 1
    <3>1. End(s[j]) <= s[i - 1].off
      BY <1>5, <2>1, <2>5
    <3>2. QED
      BY <1>3, <2>1, <2>4, <3>1
  <2>6. CASE j = i - 1
    BY <1>3, <2>1, <2>4, <2>6
  <2>7. CASE j = i
    BY <1>3, <2>1, <2>2, <2>4, <2>7
  <2>8. CASE j > i
    BY <1>3, <1>5, <2>1, <2>2, <2>4, <2>8
  <2>9. QED
    BY <1>1, <2>5, <2>6, <2>7, <2>8
<1>8. total = End(s[n])
  <2>1. total - 1 \in 0 .. total - 1
    BY <1>1, <1>3
  <2>2. PICK j \in 1 .. n : total - 1 < End(s[j])
    BY <1>4, <2>1
  <2>3. End(s[j]) <= End(s[n])
    BY <1>1, <1>3, <1>5
  <2>4. QED
    BY <1>1, <1>3, <2>2, <2>3
<1>9. QED
  BY <1>1, <1>6, <1>7, <1>8 DEF Complete, Contiguous

\* A packet that has all its bytes never waits in the map: the sort and the
\* running sum of insert (reassembly.rs:63-78) miss no completed packet,
\* whatever order its fragments arrived in.
THEOREM NoneWaitsComplete == Spec => []CompleteNeverStored
<1>1. IInv => CompleteNeverStored
  <2> SUFFICES ASSUME IInv, NEW k \in Held, packets[k].total # None,
                      \A i \in DOMAIN packets[k].fragments :
                        /\ packets[k].fragments[i].len > 0
                        /\ End(packets[k].fragments[i]) <= packets[k].total
               PROVE  UNION {Bytes(packets[k].fragments[i]) :
                             i \in DOMAIN packets[k].fragments}
                        # 0 .. packets[k].total - 1
    BY DEF CompleteNeverStored
  <2>1. packets[k] \in Partial
    BY DEF IInv, TypeOK, Held
  <2>2. packets[k].fragments \in Seq(Fragment) /\ packets[k].total \in Nat
    BY <2>1 DEF Partial
  <2>3. packets[k].fragments # <<>>
    BY EmptySeq, ReassemblyAssumption DEF IInv, WithinLimits
  <2>4. /\ Apart(packets[k].fragments)
        /\ SortedByOffset(packets[k].fragments)
        /\ ~Complete(packets[k].fragments, packets[k].total)
    BY DEF IInv, AllApart, AllWaiting
  <2>5. QED
    BY <2>2, <2>3, <2>4, CoveringIsComplete
<1>2. QED
  BY <1>1, Invariance, PTL

\* insert returns packets without gap or overlap, which end where a last fragment
\* that completes them says: what it hands to the decapsulation is a whole
\* packet, for fragments of every size.
THEOREM ReturnsWhole == Spec => []ReturnedExact
<1>1. Init => ReturnedExact
  BY DEF Init, ReturnedExact
<1>2. IInv /\ ReturnedExact /\ [Next]_vars => ReturnedExact'
  <2> SUFFICES ASSUME IInv, ReturnedExact, [Next]_vars PROVE ReturnedExact'
    OBVIOUS
  <2>1. ASSUME NEW k \in Key, NEW f \in Fragment, NEW more \in BOOLEAN,
               Insert(k, f, more)
        PROVE  ReturnedExact'
    <3>1. CASE InsertCompletes(k, f, more)
      <4>1. PICK s \in Sort(Append(Entry(k).fragments, f)) :
              /\ Complete(s, Total(k, f, more))
              /\ Returns(k, f, more, s)
        BY <3>1 DEF InsertCompletes
      <4>2. s \in Seq(Fragment) /\ Apart(s) /\ SortedByOffset(s)
            /\ Len(s) \in 1 .. MaxFragments
        BY <3>1, <4>1, ArrangementFits DEF InsertCompletes
      <4>3. s # <<>> /\ DOMAIN s = 1 .. Len(s)
        BY <4>2, EmptySeq, LenProperties, ReassemblyAssumption
      <4>4. UNION {Bytes(s[i]) : i \in DOMAIN s} = 0 .. End(s[Len(s)]) - 1
        BY <4>1, <4>2, <4>3, ContiguousCovers DEF Complete
      <4>5. \A i, j \in DOMAIN s : i # j => Bytes(s[i]) \cap Bytes(s[j]) = {}
        BY <4>2, ApartBytes
      <4>6. /\ lastInsert'.out = s /\ lastInsert'.more = more
            /\ lastInsert'.frag = f
        BY <4>1 DEF Returns
      <4>7. ~more => End(s[Len(s)]) = End(f)
        BY <4>1 DEF Complete, Total
      <4>8. QED
        BY <4>2, <4>4, <4>5, <4>6, <4>7 DEF ReturnedExact
    <3>2. CASE ~InsertCompletes(k, f, more)
      <4>1. lastInsert'.out = None
        BY <2>1, <3>2 DEF Insert, InsertMalformed, InsertRefused,
             InsertDiscards, InsertStores, Returns
      <4>2. QED
        BY <4>1 DEF ReturnedExact
    <3>3. QED
      BY <3>1, <3>2
  <2>2. CASE Tick \/ Expire
    BY <2>2 DEF Tick, Expire, ReturnedExact
  <2>3. CASE UNCHANGED vars
    BY <2>3 DEF vars, ReturnedExact
  <2>4. QED
    BY <2>1, <2>2, <2>3, ReassemblyAssumption DEF Next, Fragment
<1>3. QED
  BY <1>1, <1>2, Invariance, PTL DEF Spec

=============================================================================
