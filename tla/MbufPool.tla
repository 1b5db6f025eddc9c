------------------------------ MODULE MbufPool ------------------------------
(***************************************************************************)
(* What DPDK asks of a program that shares mbufs between threads: an mbuf  *)
(* is at any time the pool's, a port's or one worker's.  It comes to a     *)
(* worker only out of the pool or from its own queue of a port that runs,  *)
(* and leaves it only for the pool or for its own ring of a port that      *)
(* runs: no worker meets an mbuf of another, nor one it has handed over.   *)
(* No mbuf is taken or given back but while the pool lives.                *)
(***************************************************************************)
CONSTANTS Mbuf, Worker, Port

VARIABLES
  owner,     \* who owns each mbuf
  running,   \* the ports that receive and send
  pool       \* the mempool: absent, live or freed

vars == <<owner, running, pool>>

InPool == <<"pool">>
Idle == <<"idle">>     \* in an RX descriptor that no packet fills
Of(w) == <<"worker", w>>
Queue(w, p) == <<"queue", w, p>>
Ring(w, p) == <<"ring", w, p>>

OfPort(p) == {Queue(w, p) : w \in Worker} \cup {Ring(w, p) : w \in Worker}
Owner == {InPool, Idle} \cup {Of(w) : w \in Worker}
         \cup UNION {OfPort(p) : p \in Port}

Init ==
  /\ owner \in [Mbuf -> {InPool, Idle}]
  /\ running = {}
  /\ pool = "absent"

Passes(m, from, to) == owner[m] = from /\ owner'[m] = to

\* What a step of a worker may do with an mbuf.
WorkerMoves(w, m) ==
  \/ \E p \in running :
       Passes(m, Queue(w, p), Of(w)) \/ Passes(m, Of(w), Ring(w, p))
  \/ Passes(m, InPool, Of(w)) \/ Passes(m, Of(w), InPool)

\* What a step of a port may do with an mbuf.
PortMoves(p, m) == \E w \in Worker :
  Passes(m, InPool, Queue(w, p)) \/ Passes(m, Ring(w, p), InPool)

WorkerStep(w) ==
  /\ pool = "live"
  /\ owner' \in [Mbuf -> Owner]
  /\ \A m \in Mbuf : owner'[m] = owner[m] \/ WorkerMoves(w, m)
  /\ UNCHANGED <<running, pool>>

PortStep(p) ==
  /\ pool = "live" /\ p \in running
  /\ owner' \in [Mbuf -> Owner]
  /\ \A m \in Mbuf : owner'[m] = owner[m] \/ PortMoves(p, m)
  /\ UNCHANGED <<running, pool>>

Create == pool = "absent" /\ pool' = "live" /\ UNCHANGED <<owner, running>>

Start(p) ==
  /\ pool = "live" /\ p \notin running
  /\ running' = running \cup {p}
  /\ UNCHANGED <<owner, pool>>

\* All that a port has goes back to the pool.
Close(p) ==
  /\ pool = "live" /\ p \in running
  /\ running' = running \ {p}
  /\ owner' = [m \in Mbuf |-> IF owner[m] \in OfPort(p) THEN InPool
                              ELSE owner[m]]
  /\ UNCHANGED pool

Destroy ==
  /\ pool = "live" /\ pool' = "freed"
  /\ \A m \in Mbuf, w \in Worker : owner[m] # Of(w)
  /\ UNCHANGED <<owner, running>>

Next ==
  \/ \E w \in Worker : WorkerStep(w)
  \/ \E p \in Port : PortStep(p) \/ Start(p) \/ Close(p)
  \/ Create \/ Destroy

Spec == Init /\ [][Next]_vars

=============================================================================
