---------------------------- MODULE FrameChannel ----------------------------
(***************************************************************************)
(* What one direction of a tunnel promises the two LANs: it is a channel   *)
(* that may lose frames, and deliver them late and in any order, but every *)
(* frame it puts on the far LAN is one that was sent, until the sender's   *)
(* identifications begin again; and then too it repeats a frame no more    *)
(* often than the network below repeated its packets.                      *)
(***************************************************************************)
EXTENDS Naturals

CONSTANTS
  Frame,     \* the frames sent, each once
  Mangled    \* stands for whatever is not one of them

VARIABLES
  sent,      \* the frames taken from the near LAN
  renewed,   \* whether the sender's identifications have begun again
  copies,    \* how many packets of a frame the network has repeated
  received   \* how often a frame was put on the far LAN

vars == <<sent, renewed, copies, received>>

Init ==
  /\ sent = {}
  /\ renewed = FALSE
  /\ copies = [f \in Frame |-> 0]
  /\ received = [f \in Frame \cup {Mangled} |-> 0]

\* The frame may be the one that takes the last identification.
Send(f) ==
  /\ f \notin sent
  /\ sent' = sent \cup {f}
  /\ renewed' \in {renewed, TRUE}
  /\ UNCHANGED <<copies, received>>

Renew ==
  /\ renewed' = TRUE
  /\ UNCHANGED <<sent, copies, received>>

Repeat(f) ==
  /\ f \in sent
  /\ copies' = [copies EXCEPT ![f] = @ + 1]
  /\ UNCHANGED <<sent, renewed, received>>

Deliver(f) ==
  /\ f \in sent
  /\ received[f] <= copies[f]
  /\ received' = [received EXCEPT ![f] = @ + 1]
  /\ UNCHANGED <<sent, renewed, copies>>

DeliverMangled ==
  /\ renewed
  /\ received' = [received EXCEPT ![Mangled] = @ + 1]
  /\ UNCHANGED <<sent, renewed, copies>>

Next ==
  \/ \E f \in Frame : Send(f) \/ Repeat(f) \/ Deliver(f)
  \/ Renew \/ DeliverMangled

Spec == Init /\ [][Next]_vars

=============================================================================
