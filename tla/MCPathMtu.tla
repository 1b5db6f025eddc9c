------------------------------ MODULE MCPathMtu ------------------------------
(***************************************************************************)
(* Three tunnels: one whose reports come to two queues, one configured     *)
(* below the least path MTU and routed through the remote of the first,    *)
(* and one whose reports come to one queue.                                *)
(***************************************************************************)
EXTENDS PathMtu, TLC

CONSTANTS w1, w2, narrow, wide, tiny, peer1, peer2, peer3

Remotes == 1 :> peer1 @@ 2 :> peer2 @@ 3 :> peer3
Mtus == 1 :> 9000 @@ 2 :> 1279 @@ 3 :> 1500
\* The tiny link reports no more than the headers of a fragment take.
Links == narrow :> 1300 @@ wide :> 1400 @@ tiny :> 48 @@ peer1 :> 1270
Paths == 1 :> {narrow, wide} @@ 2 :> {tiny, peer1} @@ 3 :> {wide}
Queues == [r \in {narrow, wide, tiny, peer1} |-> IF r = narrow THEN w1 ELSE w2]
\* One frame makes a packet one byte too long for the narrow link.
Frames == {1259, 9000}

=============================================================================
