------------------------------- MODULE MCLink -------------------------------
(***************************************************************************)
(* Links for TLC: frames just long enough to be sent whole, or in two,     *)
(* three or four fragments at the MTUs 70 (16 bytes of data in a fragment) *)
(* and 80 (32 bytes).                                                      *)
(***************************************************************************)
EXTENDS Link, TLC

CONSTANTS f1, f2, f3

TwoLong == (f1 :> 30 @@ f2 :> 40)
\* Sent whole, in three fragments or two, and in four or two.
Mixed == (f1 :> 24 @@ f2 :> 40 @@ f3 :> 50)

=============================================================================
