--------------------------- MODULE MCEncapsulation ---------------------------
(***************************************************************************)
(* Encapsulation at the real widths: every small frame and the boundaries  *)
(* of the large ones, every small MTU and the boundaries of the large.     *)
(***************************************************************************)
EXTENDS Encapsulation

Frames == 0 .. 60 \cup {1230, 1238, 1239, 1500, 1514, 1522, 2046, 2047, 2048}
          \cup {65524, 65525, 65526, 65532, 65533, 65534}
Mtus == MinMtu .. MinMtu + 20 \cup {1280, 1500, 65567, 65568, 65574, 65575}

=============================================================================
