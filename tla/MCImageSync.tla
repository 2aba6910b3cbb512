---------------------------- MODULE MCImageSync -----------------------------
(* Instances of ImageSync for TLC. *)
EXTENDS ImageSync, TLC

CONSTANT Hash

OneHash == [k \in Images |-> Hash]

(* The images are those of init containers, which have ended: their rows   *)
(* begin as not running, and the sync corrects them.                       *)
InitEnded == [k \in Images |-> FALSE]
=============================================================================
