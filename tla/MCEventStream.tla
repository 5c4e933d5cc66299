--------------------------- MODULE MCEventStream ---------------------------
(***************************************************************************)
(* Instances of EventStream for TLC.                                       *)
(***************************************************************************)
EXTENDS EventStream

CONSTANTS driver, admin

(* An administrator sees every event, the driver those of its own tasks.   *)
Audience == [c \in Clients |-> IF c = admin THEN Seqs ELSE {e \in Seqs : e % 2 = 1}]
=============================================================================
