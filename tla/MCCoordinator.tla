--------------------------- MODULE MCCoordinator ---------------------------
(* Two replicas; the first also serves run-now requests. *)
EXTENDS Coordinator, TLC

CONSTANTS n1, n2, loop1, loop2, now1, s1, t1, s2

MCHomeOf == loop1 :> n1 @@ now1 :> n1 @@ s1 :> n1 @@ t1 :> n1 @@ loop2 :> n2 @@ s2 :> n2
MCHomeOfLoops == loop1 :> n1 @@ s1 :> n1 @@ loop2 :> n2 @@ s2 :> n2
=============================================================================
