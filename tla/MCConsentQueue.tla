--------------------------- MODULE MCConsentQueue ---------------------------
(* Two commands that overlap, on two repositories.                         *)
EXTENDS ConsentQueue
CONSTANTS r1, r2, t1
MCOverlapStages == {<<r1, t1>>, <<r2, t1>>}
=============================================================================
