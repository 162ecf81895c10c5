------------------------------ MODULE MCFirstRun ------------------------------
(* Two plans, so that a retry with other inputs meets the first one's journal. *)
EXTENDS FirstRun

MCOptional == {"syncthing", "preflight"}
=============================================================================
