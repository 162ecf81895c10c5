------------------------------ MODULE MCSystemd ------------------------------
(* Instances of SystemdReconcile for TLC.                                  *)
EXTENDS SystemdReconcile

CONSTANTS s1, x1

MCService == {s1}
MCSession == {x1}
MCNone    == {}

(* A projection with the service in mode a and the session in mode b, both *)
(* with content c.                                                         *)
Both(a, b, c) == [mode |-> [u \in Units |-> IF u \in Services THEN a ELSE b],
                  content |-> [u \in Units |-> c]]

(* Changes of content, of mode and of both, coming back included.  The     *)
(* session is also disabled and retired, the service disabled.             *)
MCManifests ==
    {Both("persistent", "ondemand", 1), Both("persistent", "ondemand", 2),
     Both("ondemand", "disabled", 1), Both("disabled", "absent", 2)}
=============================================================================
