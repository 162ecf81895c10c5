--------------------------- MODULE MCIdentitySync ---------------------------
(* Two managed users.  The plans make a an administrator, hand the role over  *)
(* to b, and do so by leaving a out; the first comes with either password.    *)
EXTENDS IdentitySync

Wants(active, admin, password) ==
    [active |-> active, admin |-> admin, password |-> password]

Promote(password) ==
    [accounts |-> [u \in {"a"} |-> Wants(TRUE, TRUE, password)], deactivate |-> FALSE]

MCPlans == {
    Promote("x"), Promote("y"),
    [accounts |-> [u \in {"a", "b"} |-> Wants(TRUE, u = "b", "unset")],
     deactivate |-> FALSE],
    [accounts |-> [u \in {"b"} |-> Wants(TRUE, TRUE, "unset")], deactivate |-> TRUE],
    [accounts |-> [u \in {"a"} |-> Wants(FALSE, FALSE, "unset")], deactivate |-> FALSE]}
=============================================================================
