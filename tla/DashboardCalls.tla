----------------------------- MODULE DashboardCalls -----------------------------
(***************************************************************************)
(* The HTTP calls of the administrator's dashboard, as its parts see them. *)
(***************************************************************************)
CONSTANTS
    CallFaults,     \* whether calls time out, get lost, or meet a failing server
    Elsewhere,      \* whether other administrators are at work
    None

Statuses == {"pending", "ok", "error"}

Waiting(call) == call # None /\ call.status = "pending"

\* A call is answered, or given up: after 15 seconds, or because the connection broke;
\* what it asked for may then be done later, or have been done.
Over(call, ok) ==
    /\ call # None
    /\ \/ call.status # "pending" /\ ok = (call.status = "ok")
       \/ CallFaults /\ ~ok

=============================================================================
