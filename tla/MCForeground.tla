---------------------------- MODULE MCForeground ----------------------------
(***************************************************************************)
(* An instance of Foreground for TLC.                                      *)
(***************************************************************************)
EXTENDS Foreground

Job(c, r) == [command |-> c, relay |-> r]

\* Each command, and each kind of relay.
AllJobs == {Job(c, "forward") : c \in {"connect", "socket", "tunnel"}}
           \cup {Job("visitor", r) : r \in {"forward"} \cup Shells}
           \cup {Job("tls", r) : r \in Tls}
=============================================================================
