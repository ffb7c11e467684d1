------------------------------ MODULE FindState ------------------------------
(***************************************************************************)
(* What the discovery plugins (internal/connector/discover) look at, and   *)
(* the state of one Find, which Connector takes as one step.               *)
(*                                                                         *)
(* A plugin's configuration and the services there are to discover are one *)
(* scenario, chosen at the start.  A socket it returns is an entry: what   *)
(* it was built from, the key of its ConnectorData, the rest of it.        *)
(***************************************************************************)
EXTENDS PartFaults, Sequences, FiniteSets

CONSTANTS
    Scenarios,   \* [plugin, services, worlds, settings]: what there may be, what of
                 \* it is up at first, what is configured
    Bits,        \* of an IPv4 address: 32
    Workers      \* goroutines of a network scan: 200

Plugins == {"network", "docker", "ec2", "k8", "static"}

VARIABLES
    scenario,  \* the plugin and its configuration
    up,        \* the services that are there now
    find,      \* Find's local variables
    jobs,      \* network scan: what the dispatcher has left to send
    worker,    \* the goroutines,
    slice,     \* `sockets`: pointer, length and capacity,
    heap       \* the arrays it has pointed to

scanVars == <<jobs, worker, slice, heap>>
findVars == <<scenario, up, find, scanVars>>

\* "next": between two networks, or two namespaces; "list": at the one call
\* that lists everything; "stuck" and "crashed": for good.
FindPC == {"rest", "next", "list", "scan", "found", "stuck", "crashed"}

\* Between two Finds.
NoFind == [pc |-> "rest", todo |-> <<>>, got |-> {}, clean |-> TRUE]

Plugin == scenario.plugin
Settings == scenario.settings

\* Find has what it returns.
Found(got) ==
    find' = [find EXCEPT !.pc = "found", !.got = got]

\* DiscoverNewSocketChanges calls Find.
Begin ==
    /\ find.pc = "rest"
    /\ find' = [find EXCEPT !.pc = IF Plugin \in {"network", "k8"} THEN "next"
                                                                   ELSE "list",
                            !.todo = IF Plugin \in {"network", "k8"} THEN Settings
                                                                     ELSE <<>>]
    /\ UNCHANGED <<scenario, up, scanVars, faults>>

\* ... and has its result: the next Find is 10 or 30 s away.
Deliver ==
    /\ find.pc = "found"
    /\ find' = NoFind
    /\ UNCHANGED <<scenario, up, scanVars, faults>>

\* A service comes or goes.
WorldChanges ==
    /\ Fault("world")
    /\ \E s \in scenario.services : up' \in {up \cup {s}, up \ {s}} \ {up}
    /\ find' = [find EXCEPT !.clean = find.pc = "rest"]
    /\ UNCHANGED <<scenario, scanVars>>
=============================================================================
