------------------------------ MODULE Listings ------------------------------
(***************************************************************************)
(* Find of the plugins that list: docker.go, ec2.go, k8.go and             *)
(* static_sockets.go.  The order in which Go goes through a map shows in   *)
(* what they return.                                                       *)
(*                                                                         *)
(* A docker container is [name, nets, ports, labels]: its address in each  *)
(* network it is in (None: not running there), its TCP ports, private and  *)
(* published, and its border0 labels [name, port, group]; an EC2 instance  *)
(* [name, address, labels]; a Kubernetes service [name, namespace, group,  *)
(* ports, address]; static sockets are a list of maps from names to data.  *)
(* No name, no port: None.  The type a key starts with, and what the       *)
(* plugins copy from a label (a host, among them) or a group, are left out.*)
(***************************************************************************)
EXTENDS FindState, FiniteSetsExt

Entry(of, key, data) == [of |-> of, key |-> key, data |-> data]

\* buildSocketName: the label's name before the instance's.
NameOf(thing, label) == IF label.name # None THEN label.name ELSE thing.name

\* The labels of one of the groups of the configuration.
Labels(thing) == {l \in thing.labels : l.group \in Settings.groups}

Labelled == UNION {{t} \X Labels(t) : t \in up}

-----------------------------------------------------------------------------
(* docker.  Settings.home: the network and the gateway findNetworkID finds  *)
(* by the connector's MAC address; None on the host.                        *)

OnHost == Settings.home = None

AddressesIn(c) == {n.address : n \in c.nets} \ {None}
AddressesAtHome(c) ==
    {n.address : n \in {n \in c.nets : n.net = Settings.home.net}} \ {None}

\* Mutant: an address of any network.
ExtractIPAddressAny(c) == IF AddressesIn(c) = {} THEN {None} ELSE AddressesIn(c)

\* extractIPAddress: of several, the first one of the map.
ExtractIPAddress(c) ==
    IF AddressesIn(c) = {} THEN {None}
    ELSE IF OnHost THEN AddressesIn(c)
    ELSE IF AddressesAtHome(c) # {} THEN AddressesAtHome(c)
    ELSE {Settings.home.gateway}

\* extractPort: the first published port, "public" or "private", before the
\* first there is, private.
Published(c) == {n \in DOMAIN c.ports : c.ports[n].public # None}
PrivatePort(c) == IF c.ports = <<>> THEN None
                  ELSE c.ports[IF Published(c) = {} THEN 1 ELSE Min(Published(c))].private
PublicPort(c) == IF Published(c) = {} THEN PrivatePort(c)
                                      ELSE c.ports[Min(Published(c))].public

\* A container at the gateway's address has the first published port, whatever
\* its label says.
PortAt(c, label, address) ==
    LET said == IF ~OnHost /\ address = Settings.home.gateway THEN PublicPort(c)
                ELSE label.port
    IN  IF said = None THEN PrivatePort(c) ELSE said

\* The containers are listed; for every label one address, and one port.
FindDocker ==
    /\ find.pc = "list" /\ Plugin = "docker"
    /\ \E pick \in [Labelled -> UNION {ExtractIPAddress(c) : c \in up}] :
         /\ \A p \in Labelled : pick[p] \in ExtractIPAddress(p[1])
         /\ Found({Entry(p, NameOf(p[1], p[2]), <<pick[p], PortAt(p[1], p[2], pick[p])>>) :
                   p \in {p \in Labelled : /\ pick[p] # None
                                           /\ PortAt(p[1], p[2], pick[p]) # None}})
    /\ UNCHANGED <<scenario, up, scanVars, faults>>

\* Without a docker daemon, or the EC2 API, Find returns an error, and the
\* worker is told nothing.
ListFails ==
    /\ find.pc = "list" /\ Plugin \in {"docker", "ec2"}
    /\ Fault("list")
    /\ find' = NoFind
    /\ UNCHANGED <<scenario, up, scanVars>>

-----------------------------------------------------------------------------
(* EC2, Kubernetes, static sockets *)

FindEc2 ==
    /\ find.pc = "list" /\ Plugin = "ec2"
    /\ Found({Entry(p, NameOf(p[1], p[2]), <<p[1].address, p[2].port>>) : p \in Labelled})
    /\ UNCHANGED <<scenario, up, scanVars, faults>>

\* The services of one namespace.
InNamespace(g) == {s \in up : s.namespace = g.namespace /\ s.group = g.group}

\* A service without ports, annotated all the same, is an index out of range.
NextNamespace ==
    /\ find.pc = "next" /\ Plugin = "k8" /\ find.todo # <<>>
    /\ find' = LET listed == InNamespace(Head(find.todo))
               IN  IF \E s \in listed : s.port = None
                   THEN [NoFind EXCEPT !.pc = "crashed"]
                   ELSE [find EXCEPT !.todo = Tail(@),
                           !.got = @ \cup {Entry(s, s.name, <<s.address, s.port>>) : s \in listed}]
    /\ UNCHANGED <<scenario, up, scanVars, faults>>

\* A namespace that cannot be listed is left out.
NamespaceFails ==
    /\ find.pc = "next" /\ Plugin = "k8" /\ find.todo # <<>>
    /\ Fault("list")
    /\ find' = [find EXCEPT !.todo = Tail(@), !.clean = FALSE]
    /\ UNCHANGED <<scenario, up, scanVars>>

ReturnK8 ==
    /\ find.pc = "next" /\ Plugin = "k8" /\ find.todo = <<>>
    /\ Found(find.got)
    /\ UNCHANGED <<scenario, up, scanVars, faults>>

\* Of several names in one map the last one stays.
FindStatic ==
    /\ find.pc = "list" /\ Plugin = "static"
    /\ \E pick \in [DOMAIN Settings -> UNION {DOMAIN Settings[n] : n \in DOMAIN Settings}] :
         /\ \A n \in DOMAIN Settings : pick[n] \in DOMAIN Settings[n]
         /\ Found({Entry(n, pick[n], Settings[n][pick[n]]) : n \in DOMAIN Settings})
    /\ UNCHANGED <<scenario, up, scanVars, faults>>

ListStep == FindDocker \/ FindEc2 \/ NextNamespace \/ ReturnK8 \/ FindStatic
=============================================================================
