------------------------------ MODULE MCParts ------------------------------
(***************************************************************************)
(* An instance of Parts for TLC.                                           *)
(***************************************************************************)
EXTENDS Parts

CONSTANTS n1, n2, ours, theirs, home, away, inHome, inAway, gateway, a, b, g

Net(base, length) == [base |-> base, length |-> length]
Scenario(plugin, services, settings) ==
    [plugin |-> plugin, services |-> services, settings |-> settings,
     worlds |-> IF plugin = "network" THEN {services} ELSE SUBSET services]

\* Three-bit addresses: overlapping subnets, two networks, a /31 and a /32, and
\* the last address.
Scans ==
    {Scenario("network", {1, 2, 3, 5, 6},
              <<<<Net(1, 3)>>, <<Net(2, 3), Net(3, 3), Net(4, 1), Net(5, 3)>>>>),
     Scenario("network", {1, 3}, <<<<Net(2, 2)>>, <<Net(1, 3), Net(0, 1)>>>>),
     Scenario("network", {5, 6}, <<<<Net(4, 1)>>, <<Net(5, 3)>>>>),
     Scenario("network", {7}, <<<<Net(7, 3)>>>>)}

Label(name, port, group) == [name |-> name, port |-> port, group |-> group]
In(net, address) == [net |-> net, address |-> address]
Port(private, public) == [private |-> private, public |-> public]
Container(name, nets, ports, labels) ==
    [name |-> name, nets |-> nets, ports |-> ports, labels |-> labels]

Containers ==
    {Container(a, {In(home, inHome), In(away, inAway)}, <<Port(80, None)>>,
               {Label(None, None, ours), Label(b, 81, ours)}),
     Container(b, {In(away, inAway)}, <<Port(80, 8080)>>, {Label(None, 80, ours)}),
     Container(g, {In(home, None), In(away, inAway)}, <<Port(22, None), Port(80, 8081)>>,
               {Label(None, 22, ours), Label(None, None, theirs)}),
     Container(n1, {In(home, None)}, <<Port(22, None)>>, {Label(None, None, ours)})}

Dockers ==
    {Scenario("docker", Containers, [groups |-> {ours}, home |-> h]) :
        h \in {None, [net |-> home, gateway |-> gateway]}}

Instance(name, address, labels) == [name |-> name, address |-> address, labels |-> labels]
Ec2s ==
    {Scenario("ec2", {Instance(a, inHome, {Label(None, 22, ours), Label(b, 80, ours)}),
                      Instance(b, inAway, {Label(None, 22, ours), Label(g, 80, theirs)})},
              [groups |-> {ours}])}

Service(name, namespace, group, port) ==
    [name |-> name, namespace |-> namespace, group |-> group, port |-> port,
     address |-> <<name, namespace>>]
Group(namespace, group) == [namespace |-> namespace, group |-> group]
K8s ==
    {Scenario("k8", {Service(a, home, ours, 80), Service(a, away, ours, 80),
                     Service(b, away, ours, 80), Service(b, home, theirs, 80),
                     Service(g, home, ours, None)},
              <<Group(home, ours), Group(away, ours)>>)}

Statics ==
    {Scenario("static", {}, <<(a :> 22), (b :> 80)>>),
     Scenario("static", {}, <<(a :> 22 @@ g :> 80), (b :> 80)>>),
     Scenario("static", {}, <<(a :> 22), (a :> 80)>>)}

AllScenarios == Scans \cup Dockers \cup Ec2s \cup K8s \cup Statics

AllWishes == {<<n1>>, <<n1, n2>>}
AllStarts == {[exist |-> {n1, n2}, attached |-> {n2}], [exist |-> {n2}, attached |-> {}]}
=============================================================================
