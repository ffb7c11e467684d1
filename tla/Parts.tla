------------------------------- MODULE Parts -------------------------------
(***************************************************************************)
(* What Connector takes as one step, each by itself: a Find of a discovery *)
(* plugin, one after another, and ApplyPolicies beside the users' policy   *)
(* commands.  They share nothing but the round that calls them.            *)
(***************************************************************************)
EXTENDS NetworkScan, Listings, Policies

CONSTANT Starts   \* what policies there are at first: [exist, attached]

ASSUME PartsAssumption ==
    /\ Bits \in Nat \ {0}
    /\ MaxFaults \in Nat /\ MaxId \in Nat \ {0}
    /\ \A s \in Scenarios : s.plugin \in Plugins
    /\ Wishes \subseteq Seq(Names)
    /\ \A s \in Starts : s.exist \subseteq Names /\ s.attached \subseteq s.exist
    /\ None \notin Names \cup Ids \cup Document \cup [id : Ids, text : Document]
                    \cup Seq(Document)

\* Subnets are IPv4, a docker gateway is no container's address, and what lists
\* may be read to its end.
ASSUME ScenariosAssumption ==
    \A s \in Scenarios :
        /\ s.worlds \subseteq SUBSET s.services
        /\ s.plugin = "network" =>
              s.settings \in Seq(Seq([base : 0..Top, length : 0..Bits]))
        /\ s.plugin = "docker" =>
              \A c \in s.services :
                  /\ IsFiniteSet(c.nets) /\ c.ports \in Seq(ToSet(c.ports))
                  /\ \A n \in DOMAIN c.ports : c.ports[n].private # None
                  /\ s.settings.home # None =>
                        s.settings.home.gateway \notin AddressesIn(c) \cup {None}
        /\ s.plugin = "k8" => s.settings \in Seq(ToSet(s.settings))
        /\ s.plugin = "static" =>
              \A n \in DOMAIN s.settings : IsFiniteSet(DOMAIN s.settings[n])

VARIABLE part   \* "find" or "policies"

vars == <<part, findVars, policyVars, faults>>

InitFind ==
    /\ scenario \in Scenarios
    /\ up \in scenario.worlds
    /\ wish = <<>> /\ attached = {}
    /\ policy = [n \in Names |-> None]

InitPolicies ==
    /\ scenario = None /\ up = {}
    /\ wish \in Wishes
    /\ \E s \in Starts :
         /\ policy = [n \in Names |-> IF n \in s.exist
                                      THEN [id |-> <<n, 1>>, text |-> Original(n)]
                                      ELSE None]
         /\ attached = {<<n, 1>> : n \in s.attached}

Init ==
    /\ \/ part = "find" /\ InitFind
       \/ part = "policies" /\ InitPolicies
    /\ find = NoFind
    /\ jobs = {} /\ worker = [w \in Workers |-> Off]
    /\ slice = NilSlice /\ heap = <<>>
    /\ manager = NoManager
    /\ file = [n \in Names |-> None]
    /\ cmd = [u \in Users |-> NoCommand]
    /\ faults = 0

FindGoes == Begin \/ Deliver \/ ScanStep \/ ListStep

FindNext == FindGoes \/ ListFails \/ NamespaceFails \/ WorldChanges

PoliciesNext == ManagerStep \/ \E u \in Users : CmdStep(u)

Next ==
    \/ part = "find" /\ FindNext /\ UNCHANGED <<part, policyVars>>
    \/ part = "policies" /\ PoliciesNext /\ UNCHANGED <<part, findVars>>

\* The goroutines of a Find run, and rounds go on; nobody need run a command.
Fairness ==
    /\ WF_vars(part = "find" /\ FindGoes /\ UNCHANGED <<part, policyVars>>)
    /\ WF_vars(part = "policies" /\ ManagerStep /\ UNCHANGED <<part, findVars>>)

Spec == Init /\ [][Next]_vars /\ Fairness

-----------------------------------------------------------------------------
TypeOK ==
    /\ part \in {"find", "policies"}
    /\ scenario \in Scenarios \cup {None}
    /\ find.pc \in FindPC /\ find.clean \in BOOLEAN
    /\ worker \in [Workers -> [pc : WorkerPC, job : 0..Top \cup {None},
                               mine : [array : Nat, len : Nat, cap : Nat]]]
    /\ jobs \subseteq Nat \X (0..Top)
    /\ slice.array \in 0..Len(heap)
    /\ attached \subseteq {i \in Ids : Live(i)}
    /\ manager \in Manager
    /\ cmd \in [Users -> Command]
    /\ file \in [Names -> Seq(Document) \cup {None}]
    /\ faults \in 0..MaxFaults

-----------------------------------------------------------------------------
(* What there is to discover *)

Offer(key, data) == [key |-> key, data |-> data]

Scanned == {net : net \in UNION {ToSet(Settings[n]) : n \in DOMAIN Settings}}

\* A container is reached in the connector's network, or from the host, at its
\* own address and port; in another network at the gateway, by what it publishes.
Near(c) == IF OnHost THEN AddressesIn(c) ELSE AddressesAtHome(c)
Inside(c, label) ==
    <<CHOOSE a \in Near(c) : TRUE, IF label.port = None THEN c.ports[1].private
                                   ELSE label.port>>

Offers ==
    CASE Plugin = "network" ->
             {Offer(a, a) : a \in up \cap UNION {Hosts(net) : net \in Scanned}}
      [] Plugin = "docker" ->
             {Offer(NameOf(p[1], p[2]),
                    IF Near(p[1]) # {} THEN Inside(p[1], p[2])
                    ELSE <<Settings.home.gateway, p[1].ports[1].public>>) :
                p \in {p \in Labelled : AddressesIn(p[1]) # {}}}
      [] Plugin = "ec2" ->
             {Offer(NameOf(p[1], p[2]), <<p[1].address, p[2].port>>) : p \in Labelled}
      [] Plugin = "k8" ->
             {Offer(s.name, <<s.address, s.port>>) :
                s \in UNION {InNamespace(Settings[n]) : n \in DOMAIN Settings}}
      [] Plugin = "static" ->
             UNION {{Offer(k, Settings[n][k]) : k \in DOMAIN Settings[n]} :
                       n \in DOMAIN Settings}

\* What the plugins cannot tell apart, or reach: one address in two networks,
\* a container with two addresses, or not with one port though its label has
\* none or it is elsewhere; names that are not unique; two names in one map, or none.
Ambiguous ==
    CASE Plugin = "network" ->
             \E m, n \in DOMAIN Settings : m # n /\
                 \E s \in ToSet(Settings[m]), t \in ToSet(Settings[n]) :
                     Hosts(s) \cap Hosts(t) # {}
      [] Plugin = "docker" ->
             \/ \E p, q \in Labelled : p # q /\ NameOf(p[1], p[2]) = NameOf(q[1], q[2])
             \/ \E c \in up :
                  \/ Cardinality(Near(c)) > 1
                  \/ Len(c.ports) # 1 /\ \E l \in Labels(c) : Near(c) = {} \/ l.port = None
                  \/ Near(c) = {} /\ Published(c) = {}
      [] Plugin = "ec2" ->
             \E p, q \in Labelled : p # q /\ NameOf(p[1], p[2]) = NameOf(q[1], q[2])
      [] Plugin = "k8" ->
             \E s, t \in up : s # t /\ s.name = t.name
      [] Plugin = "static" ->
             \/ \E n \in DOMAIN Settings : Cardinality(DOMAIN Settings[n]) # 1
             \/ \E m, n \in DOMAIN Settings :
                  m # n /\ DOMAIN Settings[m] \cap DOMAIN Settings[n] # {}

\* What a Find returns that nothing disturbed (no dial that failed, no two
\* appends at once, no namespace that could not be listed) is exactly what there
\* is to discover, each once: what is missing the worker deletes, and one that
\* is there twice it creates twice (networkscan.go:60-126, docker.go:60-125).
FindExact ==
    part = "find" /\ find.pc = "found" /\ find.clean /\ ~Ambiguous =>
        /\ {Offer(e.key, e.data) : e \in find.got} = Offers
        /\ \A e, f \in find.got : e.key = f.key => e = f

\* Whatever comes, goes or fails, Find returns, except for a subnet that ends
\* with the last address there is and for what crashes it: the dispatcher, the
\* workers and wg.Wait never wait for each other (networkscan.go:70-126).
FindReturns ==
    part = "find" => \/ []<>(find.pc = "rest")
                     \/ <>(find.pc \in {"stuck", "crashed"})

-----------------------------------------------------------------------------
\* As long as nobody else touches it, the socket's policies are after each call
\* of ApplyPolicies what Reconcile takes the whole of it to leave
\* (policy_manager.go:24-69).
OutcomesHold ==
    manager.alone /\ manager.pc \in {"detach", "rest"} =>
        NamesOf(attached) \in PolicyOutcomes(manager.held, NamesOf(manager.listed),
                                             ToSet(wish))

\* ApplyPolicies takes a socket's last policy only after a policy it wants could
\* not be looked up: a socket that is between two policies has both, never none
\* (policy_manager.go:46-66).
NeverBare ==
    [][ManagerStep /\ attached # {} /\ attached' = {}
       => manager.missed \/ ~manager.alone]_vars

\* Whatever fails and whatever users do, a socket for which policies are
\* configured comes to have those that exist, and no others.  Without any
\* configured, ApplyPolicies leaves it as it is (policy_manager.go:25-27).
PoliciesConverge ==
    <>[](wish # <<>> => NamesOf(attached) = {n \in ToSet(wish) : Named(n)})

\* A command that had its temporary file to itself sends one document, its
\* user's edit of what it put there, whatever earlier commands, which may have
\* been killed, left in that file (policy.go:292-349, 395-449).
UndisturbedEdit ==
    \A u \in Users : cmd[u].temp /\ cmd[u].mine /\ cmd[u].pc = "send" =>
        cmd[u].text \in {<<cmd[u].seen>>, <<[by |-> u, of |-> cmd[u].name]>>}
=============================================================================
