---------------------------- MODULE MCConnector ----------------------------
(***************************************************************************)
(* Instances of Connector for TLC.                                         *)
(***************************************************************************)
EXTENDS ConnectorMirror, TLC, FiniteSets

CONSTANTS k1, k2, d1, d2, username, t1, t2, p1, other

\* What a discovery says of the fields; the second one has another upstream type
\* and no upstream user name.
a1 == [f \in Fields |-> t1]
a2 == [f \in Fields |-> IF f = UpstreamType THEN t2 ELSE Blank]

S(k, d, a, P, pr) == [key |-> k, data |-> d, attrs |-> a, policies |-> P, private |-> pr]
At0(k, d, a, P, t) == [key |-> k, data |-> d, attrs |-> a, policies |-> P, tunnel |-> t]

ApisOf(set) == [Ids -> set \cup {None}]
CountOf(f, x) == Cardinality({i \in Ids : f[i] = x})

Theirs == At0(other, d1, a1, {}, TRUE)
Leftovers == {At0(k1, d2, a1, {}, t) : t \in BOOLEAN}

\* A socket of somebody else, and perhaps one an earlier start of this
\* connector left behind, with or without a tunnel.
TheirsAndALeftover ==
    {f \in ApisOf({Theirs} \cup Leftovers) :
        /\ CountOf(f, Theirs) = 1
        /\ Cardinality({i \in Ids : f[i] \in Leftovers}) <= 1}

Empty == {NoView}

\* The key k1 is discovered with d1, or not at all.
OneKeyWorlds == {<<>>, <<S(k1, d1, a1, {}, FALSE)>>}

\* k1 with fields, policies and a private name that change.
FieldWorlds == {<<>>, <<S(k1, d1, a1, {p1}, TRUE)>>, <<S(k1, d1, a2, {}, FALSE)>>}

\* Perhaps a socket of k1 from an earlier start, with other data and fields.
NoneOrOutdated ==
    LET outdated == At0(k1, d2, a2, {}, TRUE)
    IN  {f \in ApisOf({outdated}) : CountOf(f, outdated) <= 1}

\* k1, and k2 that comes and goes.
TwoKeyWorlds ==
    {<<S(k1, d1, a1, {}, FALSE)>>,
     <<S(k1, d1, a1, {}, FALSE), S(k2, d1, a1, {}, FALSE)>>}

\* One key, always discovered.
SteadyWorld == {<<S(k1, d1, a1, {}, FALSE)>>}

Symm == Permutations(Ids) \cup Permutations(Sessions)
=============================================================================
