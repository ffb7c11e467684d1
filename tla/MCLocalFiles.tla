---------------------------- MODULE MCLocalFiles ----------------------------
(***************************************************************************)
(* Instances of LocalFiles for TLC: which commands run together.           *)
(***************************************************************************)
EXTENDS LocalFiles, TLC

CONSTANTS p1, p2, o1, o2

P(cmd, org) == [cmd |-> cmd, org |-> org, env |-> None, host |-> TRUE,
                auth |-> FALSE, mfa |-> FALSE, again |-> FALSE]
Again(pl) == [pl EXCEPT !.again = TRUE]
Env(pl, o) == [pl EXCEPT !.env = [of |-> o, live |-> TRUE]]
Old(pl, o) == [pl EXCEPT !.env = [of |-> o, live |-> FALSE]]
Mfa(pl) == [pl EXCEPT !.mfa = TRUE]
Pick(pl) == [pl EXCEPT !.host = FALSE]
Auth(pl) == [pl EXCEPT !.auth = TRUE]

Both(a, b) == (p1 :> Again(a)) @@ (p2 :> b)
Once(a, b) == (p1 :> a) @@ (p2 :> b)

\* One command, repeated or not, beside another one.
TwoCommands ==
    {Both(P("ssh", o1), P("keysign", o1)),
     Both(Env(P("tls", o1), o1), Pick(P("tls", o2))),
     Both(P("mysql", o1), P("fetch", o1)),
     Both(Env(P("mysql", o1), o1), P("tls", o2)),
     Both(Env(P("workbench", o1), o1), P("fetch", o2)),
     Both(P("refresh", o1), Old(P("keysign", o1), o1)),
     Once(Pick(P("db", o1)), P("login", o2)),
     Once(P("psql", o1), Auth(P("pgcli", o1))),
     Once(P("workbench", o1), P("workbench", o2)),
     Once(Auth(P("dbeaver", o1)), P("dbeaver", o1)),
     Both(P("mycli", o1), P("login", o2)),
     Both(P("refresh", o1), Mfa(P("signIn", o2))),
     Both(P("refresh", o1), P("device", o2)),
     Both(P("refresh", o1), P("switchOrg", o2)),
     Both(Env(P("refresh", o1), o2), P("refresh", o1))}

\* psql alone.
PsqlAlone == {[p \in {p1} |-> P("psql", o1)]}

\* Nobody has logged in as a client; the API commands have a token.
ApiOnly == {[t \in TokenFiles |-> IF t = "api" THEN [of |-> o1, live |-> TRUE] ELSE None]}
=============================================================================
