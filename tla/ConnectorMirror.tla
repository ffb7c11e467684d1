-------------------------- MODULE ConnectorMirror --------------------------
(***************************************************************************)
(* Connector implements Mirror: the refinement mapping.                    *)
(***************************************************************************)
EXTENDS Connector

\* Mirror cannot tell a socket from none unless its data differ from None.
ASSUME MirrorAssumption == None \notin Data

\* Two sockets of one key: a value no entry of Mirror has.
Twice == {Data}

IdsIn(a, k) == {i \in Ids : a[i] # None /\ a[i].key = k}

\* The socket the organization `a` has for a key.
EntryIn(a, k) ==
    IF IdsIn(a, k) = {} THEN None
    ELSE IF \A i, j \in IdsIn(a, k) : i = j
         THEN a[CHOOSE i \in IdsIn(a, k) : TRUE].data
    ELSE Twice

Entry == [k \in Keys |-> EntryIn(api, k)]

\* What the discovery result `s` wants for each key.
WishOf(s) ==
    [k \in Keys |->
        IF \E n \in DOMAIN s : s[n].key = k
        THEN s[CHOOSE n \in DOMAIN s :
                   /\ s[n].key = k
                   /\ \A m \in DOMAIN s : s[m].key = k => m <= n].data
        ELSE None]

\* The round is over for Mirror when only connect requests are left.
PhaseOf ==
    CASE round.pc \in {"receive", "connect"} -> "rest"
      [] \/ round.pc \in {"list", "check", "delete"}
         \/ round.pc \in {"createSocket", "createTunnel", "updatePrivate", "attach"}
            /\ round.cur # None -> "clearing"
      [] OTHER -> "adding"

Wish == IF PhaseOf = "rest" THEN [k \in Keys |-> None] ELSE WishOf(round.local)

\* The listed sockets that RecreateSocket has deleted and created anew.
Recreated == {i \in Ids : /\ round.view[i] # None
                          /\ Superseded(round.view[i])
                          /\ Discovered(round.view[i].key)
                          /\ i \notin round.unchecked
                          /\ i = round.cur => round.pc \notin {"delete", "createSocket"}}

Replaced == PhaseOf # "rest" /\ Recreated # {}

M == INSTANCE Mirror WITH
        Wishes <- {WishOf(s) : s \in Discoveries},
        entry <- Entry,
        wanted <- Wish,
        phase <- PhaseOf,
        replaced <- Replaced,
        disturbances <- faults

\* Whatever lists, ids and queues the worker works with, and whatever fails in
\* between, what it does to the API is what Mirror allows: it never adds under
\* a key that has a socket, clears only what contradicts the discovery result,
\* starts to add only when nothing contradicts it, and, as long as there has
\* been no fault at all, ends with exactly the discovered sockets, unless it
\* replaced one and then wrote to the old one's id (core.go:239-379).
ImplementsMirror == M!MirrorSpec
=============================================================================
