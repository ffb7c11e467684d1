---------------------------- MODULE ConnectorInv ----------------------------
(***************************************************************************)
(* The inductive invariants behind the safety properties of Connector, and *)
(* the hypotheses on the constants some of them need.  ConnectorProofs     *)
(* proves them; the runs check them on small instances first.              *)
(***************************************************************************)
EXTENDS Connector

CreatingPC == {"createSocket", "createTunnel", "updatePrivate", "attach"}
MadePC == CreatingPC \ {"createSocket"}

Free(k) == \A i \in Ids : Exists(i) => api[i].key # k

-----------------------------------------------------------------------------
(* The shape of a round: which of its variables are set where. *)

MadeIsSet == round.pc \in MadePC => round.made \in Ids

CurrentIsListed ==
    /\ round.pc = "delete" => round.cur # None
    /\ round.cur # None =>
         /\ round.pc \in {"delete"} \cup CreatingPC
         /\ round.view[round.cur] # None
         /\ round.view[round.cur].key \in Keys
         /\ round.pc # "delete" => Discovered(round.view[round.cur].key)

TodoIsLeft ==
    /\ round.pc \in CreatingPC /\ round.cur = None => round.todo # <<>>
    /\ round.pc = "update" => /\ round.todo # <<>>
                              /\ round.apiOf[Head(round.todo).key] # None

UncheckedAreListed ==
    \A i \in round.unchecked : /\ round.view[i] # None
                               /\ round.view[i].key \in Keys

UncheckedIsOver ==
    /\ round.unchecked # {} => round.pc \in {"check", "delete"} \cup CreatingPC
    /\ round.pc \in CreatingPC /\ round.cur = None => round.unchecked = {}

Shape == /\ MadeIsSet /\ CurrentIsListed /\ TodoIsLeft
         /\ UncheckedAreListed /\ UncheckedIsOver

TypeInv == TypeOK /\ Shape /\ TrackedUnderOwnKey

-----------------------------------------------------------------------------
(* What the listing still says about the API. *)

ListedKeysStand ==
    \A i \in Ids : Exists(i) /\ round.view[i] # None =>
                       api[i].key = round.view[i].key

MapNamesListed ==
    \A k \in Keys : round.apiOf[k] # None =>
        /\ round.view[round.apiOf[k]] # None
        /\ round.view[round.apiOf[k]].key = k

MadeIsOurs ==
    round.pc \in MadePC /\ Exists(round.made) =>
        /\ api[round.made].key = Wanted.key
        /\ api[round.made].data = Wanted.data

ToRemoveIsSuperseded ==
    /\ \A i \in round.unchecked : Exists(i) => Superseded(api[i])
    /\ round.pc = "delete" /\ Exists(round.cur) => Superseded(api[round.cur])

ListingInv == /\ ListedKeysStand /\ MapNamesListed
              /\ MadeIsOurs /\ ToRemoveIsSuperseded

-----------------------------------------------------------------------------
(* Requests and tunnels name sockets of their own key. *)

TargetsKeepTheirKey ==
    \A n \in DOMAIN round.toConnect :
        Exists(round.toConnect[n].id) =>
            api[round.toConnect[n].id].key = round.toConnect[n].key

ServingInv == TargetsKeepTheirKey /\ TunnelsServeTheirKey

-----------------------------------------------------------------------------
(* The two hypotheses: no discovery result has two sockets with one key, and *)
(* no two sockets of one key are left from before.                           *)

Distinct(s) == \A m, n \in DOMAIN s : s[m].key = s[n].key => m = n

DistinctDiscoveries == \A s \in Discoveries : Distinct(s)

UniqueAtFirst ==
    \A a \in InitialApis : \A i, j \in Ids :
        /\ a[i] # None /\ a[j] # None /\ i # j
        => ~(a[i].key = a[j].key /\ a[i].key \in Keys)

RoundIsDistinct ==
    /\ Distinct(round.local)
    /\ Distinct(round.todo)
    /\ \A n \in DOMAIN round.todo :
         \E m \in DOMAIN round.local : round.local[m] = round.todo[n]

\* Every superseded socket is still to be removed; none is when the delete
\* loop is over.
SupersededIsUnchecked ==
    round.pc \notin {"receive", "list"} =>
        \A i \in Ids :
            Exists(i) /\ Superseded(api[i]) =>
                i \in round.unchecked \/ (round.pc = "delete" /\ i = round.cur)

StaleInv == RoundIsDistinct /\ SupersededIsUnchecked

-----------------------------------------------------------------------------
(* A key the worker is about to create is free. *)

Deleting == \/ round.pc \in {"check", "delete"}
            \/ round.pc \in CreatingPC /\ round.cur # None

RecreatedIsMapped ==
    /\ \A i \in round.unchecked : round.apiOf[round.view[i].key] # None
    /\ round.cur # None => round.apiOf[round.view[round.cur].key] # None

UnmappedIsFree == Deleting => \A k \in Keys : round.apiOf[k] = None => Free(k)

RecreatedIsFree ==
    round.pc = "createSocket" /\ round.cur # None => Free(round.view[round.cur].key)

TodoIsFree ==
    \A n \in DOMAIN round.todo :
        \/ n = 1 /\ round.pc \in MadePC
        \/ round.apiOf[round.todo[n].key] = None /\ round.pc \notin {"receive", "connect"}
             => Free(round.todo[n].key)

CreateIsUnmapped ==
    round.pc = "createSocket" /\ round.cur = None =>
        round.apiOf[Head(round.todo).key] = None

TodoIsLater == Deleting \/ round.pc \in {"receive", "list"} => round.todo = <<>>

UniqueInv == /\ OneSocketPerKey /\ RecreatedIsMapped /\ UnmappedIsFree
             /\ RecreatedIsFree /\ TodoIsFree /\ CreateIsUnmapped /\ TodoIsLater
-----------------------------------------------------------------------------
(* What holds as long as nothing failed and nobody interfered: the calls of  *)
(* a round find the sockets they name, but for those it has recreated, and   *)
(* every discovered key has its socket or is still to get it.                *)

UncheckedAreSuperseded ==
    /\ \A i \in round.unchecked : Superseded(round.view[i])
    /\ round.cur # None =>
         Superseded(round.view[round.cur]) /\ round.cur \notin round.unchecked

ListedStand ==
    \A i \in Ids :
        round.view[i] # None /\ ~Exists(i) =>
            /\ Superseded(round.view[i])
            /\ i \notin round.unchecked
            /\ i = round.cur => round.pc # "delete"

MadeStands == round.pc \in MadePC => Exists(round.made)

DiscoveredIsHeld ==
    round.pc \notin {"receive", "list", "connect"} =>
        \A n \in DOMAIN round.local :
            LET k == round.local[n].key
            IN  \/ ~Free(k)
                \/ /\ round.pc = "createSocket" /\ round.cur # None
                   /\ round.view[round.cur].key = k
                \/ /\ round.apiOf[k] = None
                   /\ Deleting \/ \E m \in DOMAIN round.todo : round.todo[m].key = k

NotYetListed == round.pc = "list" => round.view = NoView

UndisturbedInv ==
    /\ UncheckedAreSuperseded /\ NotYetListed
    /\ faults = 0 => ListedStand /\ MadeStands /\ DiscoveredIsHeld
=============================================================================
