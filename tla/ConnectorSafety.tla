-------------------------- MODULE ConnectorSafety --------------------------
(***************************************************************************)
(* Proofs of the safety properties of Connector beyond its types: what a   *)
(* listing and the ids taken from it still say when they are used, whose   *)
(* sockets a round removes, that no stale one survives it and that no key  *)
(* gets two.  Each invariant rests on those before it.                     *)
(***************************************************************************)
EXTENDS ConnectorProofs

-----------------------------------------------------------------------------
(* What one step does to a socket *)

\* A socket that exists after a step was there before it and has kept its
\* key; or CreateSocket has just created it under an id nothing refers to.
SameSocket(i) == Exists(i) /\ api'[i].key = api[i].key

NewSocket(i) == /\ CreateSocket /\ Fresh(i)
                /\ api'[i].key = Wanted.key
                /\ api'[i].data = Wanted.data

SocketsStand == \A i \in Ids : api'[i] # None => SameSocket(i) \/ NewSocket(i)

\* Its data change by UpdateSocket only, to those of the local socket.
DataStand ==
    \A i \in Ids : Exists(i) /\ api'[i] # None =>
        \/ api'[i].data = api[i].data
        \/ /\ UpdateSocket /\ i = round.apiOf[Head(round.todo).key]
           /\ api'[i].data = Head(round.todo).data

\* A change of one field leaves the other sockets, and this one's key and data.
LEMMA FieldChange ==
    ASSUME api \in ApiState, NEW j \in Ids, Exists(j),
           \/ \E t \in BOOLEAN : api' = [api EXCEPT ![j].tunnel = t]
           \/ \E p \in SUBSET Policies : api' = [api EXCEPT ![j].policies = p]
           \/ \E a \in Attrs : api' = [api EXCEPT ![j].attrs = a]
    PROVE  /\ \A i \in Ids \ {j} : api'[i] = api[i]
           /\ api'[j] # None /\ api'[j].key = api[j].key /\ api'[j].data = api[j].data
<1>1. api[j] \in ApiSocket
  BY DEF ApiState, Exists
<1>2. api'[j] \in ApiSocket /\ api'[j].key = api[j].key /\ api'[j].data = api[j].data
  BY <1>1 DEF ApiState, ApiSocket
<1> QED
  BY <1>2, ConstantsAssumption DEF ApiState

LEMMA FieldEffect ==
    ASSUME NEW j \in Ids, Exists(j), \A i \in Ids \ {j} : api'[i] = api[i],
           api'[j].key = api[j].key, api'[j].data = api[j].data
    PROVE  SocketsStand /\ DataStand
BY DEF SocketsStand, SameSocket, DataStand, Exists

LEMMA Unchanged ==
    ASSUME api' = api
    PROVE  SocketsStand /\ DataStand
BY DEF SocketsStand, SameSocket, DataStand, Exists

LEMMA CreateSocketEffect ==
    ASSUME TypeInv, CreateSocket
    PROVE  SocketsStand /\ DataStand
<1> DEFINE new == [key |-> Wanted.key, data |-> Wanted.data, attrs |-> Wanted.attrs,
                   policies |-> {}, tunnel |-> FALSE]
<1>1. PICK i \in Ids :
        /\ Fresh(i)
        /\ Call([api EXCEPT ![i] = new], [round EXCEPT !.pc = "createTunnel", !.made = i])
  BY DEF CreateSocket
<1>2. new.key = Wanted.key /\ new.data = Wanted.data
  OBVIOUS
<1> HIDE DEF new
<1>3. api' = api \/ api' = [api EXCEPT ![i] = new]
  BY <1>1, CallOutcomes DEF TypeInv
<1>4. CASE api' = [api EXCEPT ![i] = new]
  BY <1>1, <1>2, <1>4 DEF TypeInv, TypeOK, ApiState, SocketsStand, SameSocket, NewSocket, DataStand,
                          Exists, Fresh
<1> QED
  BY <1>3, <1>4, Unchanged

\* It changes one id, and the worker goes on with it or gives up.
LEMMA CreateSocketMoves ==
    ASSUME TypeInv, CreateSocket
    PROVE  \E i \in Ids : /\ ~Exists(i)
                          /\ \A j \in Ids \ {i} : api'[j] = api[j]
                          /\ round' \in {[round EXCEPT !.pc = "createTunnel", !.made = i], Idle}
<1> DEFINE new == [key |-> Wanted.key, data |-> Wanted.data, attrs |-> Wanted.attrs,
                   policies |-> {}, tunnel |-> FALSE]
<1>1. PICK i \in Ids :
        /\ Fresh(i)
        /\ Call([api EXCEPT ![i] = new], [round EXCEPT !.pc = "createTunnel", !.made = i])
  BY DEF CreateSocket
<1> HIDE DEF new
<1>2. /\ api' = api \/ api' = [api EXCEPT ![i] = new]
      /\ round' \in {[round EXCEPT !.pc = "createTunnel", !.made = i], Idle}
  BY <1>1, CallOutcomes DEF TypeInv
<1>3. \A j \in Ids \ {i} : api'[j] = api[j]
  BY <1>2 DEF TypeInv, TypeOK, ApiState
<1> QED
  BY <1>1, <1>2, <1>3 DEF Fresh

LEMMA DeleteSocketEffect ==
    ASSUME TypeInv, DeleteSocket
    PROVE  /\ api' = api \/ api' = [api EXCEPT ![round.cur] = None]
           /\ SocketsStand /\ DataStand
<1>1. api' = api \/ api' = [api EXCEPT ![round.cur] = None]
  BY CallOutcomes DEF DeleteSocket, NotFound, TypeInv
<1>2. CASE api' = [api EXCEPT ![round.cur] = None]
  BY <1>2 DEF TypeInv, TypeOK, ApiState, SocketsStand, SameSocket, DataStand, Exists
<1> QED
  BY <1>1, <1>2, Unchanged

\* The steps that finish the socket just created touch no other.
LEMMA SetupEffect ==
    ASSUME TypeInv, CreateTunnel \/ UpdatePrivate \/ AttachPolicies
    PROVE  /\ round.made \in Ids
           /\ \A i \in Ids : i # round.made \/ ~Exists(i) => api'[i] = api[i]
           /\ Exists(round.made) => api'[round.made] # None
           /\ SocketsStand /\ DataStand
<1>1. round.made \in Ids
  BY DEF CreateTunnel, UpdatePrivate, AttachPolicies, MadePC, CreatingPC, TypeInv, Shape, MadeIsSet
<1>2. \/ api' = api
      \/ /\ Exists(round.made)
         /\ \/ \E t \in BOOLEAN : api' = [api EXCEPT ![round.made].tunnel = t]
            \/ \E a \in Attrs : api' = [api EXCEPT ![round.made].attrs = a]
            \/ \E p \in SUBSET Policies : api' = [api EXCEPT ![round.made].policies = p]
  <2>1. CASE CreateTunnel
    BY <2>1, CallOutcomes DEF CreateTunnel, NotFound, TypeInv
  <2>2. CASE UpdatePrivate
    BY <2>2, UpdatePrivateOutcomes
  <2>3. CASE AttachPolicies
    BY <2>3, AttachPoliciesApi
  <2> QED
    BY <2>1, <2>2, <2>3
<1>3. CASE api' = api
  BY <1>1, <1>3, Unchanged DEF Exists
<1>4. CASE /\ Exists(round.made)
           /\ \/ \E t \in BOOLEAN : api' = [api EXCEPT ![round.made].tunnel = t]
              \/ \E a \in Attrs : api' = [api EXCEPT ![round.made].attrs = a]
              \/ \E p \in SUBSET Policies : api' = [api EXCEPT ![round.made].policies = p]
  <2>1. /\ \A i \in Ids \ {round.made} : api'[i] = api[i]
        /\ api'[round.made] # None /\ api'[round.made].key = api[round.made].key
        /\ api'[round.made].data = api[round.made].data
    BY <1>1, <1>4, FieldChange DEF TypeInv, TypeOK
  <2> QED
    BY <1>1, <1>4, <2>1, FieldEffect
<1> QED
  BY <1>2, <1>3, <1>4

\* So do the steps that bring a listed socket up to date.
LEMMA UpdateEffect ==
    ASSUME TypeInv, ApplyPolicies \/ UpdateSocket
    PROVE  /\ round.apiOf[Head(round.todo).key] \in Ids
           /\ \A i \in Ids : i # round.apiOf[Head(round.todo).key] \/ ~Exists(i) => api'[i] = api[i]
           /\ Exists(round.apiOf[Head(round.todo).key]) =>
                  api'[round.apiOf[Head(round.todo).key]] # None
           /\ SocketsStand /\ DataStand
<1> DEFINE j == round.apiOf[Head(round.todo).key]
<1>1. j \in Ids
  BY ApplyPoliciesApi, UpdateSocketApi
<1>2. CASE api' = api
  BY <1>1, <1>2, Unchanged DEF Exists
<1>3. CASE Exists(j) /\ \E p \in SUBSET Policies : api' = [api EXCEPT ![j].policies = p]
  <2>1. /\ \A i \in Ids \ {j} : api'[i] = api[i]
        /\ api'[j] # None /\ api'[j].key = api[j].key /\ api'[j].data = api[j].data
    BY <1>1, <1>3, FieldChange DEF TypeInv, TypeOK
  <2>2. SocketsStand /\ DataStand
    BY <1>1, <1>3, <2>1, FieldEffect
  <2> QED
    BY <1>1, <1>3, <2>1, <2>2
<1>4. ASSUME UpdateSocket, Exists(j), NEW a \in Attrs,
             api' = [api EXCEPT ![j].attrs = a, ![j].data = Head(round.todo).data]
      PROVE  /\ \A i \in Ids \ {j} : api'[i] = api[i]
             /\ api'[j] # None /\ SocketsStand /\ DataStand
  <2>1. Head(round.todo) \in LocalSocket
    BY <1>4, UpdateSocketApi
  <2>2. api[j] \in ApiSocket
    BY <1>1, <1>4 DEF TypeInv, TypeOK, ApiState, Exists
  <2>3. /\ api'[j] \in ApiSocket /\ api'[j].key = api[j].key
        /\ api'[j].data = Head(round.todo).data
        /\ \A i \in Ids \ {j} : api'[i] = api[i]
    BY <1>1, <1>4, <2>1, <2>2 DEF TypeInv, TypeOK, ApiState, ApiSocket, LocalSocket
  <2>4. api'[j] # None
    BY <2>3, ConstantsAssumption
  <2>5. SocketsStand
    BY <1>1, <1>4, <2>3 DEF SocketsStand, SameSocket, Exists
  <2>6. DataStand
    BY <1>1, <1>4, <2>3 DEF DataStand
  <2> QED
    BY <2>3, <2>4, <2>5, <2>6
<1>5. CASE ApplyPolicies
  BY <1>2, <1>3, <1>5, ApplyPoliciesApi
<1>6. CASE UpdateSocket
  <2>1. CASE Exists(j) /\ \E a \in Attrs :
               api' = [api EXCEPT ![j].attrs = a, ![j].data = Head(round.todo).data]
    <3>1. PICK a \in Attrs :
               api' = [api EXCEPT ![j].attrs = a, ![j].data = Head(round.todo).data]
      BY <2>1
    <3>2. /\ \A i \in Ids \ {j} : api'[i] = api[i]
          /\ api'[j] # None /\ SocketsStand /\ DataStand
      BY <1>4, <1>6, <2>1, <3>1
    <3> QED
      BY <1>1, <2>1, <3>2
  <2> QED
    BY <1>2, <1>6, <2>1, UpdateSocketApi
<1> QED
  BY <1>5, <1>6

LEMMA EnvironmentEffect ==
    ASSUME TypeInv, Environment
    PROVE  SocketsStand /\ DataStand
<1>1. CASE WorldChanges \/ Restart
  BY <1>1, Unchanged DEF WorldChanges, Restart
<1>2. ASSUME NEW i \in Ids, UserDeletes(i) PROVE SocketsStand /\ DataStand
  BY <1>2 DEF UserDeletes, TypeInv, TypeOK, ApiState, SocketsStand, SameSocket, DataStand, Exists
<1>3. ASSUME NEW i \in Ids, UserEdits(i) PROVE SocketsStand /\ DataStand
  <2>1. Exists(i) /\ \E a \in Attrs : api' = [api EXCEPT ![i].attrs = a]
    BY <1>3 DEF UserEdits
  <2>2. /\ \A j \in Ids \ {i} : api'[j] = api[j]
        /\ api'[i].key = api[i].key /\ api'[i].data = api[i].data
    BY <2>1, FieldChange DEF TypeInv, TypeOK
  <2> QED
    BY <2>1, <2>2, FieldEffect
<1> QED
  BY <1>1, <1>2, <1>3 DEF Environment

\* Every step of the connector and its environment.
LEMMA StepEffect ==
    ASSUME TypeInv, [Next]_vars
    PROVE  SocketsStand /\ DataStand
<1>1. CASE CreateSocket \/ DeleteSocket
  BY <1>1, CreateSocketEffect, DeleteSocketEffect
<1>2. CASE CreateTunnel \/ UpdatePrivate \/ AttachPolicies
  BY <1>2, SetupEffect
<1>3. CASE ApplyPolicies \/ UpdateSocket
  BY <1>3, UpdateEffect
<1>4. CASE Environment
  BY <1>4, EnvironmentEffect
<1>5. CASE \/ Receive \/ ListSockets \/ FinishDeletes \/ BeginCreate \/ KeepSocket
           \/ FinishCreates \/ RequestConnect \/ SkipConnected \/ FinishRound
           \/ \E i \in Ids : RequestDisconnect(i) \/ RecreateSocket(i)
  <2>1. api' = api
    BY <1>5 DEF Receive, ListSockets, FinishDeletes, BeginCreate, KeepSocket, FinishCreates,
       RequestConnect, SkipConnected, FinishRound, RequestDisconnect, RecreateSocket
  <2> QED
    BY <2>1, Unchanged
<1>6. CASE DiscoveryStep \/ TunnelNext \/ UNCHANGED vars
  <2>1. api' = api
    BY <1>6 DEF DiscoveryStep, Find, Publish, TunnelNext, JobStep, StartTunnel, CloseTunnel,
       SessionStep, SessionDrops, Store, Reload, ReloadFails, GetTunnel, GetTunnelFails, CertFails,
       DialFails, Listen, ListenRefused, Hangs, SetupFails, Establish, Forget, AttemptFails,
       OnlySess, vars
  <2> QED
    BY <2>1, Unchanged
<1> QED
  BY <1>1, <1>2, <1>3, <1>4, <1>5, <1>6 DEF Next, ReconcileNext, WorkerStep

-----------------------------------------------------------------------------
(* What one step does to the worker's round *)

\* The listing, its map and the discovery result stay as they are.
SameListing == /\ round'.local = round.local
               /\ round'.view = round.view
               /\ round'.apiOf = round.apiOf

\* socketsFromApi and socketApiMap are filled.
Lists == \E map \in LastByKey :
            round' = [round EXCEPT
                 !.pc = "check", !.view = api, !.apiOf = map,
                 !.unchecked = {i \in Ids : Exists(i) /\ Superseded(api[i])}]

LEMMA RoundStep ==
    ASSUME TypeInv, [Next]_vars
    PROVE  \/ round' = round
           \/ round' = Idle
           \/ Receive
           \/ ListSockets /\ Lists
           \/ FinishCreates
           \/ WorkerStep /\ SameListing
<1>1. CASE ListSockets
  BY <1>1 DEF ListSockets, Lists
<1>2. CASE DeleteSocket
  <2> DEFINE next == IF Discovered(round.view[round.cur].key)
                     THEN [round EXCEPT !.pc = "createSocket"]
                     ELSE [round EXCEPT !.pc = "check", !.cur = None]
  <2>1. round' \in {next, Idle}
    BY <1>2, CallOutcomes DEF DeleteSocket, NotFound, TypeInv
  <2>2. round' = next => SameListing
    BY DEF TypeInv, TypeOK, Round, SameListing
  <2> QED
    BY <1>2, <2>1, <2>2 DEF WorkerStep
<1>3. CASE CreateSocket \/ CreateTunnel \/ UpdatePrivate \/ AttachPolicies
  <2>1. CASE CreateSocket
    <3>1. PICK i \in Ids : round' \in {[round EXCEPT !.pc = "createTunnel", !.made = i], Idle}
      BY <2>1, CreateSocketMoves
    <3> QED
      BY <2>1, <3>1 DEF TypeInv, TypeOK, Round, SameListing, WorkerStep
  <2>2. CASE CreateTunnel
    <3>1. SameListing \/ round' = Idle
      BY <2>2, CallOutcomes DEF CreateTunnel, NotFound, TypeInv, TypeOK, Round, SameListing
    <3> QED
      BY <2>2, <3>1 DEF WorkerStep
  <2>3. CASE UpdatePrivate
    <3>1. SameListing \/ round' = Idle
      BY <2>3, UpdatePrivateOutcomes DEF TypeInv, TypeOK, Round, SameListing
    <3> QED
      BY <2>3, <3>1 DEF WorkerStep
  <2>4. CASE AttachPolicies
    BY <2>4 DEF AttachPolicies, TypeInv, TypeOK, Round, SameListing, WorkerStep
  <2> QED
    BY <1>3, <2>1, <2>2, <2>3, <2>4
<1>4. CASE \/ FinishDeletes \/ BeginCreate \/ KeepSocket \/ ApplyPolicies \/ RequestConnect
           \/ SkipConnected \/ \E i \in Ids : RequestDisconnect(i) \/ RecreateSocket(i)
  BY <1>4 DEF FinishDeletes, BeginCreate, KeepSocket, ApplyPolicies, RequestConnect, SkipConnected,
     RequestDisconnect, RecreateSocket, Advanced, TypeInv, TypeOK, Round, SameListing, WorkerStep
<1>5. CASE UpdateSocket
  <2>1. round' \in {Advanced, Idle}
    BY <1>5, UpdateSocketApi
  <2> QED
    BY <1>5, <2>1 DEF Advanced, TypeInv, TypeOK, Round, SameListing, WorkerStep
<1>6. CASE FinishRound \/ Environment
  BY <1>6 DEF FinishRound, Environment, WorldChanges, UserDeletes, UserEdits, Restart
<1>7. CASE DiscoveryStep \/ TunnelNext \/ UNCHANGED vars
  BY <1>7 DEF DiscoveryStep, Find, Publish, TunnelNext, JobStep, StartTunnel, CloseTunnel,
     SessionStep, SessionDrops, Store, Reload, ReloadFails, GetTunnel, GetTunnelFails, CertFails,
     DialFails, Listen, ListenRefused, Hangs, SetupFails, Establish, Forget, AttemptFails,
     OnlySess, vars
<1> QED
  BY <1>1, <1>2, <1>3, <1>4, <1>5, <1>6, <1>7 DEF Next, ReconcileNext, WorkerStep

\* What is discovered depends on the discovery result alone.
LEMMA LocalStands ==
    ASSUME round'.local = round.local
    PROVE  /\ \A k : Discovered(k)' <=> Discovered(k)
           /\ \A k : LocalFor(k)' = LocalFor(k)
BY DEF Discovered, LocalFor

-----------------------------------------------------------------------------
(* The listing *)

LEMMA InitListing == Init => ListingInv
BY ConstantsAssumption
   DEF Init, Idle, NoView, NoneOf, ListingInv, ListedKeysStand, MapNamesListed, MadeIsOurs, MadePC,
       CreatingPC, ToRemoveIsSuperseded

LEMMA NoListing ==
    ASSUME round'.view = NoView, round'.apiOf = NoneOf(Keys), round'.unchecked = {},
           round'.pc \notin MadePC \cup {"delete"}
    PROVE  ListingInv'
BY DEF NoView, NoneOf, ListingInv, ListedKeysStand, MapNamesListed, MadeIsOurs,
       ToRemoveIsSuperseded

LEMMA IdleListing ==
    ASSUME round' = Idle
    PROVE  ListingInv'
BY NoListing DEF Idle, MadePC, CreatingPC

LEMMA ListsListing ==
    ASSUME TypeInv, ListSockets, Lists
    PROVE  ListingInv'
<1>1. PICK map \in LastByKey :
            round' = [round EXCEPT
                 !.pc = "check", !.view = api, !.apiOf = map,
                 !.unchecked = {i \in Ids : Exists(i) /\ Superseded(api[i])}]
  BY DEF Lists
<1>2. /\ round'.pc = "check" /\ round'.view = api /\ round'.apiOf = map
      /\ round'.unchecked = {i \in Ids : Exists(i) /\ Superseded(api[i])}
      /\ round'.local = round.local /\ api' = api
  BY <1>1 DEF TypeInv, TypeOK, Round, ListSockets
<1>3. \A k \in Keys : map[k] # None => map[k] \in Ids /\ Exists(map[k]) /\ api[map[k]].key = k
  BY DEF LastByKey
<1>4. ListedKeysStand' /\ MapNamesListed'
  BY <1>2, <1>3 DEF ListedKeysStand, MapNamesListed, Exists
<1>5. MadeIsOurs'
  BY <1>2 DEF MadeIsOurs, MadePC, CreatingPC
<1>6. ToRemoveIsSuperseded'
  BY <1>2, LocalStands DEF ToRemoveIsSuperseded, Superseded, Exists
<1> QED
  BY <1>4, <1>5, <1>6 DEF ListingInv

\* While the listing stays, so does what it says: nobody creates a socket under
\* a listed id, changes a key, or changes data before the delete loop is over.
LEMMA KeysStillStand ==
    ASSUME TypeInv, ListingInv, SocketsStand, DataStand, SameListing
    PROVE  ListedKeysStand' /\ MapNamesListed'
<1>1. ListedKeysStand'
  BY DEF ListingInv, ListedKeysStand, SameListing, SocketsStand, SameSocket, NewSocket, Fresh, Exists
<1>2. MapNamesListed'
  BY DEF ListingInv, MapNamesListed, SameListing
<1> QED
  BY <1>1, <1>2

LEMMA StillSuperseded ==
    ASSUME TypeInv, SocketsStand, DataStand, SameListing, NEW i \in Ids,
           round.view[i] # None, round.pc # "update", Exists(i) => Superseded(api[i])
    PROVE  api'[i] # None => Superseded(api[i])'
<1> SUFFICES ASSUME api'[i] # None PROVE Superseded(api[i])'
  OBVIOUS
<1>1. SameSocket(i)
  BY DEF SocketsStand, NewSocket, Fresh
<1>2. api'[i].data = api[i].data
  BY <1>1 DEF DataStand, SameSocket, UpdateSocket
<1> QED
  BY <1>1, <1>2, LocalStands DEF SameSocket, Superseded, SameListing

\* The socket being created keeps the key and the data it was created with.
LEMMA StillOurs ==
    ASSUME TypeInv, ListingInv, SocketsStand, DataStand, SameListing, round.pc \in MadePC,
           round'.made = round.made, round'.cur = round.cur, round'.todo = round.todo
    PROVE  MadeIsOurs'
<1>1. round.made \in Ids /\ round.pc \notin {"createSocket", "update"}
  BY DEF TypeInv, Shape, MadeIsSet, MadePC, CreatingPC
<1>2. Wanted' = Wanted
  BY LocalStands DEF Wanted, SameListing
<1>3. SUFFICES ASSUME api'[round.made] # None
               PROVE  api'[round.made].key = Wanted.key /\ api'[round.made].data = Wanted.data
  BY <1>2 DEF MadeIsOurs, Exists
<1>4. SameSocket(round.made)
  BY <1>1, <1>3 DEF SocketsStand, NewSocket, CreateSocket
<1>5. api'[round.made].data = api[round.made].data
  BY <1>1, <1>3, <1>4 DEF DataStand, SameSocket, UpdateSocket
<1> QED
  BY <1>4, <1>5 DEF SameSocket, ListingInv, MadeIsOurs

\* A worker step that neither lists nor returns: it goes on with a part of the
\* listing, turns to a socket of it, or creates one.
WorkerMoves ==
    /\ round'.unchecked \subseteq round.unchecked
    /\ round'.pc = "delete" => round'.cur \in round.unchecked
    /\ round'.pc \in MadePC =>
         \/ CreateSocket
         \/ /\ round.pc \in MadePC
            /\ UNCHANGED <<round.made, round.cur, round.todo>>

LEMMA WorkerMove ==
    ASSUME TypeInv, WorkerStep, round' # Idle,
           ~Receive, ~ListSockets, ~FinishCreates
    PROVE  WorkerMoves
<1>1. CASE DeleteSocket
  <2> DEFINE next == IF Discovered(round.view[round.cur].key)
                     THEN [round EXCEPT !.pc = "createSocket"]
                     ELSE [round EXCEPT !.pc = "check", !.cur = None]
  <2>1. round' = next
    BY <1>1, CallOutcomes DEF DeleteSocket, NotFound, TypeInv
  <2> QED
    BY <2>1 DEF TypeInv, TypeOK, Round, WorkerMoves, MadePC, CreatingPC
<1>2. CASE CreateSocket
  <2>1. PICK i \in Ids : round' = [round EXCEPT !.pc = "createTunnel", !.made = i]
    BY <1>2, CreateSocketMoves
  <2> QED
    BY <1>2, <2>1 DEF TypeInv, TypeOK, Round, WorkerMoves
<1>3. CASE CreateTunnel \/ UpdatePrivate
  <2>1. \E pc \in MadePC : round' = [round EXCEPT !.pc = pc]
    <3>1. CASE CreateTunnel
      BY <3>1, CallOutcomes DEF CreateTunnel, NotFound, MadePC, CreatingPC, TypeInv
    <3>2. CASE UpdatePrivate
      BY <3>2, UpdatePrivateOutcomes DEF UpdatePrivate, MadePC, CreatingPC
    <3> QED
      BY <1>3, <3>1, <3>2
  <2> QED
    BY <1>3, <2>1 DEF CreateTunnel, UpdatePrivate, TypeInv, TypeOK, Round, WorkerMoves, MadePC,
                      CreatingPC
<1>4. CASE AttachPolicies
  BY <1>4 DEF AttachPolicies, TypeInv, TypeOK, Round, WorkerMoves, MadePC, CreatingPC
<1>5. CASE \/ FinishDeletes \/ BeginCreate \/ KeepSocket \/ ApplyPolicies
           \/ RequestConnect \/ SkipConnected
  BY <1>5 DEF FinishDeletes, BeginCreate, KeepSocket, AtKnownSocket, ApplyPolicies, RequestConnect,
     SkipConnected, Advanced, TypeInv, TypeOK, Round, WorkerMoves, MadePC, CreatingPC
<1>6. CASE \E i \in Ids : RequestDisconnect(i) \/ RecreateSocket(i)
  <2>1. PICK i \in round.unchecked :
           round' = [round EXCEPT !.pc = "delete", !.cur = i, !.unchecked = @ \ {i}]
    BY <1>6 DEF RequestDisconnect, RecreateSocket, NextEntry
  <2> QED
    BY <2>1 DEF TypeInv, TypeOK, Round, WorkerMoves, MadePC, CreatingPC
<1>7. CASE UpdateSocket
  <2>1. round' = Advanced
    BY <1>7, UpdateSocketApi
  <2> QED
    BY <2>1 DEF Advanced, TypeInv, TypeOK, Round, WorkerMoves, MadePC, CreatingPC
<1> QED
  BY <1>1, <1>2, <1>3, <1>4, <1>5, <1>6, <1>7 DEF WorkerStep, FinishRound

\* The socket CreateSocket has just made is the wanted one.
LEMMA CreatedIsOurs ==
    ASSUME TypeInv, CreateSocket, round' # Idle, SameListing
    PROVE  MadeIsOurs'
<1> DEFINE new == [key |-> Wanted.key, data |-> Wanted.data, attrs |-> Wanted.attrs,
                   policies |-> {}, tunnel |-> FALSE]
           next(i) == [round EXCEPT !.pc = "createTunnel", !.made = i]
<1>1. PICK i \in Ids : Call([api EXCEPT ![i] = new], next(i))
  BY DEF CreateSocket
<1>2. new.key = Wanted.key /\ new.data = Wanted.data
  OBVIOUS
<1> HIDE DEF new
<1>3. round' = next(i) /\ api' = [api EXCEPT ![i] = new]
  BY <1>1, CallOutcomes DEF TypeInv
<1>4. round'.made = i /\ round'.cur = round.cur /\ round'.todo = round.todo
  BY <1>3 DEF TypeInv, TypeOK, Round
<1>5. Wanted' = Wanted
  BY <1>4, LocalStands DEF Wanted, SameListing
<1>6. api'[i] = new
  BY <1>3 DEF TypeInv, TypeOK, ApiState
<1> QED
  BY <1>2, <1>4, <1>5, <1>6 DEF MadeIsOurs, Exists

LEMMA ListingKept == TypeInv /\ ListingInv /\ [Next]_vars => ListingInv'
<1> SUFFICES ASSUME TypeInv, ListingInv, [Next]_vars PROVE ListingInv'
  OBVIOUS
<1>1. SocketsStand /\ DataStand
  BY StepEffect
<1>2. CASE round' = round
  <2>1. SameListing
    BY <1>2 DEF SameListing
  <2>2. ListedKeysStand' /\ MapNamesListed'
    BY <1>1, <2>1, KeysStillStand
  <2>3. MadeIsOurs'
    BY <1>1, <1>2, <2>1, StillOurs DEF MadeIsOurs
  <2>4. ToRemoveIsSuperseded'
    <3>1. \A i \in round.unchecked : api'[i] # None => Superseded(api[i])'
      <4> SUFFICES ASSUME NEW i \in round.unchecked
                   PROVE  api'[i] # None => Superseded(api[i])'
        OBVIOUS
      <4>1. i \in Ids /\ round.view[i] # None /\ round.pc # "update"
        BY DEF TypeInv, TypeOK, Round, Shape, UncheckedAreListed, UncheckedIsOver, CreatingPC
      <4> QED
        BY <1>1, <2>1, <4>1, StillSuperseded DEF ListingInv, ToRemoveIsSuperseded
    <3>2. round.pc = "delete" /\ api'[round.cur] # None => Superseded(api[round.cur])'
      <4> SUFFICES ASSUME round.pc = "delete"
                   PROVE  api'[round.cur] # None => Superseded(api[round.cur])'
        OBVIOUS
      <4>1. round.cur \in Ids /\ round.view[round.cur] # None
        BY DEF TypeInv, TypeOK, Round, Shape, CurrentIsListed
      <4> QED
        BY <1>1, <1>2, <2>1, <4>1, StillSuperseded DEF ListingInv, ToRemoveIsSuperseded
    <3> QED
      BY <1>2, <3>1, <3>2 DEF ToRemoveIsSuperseded, Exists
  <2> QED
    BY <2>2, <2>3, <2>4 DEF ListingInv
<1>3. CASE round' = Idle
  BY <1>3, IdleListing
<1>4. CASE Receive \/ FinishCreates
  <2>1. CASE Receive
    BY <2>1, NoListing DEF Receive, Idle, MadePC, CreatingPC
  <2>2. CASE FinishCreates
    <3>1. round.unchecked = {}
      BY <2>2 DEF FinishCreates, TypeInv, Shape, UncheckedIsOver, CreatingPC
    <3> QED
      BY <2>2, <3>1, NoListing DEF FinishCreates, TypeInv, TypeOK, Round, MadePC, CreatingPC
  <2> QED
    BY <1>4, <2>1, <2>2
<1>5. CASE ListSockets /\ Lists
  BY <1>5, ListsListing
<1>6. CASE /\ WorkerStep /\ SameListing /\ round' # Idle
           /\ ~Receive /\ ~FinishCreates /\ ~(ListSockets /\ Lists)
  <2>1. WorkerMoves
    BY <1>6, WorkerMove DEF ListSockets, Lists
  <2>2. ListedKeysStand' /\ MapNamesListed'
    BY <1>1, <1>6, KeysStillStand
  <2>3. MadeIsOurs'
    <3>1. CASE CreateSocket
      BY <1>6, <3>1, CreatedIsOurs
    <3>2. CASE round.pc \in MadePC /\ UNCHANGED <<round.made, round.cur, round.todo>>
      BY <1>1, <1>6, <3>2, StillOurs
    <3> QED
      BY <2>1, <3>1, <3>2 DEF WorkerMoves, MadeIsOurs
  <2>4. \A i \in round.unchecked : api'[i] # None => Superseded(api[i])'
    <3> SUFFICES ASSUME NEW i \in round.unchecked
                 PROVE  api'[i] # None => Superseded(api[i])'
      OBVIOUS
    <3>1. i \in Ids /\ round.view[i] # None /\ round.pc # "update"
      BY DEF TypeInv, TypeOK, Round, Shape, UncheckedAreListed, UncheckedIsOver, CreatingPC
    <3> QED
      BY <1>1, <1>6, <3>1, StillSuperseded DEF ListingInv, ToRemoveIsSuperseded
  <2>5. ToRemoveIsSuperseded'
    BY <2>1, <2>4 DEF WorkerMoves, ToRemoveIsSuperseded, Exists
  <2> QED
    BY <2>2, <2>3, <2>5 DEF ListingInv
<1> QED
  BY <1>2, <1>3, <1>4, <1>5, <1>6, RoundStep

\* What a round listed stays true of the sockets it goes on to delete, recreate,
\* create and update, though it works from the listing for many API calls.
THEOREM ListingInvariant == Spec => [](TypeInv /\ ListingInv)
<1>1. Init => ListingInv
  BY InitListing
<1>2. TypeInv /\ ListingInv /\ [Next]_vars => ListingInv'
  BY ListingKept
<1> QED
  BY TypeInvariant, <1>1, <1>2, PTL DEF Spec

\* The worker removes only its own, superseded sockets, and leaves the sockets
\* of others as they are.
THEOREM RemovesCorrect == Spec => RemovesOnlySuperseded
<1> DEFINE Removes == \A i \in Ids : Exists(i) =>
                         /\ api[i].key = Foreign => api'[i] = api[i]
                         /\ api'[i] = None => Superseded(api[i])
<1>1. ASSUME TypeInv, ListingInv, WorkerStep
      PROVE  Removes
  <2>1. CASE DeleteSocket
    <3>1. /\ round.cur \in Ids
          /\ Exists(round.cur) => Superseded(api[round.cur])
      BY <1>1, <2>1 DEF DeleteSocket, TypeInv, TypeOK, Round, Shape, CurrentIsListed, ListingInv,
                        ToRemoveIsSuperseded
    <3>2. Exists(round.cur) => api[round.cur].key # Foreign
      BY <3>1, ConstantsAssumption DEF Superseded
    <3>3. \A i \in Ids \ {round.cur} : api'[i] = api[i]
      BY <1>1, <2>1, DeleteSocketEffect DEF TypeInv, TypeOK, ApiState
    <3> QED
      BY <1>1, <3>1, <3>2, <3>3, DeleteSocketEffect DEF Exists
  <2>2. CASE CreateSocket
    <3>1. \E i \in Ids : ~Exists(i) /\ \A j \in Ids \ {i} : api'[j] = api[j]
      BY <1>1, <2>2, CreateSocketMoves
    <3> QED
      BY <3>1 DEF Exists
  <2>3. CASE CreateTunnel \/ UpdatePrivate \/ AttachPolicies
    <3>1. round.pc \in MadePC
      BY <2>3 DEF CreateTunnel, UpdatePrivate, AttachPolicies, MadePC, CreatingPC
    <3>2. Wanted.key \in Keys
      BY <1>1, <3>1, WantedType DEF LocalSocket, MadePC
    <3>3. Exists(round.made) => api[round.made].key # Foreign
      BY <1>1, <3>1, <3>2, ConstantsAssumption DEF ListingInv, MadeIsOurs
    <3> QED
      BY <1>1, <2>3, <3>3, SetupEffect DEF Exists
  <2>4. CASE ApplyPolicies \/ UpdateSocket
    <3> DEFINE k == Head(round.todo).key
    <3>1. k \in Keys /\ round.apiOf[k] # None
      <4>1. round.todo # <<>> /\ round.apiOf[k] # None
        BY <1>1, <2>4 DEF ApplyPolicies, AtKnownSocket, UpdateSocket, TypeInv, Shape, TodoIsLeft
      <4>2. Head(round.todo) \in LocalSocket
        BY <1>1, <4>1 DEF TypeInv, TypeOK, Round
      <4> QED
        BY <4>1, <4>2 DEF LocalSocket
    <3>2. Exists(round.apiOf[k]) => api[round.apiOf[k]].key = k
      BY <1>1, <2>4, <3>1, UpdateEffect DEF ListingInv, ListedKeysStand, MapNamesListed
    <3>3. Exists(round.apiOf[k]) => api[round.apiOf[k]].key # Foreign
      BY <3>1, <3>2, ConstantsAssumption
    <3> QED
      BY <1>1, <2>4, <3>3, UpdateEffect DEF Exists
  <2>5. CASE api' = api
    BY <2>5 DEF Exists
  <2> QED
    BY <1>1, <2>1, <2>2, <2>3, <2>4, <2>5
       DEF WorkerStep, Receive, ListSockets, FinishDeletes, BeginCreate, KeepSocket, FinishCreates,
           RequestConnect, SkipConnected, FinishRound, RequestDisconnect, RecreateSocket
<1>2. TypeInv /\ ListingInv /\ [Next]_vars => [WorkerStep => Removes]_vars
  BY <1>1
<1> QED
  BY <1>2, ListingInvariant, PTL DEF Spec, RemovesOnlySuperseded

-----------------------------------------------------------------------------
(* Requests and tunnels *)

\* A target, a request or a Connection that was there before still names a
\* socket of its key: the id is not issued again while anything refers to it.
StillNamed(id, key) == api'[id] # None => api'[id].key = key

LEMMA StillNames ==
    ASSUME SocketsStand, NEW i \in Ids, ~Fresh(i), NEW key,
           Exists(i) => api[i].key = key
    PROVE  StillNamed(i, key)
BY DEF SocketsStand, SameSocket, NewSocket, StillNamed, Exists

LEMMA TargetStands ==
    ASSUME TypeInv, SocketsStand, ServingInv, NEW n \in DOMAIN round.toConnect
    PROVE  StillNamed(round.toConnect[n].id, round.toConnect[n].key)
<1>1. round.toConnect[n] \in Target
  BY DEF TypeInv, TypeOK, Round
<1>2. round.toConnect[n].id \in Ids
  BY <1>1 DEF Target
<1>3. ~Fresh(round.toConnect[n].id)
  BY DEF Fresh
<1> QED
  BY <1>2, <1>3, StillNames DEF ServingInv, TargetsKeepTheirKey

LEMMA RequestStands ==
    ASSUME TypeInv, SocketsStand, ServingInv, NEW n \in DOMAIN connectChan
    PROVE  StillNamed(connectChan[n].id, connectChan[n].key)
<1>1. connectChan[n] \in Request
  BY DEF TypeInv, TypeOK
<1>2. connectChan[n].id \in Ids
  BY <1>1 DEF Request
<1>3. ~Fresh(connectChan[n].id)
  BY DEF Fresh
<1> QED
  BY <1>2, <1>3, StillNames DEF ServingInv, TunnelsServeTheirKey

LEMMA SessionStands ==
    ASSUME TypeInv, SocketsStand, ServingInv, NEW s \in Sessions, sess[s] # None
    PROVE  StillNamed(sess[s].id, sess[s].key)
<1>1. sess[s].id \in Ids
  BY DEF TypeInv, TypeOK, Session
<1>2. ~Fresh(sess[s].id)
  BY DEF Fresh
<1> QED
  BY <1>1, <1>2, StillNames DEF ServingInv, TunnelsServeTheirKey

\* Every target after a step was one before, or names a socket of its key.
TargetsFrom ==
    \A n \in DOMAIN round'.toConnect :
        \/ \E m \in DOMAIN round.toConnect : round'.toConnect[n] = round.toConnect[m]
        \/ StillNamed(round'.toConnect[n].id, round'.toConnect[n].key)

\* So does every request.
RequestsFrom ==
    \A n \in DOMAIN connectChan' :
        \/ \E m \in DOMAIN connectChan : connectChan'[n] = connectChan[m]
        \/ StillNamed(connectChan'[n].id, connectChan'[n].key)

\* A Connection has the key and the id it was made with, from a request.
SessionsFrom ==
    \A s \in Sessions : sess'[s] # None =>
        \/ /\ sess[s] # None
           /\ sess'[s].id = sess[s].id /\ sess'[s].key = sess[s].key
        \/ \E m \in DOMAIN connectChan : /\ sess'[s].id = connectChan[m].id
                                         /\ sess'[s].key = connectChan[m].key

LEMMA ServingFrom ==
    ASSUME TypeInv, SocketsStand, ServingInv, TargetsFrom, RequestsFrom, SessionsFrom
    PROVE  ServingInv'
<1>1. ASSUME NEW n \in DOMAIN round'.toConnect
      PROVE  StillNamed(round'.toConnect[n].id, round'.toConnect[n].key)
  BY TargetStands DEF TargetsFrom
<1>2. ASSUME NEW n \in DOMAIN connectChan'
      PROVE  StillNamed(connectChan'[n].id, connectChan'[n].key)
  BY RequestStands DEF RequestsFrom
<1>3. ASSUME NEW s \in Sessions, sess'[s] # None
      PROVE  StillNamed(sess'[s].id, sess'[s].key)
  <2>1. CASE /\ sess[s] # None
             /\ sess'[s].id = sess[s].id /\ sess'[s].key = sess[s].key
    BY <2>1, SessionStands
  <2>2. CASE \E m \in DOMAIN connectChan : /\ sess'[s].id = connectChan[m].id
                                           /\ sess'[s].key = connectChan[m].key
    BY <2>2, RequestStands
  <2> QED
    BY <1>3, <2>1, <2>2 DEF SessionsFrom
<1> QED
  BY <1>1, <1>2, <1>3
     DEF ServingInv, TargetsKeepTheirKey, TunnelsServeTheirKey, StillNamed, Exists

\* The create loop's next target.
LEMMA AdvancedTarget ==
    ASSUME TypeInv, ListingInv', SameListing, round.todo # <<>>,
           round.apiOf[Head(round.todo).key] # None, round' = Advanced
    PROVE  TargetsFrom
<1> DEFINE k == Head(round.todo).key
           t == [key |-> k, id |-> round.apiOf[k]]
<1>1. k \in Keys
  <2>1. Head(round.todo) \in LocalSocket
    BY DEF TypeInv, TypeOK, Round
  <2> QED
    BY <2>1 DEF LocalSocket
<1>2. round.apiOf[k] \in Ids
  BY <1>1 DEF TypeInv, TypeOK, Round
<1>3. StillNamed(round.apiOf[k], k)
  BY <1>1, <1>2 DEF SameListing, ListingInv, ListedKeysStand, MapNamesListed, StillNamed, Exists
<1>4. round'.toConnect = Append(round.toConnect, t)
  BY DEF Advanced, TypeInv, TypeOK, Round
<1>5. round.toConnect \in Seq(Target)
  BY DEF TypeInv, TypeOK, Round
<1>6. t.key = k /\ t.id = round.apiOf[k]
  OBVIOUS
<1> HIDE DEF t
<1> QED
  BY <1>3, <1>4, <1>5, <1>6 DEF TargetsFrom

LEMMA AttachTarget ==
    ASSUME TypeInv, ListingInv, SocketsStand, AttachPolicies
    PROVE  TargetsFrom
<1>1. CASE round.cur # None
  BY <1>1 DEF AttachPolicies, TypeInv, TypeOK, Round, TargetsFrom
<1>2. CASE round.cur = None
  <2> DEFINE t == [key |-> Wanted.key, id |-> round.made]
  <2>1. round'.toConnect = Append(round.toConnect, t)
    BY <1>2 DEF AttachPolicies, TypeInv, TypeOK, Round
  <2>2. round.made \in Ids
    BY AttachPoliciesApi
  <2>3. SameSocket(round.made) \/ api'[round.made] = None
    BY <2>2 DEF SocketsStand, NewSocket, CreateSocket, AttachPolicies
  <2>4. StillNamed(round.made, Wanted.key)
    BY <2>3 DEF SameSocket, ListingInv, MadeIsOurs, AttachPolicies, MadePC, CreatingPC, StillNamed,
                Exists
  <2>5. round.toConnect \in Seq(Target)
    BY DEF TypeInv, TypeOK, Round
  <2>6. t.key = Wanted.key /\ t.id = round.made
    OBVIOUS
  <2> HIDE DEF t
  <2> QED
    BY <2>1, <2>4, <2>5, <2>6 DEF TargetsFrom
<1> QED
  BY <1>1, <1>2

\* socketsToConnect grows by the sockets of the create loop and shrinks by the
\* ones HandleUpdates asks for.
LEMMA TargetStep ==
    ASSUME TypeInv, ListingInv, ListingInv', SocketsStand, [Next]_vars
    PROVE  TargetsFrom
<1>1. CASE round'.toConnect = round.toConnect \/ round'.toConnect = <<>>
  BY <1>1 DEF TargetsFrom
<1>0. Idle.toConnect = <<>>
  BY DEF Idle
<1>2. CASE AttachPolicies
  BY <1>2, AttachTarget
<1>3. CASE KeepSocket \/ UpdateSocket
  <2>1. round.todo # <<>> /\ round.apiOf[Head(round.todo).key] # None
    BY <1>3 DEF KeepSocket, AtKnownSocket, UpdateSocket, TypeInv, Shape, TodoIsLeft
  <2>2. round' = Advanced \/ round' = Idle
    BY <1>3, UpdateSocketApi DEF KeepSocket
  <2>3. CASE round' = Idle
    BY <1>1, <2>3 DEF Idle
  <2>4. CASE round' = Advanced
    <3>1. SameListing
      BY <2>4 DEF Advanced, SameListing, TypeInv, TypeOK, Round
    <3> QED
      BY <2>1, <2>4, <3>1, AdvancedTarget
  <2> QED
    BY <2>2, <2>3, <2>4
<1>4. CASE RequestConnect \/ SkipConnected
  <2>1. /\ round.toConnect \in Seq(Target) /\ round.toConnect # <<>>
        /\ round'.toConnect = Tail(round.toConnect)
    BY <1>4 DEF RequestConnect, SkipConnected, TypeInv, TypeOK, Round
  <2> QED
    BY <2>1 DEF TargetsFrom
<1>5. CASE CreateSocket
  <2>1. PICK i \in Ids : round' \in {[round EXCEPT !.pc = "createTunnel", !.made = i], Idle}
    BY <1>5, CreateSocketMoves
  <2> QED
    BY <1>0, <1>1, <2>1 DEF TypeInv, TypeOK, Round
<1>6. CASE DeleteSocket \/ CreateTunnel \/ UpdatePrivate
  <2>1. CASE DeleteSocket
    <3> DEFINE next == IF Discovered(round.view[round.cur].key)
                       THEN [round EXCEPT !.pc = "createSocket"]
                       ELSE [round EXCEPT !.pc = "check", !.cur = None]
    <3>1. round' \in {next, Idle}
      BY <2>1, CallOutcomes DEF DeleteSocket, NotFound, TypeInv
    <3> HIDE DEF next
    <3>2. next.toConnect = round.toConnect
      BY DEF next, TypeInv, TypeOK, Round
    <3> QED
      BY <1>0, <1>1, <3>1, <3>2
  <2>2. CASE CreateTunnel
    <3>1. round' = Idle \/ \E pc \in WorkerPC : round' = [round EXCEPT !.pc = pc]
      BY <2>2, CallOutcomes DEF CreateTunnel, NotFound, TypeInv, WorkerPC
    <3> QED
      BY <1>1, <3>1 DEF Idle, TypeInv, TypeOK, Round
  <2>3. CASE UpdatePrivate
    <3>1. round' = Idle \/ \E pc \in WorkerPC : round' = [round EXCEPT !.pc = pc]
      BY <2>3, UpdatePrivateOutcomes DEF WorkerPC
    <3> QED
      BY <1>1, <3>1 DEF Idle, TypeInv, TypeOK, Round
  <2> QED
    BY <1>6, <2>1, <2>2, <2>3
<1>7. CASE \/ FinishDeletes \/ BeginCreate \/ ApplyPolicies \/ FinishCreates \/ ListSockets
           \/ \E i \in Ids : RequestDisconnect(i) \/ RecreateSocket(i)
  <2>1. round'.toConnect = round.toConnect \/ round' = Idle
    BY <1>7 DEF FinishDeletes, BeginCreate, ApplyPolicies, FinishCreates, ListSockets,
                RequestDisconnect, RecreateSocket, TypeInv, TypeOK, Round
  <2> QED
    BY <1>1, <2>1 DEF Idle
<1>8. CASE Receive \/ FinishRound \/ Environment
  <2>1. round'.toConnect = round.toConnect \/ round'.toConnect = <<>>
    BY <1>0, <1>8 DEF Receive, FinishRound, Environment, WorldChanges, UserDeletes, UserEdits,
                      Restart, Idle
  <2> QED
    BY <1>1, <2>1
<1>9. CASE DiscoveryStep \/ TunnelNext \/ UNCHANGED vars
  <2>1. round' = round
    BY <1>9 DEF DiscoveryStep, Find, Publish, TunnelNext, JobStep, StartTunnel, CloseTunnel,
       SessionStep, SessionDrops, Store, Reload, ReloadFails, GetTunnel, GetTunnelFails, CertFails,
       DialFails, Listen, ListenRefused, Hangs, SetupFails, Establish, Forget, AttemptFails,
       OnlySess, vars
  <2> QED
    BY <1>1, <2>1
<1> QED
  BY <1>2, <1>3, <1>4, <1>5, <1>6, <1>7, <1>8, <1>9 DEF Next, ReconcileNext, WorkerStep

\* A request names the socket the worker is at, or the next one to connect.
LEMMA RequestStep ==
    ASSUME TypeInv, ListingInv, ServingInv, SocketsStand, [Next]_vars
    PROVE  RequestsFrom
<1>1. connectChan \in Seq(Request)
  BY DEF TypeInv, TypeOK
<1>2. CASE connectChan' = connectChan \/ connectChan' = <<>>
  BY <1>2 DEF RequestsFrom
<1>3. CASE JobStep
  <2>1. connectChan # <<>> /\ connectChan' = Tail(connectChan)
    BY <1>3 DEF JobStep, StartTunnel, CloseTunnel
  <2> QED
    BY <1>1, <2>1 DEF RequestsFrom
<1>4. ASSUME NEW r \in Request, connectChan' = Append(connectChan, r), StillNamed(r.id, r.key)
      PROVE  RequestsFrom
  BY <1>1, <1>4 DEF RequestsFrom
<1>5. ASSUME NEW i \in Ids, RequestDisconnect(i) PROVE RequestsFrom
  <2> DEFINE r == [key |-> round.view[i].key, id |-> i, action |-> "disconnect"]
  <2>1. i \in round.unchecked /\ api' = api /\ connectChan' = Append(connectChan, r)
    BY <1>5 DEF RequestDisconnect, NextEntry
  <2>2. round.view[i] # None /\ round.view[i].key \in Keys
    BY <2>1 DEF TypeInv, Shape, UncheckedAreListed
  <2>3. StillNamed(i, round.view[i].key)
    BY <2>1, <2>2 DEF ListingInv, ListedKeysStand, StillNamed, Exists
  <2>4. r \in Request /\ r.id = i /\ r.key = round.view[i].key
    BY <2>2 DEF Request
  <2> HIDE DEF r
  <2> QED
    BY <1>4, <2>1, <2>3, <2>4
<1>6. CASE RequestConnect
  <2> DEFINE t == Head(round.toConnect)
             r == [key |-> t.key, id |-> t.id, action |-> "connect"]
  <2>1. round.toConnect \in Seq(Target) /\ round.toConnect # <<>>
    BY <1>6 DEF RequestConnect, TypeInv, TypeOK, Round
  <2>2. t = round.toConnect[1] /\ 1 \in DOMAIN round.toConnect /\ t \in Target
    BY <2>1
  <2>3. StillNamed(t.id, t.key)
    BY <2>2, TargetStands
  <2>4. connectChan' = Append(connectChan, r)
    BY <1>6 DEF RequestConnect
  <2>5. r \in Request /\ r.id = t.id /\ r.key = t.key
    BY <2>2 DEF Request, Target
  <2> HIDE DEF r
  <2> QED
    BY <1>4, <2>3, <2>4, <2>5
<1>7. CASE Receive \/ ListSockets \/ DeleteSocket \/ FinishDeletes \/ BeginCreate \/ CreateSocket
           \/ CreateTunnel \/ UpdatePrivate \/ AttachPolicies \/ KeepSocket \/ ApplyPolicies
           \/ UpdateSocket \/ FinishCreates \/ SkipConnected \/ FinishRound
           \/ \E i \in Ids : RecreateSocket(i)
  <2>1. connectChan' = connectChan
    BY <1>7 DEF Receive, ListSockets, DeleteSocket, FinishDeletes, BeginCreate, CreateSocket,
                CreateTunnel, UpdatePrivate, AttachPolicies, KeepSocket, ApplyPolicies,
                UpdateSocket, FinishCreates, SkipConnected, FinishRound, RecreateSocket, OnlyWorker
  <2> QED
    BY <1>2, <2>1
<1>8. CASE Environment \/ DiscoveryStep \/ UNCHANGED vars
           \/ \E s \in Sessions : SessionStep(s) \/ SessionDrops(s) \/ Hangs(s)
  <2>1. connectChan' = connectChan \/ connectChan' = <<>>
    BY <1>8 DEF Environment, WorldChanges, UserDeletes, UserEdits, Restart, DiscoveryStep, Find,
       Publish, SessionStep, SessionDrops, Store, Reload, ReloadFails, GetTunnel, GetTunnelFails,
       CertFails, DialFails, Listen, ListenRefused, Hangs, SetupFails, Establish, Forget,
       AttemptFails,
       OnlySess, vars
  <2> QED
    BY <1>2, <2>1
<1> QED
  BY <1>3, <1>5, <1>6, <1>7, <1>8 DEF Next, ReconcileNext, WorkerStep, TunnelNext

\* A goroutine that goes on keeps the socket it was started for.
LEMMA SessionKeeps ==
    ASSUME TypeInv, NEW s \in Sessions, sess[s] # None, NEW c \in Session,
           c.key = sess[s].key, c.id = sess[s].id, NEW map,
           \/ sess' = [sess EXCEPT ![s] = c]
           \/ sess' = Collect([sess EXCEPT ![s] = c], map)
    PROVE  SessionsFrom
<1> DEFINE moved == [sess EXCEPT ![s] = c]
<1>1. /\ moved \in [Sessions -> Session \cup {None}]
      /\ moved[s] = c /\ \A r \in Sessions \ {s} : moved[r] = sess[r]
  BY DEF TypeInv, TypeOK
<1>2. sess' = moved \/ sess' = Collect(moved, map)
  OBVIOUS
<1> HIDE DEF moved
<1>3. \A r \in Sessions : sess'[r] \in {moved[r], None}
  BY <1>1, <1>2, CollectKeeps
<1> QED
  BY <1>1, <1>3 DEF SessionsFrom

LEMMA SessionStepKeeps ==
    ASSUME TypeInv, NEW s \in Sessions, SessionStep(s) \/ SessionDrops(s) \/ Hangs(s)
    PROVE  SessionsFrom
<1>1. sess[s] # None /\ sess[s] \in Session
  BY DEF SessionStep, SessionDrops, Store, Reload, ReloadFails, GetTunnel, GetTunnelFails,
     CertFails, DialFails, Listen, ListenRefused, Hangs, SetupFails, Establish, Forget, At,
     TypeInv, TypeOK
<1>2. ASSUME NEW pc \in SessionPC, NEW map, sess' = Collect([sess EXCEPT ![s].pc = pc], map)
      PROVE  SessionsFrom
  <2> DEFINE c == [sess[s] EXCEPT !.pc = pc]
  <2>1. c \in Session /\ c.key = sess[s].key /\ c.id = sess[s].id
    BY <1>1 DEF Session
  <2>2. sess' = Collect([sess EXCEPT ![s] = c], map)
    BY <1>2
  <2> HIDE DEF c
  <2> QED
    BY <1>1, <2>1, <2>2, SessionKeeps
<1>3. CASE \/ Reload(s) \/ ReloadFails(s) \/ GetTunnel(s) \/ GetTunnelFails(s)
           \/ Listen(s) \/ Hangs(s) \/ Establish(s) \/ Store(s) \/ Forget(s)
  <2>1. \E pc \in SessionPC : \E map : sess' = Collect([sess EXCEPT ![s].pc = pc], map)
    BY <1>3 DEF Reload, ReloadFails, GetTunnel, GetTunnelFails, Listen, Hangs, Establish, Store, Forget,
                Goto, SessionPC
  <2> QED
    BY <1>2, <2>1
<1>4. CASE CertFails(s) \/ DialFails(s) \/ SetupFails(s)
  <2>1. PICK b \in BOOLEAN : AttemptFails(s, b)
    BY <1>4 DEF CertFails, DialFails, SetupFails
  <2> DEFINE closed == sess[s].closed \/ b
             tries == IF sess[s].tries < NumOfRetry THEN sess[s].tries + 1 ELSE sess[s].tries
             pc == IF sess[s].tries < NumOfRetry THEN "dialing" ELSE "ended"
             c == [sess[s] EXCEPT !.closed = closed, !.tries = tries, !.pc = pc]
  <2>2. c \in Session /\ c.key = sess[s].key /\ c.id = sess[s].id
    <3>1. closed \in BOOLEAN
      OBVIOUS
    <3>2. tries \in 0..NumOfRetry
      BY <1>1, ConstantsAssumption DEF Session
    <3>3. pc \in SessionPC
      BY DEF SessionPC
    <3> HIDE DEF closed, tries, pc
    <3> QED
      BY <1>1, <3>1, <3>2, <3>3 DEF Session
  <2>3. sess' = [sess EXCEPT ![s] = c]
    BY <1>1, <2>1 DEF AttemptFails, TypeInv, TypeOK, Session
  <2> HIDE DEF c
  <2> QED
    BY <1>1, <2>2, <2>3, SessionKeeps
<1>5. CASE ListenRefused(s) \/ SessionDrops(s)
  <2> DEFINE c == [sess[s] EXCEPT !.closed = TRUE, !.pc = "ended"]
  <2>1. c \in Session /\ c.key = sess[s].key /\ c.id = sess[s].id
    BY <1>1 DEF Session, SessionPC
  <2>2. sess' = [sess EXCEPT ![s] = c]
    BY <1>1, <1>5 DEF ListenRefused, SessionDrops, Close, At, TypeInv, TypeOK, Session
  <2> HIDE DEF c
  <2> QED
    BY <1>1, <2>1, <2>2, SessionKeeps
<1> QED
  BY <1>3, <1>4, <1>5 DEF SessionStep

LEMMA SessionsStep ==
    ASSUME TypeInv, [Next]_vars
    PROVE  SessionsFrom
<1>1. CASE sess' = sess
  BY <1>1 DEF SessionsFrom
<1>2. CASE sess' = NoneOf(Sessions)
  BY <1>2 DEF SessionsFrom, NoneOf
<1>3. ASSUME NEW s \in Sessions, StartTunnel(s) PROVE SessionsFrom
  <2> DEFINE c == [key |-> Head(connectChan).key, id |-> Head(connectChan).id,
                   pc |-> "spawned", closed |-> FALSE, tries |-> 0]
  <2>1. 1 \in DOMAIN connectChan /\ Head(connectChan) = connectChan[1]
    BY <1>3 DEF StartTunnel, TypeInv, TypeOK
  <2>2. c.key = connectChan[1].key /\ c.id = connectChan[1].id
    BY <2>1
  <2>3. sess' = [sess EXCEPT ![s] = c]
    BY <1>3 DEF StartTunnel
  <2> HIDE DEF c
  <2> QED
    BY <2>1, <2>2, <2>3 DEF SessionsFrom, TypeInv, TypeOK
<1>4. CASE CloseTunnel
  <2> DEFINE k == Head(connectChan).key
             s == tracked[k]
  <2>1. k \in Keys
    <3>1. Head(connectChan) \in Request
      BY <1>4 DEF CloseTunnel, TypeInv, TypeOK
    <3> QED
      BY <3>1 DEF Request
  <2>2. CASE s # None
    <3>1. s \in Sessions /\ sess[s] # None
      BY <2>1, <2>2 DEF TypeInv, TypeOK, TrackedUnderOwnKey
    <3>2. sess[s] \in Session
      BY <3>1 DEF TypeInv, TypeOK
    <3>3. Close(sess[s]) \in Session /\ Close(sess[s]).key = sess[s].key
          /\ Close(sess[s]).id = sess[s].id
      BY <3>2 DEF Close, Session, SessionPC
    <3>4. sess' = [sess EXCEPT ![s] = Close(sess[s])]
      BY <1>4, <2>2 DEF CloseTunnel
    <3> QED
      BY <3>1, <3>3, <3>4, SessionKeeps
  <2> QED
    BY <1>1, <1>4, <2>2 DEF CloseTunnel
<1>5. CASE \E s \in Sessions : SessionStep(s) \/ SessionDrops(s) \/ Hangs(s)
  BY <1>5, SessionStepKeeps
<1>6. CASE ReconcileNext \/ Environment \/ UNCHANGED vars
  <2>1. sess' = sess \/ sess' = NoneOf(Sessions)
    BY <1>6 DEF ReconcileNext, DiscoveryStep, Find, Publish, WorkerStep, Receive, ListSockets,
       DeleteSocket, FinishDeletes, BeginCreate, CreateSocket, CreateTunnel, UpdatePrivate,
       AttachPolicies, KeepSocket, ApplyPolicies, UpdateSocket, FinishCreates, RequestConnect,
       SkipConnected, FinishRound, RequestDisconnect, RecreateSocket, OnlyWorker, Environment,
       WorldChanges, UserDeletes, UserEdits, Restart, tunnelVars, vars
  <2> QED
    BY <1>1, <1>2, <2>1
<1> QED
  BY <1>3, <1>4, <1>5, <1>6 DEF Next, TunnelNext, JobStep

\* What waits in connectChan, and every tunnel goroutine, names a socket of its
\* own key however long ago the worker took the id from a listing.
THEOREM ServingCorrect == Spec => []TunnelsServeTheirKey
<1>1. Init => ServingInv
  BY ConstantsAssumption DEF Init, Idle, NoneOf, ServingInv, TargetsKeepTheirKey,
                             TunnelsServeTheirKey
<1>2. /\ TypeInv /\ ListingInv /\ (TypeInv /\ ListingInv)' /\ ServingInv /\ [Next]_vars
      => ServingInv'
  BY StepEffect, TargetStep, RequestStep, SessionsStep, ServingFrom
<1>3. ServingInv => TunnelsServeTheirKey
  BY DEF ServingInv
<1> QED
  BY <1>1, <1>2, <1>3, ListingInvariant, PTL DEF Spec

-----------------------------------------------------------------------------
(* The moves of the worker's loops *)

SameLoops == /\ round'.cur = round.cur
             /\ round'.todo = round.todo
             /\ round'.unchecked = round.unchecked

\* The delete loop turns to a socket, removes it, and goes on or recreates it.
TurnsToSocket == /\ round.pc = "check" /\ round'.pc = "delete" /\ api' = api
                 /\ round'.cur \in round.unchecked
                 /\ round'.unchecked = round.unchecked \ {round'.cur}
                 /\ round'.todo = round.todo

Deletes == /\ round.pc = "delete" /\ Exists(round.cur)
           /\ api' = [api EXCEPT ![round.cur] = None]
           /\ round'.todo = round.todo /\ round'.unchecked = round.unchecked
           /\ \/ round'.pc = "createSocket" /\ round'.cur = round.cur
              \/ /\ round'.pc = "check" /\ round'.cur = None
                 /\ ~Discovered(round.view[round.cur].key)

\* A socket is created and set up, for either loop.
Creates == CreateSocket /\ round'.pc = "createTunnel" /\ SameLoops

SetsUp == /\ round.pc \in MadePC /\ round'.pc \in MadePC /\ SameLoops
          /\ round'.made = round.made

EndsRecreate == /\ round.pc = "attach" /\ round.cur # None
                /\ round'.pc = "check" /\ round'.cur = None
                /\ round'.todo = round.todo /\ round'.unchecked = round.unchecked

EndsCreate == /\ round.pc = "attach" /\ round.cur = None /\ round.todo # <<>>
              /\ round'.pc = "create" /\ round'.cur = None
              /\ round'.todo = Tail(round.todo) /\ round'.unchecked = round.unchecked

\* The create loop starts, and takes its next socket.
TurnsToCreates == /\ round.pc = "check" /\ round'.pc = "create"
                  /\ round'.cur = round.cur /\ round'.unchecked = round.unchecked
                  /\ round'.todo = round.local

TurnsToCreate == /\ round.pc = "create" /\ round'.pc = "createSocket" /\ SameLoops
                 /\ round.apiOf[Head(round.todo).key] = None

Advances == /\ round.pc \in {"create", "update"} /\ round'.pc = "create"
            /\ round.todo # <<>> /\ round'.todo = Tail(round.todo)
            /\ round.apiOf[Head(round.todo).key] # None
            /\ round'.cur = round.cur /\ round'.unchecked = round.unchecked

\* Policies, and the loop of connect requests.
Stays == /\ \/ round.pc = "create" /\ round'.pc = "update"
            \/ round.pc = "connect" /\ round'.pc = "connect"
         /\ SameLoops

Progress == \/ TurnsToSocket \/ Deletes \/ Creates \/ SetsUp \/ EndsRecreate \/ EndsCreate
            \/ TurnsToCreates \/ TurnsToCreate \/ Advances \/ Stays

LEMMA WorkerProgress ==
    ASSUME TypeInv, WorkerStep, round' # Idle, ~Receive, ~ListSockets, ~FinishCreates
    PROVE  Progress
<1>1. CASE DeleteSocket
  <2> DEFINE next == IF Discovered(round.view[round.cur].key)
                     THEN [round EXCEPT !.pc = "createSocket"]
                     ELSE [round EXCEPT !.pc = "check", !.cur = None]
  <2>1. /\ round' = next /\ Exists(round.cur)
        /\ api' = [api EXCEPT ![round.cur] = None] /\ round.pc = "delete"
    BY <1>1 DEF DeleteSocket, NotFound, Call
  <2>2. Deletes
    BY <2>1 DEF TypeInv, TypeOK, Round, Deletes
  <2> QED
    BY <2>2 DEF Progress
<1>2. CASE CreateSocket
  <2>1. PICK i \in Ids : round' = [round EXCEPT !.pc = "createTunnel", !.made = i]
    BY <1>2, CreateSocketMoves
  <2>2. Creates
    BY <1>2, <2>1 DEF TypeInv, TypeOK, Round, Creates, SameLoops
  <2> QED
    BY <2>2 DEF Progress
<1>3. CASE CreateTunnel \/ UpdatePrivate
  <2>1. round.pc \in MadePC /\ \E pc \in MadePC : round' = [round EXCEPT !.pc = pc]
    <3>1. CASE CreateTunnel
      BY <3>1, CallOutcomes DEF CreateTunnel, NotFound, MadePC, CreatingPC, TypeInv
    <3>2. CASE UpdatePrivate
      BY <3>2, UpdatePrivateOutcomes DEF UpdatePrivate, MadePC, CreatingPC
    <3> QED
      BY <1>3, <3>1, <3>2
  <2>2. SetsUp
    BY <2>1 DEF TypeInv, TypeOK, Round, SetsUp, SameLoops
  <2> QED
    BY <2>2 DEF Progress
<1>4. CASE AttachPolicies
  <2>1. EndsRecreate \/ EndsCreate
    BY <1>4 DEF AttachPolicies, TypeInv, TypeOK, Round, Shape, TodoIsLeft, CreatingPC,
                EndsRecreate, EndsCreate
  <2> QED
    BY <2>1 DEF Progress
<1>5. CASE FinishDeletes \/ BeginCreate
  <2>1. TurnsToCreates \/ TurnsToCreate
    BY <1>5 DEF FinishDeletes, BeginCreate, TypeInv, TypeOK, Round, TurnsToCreates, TurnsToCreate,
                SameLoops
  <2> QED
    BY <2>1 DEF Progress
<1>6. CASE ApplyPolicies \/ RequestConnect \/ SkipConnected
  <2>1. Stays
    BY <1>6 DEF ApplyPolicies, AtKnownSocket, RequestConnect, SkipConnected, TypeInv, TypeOK, Round,
                Stays, SameLoops
  <2> QED
    BY <2>1 DEF Progress
<1>7. CASE KeepSocket \/ UpdateSocket
  <2>1. /\ round' = Advanced /\ round.pc \in {"create", "update"} /\ round.todo # <<>>
        /\ round.apiOf[Head(round.todo).key] # None
    BY <1>7, UpdateSocketApi DEF KeepSocket, AtKnownSocket, UpdateSocket, TypeInv, Shape, TodoIsLeft
  <2>2. Advances
    BY <2>1 DEF Advanced, TypeInv, TypeOK, Round, Advances
  <2> QED
    BY <2>2 DEF Progress
<1>8. CASE \E i \in Ids : RequestDisconnect(i) \/ RecreateSocket(i)
  <2>1. PICK i \in round.unchecked :
           /\ round.pc = "check" /\ api' = api
           /\ round' = [round EXCEPT !.pc = "delete", !.cur = i, !.unchecked = @ \ {i}]
    BY <1>8 DEF RequestDisconnect, RecreateSocket, NextEntry
  <2>2. TurnsToSocket
    BY <2>1 DEF TypeInv, TypeOK, Round, TurnsToSocket
  <2> QED
    BY <2>2 DEF Progress
<1> QED
  BY <1>1, <1>2, <1>3, <1>4, <1>5, <1>6, <1>7, <1>8 DEF WorkerStep, FinishRound

\* Every step, for the round.
LEMMA RoundProgress ==
    ASSUME TypeInv, [Next]_vars
    PROVE  \/ round' = round
           \/ round' = Idle
           \/ Receive
           \/ ListSockets /\ Lists
           \/ FinishCreates
           \/ SameListing /\ Progress
<1>1. CASE WorkerStep /\ SameListing /\ round' # Idle /\ ~Receive /\ ~ListSockets /\ ~FinishCreates
  BY <1>1, WorkerProgress
<1>2. CASE ListSockets /\ round' # Idle
  BY <1>2 DEF ListSockets, Lists
<1> QED
  BY <1>1, <1>2, RoundStep

LEMMA CreateMovesOn ==
    ASSUME TypeInv, CreateSocket
    PROVE  round'.pc \in {"createTunnel", "receive"} /\ round' # round
<1>1. ASSUME NEW j \in Ids, round' = [round EXCEPT !.pc = "createTunnel", !.made = j]
      PROVE  round'.pc = "createTunnel"
  BY <1>1 DEF TypeInv, TypeOK, Round
<1>2. Idle.pc = "receive"
  BY DEF Idle
<1>3. round'.pc \in {"createTunnel", "receive"}
  BY <1>1, <1>2, CreateSocketMoves
<1> QED
  BY <1>3 DEF CreateSocket

\* What changes no round leaves the sockets' keys and data.
LEMMA QuietStep ==
    ASSUME TypeInv, [Next]_vars, round' = round, NEW i \in Ids, api'[i] # None
    PROVE  Exists(i) /\ api'[i].key = api[i].key /\ api'[i].data = api[i].data
<1>1. ~CreateSocket /\ ~UpdateSocket
  <2>1. ~CreateSocket
    BY CreateMovesOn
  <2>2. UpdateSocket => round'.pc \in {"create", "receive"}
    <3>1. Idle.pc = "receive" /\ Advanced.pc = "create"
      BY DEF Idle, Advanced, TypeInv, TypeOK, Round
    <3> QED
      BY <3>1, UpdateSocketApi
  <2> QED
    BY <2>1, <2>2 DEF CreateSocket, UpdateSocket
<1> QED
  BY <1>1, StepEffect DEF SocketsStand, SameSocket, NewSocket, DataStand, Exists

-----------------------------------------------------------------------------
(* Stale sockets *)

LEMMA TodoIsLocal ==
    ASSUME TypeInv, RoundIsDistinct, NEW n \in DOMAIN round.todo
    PROVE  /\ round.todo[n] \in LocalSocket
           /\ Discovered(round.todo[n].key)
           /\ LocalFor(round.todo[n].key) = round.todo[n]
<1>1. round.todo[n] \in LocalSocket
  BY DEF TypeInv, TypeOK, Round
<1>2. PICK m \in DOMAIN round.local : round.local[m] = round.todo[n]
  BY DEF RoundIsDistinct
<1>3. Discovered(round.todo[n].key)
  BY <1>2 DEF Discovered
<1>4. PICK l \in DOMAIN round.local : /\ LocalFor(round.todo[n].key) = round.local[l]
                                      /\ round.local[l].key = round.todo[n].key
  BY <1>3, LocalForKey DEF TypeInv, TypeOK
<1>5. l = m
  BY <1>2, <1>4 DEF RoundIsDistinct, Distinct
<1> QED
  BY <1>1, <1>2, <1>3, <1>4, <1>5

\* What CreateSocket creates is what was discovered.
LEMMA WantedIsLocal ==
    ASSUME TypeInv, RoundIsDistinct, round.pc = "createSocket"
    PROVE  /\ Wanted.key \in Keys
           /\ Discovered(Wanted.key) /\ LocalFor(Wanted.key) = Wanted
<1>1. CASE round.cur # None
  <2>1. Discovered(round.view[round.cur].key)
    BY <1>1 DEF TypeInv, Shape, CurrentIsListed
  <2>2. PICK n \in DOMAIN round.local :
            /\ LocalFor(round.view[round.cur].key) = round.local[n]
            /\ round.local[n].key = round.view[round.cur].key
            /\ round.local[n] \in LocalSocket
    BY <2>1, LocalForKey DEF TypeInv, TypeOK
  <2> QED
    BY <1>1, <2>1, <2>2 DEF Wanted, LocalSocket
<1>2. CASE round.cur = None
  <2>1. round.todo # <<>>
    BY <1>2 DEF TypeInv, Shape, TodoIsLeft, CreatingPC
  <2>2. 1 \in DOMAIN round.todo /\ Wanted = round.todo[1]
    BY <1>2, <2>1 DEF Wanted, TypeInv, TypeOK, Round
  <2> QED
    BY <2>2, TodoIsLocal DEF LocalSocket
<1> QED
  BY <1>1, <1>2

LEMMA DistinctTail ==
    ASSUME NEW S, NEW q \in Seq(S), q # <<>>, Distinct(q)
    PROVE  /\ Distinct(Tail(q))
           /\ \A n \in DOMAIN Tail(q) : n + 1 \in DOMAIN q /\ Tail(q)[n] = q[n + 1]
<1>1. \A n \in DOMAIN Tail(q) : n + 1 \in DOMAIN q /\ Tail(q)[n] = q[n + 1]
  OBVIOUS
<1>2. DOMAIN Tail(q) \subseteq Nat
  OBVIOUS
<1> QED
  BY <1>1, <1>2 DEF Distinct

LEMMA RoundKeptDistinct ==
    ASSUME DistinctDiscoveries, TypeInv, RoundIsDistinct, [Next]_vars
    PROVE  RoundIsDistinct'
<1>1. CASE round' = round
  BY <1>1 DEF RoundIsDistinct
<1>2. CASE round' = Idle
  BY <1>2 DEF RoundIsDistinct, Idle, Distinct
<1>3. CASE Receive
  <2>1. Head(updates) \in Discoveries
    BY <1>3 DEF Receive, TypeInv, TypeOK
  <2>2. round'.local = Head(updates) /\ round'.todo = <<>>
    BY <1>3 DEF Receive, Idle
  <2> QED
    BY <2>1, <2>2 DEF DistinctDiscoveries, RoundIsDistinct, Distinct
<1>4. CASE round'.local = round.local /\ round'.todo = round.todo
  BY <1>4 DEF RoundIsDistinct
<1>5. CASE ListSockets /\ Lists
  BY <1>4, <1>5 DEF Lists, TypeInv, TypeOK, Round
<1>6. CASE FinishCreates
  BY <1>4, <1>6 DEF FinishCreates, TypeInv, TypeOK, Round
<1>7. CASE SameListing /\ Progress
  <2>1. CASE round'.todo = round.local
    BY <1>7, <2>1 DEF SameListing, RoundIsDistinct
  <2>2. CASE round.todo # <<>> /\ round'.todo = Tail(round.todo)
    <3>1. round.todo \in Seq(LocalSocket)
      BY DEF TypeInv, TypeOK, Round
    <3>2. /\ Distinct(Tail(round.todo))
          /\ \A n \in DOMAIN Tail(round.todo) :
                n + 1 \in DOMAIN round.todo /\ Tail(round.todo)[n] = round.todo[n + 1]
      BY <2>2, <3>1, DistinctTail DEF RoundIsDistinct
    <3> QED
      BY <1>7, <2>2, <3>2 DEF SameListing, RoundIsDistinct
  <2> QED
    BY <1>4, <1>7, <2>1, <2>2 DEF SameListing, SameLoops, Progress, TurnsToSocket, Deletes,
       Creates, SetsUp, EndsRecreate, EndsCreate, TurnsToCreates, TurnsToCreate, Advances, Stays
<1> QED
  BY <1>1, <1>2, <1>3, <1>5, <1>6, <1>7, RoundProgress

\* A socket that is superseded after a step was so before it.
LEMMA StillStale ==
    ASSUME TypeInv, ListingInv, RoundIsDistinct, [Next]_vars, SameListing,
           NEW i \in Ids, api'[i] # None, Superseded(api[i])'
    PROVE  Exists(i) /\ Superseded(api[i])
<1>1. SocketsStand /\ DataStand
  BY StepEffect
<1>2. /\ \A k : Discovered(k)' <=> Discovered(k)
      /\ \A k : LocalFor(k)' = LocalFor(k)
  BY LocalStands DEF SameListing
<1>3. /\ api'[i].key \in Keys
      /\ Discovered(api'[i].key) => LocalFor(api'[i].key).data # api'[i].data
  BY <1>2 DEF Superseded
<1>4. ~NewSocket(i)
  <2> SUFFICES ASSUME NewSocket(i) PROVE FALSE
    OBVIOUS
  <2>1. Discovered(Wanted.key) /\ LocalFor(Wanted.key) = Wanted
    BY WantedIsLocal DEF NewSocket, CreateSocket
  <2> QED
    BY <1>3, <2>1 DEF NewSocket
<1>5. Exists(i) /\ api'[i].key = api[i].key
  BY <1>1, <1>4 DEF SocketsStand, SameSocket
<1>6. CASE api'[i].data = api[i].data
  BY <1>3, <1>5, <1>6 DEF Superseded
<1>7. CASE /\ UpdateSocket /\ i = round.apiOf[Head(round.todo).key]
           /\ api'[i].data = Head(round.todo).data
  <2>1. round.todo # <<>>
    BY <1>7 DEF UpdateSocket, TypeInv, Shape, TodoIsLeft
  <2>2. 1 \in DOMAIN round.todo /\ Head(round.todo) = round.todo[1]
    BY <2>1 DEF TypeInv, TypeOK, Round
  <2>3. /\ Head(round.todo).key \in Keys
        /\ Discovered(Head(round.todo).key)
        /\ LocalFor(Head(round.todo).key) = Head(round.todo)
    BY <2>2, TodoIsLocal DEF LocalSocket
  <2>4. api[i].key = Head(round.todo).key
    BY <1>5, <1>7, <2>3, ConstantsAssumption DEF ListingInv, ListedKeysStand, MapNamesListed
  <2> QED
    BY <1>3, <1>5, <1>7, <2>3, <2>4
<1> QED
  BY <1>1, <1>5, <1>6, <1>7 DEF DataStand

LEMMA StaleKept ==
    ASSUME DistinctDiscoveries, TypeInv, ListingInv, StaleInv, [Next]_vars
    PROVE  StaleInv'
<1>1. RoundIsDistinct'
  BY RoundKeptDistinct DEF StaleInv
<1>2. SupersededIsUnchecked'
  <2>1. CASE round' = round
    <3>1. SameListing
      BY <2>1 DEF SameListing
    <3> QED
      BY <2>1, <3>1, StillStale DEF StaleInv, SupersededIsUnchecked, Exists
  <2>2. CASE round' = Idle \/ Receive
    <3>1. round'.pc \in {"receive", "list"}
      <4>1. Idle.pc = "receive" /\ [Idle EXCEPT !.pc = "list", !.local = Head(updates)].pc = "list"
        BY DEF Idle
      <4> QED
        BY <2>2, <4>1 DEF Receive
    <3> QED
      BY <3>1 DEF SupersededIsUnchecked
  <2>3. CASE ListSockets /\ Lists
    <3>1. /\ round'.unchecked = {i \in Ids : Exists(i) /\ Superseded(api[i])}
          /\ round'.local = round.local /\ api' = api
      BY <2>3 DEF Lists, ListSockets, TypeInv, TypeOK, Round
    <3> QED
      BY <3>1, LocalStands DEF SupersededIsUnchecked, Superseded, Exists
  <2>4. CASE FinishCreates
    <3>1. /\ round'.unchecked = round.unchecked /\ round'.local = round.local /\ api' = api
          /\ round.pc = "create"
      BY <2>4 DEF FinishCreates, TypeInv, TypeOK, Round
    <3> QED
      BY <3>1, LocalStands DEF StaleInv, SupersededIsUnchecked, Superseded, Exists
  <2>5. CASE SameListing /\ Progress
    <3> SUFFICES ASSUME NEW i \in Ids, api'[i] # None, Superseded(api[i])'
                 PROVE  i \in round'.unchecked \/ (round'.pc = "delete" /\ i = round'.cur)
      BY DEF SupersededIsUnchecked, Exists
    <3>1. Exists(i) /\ Superseded(api[i])
      BY <2>5, StillStale DEF StaleInv
    <3>2. round.pc \notin {"receive", "list"}
      BY <2>5 DEF Progress, TurnsToSocket, Deletes, Creates, SetsUp, EndsRecreate, EndsCreate,
         TurnsToCreates, TurnsToCreate, Advances, Stays, CreateSocket, MadePC, CreatingPC
    <3>3. i \in round.unchecked \/ (round.pc = "delete" /\ i = round.cur)
      BY <3>1, <3>2 DEF StaleInv, SupersededIsUnchecked
    <3>4. CASE round.pc = "delete"
      <4>1. Deletes
        BY <2>5, <3>4 DEF Progress, TurnsToSocket, Creates, SetsUp, EndsRecreate, EndsCreate,
           TurnsToCreates, TurnsToCreate, Advances, Stays, CreateSocket, MadePC, CreatingPC
      <4>2. i # round.cur
        BY <4>1 DEF Deletes, TypeInv, TypeOK, ApiState
      <4> QED
        BY <3>3, <4>1, <4>2 DEF Deletes
    <3>5. CASE round.pc # "delete"
      <4>1. i \in round.unchecked
        BY <3>3, <3>5
      <4> QED
        BY <2>5, <3>5, <4>1 DEF Progress, TurnsToSocket, Deletes, Creates, SetsUp, EndsRecreate,
           EndsCreate, TurnsToCreates, TurnsToCreate, Advances, Stays, SameLoops
    <3> QED
      BY <3>4, <3>5
  <2> QED
    BY <2>1, <2>2, <2>3, <2>4, <2>5, RoundProgress
<1> QED
  BY <1>1, <1>2 DEF StaleInv

\* What was received is what some Find returned, and every superseded socket is
\* still ahead of the delete loop or gone.
THEOREM StaleInvariant ==
    ASSUME DistinctDiscoveries
    PROVE  Spec => [](TypeInv /\ ListingInv /\ StaleInv)
<1>1. Init => StaleInv
  BY DEF Init, Idle, StaleInv, RoundIsDistinct, Distinct, SupersededIsUnchecked
<1>2. TypeInv /\ ListingInv /\ StaleInv /\ [Next]_vars => StaleInv'
  BY StaleKept
<1> QED
  BY <1>1, <1>2, ListingInvariant, PTL DEF Spec

\* When the delete loop is over, every socket of this connector and plugin was
\* discovered and carries the discovered data; so it stays until the round ends.
THEOREM NoStaleCorrect ==
    ASSUME DistinctDiscoveries
    PROVE  Spec => []NoStaleSocketSurvives
<1>1. TypeInv /\ StaleInv => NoStaleSocketSurvives
  <2> SUFFICES ASSUME TypeInv, StaleInv, round.pc \in {"create", "update", "connect"},
                      NEW i \in Ids, Exists(i), api[i].key \in Keys
               PROVE  Discovered(api[i].key) /\ LocalFor(api[i].key).data = api[i].data
    BY DEF NoStaleSocketSurvives
  <2>1. round.unchecked = {}
    BY DEF TypeInv, Shape, UncheckedIsOver, CreatingPC
  <2> QED
    BY <2>1 DEF StaleInv, SupersededIsUnchecked, Superseded
<1> QED
  BY <1>1, StaleInvariant, PTL

-----------------------------------------------------------------------------
(* One socket per key *)

\* Only CreateSocket takes a free key.
LEMMA StillFree ==
    ASSUME TypeInv, [Next]_vars, NEW k, Free(k), CreateSocket => Wanted.key # k
    PROVE  Free(k)'
BY StepEffect DEF Free, SocketsStand, SameSocket, NewSocket, Exists

\* The key it takes is free.
LEMMA RecreatedKey ==
    ASSUME TypeInv, round.pc = "createSocket", round.cur # None
    PROVE  Wanted.key = round.view[round.cur].key
<1>1. Discovered(round.view[round.cur].key)
  BY DEF TypeInv, Shape, CurrentIsListed
<1> QED
  BY <1>1, LocalForKey DEF Wanted, TypeInv, TypeOK

LEMMA WantedIsFree ==
    ASSUME TypeInv, UniqueInv, CreateSocket
    PROVE  Free(Wanted.key)
<1>1. round.pc = "createSocket"
  BY DEF CreateSocket
<1>2. CASE round.cur # None
  BY <1>1, <1>2, RecreatedKey DEF UniqueInv, RecreatedIsFree
<1>3. CASE round.cur = None
  <2>1. round.todo # <<>>
    BY <1>1, <1>3 DEF TypeInv, Shape, TodoIsLeft, CreatingPC
  <2>2. 1 \in DOMAIN round.todo /\ Wanted = round.todo[1] /\ Head(round.todo) = round.todo[1]
    BY <1>3, <2>1 DEF Wanted, TypeInv, TypeOK, Round
  <2> QED
    BY <1>1, <1>3, <2>2 DEF UniqueInv, CreateIsUnmapped, TodoIsFree, MadePC, CreatingPC
<1> QED
  BY <1>2, <1>3

LEMMA OneSocketKept ==
    ASSUME TypeInv, UniqueInv, [Next]_vars
    PROVE  OneSocketPerKey'
<1> SUFFICES ASSUME NEW i \in Ids, NEW j \in Ids, api'[i] # None, api'[j] # None, i # j,
                    api'[i].key = api'[j].key, api'[i].key \in Keys
             PROVE  FALSE
  BY DEF OneSocketPerKey, Exists
<1>1. SocketsStand
  BY StepEffect
<1>2. CASE SameSocket(i) /\ SameSocket(j)
  BY <1>2 DEF SameSocket, UniqueInv, OneSocketPerKey
<1>3. CASE CreateSocket
  <2>1. PICK n \in Ids : ~Exists(n) /\ \A m \in Ids \ {n} : api'[m] = api[m]
    BY <1>3, CreateSocketMoves
  <2>2. Free(Wanted.key)
    BY <1>3, WantedIsFree
  <2>3. ASSUME NEW x \in Ids, NEW y \in Ids, NewSocket(x), SameSocket(y), api'[x].key = api'[y].key
        PROVE  FALSE
    BY <2>2, <2>3 DEF Free, NewSocket, SameSocket
  <2>4. ~ (NewSocket(i) /\ NewSocket(j))
    BY <2>1 DEF NewSocket, Fresh, Exists
  <2> QED
    BY <1>1, <1>2, <2>3, <2>4 DEF SocketsStand
<1> QED
  BY <1>1, <1>2, <1>3 DEF SocketsStand, NewSocket

\* The loops start with an empty list, and the delete loop before the other.
LEMMA LoopsKept ==
    ASSUME TypeInv, UniqueInv, [Next]_vars
    PROVE  TodoIsLater' /\ CreateIsUnmapped' /\ RecreatedIsMapped'
<1>1. CASE round' = round
  BY <1>1 DEF UniqueInv, TodoIsLater, CreateIsUnmapped, RecreatedIsMapped, Deleting
<1>2. CASE round' = Idle
  BY <1>2 DEF Idle, TodoIsLater, CreateIsUnmapped, RecreatedIsMapped
<1>3. CASE Receive
  <2>1. /\ round'.pc = "list" /\ round'.todo = <<>> /\ round'.unchecked = {} /\ round'.cur = None
    BY <1>3 DEF Receive, Idle
  <2> QED
    BY <2>1 DEF TodoIsLater, CreateIsUnmapped, RecreatedIsMapped
<1>4. CASE ListSockets /\ Lists
  <2>1. PICK map \in LastByKey :
            round' = [round EXCEPT
                 !.pc = "check", !.view = api, !.apiOf = map,
                 !.unchecked = {i \in Ids : Exists(i) /\ Superseded(api[i])}]
    BY <1>4 DEF Lists
  <2>2. /\ round'.pc = "check" /\ round'.todo = round.todo /\ round'.cur = round.cur
        /\ round'.view = api /\ round'.apiOf = map
        /\ round'.unchecked = {i \in Ids : Exists(i) /\ Superseded(api[i])}
    BY <2>1 DEF TypeInv, TypeOK, Round
  <2>3. round.pc = "list" /\ round.cur = None
    BY <1>4 DEF ListSockets, TypeInv, Shape, CurrentIsListed, CreatingPC
  <2>4. \A i \in Ids : Exists(i) /\ api[i].key \in Keys => map[api[i].key] # None
    BY ConstantsAssumption DEF LastByKey
  <2> QED
    BY <2>2, <2>3, <2>4 DEF UniqueInv, TodoIsLater, CreateIsUnmapped, RecreatedIsMapped, Superseded
<1>5. CASE FinishCreates
  <2>1. /\ round.pc = "create" /\ round'.pc = "connect" /\ round'.cur = round.cur
        /\ round'.unchecked = round.unchecked
    BY <1>5 DEF FinishCreates, TypeInv, TypeOK, Round
  <2>2. round.cur = None /\ round.unchecked = {}
    BY <2>1 DEF TypeInv, Shape, CurrentIsListed, UncheckedIsOver, CreatingPC
  <2> QED
    BY <2>1, <2>2 DEF TodoIsLater, CreateIsUnmapped, RecreatedIsMapped, Deleting
<1>6. CASE SameListing /\ Progress
  <2>1. RecreatedIsMapped'
    <3>1. round'.unchecked \subseteq round.unchecked
      BY <1>6 DEF Progress, TurnsToSocket, Deletes, Creates, SetsUp, EndsRecreate, EndsCreate,
         TurnsToCreates, TurnsToCreate, Advances, Stays, SameLoops
    <3>2. round'.cur \in round.unchecked \cup {round.cur, None}
      BY <1>6 DEF Progress, TurnsToSocket, Deletes, Creates, SetsUp, EndsRecreate, EndsCreate,
         TurnsToCreates, TurnsToCreate, Advances, Stays, SameLoops
    <3> QED
      BY <1>6, <3>1, <3>2 DEF SameListing, UniqueInv, RecreatedIsMapped
  <2>2. TodoIsLater'
    BY <1>6 DEF Progress, TurnsToSocket, Deletes, Creates, SetsUp, EndsRecreate, EndsCreate,
       TurnsToCreates, TurnsToCreate, Advances, Stays, SameLoops, UniqueInv, TodoIsLater, Deleting,
       TypeInv, Shape, CurrentIsListed, CreateSocket, MadePC, CreatingPC
  <2>3. CreateIsUnmapped'
    BY <1>6 DEF Progress, TurnsToSocket, Deletes, Creates, SetsUp, EndsRecreate, EndsCreate,
       TurnsToCreates, TurnsToCreate, Advances, Stays, SameLoops, SameListing, CreateIsUnmapped,
       TypeInv, Shape, CurrentIsListed, MadePC, CreatingPC
  <2> QED
    BY <2>1, <2>2, <2>3
<1> QED
  BY <1>1, <1>2, <1>3, <1>4, <1>5, <1>6, RoundProgress

\* The loops' moves, except that a socket may have been created meanwhile.
LEMMA UnmappedKept ==
    ASSUME TypeInv, ListingInv, UniqueInv, [Next]_vars
    PROVE  UnmappedIsFree'
<1> SUFFICES ASSUME Deleting', NEW k \in Keys, round'.apiOf[k] = None
             PROVE  Free(k)'
  BY DEF UnmappedIsFree
<1>1. ASSUME Deleting, round.apiOf[k] = None, CreateSocket => Wanted.key # k
      PROVE  Free(k)'
  BY <1>1, StillFree DEF UniqueInv, UnmappedIsFree
<1>2. CASE round' = round
  <2>1. Deleting /\ round.apiOf[k] = None
    BY <1>2 DEF Deleting
  <2>2. ~CreateSocket
    BY <1>2, CreateMovesOn
  <2> QED
    BY <1>1, <2>1, <2>2
<1>3. CASE round' = Idle \/ Receive
  <2>1. round'.pc \in {"receive", "list"}
    <3>1. Idle.pc = "receive" /\ [Idle EXCEPT !.pc = "list", !.local = Head(updates)].pc = "list"
      BY DEF Idle
    <3> QED
      BY <1>3, <3>1 DEF Receive
  <2> QED
    BY <2>1 DEF Deleting, CreatingPC
<1>4. CASE ListSockets /\ Lists
  <2>1. PICK map \in LastByKey :
            round' = [round EXCEPT
                 !.pc = "check", !.view = api, !.apiOf = map,
                 !.unchecked = {i \in Ids : Exists(i) /\ Superseded(api[i])}]
    BY <1>4 DEF Lists
  <2>2. round'.apiOf = map /\ api' = api
    BY <1>4, <2>1 DEF TypeInv, TypeOK, Round, ListSockets
  <2>3. \A i \in Ids : Exists(i) => api[i].key # k
    BY <2>2, ConstantsAssumption DEF LastByKey
  <2> QED
    BY <2>2, <2>3 DEF Free, Exists
<1>5. CASE FinishCreates
  <2>1. round'.pc = "connect"
    BY <1>5 DEF FinishCreates, TypeInv, TypeOK, Round
  <2> QED
    BY <2>1 DEF Deleting, CreatingPC
<1>6. CASE SameListing /\ Progress
  <2>1. Deleting
    BY <1>6 DEF Progress, TurnsToSocket, Deletes, Creates, SetsUp, EndsRecreate, EndsCreate,
       TurnsToCreates, TurnsToCreate, Advances, Stays, SameLoops, Deleting, CreateSocket, MadePC,
       CreatingPC, TypeInv, Shape, CurrentIsListed
  <2>2. round.apiOf[k] = None
    BY <1>6 DEF SameListing
  <2>3. CreateSocket => Wanted.key # k
    <3> SUFFICES ASSUME CreateSocket PROVE Wanted.key # k
      OBVIOUS
    <3>1. round.pc = "createSocket" /\ round.cur # None
      BY <2>1 DEF CreateSocket, Deleting
    <3>2. Wanted.key = round.view[round.cur].key
      BY <3>1, RecreatedKey
    <3> QED
      BY <2>2, <3>1, <3>2 DEF UniqueInv, RecreatedIsMapped
  <2> QED
    BY <1>1, <2>1, <2>2, <2>3
<1> QED
  BY <1>2, <1>3, <1>4, <1>5, <1>6, RoundProgress

\* A deleted socket leaves its key free for the one that replaces it.
LEMMA RecreatedKept ==
    ASSUME TypeInv, ListingInv, UniqueInv, [Next]_vars
    PROVE  RecreatedIsFree'
<1> SUFFICES ASSUME round'.pc = "createSocket", round'.cur # None,
                    NEW k, k = round'.view[round'.cur].key
             PROVE  Free(k)'
  BY DEF RecreatedIsFree, Free, Exists
<1>1. CASE round' = round
  <2>1. ~CreateSocket
    BY <1>1, CreateMovesOn
  <2>2. Free(k)
    BY <1>1 DEF UniqueInv, RecreatedIsFree
  <2> QED
    BY <1>1, <2>1, <2>2, StillFree
<1>2. CASE SameListing /\ Deletes
  <2>1. /\ round.cur \in Ids /\ round.view[round.cur] # None
        /\ round.view[round.cur].key \in Keys
    BY <1>2 DEF Deletes, TypeInv, TypeOK, Round, Shape, CurrentIsListed
  <2>2. api[round.cur].key = round.view[round.cur].key
    BY <1>2, <2>1 DEF Deletes, ListingInv, ListedKeysStand
  <2>3. \A i \in Ids \ {round.cur} : Exists(i) => api[i].key # round.view[round.cur].key
    BY <1>2, <2>1, <2>2 DEF Deletes, UniqueInv, OneSocketPerKey
  <2>4. \A i \in Ids : api'[i] # None => i # round.cur /\ api'[i] = api[i]
    BY <1>2 DEF Deletes, TypeInv, TypeOK, ApiState
  <2>5. \A i \in Ids : api'[i] # None => api'[i].key # round.view[round.cur].key
    BY <2>3, <2>4 DEF Exists
  <2>6. k = round.view[round.cur].key
    BY <1>2 DEF SameListing, Deletes
  <2> QED
    BY <2>5, <2>6 DEF Free, Exists
<1>3. CASE round' = Idle \/ Receive \/ FinishCreates
  <2>1. round'.pc \in {"receive", "list", "connect"}
    <3>1. Idle.pc = "receive" /\ [Idle EXCEPT !.pc = "list", !.local = Head(updates)].pc = "list"
      BY DEF Idle
    <3>2. FinishCreates => round'.pc = "connect"
      BY DEF FinishCreates, TypeInv, TypeOK, Round
    <3> QED
      BY <1>3, <3>1, <3>2 DEF Receive
  <2> QED
    BY <2>1
<1>4. CASE ListSockets /\ Lists
  BY <1>4 DEF Lists, TypeInv, TypeOK, Round
<1>5. CASE SameListing /\ Progress
  <2>1. Deletes
    BY <1>5 DEF Progress, TurnsToSocket, Creates, SetsUp, EndsRecreate, EndsCreate,
       TurnsToCreates, TurnsToCreate, Advances, Stays, SameLoops, MadePC, CreatingPC, TypeInv,
       Shape, CurrentIsListed
  <2> QED
    BY <1>2, <1>5, <2>1
<1> QED
  BY <1>1, <1>3, <1>4, <1>5, RoundProgress

\* What the create loop has yet to create stays free: the discovered keys are
\* distinct, so creating one takes none of the others.
LEMMA TodoKept ==
    ASSUME TypeInv, RoundIsDistinct, UniqueInv, [Next]_vars
    PROVE  TodoIsFree'
<1> SUFFICES ASSUME NEW n \in DOMAIN round'.todo, NEW k, k = round'.todo[n].key,
                    ~ (n = 1 /\ round'.pc \in MadePC), round'.apiOf[k] = None,
                    round'.pc \notin {"receive", "connect"}
             PROVE  Free(k)'
  BY DEF TodoIsFree, Free, Exists
<1>1. ASSUME NEW m \in DOMAIN round.todo, k = round.todo[m].key,
             ~ (m = 1 /\ round.pc \in MadePC), round.apiOf[k] = None,
             round.pc \notin {"receive", "connect"}, CreateSocket => Wanted.key # k
      PROVE  Free(k)'
  BY <1>1, StillFree DEF UniqueInv, TodoIsFree
<1>2. round.todo \in Seq(LocalSocket) /\ DOMAIN <<>> = {}
  BY DEF TypeInv, TypeOK, Round
<1>3. CASE round' = round
  BY <1>1, <1>3, CreateMovesOn
<1>4. CASE round' = Idle \/ Receive
  <2>1. round'.todo = <<>>
    <3>1. Idle.todo = <<>> /\ [Idle EXCEPT !.pc = "list", !.local = Head(updates)].todo = <<>>
      BY DEF Idle
    <3> QED
      BY <1>4, <3>1 DEF Receive
  <2> QED
    BY <1>2, <2>1
<1>5. CASE ListSockets /\ Lists
  <2>1. round'.todo = round.todo /\ round.pc = "list"
    BY <1>5 DEF Lists, ListSockets, TypeInv, TypeOK, Round
  <2> QED
    BY <1>2, <2>1 DEF UniqueInv, TodoIsLater
<1>6. CASE FinishCreates
  BY <1>6 DEF FinishCreates, TypeInv, TypeOK, Round
<1>7. CASE SameListing /\ (TurnsToSocket \/ Deletes \/ EndsRecreate)
  <2>1. round'.todo = round.todo /\ Deleting
    BY <1>7 DEF TurnsToSocket, Deletes, EndsRecreate, Deleting, CreatingPC
  <2> QED
    BY <1>2, <2>1 DEF UniqueInv, TodoIsLater
<1>8. CASE SameListing /\ Creates
  <2>1. /\ round.pc = "createSocket" /\ round'.pc \in MadePC /\ round'.todo = round.todo
        /\ round.apiOf[k] = None
    BY <1>8 DEF Creates, CreateSocket, SameLoops, MadePC, CreatingPC, SameListing
  <2>2. round.cur = None
    BY <1>2, <2>1 DEF UniqueInv, TodoIsLater, Deleting, CreatingPC
  <2>3. n # 1 /\ round.todo # <<>> /\ 1 \in DOMAIN round.todo /\ Wanted = round.todo[1]
    BY <1>2, <2>1, <2>2 DEF Wanted
  <2>4. Wanted.key # k
    BY <2>1, <2>3 DEF RoundIsDistinct, Distinct
  <2> QED
    BY <1>1, <2>1, <2>3, <2>4
<1>9. CASE SameListing /\ (SetsUp \/ TurnsToCreate \/ Stays)
  <2>1. /\ round'.todo = round.todo /\ ~CreateSocket /\ round.apiOf[k] = None
        /\ round.pc \in MadePC => round'.pc \in MadePC
        /\ round.pc \notin {"receive", "connect"}
    BY <1>9 DEF SetsUp, TurnsToCreate, Stays, SameLoops, CreateSocket, MadePC, CreatingPC,
                SameListing
  <2> QED
    BY <1>1, <2>1
<1>10. CASE SameListing /\ (EndsCreate \/ Advances)
  <2>1. /\ round.todo # <<>> /\ round'.todo = Tail(round.todo) /\ ~CreateSocket
        /\ round.apiOf[k] = None /\ round.pc \notin {"receive", "connect"}
    BY <1>10 DEF EndsCreate, Advances, CreateSocket, SameListing
  <2>2. n + 1 \in DOMAIN round.todo /\ k = round.todo[n + 1].key /\ n + 1 # 1
    BY <1>2, <2>1
  <2> QED
    BY <1>1, <2>1, <2>2
<1>11. CASE SameListing /\ TurnsToCreates
  <2>1. /\ round.pc = "check" /\ round'.todo = round.local /\ round.apiOf[k] = None
    BY <1>11 DEF TurnsToCreates, SameListing
  <2>2. round.local[n] \in LocalSocket
    BY <2>1 DEF TypeInv, TypeOK, Round
  <2>3. k \in Keys
    BY <2>1, <2>2 DEF LocalSocket
  <2>4. Free(k) /\ ~CreateSocket
    BY <2>1, <2>3 DEF UniqueInv, UnmappedIsFree, Deleting, CreateSocket
  <2> QED
    BY <2>4, StillFree
<1> QED
  BY <1>3, <1>4, <1>5, <1>6, <1>7, <1>8, <1>9, <1>10, <1>11, RoundProgress DEF Progress

LEMMA UniqueKept ==
    ASSUME TypeInv, ListingInv, StaleInv, UniqueInv, [Next]_vars
    PROVE  UniqueInv'
BY OneSocketKept, LoopsKept, UnmappedKept, RecreatedKept, TodoKept DEF UniqueInv, StaleInv

LEMMA InitUnique ==
    ASSUME UniqueAtFirst
    PROVE  Init => UniqueInv
<1> SUFFICES ASSUME Init PROVE UniqueInv
  OBVIOUS
<1>1. /\ round.pc = "receive" /\ round.cur = None /\ round.unchecked = {} /\ round.todo = <<>>
  BY DEF Init, Idle
<1>2. OneSocketPerKey
  BY DEF Init, UniqueAtFirst, OneSocketPerKey, Exists
<1> QED
  BY <1>1, <1>2 DEF UniqueInv, RecreatedIsMapped, UnmappedIsFree, RecreatedIsFree, TodoIsFree,
                    CreateIsUnmapped, TodoIsLater, Deleting, CreatingPC

\* Whatever calls fail or lose their answers, whatever is deleted by others and
\* however often the process dies: no key ever gets two sockets at the API.
THEOREM OneSocketCorrect ==
    ASSUME DistinctDiscoveries, UniqueAtFirst
    PROVE  Spec => []OneSocketPerKey
<1>1. Init => UniqueInv
  BY InitUnique
<1>2. TypeInv /\ ListingInv /\ StaleInv /\ UniqueInv /\ [Next]_vars => UniqueInv'
  BY UniqueKept
<1>3. UniqueInv => OneSocketPerKey
  BY DEF UniqueInv
<1> QED
  BY <1>1, <1>2, <1>3, StaleInvariant, PTL DEF Spec
=============================================================================
