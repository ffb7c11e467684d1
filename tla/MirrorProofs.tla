---------------------------- MODULE MirrorProofs ----------------------------
(***************************************************************************)
(* Proof that Connector implements Mirror: what an undisturbed round can   *)
(* rely on, then every step of Connector as a step of Mirror or none.      *)
(***************************************************************************)
EXTENDS ConnectorSafety, ConnectorMirror

-----------------------------------------------------------------------------
(* What does not fail *)

NoFault == faults' = faults

\* Every fault is counted, and nothing takes a fault back.
LEMMA FaultsCount ==
    ASSUME TypeInv, [Next]_vars
    PROVE  faults' \in {faults, faults + 1}
BY DEF Next, ReconcileNext, DiscoveryStep, Find, Publish, WorkerStep, Receive, ListSockets,
   DeleteSocket, FinishDeletes, BeginCreate, CreateSocket, CreateTunnel, UpdatePrivate,
   AttachPolicies, KeepSocket, ApplyPolicies, UpdateSocket, FinishCreates, RequestConnect,
   SkipConnected, FinishRound, RequestDisconnect, RecreateSocket, Call, NotFound, Fault,
   Environment, WorldChanges, UserDeletes, UserEdits, Restart, TunnelNext, JobStep, StartTunnel,
   CloseTunnel, SessionStep, SessionDrops, Store, Reload, ReloadFails, GetTunnel, GetTunnelFails,
   CertFails, DialFails, Listen, ListenRefused, Hangs, SetupFails, Establish, Forget,
   AttemptFails,
   OnlySess, vars

LEMMA SpecialFaults ==
    ASSUME TypeInv
    PROVE  \A kind : Fault(kind) => faults' = faults + 1 /\ ~NoFault /\ faults' # 0
BY DEF Fault, NoFault, TypeInv, TypeOK

\* A socket goes when the worker or a user deletes it.
LEMMA GoneByDelete ==
    ASSUME TypeInv, [Next]_vars, NEW i \in Ids, Exists(i), api'[i] = None
    PROVE  (DeleteSocket /\ i = round.cur) \/ UserDeletes(i)
<1>1. CASE DeleteSocket
  <2>1. api' = [api EXCEPT ![round.cur] = None]
    BY <1>1, DeleteSocketEffect DEF Exists
  <2> QED
    BY <1>1, <2>1 DEF Exists, TypeInv, TypeOK, ApiState
<1>2. CASE CreateSocket
  BY <1>2, CreateSocketMoves DEF Exists
<1>3. CASE CreateTunnel \/ UpdatePrivate \/ AttachPolicies
  BY <1>3, SetupEffect DEF Exists
<1>4. CASE ApplyPolicies \/ UpdateSocket
  BY <1>4, UpdateEffect DEF Exists
<1>5. ASSUME NEW j \in Ids, UserDeletes(j) PROVE i = j
  BY <1>5 DEF UserDeletes, TypeInv, TypeOK, ApiState, Exists
<1>6. ASSUME NEW j \in Ids, UserEdits(j) PROVE FALSE
  <2>1. Exists(j) /\ \E a \in Attrs : api' = [api EXCEPT ![j].attrs = a]
    BY <1>6 DEF UserEdits
  <2>2. api'[j] # None /\ \A m \in Ids \ {j} : api'[m] = api[m]
    BY <2>1, FieldChange DEF TypeInv, TypeOK
  <2> QED
    BY <2>2 DEF Exists
<1>7. CASE WorldChanges \/ Restart
  BY <1>7 DEF WorldChanges, Restart, Exists
<1>8. CASE \/ Receive \/ ListSockets \/ FinishDeletes \/ BeginCreate \/ KeepSocket
           \/ FinishCreates \/ RequestConnect \/ SkipConnected \/ FinishRound
           \/ \E j \in Ids : RequestDisconnect(j) \/ RecreateSocket(j)
  BY <1>8 DEF Receive, ListSockets, FinishDeletes, BeginCreate, KeepSocket, FinishCreates,
     RequestConnect, SkipConnected, FinishRound, RequestDisconnect, RecreateSocket, Exists
<1>9. CASE DiscoveryStep \/ TunnelNext \/ UNCHANGED vars
  BY <1>9 DEF DiscoveryStep, Find, Publish, TunnelNext, JobStep, StartTunnel, CloseTunnel,
     SessionStep, SessionDrops, Store, Reload, ReloadFails, GetTunnel, GetTunnelFails, CertFails,
     DialFails, Listen, ListenRefused, Hangs, SetupFails, Establish, Forget, AttemptFails,
     OnlySess, vars,
     Exists
<1> QED
  BY <1>1, <1>2, <1>3, <1>4, <1>5, <1>6, <1>7, <1>8, <1>9 DEF Next, ReconcileNext, WorkerStep,
     Environment

\* Without a fault the worker's calls do what they say.
LEMMA DeletesUnlessFault ==
    ASSUME TypeInv, DeleteSocket, NoFault, Exists(round.cur)
    PROVE  Deletes
<1> DEFINE next == IF Discovered(round.view[round.cur].key)
                   THEN [round EXCEPT !.pc = "createSocket"]
                   ELSE [round EXCEPT !.pc = "check", !.cur = None]
<1>1. round' = next /\ api' = [api EXCEPT ![round.cur] = None] /\ round.pc = "delete"
  BY SpecialFaults DEF DeleteSocket, Call
<1> QED
  BY <1>1 DEF TypeInv, TypeOK, Round, Deletes

LEMMA CreatesUnlessFault ==
    ASSUME TypeInv, CreateSocket, NoFault
    PROVE  /\ round'.made \in Ids /\ ~Exists(round'.made)
           /\ api'[round'.made] # None
           /\ api'[round'.made].key = Wanted.key /\ api'[round'.made].data = Wanted.data
           /\ \A j \in Ids \ {round'.made} : api'[j] = api[j]
           /\ round'.pc = "createTunnel" /\ SameListing
<1> DEFINE new == [key |-> Wanted.key, data |-> Wanted.data, attrs |-> Wanted.attrs,
                   policies |-> {}, tunnel |-> FALSE]
<1>1. PICK i \in Ids :
        /\ Fresh(i)
        /\ Call([api EXCEPT ![i] = new], [round EXCEPT !.pc = "createTunnel", !.made = i])
  BY DEF CreateSocket
<1>2. new \in ApiSocket /\ new.key = Wanted.key /\ new.data = Wanted.data
  BY WantedType DEF CreateSocket, CreatingPC, ApiSocket, LocalSocket
<1> HIDE DEF new
<1>3. /\ api' = [api EXCEPT ![i] = new]
      /\ round' = [round EXCEPT !.pc = "createTunnel", !.made = i]
  BY <1>1, SpecialFaults DEF Call
<1>4. round'.made = i /\ round'.pc = "createTunnel" /\ SameListing
  BY <1>3 DEF TypeInv, TypeOK, Round, SameListing
<1> QED
  BY <1>1, <1>2, <1>3, <1>4, ConstantsAssumption DEF TypeInv, TypeOK, ApiState, Fresh

\* The round before its listing, with it, and without it.
LEMMA RoundStarts ==
    ASSUME round' = Idle \/ Receive
    PROVE  /\ round'.pc \in {"receive", "list"} /\ round'.view = NoView
           /\ round'.unchecked = {} /\ round'.todo = <<>>
           /\ round'.cur = None /\ round'.made = None
           /\ round' = Idle => round'.pc = "receive"
           /\ Receive => round'.pc = "list" /\ round'.local = Head(updates)
<1> DEFINE listing == [Idle EXCEPT !.pc = "list", !.local = Head(updates)]
<1>1. /\ Idle.pc = "receive" /\ Idle.view = NoView /\ Idle.unchecked = {} /\ Idle.todo = <<>>
      /\ Idle.cur = None /\ Idle.made = None
  BY DEF Idle
<1>2. /\ listing.pc = "list" /\ listing.view = NoView /\ listing.unchecked = {}
      /\ listing.todo = <<>> /\ listing.cur = None /\ listing.made = None
      /\ listing.local = Head(updates)
  BY DEF Idle
<1>3. Receive => round' = listing
  BY DEF Receive
<1> HIDE DEF listing
<1>4. Receive => round' # Idle
  BY <1>1, <1>2, <1>3
<1> QED
  BY <1>1, <1>2, <1>3, <1>4

LEMMA RoundLists ==
    ASSUME TypeInv, ListSockets, Lists
    PROVE  /\ round.pc = "list" /\ round'.pc = "check"
           /\ round'.local = round.local /\ round'.view = api /\ api' = api
           /\ round'.unchecked = {i \in Ids : Exists(i) /\ Superseded(api[i])}
           /\ round'.cur = None /\ round.cur = None /\ round'.todo = round.todo
           /\ round'.apiOf \in LastByKey
<1>1. round.pc = "list" /\ api' = api /\ round.cur = None
  BY DEF ListSockets, TypeInv, Shape, CurrentIsListed, CreatingPC
<1>2. PICK map \in LastByKey :
          round' = [round EXCEPT
               !.pc = "check", !.view = api, !.apiOf = map,
               !.unchecked = {i \in Ids : Exists(i) /\ Superseded(api[i])}]
  BY DEF Lists
<1>3. /\ round'.pc = "check" /\ round'.todo = round.todo /\ round'.cur = round.cur
      /\ round'.view = api /\ round'.apiOf = map /\ round'.local = round.local
      /\ round'.unchecked = {i \in Ids : Exists(i) /\ Superseded(api[i])}
  BY <1>2 DEF TypeInv, TypeOK, Round
<1> QED
  BY <1>1, <1>3

LEMMA FinishesCreates ==
    ASSUME TypeInv, FinishCreates
    PROVE  /\ round.pc = "create" /\ round'.pc = "connect" /\ round.todo = <<>>
           /\ round'.view = NoView /\ round'.local = round.local /\ api' = api
           /\ round'.unchecked = {} /\ round.unchecked = {}
           /\ round'.cur = None /\ round.cur = None /\ NoFault
<1>1. /\ round.pc = "create" /\ round'.pc = "connect" /\ round.todo = <<>>
      /\ round'.view = NoView /\ round'.local = round.local /\ api' = api
      /\ round'.unchecked = round.unchecked /\ round'.cur = round.cur /\ NoFault
  BY DEF FinishCreates, TypeInv, TypeOK, Round, NoFault
<1> QED
  BY <1>1 DEF TypeInv, Shape, CurrentIsListed, UncheckedIsOver, CreatingPC

-----------------------------------------------------------------------------
(* What an undisturbed round can rely on *)

\* Without a fault, only the delete loop takes a socket away.
LEMMA StandsUnlessFault ==
    ASSUME TypeInv, [Next]_vars, NoFault, NEW i \in Ids, Exists(i), ~(Deletes /\ i = round.cur)
    PROVE  api'[i] # None /\ api'[i].key = api[i].key
<1>1. api'[i] # None
  BY GoneByDelete, DeletesUnlessFault, SpecialFaults DEF UserDeletes
<1>2. ~NewSocket(i)
  BY DEF NewSocket, Fresh
<1> QED
  BY <1>1, <1>2, StepEffect DEF SocketsStand, SameSocket

\* The sockets a round is still to remove are those of the listing.
LEMMA UncheckedKept ==
    ASSUME TypeInv, UncheckedAreSuperseded, [Next]_vars
    PROVE  UncheckedAreSuperseded'
<1>1. CASE round' = round
  BY <1>1, LocalStands DEF UncheckedAreSuperseded, Superseded
<1>2. CASE round'.unchecked = {} /\ round'.cur = None
  BY <1>2 DEF UncheckedAreSuperseded
<1>3. CASE round' = Idle \/ Receive
  BY <1>2, <1>3, RoundStarts
<1>4. CASE ListSockets /\ Lists
  BY <1>4, RoundLists, LocalStands DEF UncheckedAreSuperseded, Superseded
<1>5. CASE FinishCreates
  BY <1>2, <1>5, FinishesCreates
<1>6. CASE SameListing /\ Progress
  <2>1. /\ round'.unchecked \subseteq round.unchecked
        /\ round'.cur \in round.unchecked \cup {round.cur, None}
        /\ round'.cur # None => round'.cur \notin round'.unchecked
    BY <1>6 DEF Progress, TurnsToSocket, Deletes, Creates, SetsUp, EndsRecreate, EndsCreate,
       TurnsToCreates, TurnsToCreate, Advances, Stays, SameLoops, UncheckedAreSuperseded
  <2>2. \A i \in round.unchecked \cup {round.cur} :
            i # None => Superseded(round.view[i])
    BY ConstantsAssumption DEF UncheckedAreSuperseded, TypeInv, TypeOK, Round
  <2>3. ASSUME NEW i \in round.unchecked \cup {round.cur}, i # None
        PROVE  Superseded(round.view[i])'
    BY <1>6, <2>2, <2>3, LocalStands DEF SameListing, Superseded
  <2> QED
    BY <2>1, <2>3, ConstantsAssumption DEF UncheckedAreSuperseded, TypeInv, TypeOK, Round
<1> QED
  BY <1>1, <1>3, <1>4, <1>5, <1>6, RoundProgress

\* A listed socket that is gone is one the round has removed.
LEMMA ListedKept ==
    ASSUME TypeInv, UncheckedAreSuperseded, ListedStand, [Next]_vars, NoFault
    PROVE  ListedStand'
<1> SUFFICES ASSUME NEW i \in Ids, round'.view[i] # None, api'[i] = None
             PROVE  /\ Superseded(round.view[i])'
                    /\ i \notin round'.unchecked
                    /\ i = round'.cur => round'.pc # "delete"
  BY DEF ListedStand, Exists
<1>1. CASE round' = round
  <2>1. ~Deletes
    BY <1>1 DEF Deletes
  <2>2. ~Exists(i)
    BY <2>1, StandsUnlessFault DEF Exists
  <2> QED
    BY <1>1, <2>2, LocalStands DEF ListedStand, Superseded
<1>2. CASE round' = Idle \/ Receive \/ FinishCreates
  BY <1>2, RoundStarts, FinishesCreates DEF NoView
<1>3. CASE ListSockets /\ Lists
  BY <1>3, RoundLists
<1>4. CASE SameListing /\ Progress
  <2>1. /\ round'.unchecked \subseteq round.unchecked
        /\ round'.pc = "delete" => round'.cur \in round.unchecked
    BY <1>4 DEF Progress, TurnsToSocket, Deletes, Creates, SetsUp, EndsRecreate, EndsCreate,
       TurnsToCreates, TurnsToCreate, Advances, Stays, SameLoops, MadePC, CreatingPC
  <2>2. round'.view[i] = round.view[i] /\ (Superseded(round.view[i])' <=> Superseded(round.view[i]))
    BY <1>4, LocalStands DEF SameListing, Superseded
  <2>3. CASE ~Exists(i)
    BY <2>1, <2>2, <2>3 DEF ListedStand
  <2>4. CASE Exists(i)
    <3>1. Deletes /\ i = round.cur
      BY <2>4, StandsUnlessFault
    <3>2. i # None
      BY ConstantsAssumption
    <3>3. Superseded(round.view[i]) /\ i \notin round.unchecked /\ round'.pc # "delete"
      BY <3>1, <3>2 DEF Deletes, UncheckedAreSuperseded
    <3> QED
      BY <2>1, <2>2, <3>3
  <2> QED
    BY <2>3, <2>4
<1> QED
  BY <1>1, <1>2, <1>3, <1>4, RoundProgress

LEMMA MadeKept ==
    ASSUME TypeInv, MadeStands, [Next]_vars, NoFault
    PROVE  MadeStands'
<1> SUFFICES ASSUME round'.pc \in MadePC PROVE api'[round'.made] # None
  BY DEF MadeStands, Exists
<1>1. ASSUME round.pc \in MadePC, round'.made = round.made
      PROVE  api'[round'.made] # None
  <2>1. round.made \in Ids /\ Exists(round.made) /\ ~Deletes
    BY <1>1 DEF MadeStands, TypeInv, Shape, MadeIsSet, Deletes, MadePC, CreatingPC
  <2> QED
    BY <1>1, <2>1, StandsUnlessFault
<1>2. CASE round' = round
  BY <1>1, <1>2
<1>3. CASE round' = Idle \/ Receive \/ FinishCreates \/ (ListSockets /\ Lists)
  <2>1. round'.pc \in {"receive", "list", "connect", "check"}
    BY <1>3, RoundStarts, FinishesCreates, RoundLists
  <2> QED
    BY <2>1 DEF MadePC, CreatingPC
<1>4. CASE Creates
  BY <1>4, CreatesUnlessFault DEF Creates
<1>5. CASE SetsUp
  BY <1>1, <1>5 DEF SetsUp
<1>6. CASE Progress /\ ~Creates /\ ~SetsUp
  BY <1>6 DEF Progress, TurnsToSocket, Deletes, EndsRecreate, EndsCreate, TurnsToCreates,
     TurnsToCreate, Advances, Stays, MadePC, CreatingPC
<1> QED
  BY <1>2, <1>3, <1>4, <1>5, <1>6, RoundProgress

\* A key that is taken stays so, unless its socket is the one being removed.
LEMMA TakenStands ==
    ASSUME TypeInv, ListingInv, [Next]_vars, NoFault, NEW k, ~Free(k),
           Deletes => round.view[round.cur].key # k
    PROVE  ~Free(k)'
<1>1. PICK i \in Ids : Exists(i) /\ api[i].key = k
  BY DEF Free
<1>2. ~(Deletes /\ i = round.cur)
  BY <1>1 DEF Deletes, TypeInv, Shape, CurrentIsListed, ListingInv, ListedKeysStand
<1>3. api'[i] # None /\ api'[i].key = k
  BY <1>1, <1>2, StandsUnlessFault
<1> QED
  BY <1>3 DEF Free, Exists

\* Every discovered key has its socket or is still to get it.
LEMMA HeldKept ==
    ASSUME TypeInv, ListingInv, RoundIsDistinct, UniqueInv, MadeStands, DiscoveredIsHeld,
           [Next]_vars, NoFault
    PROVE  DiscoveredIsHeld'
<1> SUFFICES ASSUME round'.pc \notin {"receive", "list", "connect"},
                    NEW n \in DOMAIN round'.local, NEW k, k = round'.local[n].key
             PROVE  \/ ~Free(k)'
                    \/ /\ round'.pc = "createSocket" /\ round'.cur # None
                       /\ round'.view[round'.cur].key = k
                    \/ /\ round'.apiOf[k] = None
                       /\ \/ Deleting'
                          \/ \E m \in DOMAIN round'.todo : round'.todo[m].key = k
  BY DEF DiscoveredIsHeld, Free, Exists
<1>1. CASE round' = Idle \/ Receive \/ FinishCreates
  BY <1>1, RoundStarts, FinishesCreates
<1>2. CASE ListSockets /\ Lists
  <2>1. k \in Keys
    <3>1. round'.local = round.local
      BY <1>2, RoundLists
    <3>2. round.local[n] \in LocalSocket
      BY <3>1 DEF TypeInv, TypeOK, Round
    <3> QED
      BY <3>1, <3>2 DEF LocalSocket
  <2>2. CASE \E i \in Ids : Exists(i) /\ api[i].key = k
    BY <1>2, <2>2, RoundLists DEF Free, Exists
  <2>3. CASE ~ \E i \in Ids : Exists(i) /\ api[i].key = k
    <3>1. round'.apiOf \in LastByKey /\ round'.pc = "check"
      BY <1>2, RoundLists
    <3>2. round'.apiOf[k] = None
      BY <2>1, <2>3, <3>1 DEF LastByKey
    <3> QED
      BY <3>1, <3>2 DEF Deleting
  <2> QED
    BY <2>2, <2>3
<1>3. ASSUME round.pc \notin {"receive", "list", "connect"}, round'.local = round.local
      PROVE  \/ ~Free(k)
             \/ /\ round.pc = "createSocket" /\ round.cur # None
                /\ round.view[round.cur].key = k
             \/ /\ round.apiOf[k] = None
                /\ Deleting \/ \E m \in DOMAIN round.todo : round.todo[m].key = k
  BY <1>3 DEF DiscoveredIsHeld
<1>4. CASE round' = round
  <2>1. ~Deletes
    BY <1>4 DEF Deletes
  <2>2. CASE ~Free(k)
    BY <2>1, <2>2, TakenStands
  <2>3. Deleting => Deleting'
    BY <1>4 DEF Deleting
  <2>4. round.pc \notin {"receive", "list", "connect"} /\ round'.local = round.local
    BY <1>4
  <2> QED
    BY <1>3, <1>4, <2>2, <2>3, <2>4
<1>5. CASE SameListing /\ Progress
  <2>1. /\ round.pc \notin {"receive", "list", "connect"} /\ round'.local = round.local
        /\ round'.apiOf = round.apiOf
    BY <1>5 DEF SameListing, Progress, TurnsToSocket, Deletes, Creates, SetsUp, EndsRecreate,
       EndsCreate, TurnsToCreates, TurnsToCreate, Advances, Stays, CreateSocket, MadePC, CreatingPC
  <2>2. Discovered(k)
    BY <2>1 DEF Discovered
  <2>3. CASE ~Free(k)
    <3>1. CASE Deletes /\ round.view[round.cur].key = k
      BY <1>5, <2>2, <3>1, ConstantsAssumption DEF Deletes, SameListing, TypeInv, Shape,
         CurrentIsListed
    <3> QED
      BY <2>3, <3>1, TakenStands
  <2>4. CASE /\ round.pc = "createSocket" /\ round.cur # None
             /\ round.view[round.cur].key = k
    <3>1. CreateSocket
      BY <1>5, <2>4 DEF Progress, TurnsToSocket, Deletes, Creates, SetsUp, EndsRecreate,
         EndsCreate, TurnsToCreates, TurnsToCreate, Advances, Stays, MadePC, CreatingPC
    <3>2. Wanted.key = k
      BY <2>4, RecreatedKey
    <3> QED
      BY <3>1, <3>2, CreatesUnlessFault DEF Free, Exists
  <2>5. CASE round.apiOf[k] = None /\ Deleting
    <3>1. CASE TurnsToCreates
      BY <2>1, <2>5, <3>1 DEF TurnsToCreates
    <3>2. CASE ~TurnsToCreates
      <4>1. Deleting'
        BY <1>5, <2>5, <3>2 DEF Progress, TurnsToSocket, Deletes, Creates, SetsUp, EndsRecreate,
           EndsCreate, TurnsToCreate, Advances, Stays, SameLoops, Deleting, CreateSocket, MadePC,
           CreatingPC, TypeInv, Shape, CurrentIsListed
      <4> QED
        BY <2>1, <2>5, <4>1
    <3> QED
      BY <3>1, <3>2
  <2>6. ASSUME round.apiOf[k] = None, NEW m \in DOMAIN round.todo, round.todo[m].key = k, ~Deleting
        PROVE  \/ ~Free(k)'
               \/ \E l \in DOMAIN round'.todo : round'.todo[l].key = k
    <3>1. round.todo \in Seq(LocalSocket) /\ round.todo # <<>> /\ Head(round.todo) = round.todo[1]
      BY <2>6 DEF TypeInv, TypeOK, Round
    <3>2. CASE round'.todo = Tail(round.todo) /\ m # 1
      <4>1. m - 1 \in DOMAIN Tail(round.todo) /\ Tail(round.todo)[m - 1] = round.todo[m]
        BY <2>6, <3>1, <3>2
      <4> QED
        BY <2>6, <3>2, <4>1
    <3>3. CASE Advances
      BY <2>6, <3>1, <3>2, <3>3 DEF Advances
    <3>4. CASE EndsCreate
      <4>1. CASE m = 1
        <5>1. /\ round.made \in Ids /\ Exists(round.made) /\ api[round.made].key = Wanted.key
          BY <3>4 DEF EndsCreate, MadeStands, ListingInv, MadeIsOurs, TypeInv, Shape, MadeIsSet,
                      MadePC, CreatingPC
        <5>2. Wanted.key = k
          BY <2>6, <3>1, <3>4, <4>1 DEF EndsCreate, Wanted
        <5>3. ~Free(k) /\ ~Deletes
          BY <3>4, <5>1, <5>2 DEF Free, EndsCreate, Deletes
        <5> QED
          BY <5>3, TakenStands
      <4> QED
        BY <3>2, <3>4, <4>1 DEF EndsCreate
    <3>5. CASE Creates \/ SetsUp \/ TurnsToCreate \/ Stays
      BY <2>6, <3>5 DEF Creates, SetsUp, TurnsToCreate, Stays, SameLoops
    <3>6. CASE TurnsToSocket \/ Deletes \/ EndsRecreate \/ TurnsToCreates
      BY <2>6, <3>6 DEF TurnsToSocket, Deletes, EndsRecreate, TurnsToCreates, Deleting, CreatingPC
    <3> QED
      BY <1>5, <3>3, <3>4, <3>5, <3>6 DEF Progress
  <2> QED
    BY <1>3, <2>1, <2>3, <2>4, <2>5, <2>6
<1> QED
  BY <1>1, <1>2, <1>4, <1>5, RoundProgress

LEMMA ViewKept ==
    ASSUME TypeInv, NotYetListed, [Next]_vars
    PROVE  NotYetListed'
<1>1. CASE round' = round
  BY <1>1 DEF NotYetListed
<1>2. CASE \/ round' = Idle \/ Receive \/ FinishCreates
  BY <1>2, RoundStarts, FinishesCreates DEF NotYetListed
<1>3. CASE (ListSockets /\ Lists) \/ Progress
  <2>1. round'.pc # "list"
    BY <1>3, RoundLists, CreateMovesOn DEF Progress, TurnsToSocket, Deletes, Creates, SetsUp,
       EndsRecreate, EndsCreate, TurnsToCreates, TurnsToCreate, Advances, Stays, MadePC, CreatingPC
  <2> QED
    BY <2>1 DEF NotYetListed
<1> QED
  BY <1>1, <1>2, <1>3, RoundProgress

LEMMA InitUndisturbed == Init => UndisturbedInv
<1> SUFFICES ASSUME Init PROVE UndisturbedInv
  OBVIOUS
<1>1. /\ round.pc = "receive" /\ round.cur = None /\ round.unchecked = {} /\ round.view = NoView
  BY DEF Init, Idle
<1> QED
  BY <1>1 DEF UndisturbedInv, UncheckedAreSuperseded, NotYetListed, ListedStand, MadeStands, DiscoveredIsHeld,
              NoView, MadePC, CreatingPC

LEMMA UndisturbedKept ==
    ASSUME TypeInv, ListingInv, StaleInv, UniqueInv, UndisturbedInv, [Next]_vars
    PROVE  UndisturbedInv'
<1>1. UncheckedAreSuperseded' /\ NotYetListed'
  BY UncheckedKept, ViewKept DEF UndisturbedInv
<1>2. ASSUME faults' = 0 PROVE NoFault /\ faults = 0
  BY <1>2, FaultsCount DEF TypeInv, TypeOK, NoFault
<1>3. ASSUME faults' = 0 PROVE ListedStand' /\ MadeStands' /\ DiscoveredIsHeld'
  <2>1. NoFault /\ UncheckedAreSuperseded /\ ListedStand /\ MadeStands /\ DiscoveredIsHeld
    BY <1>2, <1>3 DEF UndisturbedInv
  <2> QED
    BY <2>1, ListedKept, MadeKept, HeldKept DEF StaleInv
<1> QED
  BY <1>1, <1>3 DEF UndisturbedInv

\* The invariant the refinement rests on.
MirrorInv == TypeInv /\ ListingInv /\ StaleInv /\ UniqueInv /\ UndisturbedInv

-----------------------------------------------------------------------------
(* What the mapping says of a key *)

LEMMA EntryOf ==
    ASSUME NEW a, NEW k, NEW i \in Ids, a[i] # None, a[i].key = k,
           \A j \in Ids : a[j] # None /\ a[j].key = k => j = i
    PROVE  EntryIn(a, k) = a[i].data
<1>1. IdsIn(a, k) = {i}
  BY DEF IdsIn
<1>2. /\ IdsIn(a, k) # {}
      /\ \A j, l \in IdsIn(a, k) : j = l
      /\ (CHOOSE j \in IdsIn(a, k) : TRUE) = i
  BY <1>1
<1> QED
  BY <1>2 DEF EntryIn

LEMMA EntryOfFree ==
    ASSUME NEW a, NEW k, \A i \in Ids : a[i] # None => a[i].key # k
    PROVE  EntryIn(a, k) = None
BY DEF EntryIn, IdsIn

LEMMA SameEntry ==
    ASSUME NEW a, NEW b, NEW k,
           \A i \in Ids : (a[i] # None /\ a[i].key = k) <=> (b[i] # None /\ b[i].key = k),
           \A i \in Ids : a[i] # None /\ a[i].key = k => a[i].data = b[i].data
    PROVE  EntryIn(b, k) = EntryIn(a, k)
<1>1. IdsIn(a, k) = IdsIn(b, k)
  BY DEF IdsIn
<1>2. IdsIn(a, k) # {} =>
        LET i == CHOOSE j \in IdsIn(a, k) : TRUE
        IN  a[i].data = b[i].data
  BY DEF IdsIn
<1> QED
  BY <1>1, <1>2 DEF EntryIn

\* With one socket per key, the entry is that socket.
LEMMA EntryOfSocket ==
    ASSUME TypeInv, OneSocketPerKey, NEW i \in Ids, Exists(i), api[i].key \in Keys
    PROVE  /\ Entry[api[i].key] = api[i].data
           /\ api[i].data \in Data /\ Entry[api[i].key] # None
<1>1. \A j \in Ids : api[j] # None /\ api[j].key = api[i].key => j = i
  BY DEF OneSocketPerKey, Exists
<1>2. EntryIn(api, api[i].key) = api[i].data
  BY <1>1, EntryOf DEF Exists
<1>3. api[i] \in ApiSocket
  BY DEF TypeInv, TypeOK, ApiState, Exists
<1> QED
  BY <1>2, <1>3, MirrorAssumption DEF Entry, ApiSocket

LEMMA EntryIsFree ==
    ASSUME NEW k \in Keys
    PROVE  Free(k) => Entry[k] = None
BY EntryOfFree DEF Free, Exists, Entry

LEMMA WishIsLocal ==
    ASSUME NEW k \in Keys
    PROVE  WishOf(round.local)[k] = IF Discovered(k) THEN LocalFor(k).data ELSE None
BY DEF WishOf, Discovered, LocalFor

LEMMA DiscoveredData ==
    ASSUME TypeInv, NEW k, Discovered(k)
    PROVE  LocalFor(k).data \in Data /\ LocalFor(k).data # None /\ LocalFor(k).key = k
<1>1. LocalFor(k) \in LocalSocket /\ LocalFor(k).key = k
  BY LocalForKey DEF TypeInv, TypeOK
<1> QED
  BY <1>1, MirrorAssumption DEF LocalSocket

\* A socket that contradicts the discovery result is superseded, and back.
LEMMA ContradictsIsSuperseded ==
    ASSUME TypeInv, OneSocketPerKey, NEW i \in Ids, Exists(i), api[i].key \in Keys
    PROVE  Superseded(api[i]) <=> Entry[api[i].key] # WishOf(round.local)[api[i].key]
BY EntryOfSocket, WishIsLocal DEF Superseded

-----------------------------------------------------------------------------
(* Steps that leave the entries alone *)

LEMMA EntriesStand ==
    ASSUME TypeInv, ListingInv, StaleInv, [Next]_vars, ~CreateSocket, ~DeleteSocket,
           \A i \in Ids : ~UserDeletes(i)
    PROVE  Entry' = Entry
<1>1. \A i \in Ids : api'[i] # None <=> Exists(i)
  BY GoneByDelete, StepEffect DEF SocketsStand, SameSocket, NewSocket, Exists
<1>2. \A i \in Ids : Exists(i) => api'[i].key = api[i].key
  BY <1>1, StepEffect DEF SocketsStand, SameSocket, NewSocket
<1>3. ASSUME NEW i \in Ids, Exists(i) PROVE api'[i].data = api[i].data
  <2>1. CASE UpdateSocket /\ i = round.apiOf[Head(round.todo).key]
    <3>1. round.todo # <<>> /\ round.pc = "update" /\ round.unchecked = {}
      BY <2>1 DEF UpdateSocket, TypeInv, Shape, TodoIsLeft, UncheckedIsOver, CreatingPC
    <3>2. 1 \in DOMAIN round.todo /\ Head(round.todo) = round.todo[1]
      BY <3>1 DEF TypeInv, TypeOK, Round
    <3>3. /\ Head(round.todo).key \in Keys
          /\ Discovered(Head(round.todo).key)
          /\ LocalFor(Head(round.todo).key) = Head(round.todo)
      BY <3>2, TodoIsLocal DEF StaleInv, LocalSocket
    <3>4. api[i].key = Head(round.todo).key
      BY <1>3, <2>1, <3>3, ConstantsAssumption DEF ListingInv, ListedKeysStand, MapNamesListed
    <3>5. ~Superseded(api[i])
      BY <1>3, <3>1 DEF StaleInv, SupersededIsUnchecked
    <3>6. api[i].data = Head(round.todo).data
      BY <3>3, <3>4, <3>5 DEF Superseded
    <3>7. api'[i].data \in {api[i].data, Head(round.todo).data}
      BY <1>1, <1>3, StepEffect DEF DataStand
    <3> QED
      BY <3>6, <3>7
  <2> QED
    BY <1>1, <1>3, <2>1, StepEffect DEF DataStand
<1>4. \A k \in Keys : EntryIn(api', k) = EntryIn(api, k)
  BY <1>1, <1>2, <1>3, SameEntry DEF Exists
<1> QED
  BY <1>4 DEF Entry

\* What Mirror does not see of a step that stays in its round.
LEMMA StutterStep ==
    ASSUME Entry' = Entry, NoFault, SameListing, PhaseOf' = PhaseOf,
           PhaseOf # "rest" => Recreated' = Recreated
    PROVE  UNCHANGED M!mirrorVars
<1>1. Wish' = Wish
  BY DEF Wish, SameListing
<1>2. Replaced' = Replaced
  BY DEF Replaced
<1> QED
  BY <1>1, <1>2 DEF M!mirrorVars, NoFault

LEMMA RestIsOver ==
    ASSUME PhaseOf' = "rest"
    PROVE  M!Over
BY DEF M!Over, M!Nothing, Wish, Replaced

LEMMA BreakStep ==
    ASSUME Entry' = Entry, round' = Idle, faults' \in {faults, faults + 1},
           faults' > 0 \/ (PhaseOf = "adding" /\ Replaced)
    PROVE  M!Break
<1>1. PhaseOf' = "rest"
  BY DEF PhaseOf, Idle
<1> QED
  BY <1>1, RestIsOver DEF M!Break

\* The listed sockets that count as recreated change with the loops only.
LEMMA RecreatedStands ==
    ASSUME SameListing,
           \A i \in Ids : Discovered(round.view[i].key) =>
               (/\ i \notin round'.unchecked
                /\ i = round'.cur => round'.pc \notin {"delete", "createSocket"})
               <=>
               (/\ i \notin round.unchecked
                /\ i = round.cur => round.pc \notin {"delete", "createSocket"})
    PROVE  Recreated' = Recreated
<1>1. \A k : Discovered(k)' <=> Discovered(k)
  BY LocalStands DEF SameListing
<1>2. \A i \in Ids : Superseded(round.view[i])' <=> Superseded(round.view[i])
  BY LocalStands DEF SameListing, Superseded
<1>3. \A i \in Ids : i \in Recreated' <=> i \in Recreated
  BY <1>1, <1>2 DEF Recreated, SameListing
<1>4. Recreated \subseteq Ids /\ Recreated' \subseteq Ids
  BY DEF Recreated
<1> QED
  BY <1>3, <1>4

\* Steps outside the worker's loops.
LEMMA QuietIsMirrored ==
    ASSUME MirrorInv, [Next]_vars, round' = round
    PROVE  [M!MirrorNext]_M!mirrorVars
<1>1. SameListing /\ PhaseOf' = PhaseOf /\ Recreated' = Recreated
  <2>1. SameListing /\ PhaseOf' = PhaseOf
    BY DEF SameListing, PhaseOf
  <2>2. Recreated' = Recreated
    BY <2>1, RecreatedStands
  <2> QED
    BY <2>1, <2>2
<1>2. ~CreateSocket /\ ~DeleteSocket
  <2>1. ~CreateSocket
    BY CreateMovesOn DEF MirrorInv
  <2>2. DeleteSocket => round'.pc # "delete"
    <3> DEFINE next == IF Discovered(round.view[round.cur].key)
                       THEN [round EXCEPT !.pc = "createSocket"]
                       ELSE [round EXCEPT !.pc = "check", !.cur = None]
    <3>1. DeleteSocket => round' \in {next, Idle}
      BY CallOutcomes DEF DeleteSocket, NotFound, MirrorInv, TypeInv
    <3>2. next.pc # "delete" /\ Idle.pc # "delete"
      BY DEF Idle, MirrorInv, TypeInv, TypeOK, Round
    <3> QED
      BY <3>1, <3>2
  <2> QED
    BY <2>1, <2>2 DEF DeleteSocket
<1>3. Wish' = Wish /\ Replaced' = Replaced
  BY <1>1 DEF Wish, Replaced, SameListing
<1>4. CASE \A i \in Ids : ~UserDeletes(i)
  <2>1. Entry' = Entry
    BY <1>2, <1>4, EntriesStand DEF MirrorInv
  <2>2. CASE NoFault
    BY <1>1, <2>1, <2>2, StutterStep
  <2>3. CASE ~NoFault
    <3>1. faults' = faults + 1
      BY <2>3, FaultsCount DEF MirrorInv, NoFault
    <3>2. M!Disturb
      BY <1>1, <1>3, <2>1, <3>1 DEF M!Disturb
    <3> QED
      BY <3>2 DEF M!MirrorNext
  <2> QED
    BY <2>2, <2>3
<1>5. ASSUME NEW i \in Ids, UserDeletes(i) PROVE M!Disturb
  <2>1. /\ Exists(i) /\ faults' = faults + 1
        /\ api'[i] = None /\ \A j \in Ids \ {i} : api'[j] = api[j]
    BY <1>5 DEF UserDeletes, Fault, MirrorInv, TypeInv, TypeOK, ApiState
  <2>2. ASSUME NEW k \in Keys, k # api[i].key PROVE EntryIn(api', k) = EntryIn(api, k)
    BY <2>1, <2>2, SameEntry DEF Exists
  <2>3. api[i].key \in Keys => EntryIn(api', api[i].key) = None
    BY <2>1, EntryOfFree DEF MirrorInv, UniqueInv, OneSocketPerKey, Exists
  <2>4. CASE api[i].key \in Keys
    <3>1. Entry' = [Entry EXCEPT ![api[i].key] = None]
      BY <2>2, <2>3, <2>4 DEF Entry
    <3> QED
      BY <1>1, <1>3, <2>1, <2>4, <3>1 DEF M!Disturb
  <2>5. CASE api[i].key \notin Keys
    <3>1. Entry' = Entry
      BY <2>2, <2>5 DEF Entry
    <3> QED
      BY <1>1, <1>3, <2>1, <3>1 DEF M!Disturb
  <2> QED
    BY <2>4, <2>5
<1> QED
  BY <1>4, <1>5 DEF M!MirrorNext

-----------------------------------------------------------------------------
(* The worker's steps *)

\* An aborted round: the call failed, or its socket was gone.
LEMMA AbortIsMirrored ==
    ASSUME MirrorInv, [Next]_vars, ~CreateSocket, ~DeleteSocket, \A i \in Ids : ~UserDeletes(i),
           round' = Idle, faults' > 0 \/ (PhaseOf = "adding" /\ Replaced)
    PROVE  [M!MirrorNext]_M!mirrorVars
<1>1. Entry' = Entry
  BY EntriesStand DEF MirrorInv
<1>2. M!Break
  BY <1>1, BreakStep, FaultsCount DEF MirrorInv
<1> QED
  BY <1>2 DEF M!MirrorNext

LEMMA ReceiveIsMirrored ==
    ASSUME MirrorInv, Receive
    PROVE  M!Begin
<1>1. /\ round.pc = "receive" /\ round'.pc = "list" /\ round'.local = Head(updates)
      /\ round'.view = NoView /\ NoFault
  BY RoundStarts DEF Receive, NoFault
<1>2. PhaseOf = "rest" /\ PhaseOf' = "clearing"
  BY <1>1 DEF PhaseOf
<1>3. Head(updates) \in Discoveries
  BY DEF Receive, MirrorInv, TypeInv, TypeOK
<1>4. Wish' = WishOf(Head(updates))
  BY <1>1, <1>2 DEF Wish
<1>5. ~Replaced /\ ~Replaced'
  BY <1>1, <1>2 DEF Replaced, Recreated, NoView
<1>6. Entry' = Entry
  BY DEF Receive, Entry
<1> QED
  BY <1>1, <1>2, <1>3, <1>4, <1>5, <1>6 DEF M!Begin, NoFault, Replaced

LEMMA ListIsMirrored ==
    ASSUME MirrorInv, ListSockets
    PROVE  [M!MirrorNext]_M!mirrorVars
<1>1. Next
  BY DEF Next, ReconcileNext, WorkerStep
<1>2. CASE Lists /\ NoFault
  <2>1. /\ round.pc = "list" /\ round'.pc = "check"
        /\ round'.local = round.local /\ round'.view = api /\ api' = api
        /\ round'.unchecked = {i \in Ids : Exists(i) /\ Superseded(api[i])}
    BY <1>2, RoundLists DEF MirrorInv
  <2>2. PhaseOf = "clearing" /\ PhaseOf' = "clearing"
    BY <2>1 DEF PhaseOf
  <2>3. Recreated = {}
    BY <2>1 DEF MirrorInv, UndisturbedInv, NotYetListed, NoView, Recreated
  <2>4. Recreated' = {}
    <3>1. \A i \in Ids : Superseded(round.view[i])' <=> Superseded(api[i])
      BY <2>1, LocalStands DEF Superseded
    <3> QED
      BY <2>1, <3>1 DEF Recreated, Exists
  <2>5. Entry' = Entry /\ Wish' = Wish
    BY <2>1, <2>2 DEF Entry, Wish
  <2> QED
    BY <1>2, <2>2, <2>3, <2>4, <2>5 DEF M!mirrorVars, NoFault, Replaced
<1>3. CASE Fault("api") /\ round' = Idle
  <2>1. faults' > 0
    BY <1>3 DEF Fault, MirrorInv, TypeInv, TypeOK
  <2>2. Entry' = Entry
    BY DEF ListSockets, Entry
  <2>3. M!Break
    BY <1>1, <1>3, <2>1, <2>2, BreakStep, FaultsCount DEF MirrorInv
  <2> QED
    BY <2>3 DEF M!MirrorNext
<1> QED
  BY <1>2, <1>3 DEF ListSockets, Lists, NoFault

\* The delete loop turns to a socket.
LEMMA TurnIsMirrored ==
    ASSUME MirrorInv, \E i \in Ids : RequestDisconnect(i) \/ RecreateSocket(i)
    PROVE  UNCHANGED M!mirrorVars
<1>1. PICK i \in round.unchecked :
         /\ round.pc = "check" /\ api' = api /\ NoFault
         /\ round' = [round EXCEPT !.pc = "delete", !.cur = i, !.unchecked = @ \ {i}]
  BY DEF RequestDisconnect, RecreateSocket, NextEntry, NoFault
<1>2. /\ round'.pc = "delete" /\ round'.cur = i /\ round'.unchecked = round.unchecked \ {i}
      /\ SameListing
  BY <1>1 DEF MirrorInv, TypeInv, TypeOK, Round, SameListing
<1>3. round.cur = None
  BY <1>1 DEF MirrorInv, TypeInv, Shape, CurrentIsListed, CreatingPC
<1>4. Recreated' = Recreated
  BY <1>1, <1>2, <1>3, RecreatedStands, ConstantsAssumption
<1>5. PhaseOf' = PhaseOf
  BY <1>1, <1>2 DEF PhaseOf
<1>6. Entry' = Entry
  BY <1>1 DEF Entry
<1> QED
  BY <1>1, <1>2, <1>4, <1>5, <1>6, StutterStep

\* The delete loop is over: nothing contradicts the discovery result.
LEMMA FinishDeletesIsMirrored ==
    ASSUME MirrorInv, FinishDeletes
    PROVE  M!Cleared
<1>1. /\ round.pc = "check" /\ round.unchecked = {} /\ round'.pc = "create" /\ api' = api
      /\ round'.cur = round.cur /\ round'.unchecked = {} /\ SameListing /\ NoFault
  BY DEF FinishDeletes, MirrorInv, TypeInv, TypeOK, Round, SameListing, NoFault
<1>2. round.cur = None
  BY <1>1 DEF MirrorInv, TypeInv, Shape, CurrentIsListed, CreatingPC
<1>3. PhaseOf = "clearing" /\ PhaseOf' = "adding"
  BY <1>1, <1>2 DEF PhaseOf
<1>4. ASSUME NEW k \in Keys PROVE ~M!Contradicts(k)
  <2> SUFFICES ASSUME Entry[k] # None, Entry[k] # Wish[k] PROVE FALSE
    BY DEF M!Contradicts
  <2>1. PICK i \in Ids : Exists(i) /\ api[i].key = k
    BY EntryIsFree DEF Free
  <2>2. Superseded(api[i])
    BY <1>3, <2>1, ContradictsIsSuperseded DEF MirrorInv, UniqueInv, Wish
  <2> QED
    BY <1>1, <2>1, <2>2 DEF MirrorInv, StaleInv, SupersededIsUnchecked
<1>5. Recreated' = Recreated
  BY <1>1, <1>2, RecreatedStands
<1>6. Entry' = Entry /\ Wish' = Wish /\ Replaced' = Replaced
  BY <1>1, <1>3, <1>5 DEF Entry, Wish, Replaced, SameListing
<1> QED
  BY <1>1, <1>3, <1>4, <1>6 DEF M!Cleared, NoFault

LEMMA BeginCreateIsMirrored ==
    ASSUME MirrorInv, BeginCreate
    PROVE  UNCHANGED M!mirrorVars
<1>1. /\ round.pc = "create" /\ round'.pc = "createSocket" /\ api' = api
      /\ round'.cur = round.cur /\ round'.unchecked = round.unchecked /\ SameListing /\ NoFault
  BY DEF BeginCreate, MirrorInv, TypeInv, TypeOK, Round, SameListing, NoFault
<1>2. round.cur = None
  BY <1>1 DEF MirrorInv, TypeInv, Shape, CurrentIsListed, CreatingPC
<1>3. Recreated' = Recreated
  BY <1>1, <1>2, RecreatedStands, ConstantsAssumption
<1>4. PhaseOf' = PhaseOf /\ Entry' = Entry
  BY <1>1, <1>2 DEF PhaseOf, Entry
<1> QED
  BY <1>1, <1>3, <1>4, StutterStep

\* DeleteSocket clears the key of the socket it removes.
LEMMA DeleteClears ==
    ASSUME MirrorInv, round.pc = "delete", Exists(round.cur),
           api'[round.cur] = None, \A j \in Ids \ {round.cur} : api'[j] = api[j]
    PROVE  /\ round.view[round.cur].key \in Keys
           /\ M!Contradicts(round.view[round.cur].key)
           /\ Entry' = [Entry EXCEPT ![round.view[round.cur].key] = None]
<1> DEFINE i == round.cur
           k == round.view[i].key
<1>1. i \in Ids /\ round.view[i] # None /\ k \in Keys /\ api[i].key = k
  BY DEF MirrorInv, TypeInv, TypeOK, Round, Shape, CurrentIsListed, ListingInv, ListedKeysStand
<1>2. Superseded(api[i])
  BY DEF MirrorInv, ListingInv, ToRemoveIsSuperseded
<1>3. PhaseOf = "clearing"
  BY DEF PhaseOf
<1>4. M!Contradicts(k)
  BY <1>1, <1>2, <1>3, ContradictsIsSuperseded, EntryOfSocket
     DEF MirrorInv, UniqueInv, Wish, M!Contradicts
<1>5. api'[i] = None /\ \A j \in Ids \ {i} : api'[j] = api[j]
  OBVIOUS
<1>6. EntryIn(api', k) = None
  <2>1. \A j \in Ids : api'[j] # None => api'[j].key # k
    BY <1>1, <1>5 DEF MirrorInv, UniqueInv, OneSocketPerKey, Exists
  <2> HIDE DEF i, k
  <2> QED
    BY <2>1, EntryOfFree
<1>7. ASSUME NEW l \in Keys, l # k PROVE EntryIn(api', l) = EntryIn(api, l)
  <2>1. \A j \in Ids : /\ (api[j] # None /\ api[j].key = l) <=> (api'[j] # None /\ api'[j].key = l)
                       /\ api[j] # None /\ api[j].key = l => api[j].data = api'[j].data
    BY <1>1, <1>5, <1>7
  <2> HIDE DEF i, k
  <2> QED
    BY <2>1, SameEntry
<1>8. Entry' = [Entry EXCEPT ![k] = None]
  BY <1>1, <1>6, <1>7 DEF Entry
<1> QED
  BY <1>1, <1>4, <1>8

LEMMA DeleteIsMirrored ==
    ASSUME MirrorInv, DeleteSocket
    PROVE  [M!MirrorNext]_M!mirrorVars
<1> DEFINE k == round.view[round.cur].key
           next == IF Discovered(k) THEN [round EXCEPT !.pc = "createSocket"]
                   ELSE [round EXCEPT !.pc = "check", !.cur = None]
<1>1. round.pc = "delete" /\ PhaseOf = "clearing"
  BY DEF DeleteSocket, PhaseOf
<1>2. ASSUME Exists(round.cur), api' = [api EXCEPT ![round.cur] = None]
      PROVE  k \in Keys /\ M!Contradicts(k) /\ Entry' = [Entry EXCEPT ![k] = None]
  <2>1. api'[round.cur] = None /\ \A j \in Ids \ {round.cur} : api'[j] = api[j]
    BY <1>2, <1>1 DEF MirrorInv, TypeInv, TypeOK, ApiState, Round, Shape, CurrentIsListed
  <2> QED
    BY <1>1, <1>2, <2>1, DeleteClears
<1>3. CASE round' = Idle /\ api' = api /\ faults' > 0 /\ faults' \in {faults, faults + 1}
  <2>1. Entry' = Entry
    BY <1>3 DEF Entry
  <2>2. M!Break
    BY <1>3, <2>1, BreakStep
  <2> QED
    BY <2>2 DEF M!MirrorNext
<1>4. CASE ~Exists(round.cur)
  <2>1. round' = Idle /\ api' = api /\ faults' = faults
    BY <1>4 DEF DeleteSocket, NotFound
  <2>2. round.cur \in Ids /\ round.view[round.cur] # None
    BY <1>1 DEF MirrorInv, TypeInv, TypeOK, Round, Shape, CurrentIsListed
  <2>3. faults > 0
    BY <1>1, <1>4, <2>2 DEF MirrorInv, UndisturbedInv, ListedStand, TypeInv, TypeOK
  <2> QED
    BY <1>3, <2>1, <2>3
<1>5. CASE Exists(round.cur) /\ Fault("api") /\ round' = Idle /\ UNCHANGED api
  BY <1>3, <1>5 DEF Fault, MirrorInv, TypeInv, TypeOK
<1>6. CASE /\ Exists(round.cur) /\ Fault("lost") /\ round' = Idle
           /\ api' = [api EXCEPT ![round.cur] = None]
  <2>1. PhaseOf' = "rest"
    BY <1>6 DEF Idle, PhaseOf
  <2>2. M!BrokenOff
    BY <1>6, <2>1, RestIsOver DEF M!BrokenOff, Fault
  <2>3. k \in Keys /\ M!Clear(k)
    BY <1>1, <1>6, <1>2, <2>2 DEF M!Clear
  <2> QED
    BY <2>3 DEF M!MirrorNext
<1>7. CASE /\ Exists(round.cur) /\ round' = next /\ UNCHANGED faults
           /\ api' = [api EXCEPT ![round.cur] = None]
  <2>1. /\ SameListing /\ round'.unchecked = round.unchecked
        /\ \/ Discovered(k) /\ round'.pc = "createSocket" /\ round'.cur = round.cur
           \/ ~Discovered(k) /\ round'.pc = "check" /\ round'.cur = None
    BY <1>7 DEF SameListing, MirrorInv, TypeInv, TypeOK, Round
  <2>2. round.cur # None
    BY <1>1 DEF MirrorInv, TypeInv, Shape, CurrentIsListed
  <2>3. PhaseOf' = "clearing"
    BY <2>1, <2>2 DEF PhaseOf
  <2>4. Recreated' = Recreated
    BY <1>1, <2>1, RecreatedStands, ConstantsAssumption
  <2>5. M!GoOn /\ Replaced' = Replaced
    BY <1>1, <1>7, <2>1, <2>3, <2>4 DEF M!GoOn, Wish, Replaced, SameListing
  <2>6. k \in Keys /\ M!Clear(k)
    BY <1>1, <1>7, <1>2, <2>5 DEF M!Clear
  <2> QED
    BY <2>6 DEF M!MirrorNext
<1> QED
  BY <1>4, <1>5, <1>6, <1>7 DEF DeleteSocket, Call

\* CreateSocket adds the key it was told to, and nothing has it yet.
LEMMA CreateAdds ==
    ASSUME MirrorInv, CreateSocket, NEW i \in Ids, ~Exists(i),
           api'[i] # None, api'[i].key = Wanted.key, api'[i].data = Wanted.data,
           \A j \in Ids \ {i} : api'[j] = api[j]
    PROVE  /\ Wanted.key \in Keys /\ PhaseOf # "rest"
           /\ Entry[Wanted.key] = None /\ Wish[Wanted.key] # None
           /\ Entry' = [Entry EXCEPT ![Wanted.key] = Wish[Wanted.key]]
<1> DEFINE k == Wanted.key
<1>1. /\ round.pc = "createSocket" /\ PhaseOf # "rest"
  BY DEF CreateSocket, PhaseOf
<1>2. k \in Keys /\ Discovered(k) /\ LocalFor(k) = Wanted
  BY <1>1, WantedIsLocal DEF MirrorInv, StaleInv
<1>3. Free(k) /\ Entry[k] = None
  BY <1>2, WantedIsFree, EntryIsFree DEF MirrorInv
<1>4. Wish[k] = Wanted.data /\ Wish[k] # None
  BY <1>1, <1>2, WishIsLocal, DiscoveredData DEF Wish, MirrorInv
<1>5. EntryIn(api', k) = Wanted.data
  <2>1. \A j \in Ids : api'[j] # None /\ api'[j].key = k => j = i
    BY <1>3 DEF Free, Exists
  <2> QED
    BY <2>1, EntryOf
<1>6. ASSUME NEW l \in Keys, l # k PROVE EntryIn(api', l) = EntryIn(api, l)
  BY <1>6, SameEntry DEF Exists
<1>7. Entry' = [Entry EXCEPT ![k] = Wish[k]]
  BY <1>2, <1>4, <1>5, <1>6 DEF Entry
<1> QED
  BY <1>1, <1>2, <1>3, <1>4, <1>7

LEMMA CreateIsMirrored ==
    ASSUME MirrorInv, CreateSocket
    PROVE  [M!MirrorNext]_M!mirrorVars
<1> DEFINE new == [key |-> Wanted.key, data |-> Wanted.data, attrs |-> Wanted.attrs,
                   policies |-> {}, tunnel |-> FALSE]
<1>1. PICK i \in Ids :
        /\ Fresh(i)
        /\ Call([api EXCEPT ![i] = new], [round EXCEPT !.pc = "createTunnel", !.made = i])
  BY DEF CreateSocket
<1>2. new \in ApiSocket /\ new.key = Wanted.key /\ new.data = Wanted.data
  BY WantedType DEF CreateSocket, CreatingPC, ApiSocket, LocalSocket, MirrorInv
<1> HIDE DEF new
<1>3. round.pc = "createSocket"
  BY DEF CreateSocket
<1>4. ASSUME api' = [api EXCEPT ![i] = new]
      PROVE  /\ Wanted.key \in Keys /\ PhaseOf # "rest"
             /\ Entry[Wanted.key] = None /\ Wish[Wanted.key] # None
             /\ Entry' = [Entry EXCEPT ![Wanted.key] = Wish[Wanted.key]]
  <2>1. /\ ~Exists(i) /\ api'[i] # None /\ api'[i].key = Wanted.key
        /\ api'[i].data = Wanted.data /\ \A j \in Ids \ {i} : api'[j] = api[j]
    BY <1>1, <1>2, <1>4, ConstantsAssumption DEF Fresh, MirrorInv, TypeInv, TypeOK, ApiState
  <2> QED
    BY <2>1, CreateAdds
<1>5. CASE /\ api' = [api EXCEPT ![i] = new] /\ UNCHANGED faults
           /\ round' = [round EXCEPT !.pc = "createTunnel", !.made = i]
  <2>1. /\ round'.pc = "createTunnel" /\ round'.cur = round.cur
        /\ round'.unchecked = round.unchecked /\ SameListing
    BY <1>5 DEF SameListing, MirrorInv, TypeInv, TypeOK, Round
  <2>2. PhaseOf' = PhaseOf /\ PhaseOf # "rest" /\ (PhaseOf = "clearing" <=> round.cur # None)
    BY <1>3, <2>1 DEF PhaseOf
  <2>3. Wish' = Wish
    BY <2>1, <2>2 DEF Wish, SameListing
  <2>4. Replaced' = (Replaced \/ PhaseOf = "clearing")
    <3>1. CASE round.cur = None
      <4>1. Recreated' = Recreated
        BY <1>3, <2>1, <3>1, RecreatedStands, ConstantsAssumption
      <4> QED
        BY <2>2, <3>1, <4>1 DEF Replaced
    <3>2. CASE round.cur # None
      <4>1. /\ round.cur \in Ids /\ round.view[round.cur] # None
            /\ Discovered(round.view[round.cur].key)
            /\ Superseded(round.view[round.cur]) /\ round.cur \notin round.unchecked
        BY <1>3, <3>2 DEF MirrorInv, TypeInv, TypeOK, Round, Shape, CurrentIsListed,
                          UndisturbedInv, UncheckedAreSuperseded
      <4>2. Superseded(round.view[round.cur])' /\ Discovered(round.view[round.cur].key)'
        BY <2>1, <4>1, LocalStands DEF SameListing, Superseded
      <4>3. round.cur \in Recreated'
        BY <2>1, <4>1, <4>2 DEF Recreated, SameListing
      <4> QED
        BY <2>2, <3>2, <4>3 DEF Replaced
    <3> QED
      BY <3>1, <3>2
  <2>5. M!Add(Wanted.key)
    BY <1>4, <1>5, <2>2, <2>3, <2>4 DEF M!Add, M!GoOn
  <2> QED
    BY <1>4, <1>5, <2>5 DEF M!MirrorNext
<1>6. CASE Fault("api") /\ round' = Idle /\ UNCHANGED api
  <2>1. Entry' = Entry /\ faults' > 0 /\ faults' = faults + 1
    BY <1>6 DEF Entry, Fault, MirrorInv, TypeInv, TypeOK
  <2>2. M!Break
    BY <1>6, <2>1, BreakStep
  <2> QED
    BY <2>2 DEF M!MirrorNext
<1>7. CASE Fault("lost") /\ round' = Idle /\ api' = [api EXCEPT ![i] = new]
  <2>1. PhaseOf' = "rest"
    BY <1>7 DEF Idle, PhaseOf
  <2>2. M!BrokenOff
    BY <1>7, <2>1, RestIsOver DEF M!BrokenOff, Fault
  <2>3. M!Add(Wanted.key)
    BY <1>4, <1>7, <2>2 DEF M!Add
  <2> QED
    BY <1>4, <1>7, <2>3 DEF M!MirrorNext
<1> QED
  BY <1>1, <1>5, <1>6, <1>7 DEF Call

\* Steps of the worker that Mirror does not see: they touch no key and no data.
LEMMA UnseenStep ==
    ASSUME MirrorInv, WorkerStep, NoFault, SameListing,
           round.pc \notin {"delete", "createSocket"}, round'.pc \notin {"delete", "createSocket"},
           round' # round, round'.unchecked = round.unchecked, PhaseOf' = PhaseOf
    PROVE  UNCHANGED M!mirrorVars
<1>1. [Next]_vars /\ ~CreateSocket /\ ~DeleteSocket /\ \A i \in Ids : ~UserDeletes(i)
  BY DEF Next, ReconcileNext, CreateSocket, DeleteSocket, UserDeletes
<1>2. Entry' = Entry
  BY <1>1, EntriesStand DEF MirrorInv
<1>3. Recreated' = Recreated
  BY RecreatedStands
<1> QED
  BY <1>2, <1>3, StutterStep

LEMMA SetupIsMirrored ==
    ASSUME MirrorInv, CreateTunnel \/ UpdatePrivate
    PROVE  [M!MirrorNext]_M!mirrorVars
<1>1. /\ round.pc \in {"createTunnel", "updatePrivate"} /\ round.pc \in MadePC
      /\ WorkerStep /\ [Next]_vars
  BY DEF CreateTunnel, UpdatePrivate, MadePC, CreatingPC, WorkerStep, Next, ReconcileNext
<1>2. \E pc \in {"updatePrivate", "attach"} \ {round.pc} :
         \/ NotFound /\ ~Exists(round.made)
         \/ \E after : Call(after, [round EXCEPT !.pc = pc])
  <2>1. CASE CreateTunnel
    <3>1. ("updatePrivate" # "createTunnel") /\ ("attach" # "createTunnel")
      OBVIOUS
    <3> QED
      BY <2>1, <3>1 DEF CreateTunnel
  <2>2. CASE UpdatePrivate
    <3>1. \/ NotFound /\ ~Exists(round.made)
          \/ \E after : Call(after, [round EXCEPT !.pc = "attach"])
      BY <2>2, Zenon DEF UpdatePrivate
    <3>2. round.pc = "updatePrivate" /\ "attach" # "updatePrivate"
      BY <2>2 DEF UpdatePrivate
    <3> QED
      BY <3>1, <3>2
  <2> QED
    BY <2>1, <2>2
<1>3. PICK pc \in {"updatePrivate", "attach"} \ {round.pc} :
         \/ NotFound /\ ~Exists(round.made)
         \/ \E after : Call(after, [round EXCEPT !.pc = pc])
  BY <1>2
<1> DEFINE next == [round EXCEPT !.pc = pc]
<1>4. /\ next.pc = pc /\ next.cur = round.cur /\ next.unchecked = round.unchecked
      /\ next.local = round.local /\ next.view = round.view /\ next.apiOf = round.apiOf
  BY DEF MirrorInv, TypeInv, TypeOK, Round
<1>5. Idle.pc = "receive"
  BY DEF Idle
<1> HIDE DEF next
<1>6. \/ round' = Idle /\ (faults' > 0 \/ ~Exists(round.made))
      \/ round' = next /\ NoFault
  <2>1. \A kind : Fault(kind) => faults' > 0
    BY DEF Fault, MirrorInv, TypeInv, TypeOK
  <2>2. (NotFound /\ ~Exists(round.made)) \/ \E after : Call(after, next)
    BY <1>3 DEF next
  <2> QED
    BY <2>1, <2>2 DEF NotFound, Call, NoFault
<1>7. CASE round' = Idle /\ (faults' > 0 \/ ~Exists(round.made))
  <2>1. ~Exists(round.made) => faults > 0
    BY <1>1 DEF MirrorInv, UndisturbedInv, MadeStands, TypeInv, TypeOK
  <2>2. faults' > 0
    BY <1>1, <1>7, <2>1, FaultsCount DEF MirrorInv, TypeInv, TypeOK
  <2>3. ~CreateSocket /\ ~DeleteSocket /\ \A i \in Ids : ~UserDeletes(i)
    BY <1>1, <1>5, <1>7 DEF CreateSocket, DeleteSocket, UserDeletes
  <2> QED
    BY <1>1, <1>7, <2>2, <2>3, AbortIsMirrored
<1>8. CASE round' = next /\ NoFault
  <2>1. SameListing /\ PhaseOf' = PhaseOf /\ round' # round
    BY <1>1, <1>4, <1>8 DEF SameListing, PhaseOf
  <2> QED
    BY <1>1, <1>4, <1>8, <2>1, UnseenStep
<1> QED
  BY <1>6, <1>7, <1>8

LEMMA AttachIsMirrored ==
    ASSUME MirrorInv, AttachPolicies
    PROVE  UNCHANGED M!mirrorVars
<1>1. /\ round.pc = "attach" /\ SameListing /\ NoFault /\ round'.unchecked = round.unchecked
      /\ \/ round.cur # None /\ round'.pc = "check"
         \/ round.cur = None /\ round'.pc = "create" /\ round'.cur = None
  BY DEF AttachPolicies, NoFault, SameListing, MirrorInv, TypeInv, TypeOK, Round
<1>2. PhaseOf' = PhaseOf
  BY <1>1 DEF PhaseOf
<1> QED
  BY <1>1, <1>2, UnseenStep DEF WorkerStep

\* The create loop at a socket that is listed.
LEMMA AdvanceIsUnseen ==
    ASSUME MirrorInv, WorkerStep, NoFault, round.pc \in {"create", "update"}, round.todo # <<>>,
           \/ round' = Advanced
           \/ round.pc = "create" /\ round' = [round EXCEPT !.pc = "update"]
    PROVE  UNCHANGED M!mirrorVars
<1>1. /\ SameListing /\ round'.unchecked = round.unchecked /\ round'.cur = round.cur
      /\ round'.pc \in {"create", "update"}
      /\ round'.pc # round.pc \/ round'.todo = Tail(round.todo)
  BY DEF Advanced, SameListing, MirrorInv, TypeInv, TypeOK, Round
<1>2. round' # round
  BY <1>1 DEF MirrorInv, TypeInv, TypeOK, Round
<1>3. PhaseOf' = PhaseOf
  BY <1>1 DEF PhaseOf
<1> QED
  BY <1>1, <1>2, <1>3, UnseenStep

LEMMA UpdateIsMirrored ==
    ASSUME MirrorInv, KeepSocket \/ ApplyPolicies \/ UpdateSocket
    PROVE  [M!MirrorNext]_M!mirrorVars
<1>1. CASE KeepSocket \/ ApplyPolicies
  BY <1>1, AdvanceIsUnseen DEF KeepSocket, ApplyPolicies, AtKnownSocket, WorkerStep, NoFault
<1>2. CASE UpdateSocket
  <2> DEFINE i == round.apiOf[Head(round.todo).key]
  <2>1. /\ round.pc = "update" /\ round.todo # <<>> /\ i \in Ids
        /\ WorkerStep /\ [Next]_vars
    BY <1>2, UpdateSocketApi DEF UpdateSocket, MirrorInv, TypeInv, Shape, TodoIsLeft, WorkerStep,
       Next, ReconcileNext
  <2>2. \/ round' = Idle /\ faults' > 0
        \/ round' = Idle /\ ~Exists(i)
        \/ round' = Advanced /\ NoFault
    <3>1. \A kind : Fault(kind) => faults' > 0
      BY DEF Fault, MirrorInv, TypeInv, TypeOK
    <3> QED
      BY <1>2, <3>1 DEF UpdateSocket, Call, NotFound, NoFault
  <2>3. CASE round' = Advanced /\ NoFault
    BY <2>1, <2>3, AdvanceIsUnseen
  <2>4. PhaseOf = "adding"
    BY <2>1 DEF PhaseOf
  <2>5. ~CreateSocket /\ ~DeleteSocket
    BY <2>1 DEF CreateSocket, DeleteSocket
  <2>6. round' = Idle => \A j \in Ids : ~UserDeletes(j)
    BY <2>1 DEF UserDeletes, Idle
  <2>7. CASE round' = Idle /\ ~Exists(i) /\ faults = 0
    <3>1. 1 \in DOMAIN round.todo /\ Head(round.todo) = round.todo[1]
      BY <2>1 DEF MirrorInv, TypeInv, TypeOK, Round
    <3>2. Head(round.todo).key \in Keys /\ Discovered(Head(round.todo).key)
      BY <3>1, TodoIsLocal DEF MirrorInv, StaleInv, LocalSocket
    <3>3. round.view[i] # None /\ round.view[i].key = Head(round.todo).key
      BY <2>1, <3>2, ConstantsAssumption DEF MirrorInv, ListingInv, MapNamesListed
    <3>4. Superseded(round.view[i]) /\ i \notin round.unchecked
      BY <2>1, <2>7, <3>3 DEF MirrorInv, UndisturbedInv, ListedStand
    <3>5. i \in Recreated
      BY <2>1, <3>2, <3>3, <3>4 DEF Recreated
    <3>6. Replaced
      BY <2>4, <3>5 DEF Replaced
    <3> QED
      BY <2>1, <2>4, <2>5, <2>6, <2>7, <3>6, AbortIsMirrored
  <2>8. CASE round' = Idle /\ faults' > 0
    BY <2>1, <2>5, <2>6, <2>8, AbortIsMirrored
  <2>9. faults > 0 => faults' > 0
    BY <2>1, FaultsCount DEF MirrorInv, TypeInv, TypeOK
  <2> QED
    BY <2>2, <2>3, <2>7, <2>8, <2>9 DEF MirrorInv, TypeInv, TypeOK
<1> QED
  BY <1>1, <1>2

\* The create loop is over: an undisturbed round has brought about its result.
LEMMA FinishIsMirrored ==
    ASSUME MirrorInv, FinishCreates
    PROVE  M!Finish
<1>1. /\ round.pc = "create" /\ round'.pc = "connect" /\ round.todo = <<>> /\ api' = api
      /\ round.cur = None /\ round.unchecked = {} /\ NoFault
  BY FinishesCreates DEF MirrorInv
<1>2. PhaseOf = "adding" /\ PhaseOf' = "rest"
  BY <1>1 DEF PhaseOf
<1>3. ASSUME faults = 0, NEW k \in Keys PROVE Entry[k] = Wish[k]
  <2>1. Wish[k] = WishOf(round.local)[k]
    BY <1>2 DEF Wish
  <2>2. CASE Free(k)
    <3>1. ~Discovered(k)
      <4> SUFFICES ASSUME NEW n \in DOMAIN round.local, round.local[n].key = k PROVE FALSE
        BY DEF Discovered
      <4>1. ~Deleting /\ DOMAIN round.todo = {}
        BY <1>1 DEF Deleting, CreatingPC
      <4> QED
        BY <1>1, <1>3, <2>2, <4>1 DEF MirrorInv, UndisturbedInv, DiscoveredIsHeld
    <3> QED
      BY <2>1, <2>2, <3>1, WishIsLocal, EntryIsFree
  <2>3. CASE ~Free(k)
    <3>1. PICK i \in Ids : Exists(i) /\ api[i].key = k
      BY <2>3 DEF Free
    <3>2. ~Superseded(api[i])
      BY <1>1, <3>1 DEF MirrorInv, StaleInv, SupersededIsUnchecked
    <3> QED
      BY <2>1, <3>1, <3>2, ContradictsIsSuperseded DEF MirrorInv, UniqueInv
  <2> QED
    BY <2>2, <2>3
<1>4. faults = 0 => Entry = Wish
  <2>1. Entry = [k \in Keys |-> Entry[k]] /\ Wish = [k \in Keys |-> Wish[k]]
    BY <1>2 DEF Entry, Wish, WishOf
  <2> QED
    BY <1>3, <2>1
<1>5. Entry' = Entry
  BY <1>1 DEF Entry
<1> QED
  BY <1>1, <1>2, <1>4, <1>5, RestIsOver DEF M!Finish, NoFault

LEMMA ConnectIsMirrored ==
    ASSUME MirrorInv, RequestConnect \/ SkipConnected \/ FinishRound
    PROVE  UNCHANGED M!mirrorVars
<1>1. /\ round.pc = "connect" /\ round'.pc \in {"connect", "receive"} /\ api' = api /\ NoFault
  BY DEF RequestConnect, SkipConnected, FinishRound, Idle, NoFault, MirrorInv, TypeInv, TypeOK, Round
<1>2. PhaseOf = "rest" /\ PhaseOf' = "rest"
  BY <1>1 DEF PhaseOf
<1>3. Wish' = Wish /\ Replaced' = Replaced /\ Entry' = Entry
  BY <1>1, <1>2 DEF Wish, Replaced, Entry
<1> QED
  BY <1>1, <1>2, <1>3 DEF M!mirrorVars, NoFault

LEMMA RestartIsMirrored ==
    ASSUME MirrorInv, Restart
    PROVE  M!Break
<1>1. Entry' = Entry /\ round' = Idle /\ faults' = faults + 1 /\ faults' > 0
  BY DEF Restart, Entry, Fault, MirrorInv, TypeInv, TypeOK
<1> QED
  BY <1>1, BreakStep

\* Every step of Connector is a step of Mirror or none.
LEMMA StepIsMirrored ==
    ASSUME MirrorInv, [Next]_vars
    PROVE  [M!MirrorNext]_M!mirrorVars
<1>1. CASE Receive \/ FinishDeletes \/ FinishCreates \/ Restart
  BY <1>1, ReceiveIsMirrored, FinishDeletesIsMirrored, FinishIsMirrored, RestartIsMirrored
     DEF M!MirrorNext
<1>2. CASE \/ BeginCreate \/ AttachPolicies \/ RequestConnect \/ SkipConnected \/ FinishRound
           \/ \E i \in Ids : RequestDisconnect(i) \/ RecreateSocket(i)
  BY <1>2, BeginCreateIsMirrored, AttachIsMirrored, ConnectIsMirrored, TurnIsMirrored
<1>3. CASE \/ ListSockets \/ DeleteSocket \/ CreateSocket \/ CreateTunnel \/ UpdatePrivate
           \/ KeepSocket \/ ApplyPolicies \/ UpdateSocket
  BY <1>3, ListIsMirrored, DeleteIsMirrored, CreateIsMirrored, SetupIsMirrored, UpdateIsMirrored
<1>4. CASE \/ DiscoveryStep \/ TunnelNext \/ WorldChanges \/ UNCHANGED vars
           \/ \E i \in Ids : UserDeletes(i) \/ UserEdits(i)
  <2>1. round' = round
    BY <1>4 DEF DiscoveryStep, Find, Publish, TunnelNext, JobStep, StartTunnel, CloseTunnel,
       SessionStep, SessionDrops, Store, Reload, ReloadFails, GetTunnel, GetTunnelFails, CertFails,
       DialFails, Listen, ListenRefused, Hangs, SetupFails, Establish, Forget, AttemptFails,
       OnlySess,
       WorldChanges, UserDeletes, UserEdits, vars
  <2> QED
    BY <2>1, QuietIsMirrored
<1> QED
  BY <1>1, <1>2, <1>3, <1>4 DEF Next, ReconcileNext, WorkerStep, Environment

LEMMA InitIsMirrored ==
    ASSUME MirrorInv, Init
    PROVE  M!MirrorInit
<1>1. PhaseOf = "rest" /\ Wish = [k \in Keys |-> None] /\ ~Replaced /\ faults = 0
  BY DEF Init, Idle, PhaseOf, Wish, Replaced
<1>2. ASSUME NEW k \in Keys PROVE Entry[k] \in Data \cup {None}
  <2>1. CASE Free(k)
    BY <2>1, EntryIsFree
  <2>2. CASE ~Free(k)
    BY <2>2, EntryOfSocket DEF Free, MirrorInv, UniqueInv
  <2> QED
    BY <2>1, <2>2
<1>3. Entry \in [Keys -> Data \cup {None}]
  BY <1>2 DEF Entry
<1> QED
  BY <1>1, <1>3 DEF M!MirrorInit, M!Nothing, Replaced

LEMMA MirrorInvariant ==
    ASSUME DistinctDiscoveries, UniqueAtFirst
    PROVE  Spec => []MirrorInv
<1>1. Init => UniqueInv /\ UndisturbedInv
  BY InitUnique, InitUndisturbed
<1>2. /\ TypeInv /\ ListingInv /\ StaleInv /\ UniqueInv /\ UndisturbedInv /\ [Next]_vars
      => UniqueInv' /\ UndisturbedInv'
  BY UniqueKept, UndisturbedKept
<1>3. Spec => [](UniqueInv /\ UndisturbedInv)
  BY <1>1, <1>2, StaleInvariant, PTL DEF Spec
<1> QED
  BY <1>3, StaleInvariant, PTL DEF MirrorInv

\* Connector implements Mirror, for every set of keys, every organization at
\* the start and however many faults: the listings, ids, queues and retries
\* of HandleUpdates and its handlers never do to the API what Mirror forbids.
THEOREM MirrorCorrect ==
    ASSUME DistinctDiscoveries, UniqueAtFirst
    PROVE  Spec => ImplementsMirror
<1>1. Spec => []MirrorInv
  BY MirrorInvariant
<1>2. MirrorInv /\ Init => M!MirrorInit
  BY InitIsMirrored
<1>3. MirrorInv /\ [Next]_vars => [M!MirrorNext]_M!mirrorVars
  BY StepIsMirrored
<1> QED
  BY <1>1, <1>2, <1>3, PTL DEF Spec, ImplementsMirror, M!MirrorSpec
=============================================================================
