-------------------------- MODULE ConnectorProofs --------------------------
(***************************************************************************)
(* Proofs about Connector, for every value of its constants.               *)
(***************************************************************************)
EXTENDS ConnectorInv, Integers, WellFoundedInduction, TLAPS

LessThan == {p \in Nat \X Nat : p[1] < p[2]}

\* A bounded, non-empty set of naturals has a greatest element.
LEMMA GreatestNat ==
    ASSUME NEW T \in SUBSET Nat, NEW b \in Nat, T # {}, \A n \in T : n <= b
    PROVE  \E n \in T : \A m \in T : m <= n
<1> DEFINE D == {b - n : n \in T}
<1>1. D \subseteq Nat
  BY SMT
<1>2. \A m \in T : b - m \in D
  OBVIOUS
<1>3. \A d \in D : \E n \in T : d = b - n
  OBVIOUS
<1>4. IsWellFoundedOn(LessThan, Nat)
  BY NatLessThanWellFounded DEF OpToRel, LessThan
<1>5. \A x, y \in Nat : x < y => <<x, y>> \in LessThan
  BY SMT DEF LessThan
<1> HIDE DEF D
<1>6. D # {}
  BY <1>2
<1>7. PICK d \in D : \A e \in D : ~ (<<e, d>> \in LessThan)
  BY <1>1, <1>6, <1>4, WFMin
<1>8. \A e \in D : ~ (e < d)
  BY <1>1, <1>5, <1>7
<1>9. PICK n \in T : d = b - n
  BY <1>3
<1> QED
  BY <1>1, <1>2, <1>8, <1>9

\* localSocketsMap holds, for a discovered key, a discovered socket with it.
LEMMA LocalForKey ==
    ASSUME round \in Round, NEW k, Discovered(k)
    PROVE  \E n \in DOMAIN round.local : /\ LocalFor(k) = round.local[n]
                                         /\ round.local[n].key = k
                                         /\ round.local[n] \in LocalSocket
<1> DEFINE T == {n \in DOMAIN round.local : round.local[n].key = k}
<1>1. round.local \in Seq(LocalSocket)
  BY DEF Round
<1>2. T \in SUBSET Nat /\ Len(round.local) \in Nat /\ \A n \in T : n <= Len(round.local)
  BY <1>1
<1>3. T # {}
  BY DEF Discovered
<1> HIDE DEF T
<1>4. \E n \in T : \A m \in T : m <= n
  BY <1>2, <1>3, GreatestNat
<1> USE DEF T
<1>5. \E n \in DOMAIN round.local :
        /\ round.local[n].key = k
        /\ \A m \in DOMAIN round.local : round.local[m].key = k => m <= n
  BY <1>4
<1>6. PICK n \in DOMAIN round.local : LocalFor(k) = round.local[n] /\ round.local[n].key = k
  BY <1>5 DEF LocalFor
<1> QED
  BY <1>1, <1>6

-----------------------------------------------------------------------------
(* Type correctness *)

\* A round that was given up, or is over, keeps nothing.
LEMMA IdleRound ==
    ASSUME round' = Idle
    PROVE  round' \in Round /\ Shape'
<1>1. Idle \in Round
  BY ConstantsAssumption DEF Idle, Round, WorkerPC, NoView, NoneOf, ApiState
<1>2. Shape'
  BY DEF Shape, MadeIsSet, CurrentIsListed, TodoIsLeft, UncheckedAreListed, UncheckedIsOver, Idle, MadePC,
         CreatingPC
<1> QED
  BY <1>1, <1>2

LEMMA InitType == Init => TypeInv
<1> SUFFICES ASSUME Init PROVE TypeInv
  OBVIOUS
<1>1. round \in Round
  BY ConstantsAssumption DEF Init, Idle, Round, WorkerPC, NoView, NoneOf, ApiState
<1>2. TypeOK
  BY <1>1, ConstantsAssumption DEF Init, TypeOK, NoneOf
<1>3. Shape
  BY DEF Init, Shape, MadeIsSet, CurrentIsListed, TodoIsLeft, UncheckedAreListed, UncheckedIsOver, Idle, MadePC,
         CreatingPC
<1>4. TrackedUnderOwnKey
  BY DEF Init, TrackedUnderOwnKey, NoneOf
<1> QED
  BY <1>2, <1>3, <1>4 DEF TypeInv

LEMMA FaultType ==
    ASSUME TypeOK, NEW kind, Fault(kind)
    PROVE  faults' \in 0..MaxFaults
BY ConstantsAssumption DEF TypeOK, Fault

\* What an API call does to the worker and the API, whether it succeeds, fails
\* or loses its answer.
LEMMA CallOutcomes ==
    ASSUME TypeOK, NEW after, NEW next, Call(after, next)
    PROVE  /\ api' \in {api, after}
           /\ round' \in {next, Idle}
           /\ faults' \in 0..MaxFaults
           /\ round' = next => api' = after \/ next = Idle
BY FaultType DEF Call, TypeOK

\* The part of TypeInv that the worker's steps change.
WorkerTypeInv == /\ round \in Round /\ api \in ApiState
                 /\ faults \in 0..MaxFaults /\ Shape

LEMMA ReceiveType ==
    ASSUME TypeInv, Receive
    PROVE  WorkerTypeInv' /\ updates' \in Seq(Discoveries) /\ Len(updates') <= 1
<1>1. Idle \in Round
  BY ConstantsAssumption DEF Idle, Round, WorkerPC, NoView, NoneOf, ApiState
<1>2. Head(updates) \in Seq(LocalSocket)
  BY ConstantsAssumption DEF TypeInv, TypeOK, Receive
<1>3. round' \in Round
  BY <1>1, <1>2 DEF Receive, Round, WorkerPC
<1>4. updates' \in Seq(Discoveries) /\ Len(updates') <= 1
  BY DEF TypeInv, TypeOK, Receive
<1>5. Shape'
  BY DEF Receive, Shape, MadeIsSet, CurrentIsListed, TodoIsLeft, UncheckedAreListed, UncheckedIsOver, Idle,
         MadePC, CreatingPC
<1>6. api' \in ApiState /\ faults' \in 0..MaxFaults
  BY DEF Receive, TypeInv, TypeOK
<1> QED
  BY <1>3, <1>4, <1>5, <1>6 DEF WorkerTypeInv

LEMMA ListSocketsType ==
    ASSUME TypeInv, ListSockets
    PROVE  WorkerTypeInv'
<1>1. api' \in ApiState /\ faults' \in 0..MaxFaults
  BY FaultType DEF ListSockets, TypeInv, TypeOK
<1>2. CASE \E map \in LastByKey :
             round' = [round EXCEPT
               !.pc = "check", !.view = api, !.apiOf = map,
               !.unchecked = {i \in Ids : Exists(i) /\ Superseded(api[i])}]
  <2>1. PICK map \in LastByKey :
             round' = [round EXCEPT
               !.pc = "check", !.view = api, !.apiOf = map,
               !.unchecked = {i \in Ids : Exists(i) /\ Superseded(api[i])}]
    BY <1>2
  <2>2. map \in [Keys -> Ids \cup {None}]
    BY DEF LastByKey
  <2>3. round' \in Round
    BY <2>1, <2>2 DEF TypeInv, TypeOK, Round, WorkerPC
  <2>4. Shape'
    BY <2>1 DEF TypeInv, TypeOK, Round, ListSockets, Shape, MadeIsSet, CurrentIsListed,
            TodoIsLeft, UncheckedAreListed, UncheckedIsOver, MadePC, CreatingPC, Exists, Superseded
  <2> QED
    BY <1>1, <2>3, <2>4 DEF WorkerTypeInv
<1>3. CASE round' = Idle
  BY <1>1, <1>3, IdleRound DEF WorkerTypeInv
<1> QED
  BY <1>2, <1>3 DEF ListSockets

\* The two actions of the delete loop that pick a socket.
LEMMA PickType ==
    ASSUME TypeInv, NEW i \in Ids, RequestDisconnect(i) \/ RecreateSocket(i)
    PROVE  WorkerTypeInv' /\ connectChan' \in Seq(Request) /\ Len(connectChan') <= ChanCap
<1>1. /\ api' \in ApiState /\ faults' \in 0..MaxFaults
      /\ round' = [round EXCEPT !.pc = "delete", !.cur = i, !.unchecked = @ \ {i}]
      /\ i \in round.unchecked
  BY DEF RequestDisconnect, RecreateSocket, NextEntry, TypeInv, TypeOK
<1>2. round' \in Round
  BY <1>1 DEF TypeInv, TypeOK, Round, WorkerPC
<1>3. round.view[i] # None /\ round.view[i].key \in Keys
  BY <1>1 DEF TypeInv, Shape, UncheckedAreListed
<1>4. i # None
  BY ConstantsAssumption
<1>5. Shape'
  <2>1. /\ round'.pc = "delete" /\ round'.cur = i /\ round'.view = round.view
        /\ round'.unchecked = round.unchecked \ {i}
    BY <1>1 DEF TypeInv, TypeOK, Round
  <2>2. UncheckedAreListed'
    BY <2>1 DEF TypeInv, Shape, UncheckedAreListed
  <2> QED
    BY <1>1, <1>3, <1>4, <2>1, <2>2
    DEF Shape, MadeIsSet, CurrentIsListed, TodoIsLeft, UncheckedIsOver, MadePC, CreatingPC
<1>6. [key |-> round.view[i].key, id |-> i, action |-> "disconnect"] \in Request
  BY <1>3 DEF Request
<1>7. connectChan' \in Seq(Request) /\ Len(connectChan') <= ChanCap
  <2>1. CASE RequestDisconnect(i)
    BY <1>6, <2>1, ConstantsAssumption DEF RequestDisconnect, TypeInv, TypeOK
  <2>2. CASE RecreateSocket(i)
    BY <2>2 DEF RecreateSocket, OnlyWorker, TypeInv, TypeOK
  <2> QED
    BY <2>1, <2>2
<1> QED
  BY <1>1, <1>2, <1>5, <1>7 DEF WorkerTypeInv

LEMMA DeleteSocketType ==
    ASSUME TypeInv, DeleteSocket
    PROVE  WorkerTypeInv'
<1> DEFINE after == [api EXCEPT ![round.cur] = None]
           next == IF Discovered(round.view[round.cur].key)
                   THEN [round EXCEPT !.pc = "createSocket"]
                   ELSE [round EXCEPT !.pc = "check", !.cur = None]
<1>1. api' \in {api, after} /\ round' \in {next, Idle} /\ faults' \in 0..MaxFaults
  BY CallOutcomes DEF DeleteSocket, NotFound, TypeInv, TypeOK
<1>2. api' \in ApiState
  BY <1>1 DEF TypeInv, TypeOK, ApiState
<1>3. CASE round' = next
  <2>1. round' \in Round
    BY <1>3 DEF TypeInv, TypeOK, Round, WorkerPC
  <2>2. Shape'
    BY <1>3 DEF DeleteSocket, TypeInv, TypeOK, Round, Shape, MadeIsSet, CurrentIsListed, TodoIsLeft,
            UncheckedAreListed, UncheckedIsOver, MadePC, CreatingPC, Discovered
  <2> QED
    BY <1>1, <1>2, <2>1, <2>2 DEF WorkerTypeInv
<1>4. CASE round' = Idle
  BY <1>1, <1>2, <1>4, IdleRound DEF WorkerTypeInv
<1> QED
  BY <1>1, <1>3, <1>4

LEMMA FinishDeletesType ==
    ASSUME TypeInv, FinishDeletes
    PROVE  WorkerTypeInv'
<1>1. round' \in Round
  BY DEF FinishDeletes, TypeInv, TypeOK, Round, WorkerPC
<1>2. Shape'
  BY DEF FinishDeletes, TypeInv, TypeOK, Round, Shape, MadeIsSet, CurrentIsListed, TodoIsLeft,
         UncheckedAreListed, UncheckedIsOver, MadePC, CreatingPC
<1> QED
  BY <1>1, <1>2 DEF FinishDeletes, WorkerTypeInv, TypeInv, TypeOK

LEMMA BeginCreateType ==
    ASSUME TypeInv, BeginCreate
    PROVE  WorkerTypeInv'
<1>1. round' \in Round
  BY DEF BeginCreate, TypeInv, TypeOK, Round, WorkerPC
<1>2. Shape'
  BY DEF BeginCreate, TypeInv, TypeOK, Round, Shape, MadeIsSet, CurrentIsListed, TodoIsLeft,
         UncheckedAreListed, UncheckedIsOver, MadePC, CreatingPC
<1> QED
  BY <1>1, <1>2 DEF BeginCreate, WorkerTypeInv, TypeInv, TypeOK

\* The socket CreateSocketAndTunnel is asked for.
LEMMA WantedType ==
    ASSUME TypeInv, round.pc \in CreatingPC
    PROVE  Wanted \in LocalSocket
<1>1. CASE round.cur # None
  <2>1. Discovered(round.view[round.cur].key)
    BY <1>1 DEF TypeInv, Shape, CurrentIsListed, CreatingPC
  <2> QED
    BY <1>1, <2>1, LocalForKey DEF Wanted, TypeInv, TypeOK
<1>2. CASE round.cur = None
  BY <1>2 DEF Wanted, TypeInv, TypeOK, Round, Shape, TodoIsLeft
<1> QED
  BY <1>1, <1>2

LEMMA CreateSocketType ==
    ASSUME TypeInv, CreateSocket
    PROVE  WorkerTypeInv'
<1> DEFINE new == [key |-> Wanted.key, data |-> Wanted.data, attrs |-> Wanted.attrs,
                   policies |-> {}, tunnel |-> FALSE]
<1>1. PICK i \in Ids :
        Call([api EXCEPT ![i] = new], [round EXCEPT !.pc = "createTunnel", !.made = i])
  BY DEF CreateSocket
<1>2. new \in ApiSocket
  BY WantedType DEF CreateSocket, CreatingPC, LocalSocket, ApiSocket
<1> HIDE DEF new
<1>3. /\ api' \in {api, [api EXCEPT ![i] = new]}
      /\ round' \in {[round EXCEPT !.pc = "createTunnel", !.made = i], Idle}
      /\ faults' \in 0..MaxFaults
  BY <1>1, CallOutcomes DEF TypeInv
<1>4. api' \in ApiState
  BY <1>2, <1>3 DEF TypeInv, TypeOK, ApiState
<1>5. CASE round' = [round EXCEPT !.pc = "createTunnel", !.made = i]
  <2>1. round' \in Round
    BY <1>5 DEF TypeInv, TypeOK, Round, WorkerPC
  <2>2. Shape'
    BY <1>5 DEF CreateSocket, TypeInv, TypeOK, Round, Shape, MadeIsSet, CurrentIsListed,
            TodoIsLeft, UncheckedAreListed, UncheckedIsOver, MadePC, CreatingPC, Discovered
  <2> QED
    BY <1>3, <1>4, <2>1, <2>2 DEF WorkerTypeInv
<1>6. CASE round' = Idle
  BY <1>3, <1>4, <1>6, IdleRound DEF WorkerTypeInv
<1> QED
  BY <1>3, <1>5, <1>6

\* UpdatePrivate changes at most the fields of the socket just created.
LEMMA UpdatePrivateOutcomes ==
    ASSUME TypeInv, UpdatePrivate
    PROVE  /\ \/ api' = api
              \/ /\ Exists(round.made)
                 /\ \E a \in Attrs : api' = [api EXCEPT ![round.made].attrs = a]
           /\ round' \in {[round EXCEPT !.pc = "attach"], Idle}
           /\ faults' \in 0..MaxFaults
<1> DEFINE put(a) == [api EXCEPT ![round.made].attrs = a]
           next == [round EXCEPT !.pc = "attach"]
<1>1. IF Exists(round.made)
      THEN \E a \in PutAttrs(api[round.made].attrs, Wanted.attrs) : Call(put(a), next)
      ELSE NotFound
  BY DEF UpdatePrivate
<1> HIDE DEF next
<1>2. CASE ~Exists(round.made)
  BY <1>1, <1>2 DEF NotFound, TypeInv, TypeOK
<1>3. CASE Exists(round.made)
  <2>1. PICK a \in PutAttrs(api[round.made].attrs, Wanted.attrs) : Call(put(a), next)
    BY <1>1, <1>3
  <2>2. a \in Attrs
    BY DEF PutAttrs
  <2>3. api' \in {api, put(a)} /\ round' \in {next, Idle} /\ faults' \in 0..MaxFaults
    BY <2>1, CallOutcomes, Zenon DEF TypeInv
  <2> QED
    BY <1>3, <2>2, <2>3 DEF next
<1> QED
  BY <1>2, <1>3

\* CreateTunnel and UpdatePrivate go on to a later call about the same socket.
LEMMA SetupCallType ==
    ASSUME TypeInv, CreateTunnel \/ UpdatePrivate
    PROVE  WorkerTypeInv'
<1>1. round.pc \in MadePC /\ round.made \in Ids
  BY DEF CreateTunnel, UpdatePrivate, MadePC, CreatingPC, TypeInv, Shape, MadeIsSet
<1>2. \E pc \in MadePC :
        /\ \/ api' = api
           \/ /\ Exists(round.made)
              /\ \/ api' = [api EXCEPT ![round.made].tunnel = TRUE]
                 \/ \E a \in Attrs : api' = [api EXCEPT ![round.made].attrs = a]
        /\ round' \in {[round EXCEPT !.pc = pc], Idle}
        /\ faults' \in 0..MaxFaults
  <2>1. CASE CreateTunnel
    <3>1. \E pc \in MadePC :
            \/ /\ Exists(round.made)
               /\ Call([api EXCEPT ![round.made].tunnel = TRUE], [round EXCEPT !.pc = pc])
            \/ NotFound
      BY <2>1 DEF CreateTunnel, MadePC, CreatingPC
    <3>2. PICK pc \in MadePC :
            \/ /\ Exists(round.made)
               /\ Call([api EXCEPT ![round.made].tunnel = TRUE], [round EXCEPT !.pc = pc])
            \/ NotFound
      BY <3>1
    <3>3. CASE NotFound
      BY <3>2, <3>3 DEF NotFound, TypeInv, TypeOK
    <3>4. CASE /\ Exists(round.made)
               /\ Call([api EXCEPT ![round.made].tunnel = TRUE], [round EXCEPT !.pc = pc])
      BY <3>2, <3>4, CallOutcomes DEF TypeInv
    <3> QED
      BY <3>2, <3>3, <3>4
  <2>2. CASE UpdatePrivate
    BY <2>2, UpdatePrivateOutcomes DEF MadePC, CreatingPC
  <2> QED
    BY <2>1, <2>2
<1>3. PICK pc \in MadePC :
        /\ \/ api' = api
           \/ /\ Exists(round.made)
              /\ \/ api' = [api EXCEPT ![round.made].tunnel = TRUE]
                 \/ \E a \in Attrs : api' = [api EXCEPT ![round.made].attrs = a]
        /\ round' \in {[round EXCEPT !.pc = pc], Idle}
        /\ faults' \in 0..MaxFaults
  BY <1>2
<1>4. api' \in ApiState
  <2>1. CASE api' = api
    BY <2>1 DEF TypeInv, TypeOK
  <2>2. CASE Exists(round.made) /\ api' = [api EXCEPT ![round.made].tunnel = TRUE]
    <3>1. api[round.made] \in ApiSocket
      BY <1>1, <2>2 DEF TypeInv, TypeOK, ApiState, Exists
    <3>2. [api[round.made] EXCEPT !.tunnel = TRUE] \in ApiSocket
      BY <3>1 DEF ApiSocket
    <3> QED
      BY <1>1, <2>2, <3>2 DEF TypeInv, TypeOK, ApiState
  <2>3. ASSUME Exists(round.made), NEW a \in Attrs,
               api' = [api EXCEPT ![round.made].attrs = a]
        PROVE  api' \in ApiState
    <3>1. api[round.made] \in ApiSocket
      BY <1>1, <2>3 DEF TypeInv, TypeOK, ApiState, Exists
    <3>2. [api[round.made] EXCEPT !.attrs = a] \in ApiSocket
      BY <3>1 DEF ApiSocket
    <3> QED
      BY <1>1, <2>3, <3>2 DEF TypeInv, TypeOK, ApiState
  <2> QED
    BY <1>3, <2>1, <2>2, <2>3
<1>5. CASE round' = [round EXCEPT !.pc = pc]
  <2>1. round' \in Round
    BY <1>3, <1>5 DEF TypeInv, TypeOK, Round, WorkerPC, MadePC, CreatingPC
  <2>2. Shape'
    BY <1>1, <1>3, <1>5 DEF TypeInv, TypeOK, Round, Shape, MadeIsSet, CurrentIsListed,
            TodoIsLeft, UncheckedAreListed, UncheckedIsOver, MadePC, CreatingPC, Discovered
  <2> QED
    BY <1>3, <1>4, <2>1, <2>2 DEF WorkerTypeInv
<1>6. CASE round' = Idle
  BY <1>3, <1>4, <1>6, IdleRound DEF WorkerTypeInv
<1> QED
  BY <1>3, <1>5, <1>6

LEMMA PolicyOutcomesType ==
    ASSUME NEW held \in SUBSET Policies, NEW listed, NEW names \in SUBSET Policies,
           NEW p \in PolicyOutcomes(held, listed, names)
    PROVE  p \in SUBSET Policies
BY DEF PolicyOutcomes

\* A step that changes one field of one existing socket.
LEMMA PoliciesType ==
    ASSUME api \in ApiState, NEW i \in Ids, Exists(i), NEW p \in SUBSET Policies
    PROVE  [api EXCEPT ![i].policies = p] \in ApiState
<1>1. api[i] \in ApiSocket
  BY DEF ApiState, Exists
<1>2. [api[i] EXCEPT !.policies = p] \in ApiSocket
  BY <1>1 DEF ApiSocket
<1> QED
  BY <1>2 DEF ApiState

\* Where the create loop goes on after the socket at its head.
LEMMA AdvancedType ==
    ASSUME TypeInv, round.pc \in {"create", "update", "attach"}, round.todo # <<>>,
           round.cur = None, NEW i \in Ids, NEW m \in Ids \cup {None},
           round' = [round EXCEPT !.pc = "create", !.todo = Tail(@), !.made = m,
                        !.toConnect = Append(@, [key |-> Head(round.todo).key, id |-> i])]
    PROVE  round' \in Round /\ Shape'
<1>1. Head(round.todo) \in LocalSocket /\ Tail(round.todo) \in Seq(LocalSocket)
  BY DEF TypeInv, TypeOK, Round
<1>2. [key |-> Head(round.todo).key, id |-> i] \in Target
  BY <1>1 DEF LocalSocket, Target
<1>3. Append(round.toConnect, [key |-> Head(round.todo).key, id |-> i]) \in Seq(Target)
  BY <1>2 DEF TypeInv, TypeOK, Round
<1>4. round' \in Round
  BY <1>1, <1>3 DEF TypeInv, TypeOK, Round, WorkerPC
<1>5. Shape'
  BY DEF TypeInv, TypeOK, Round, Shape, MadeIsSet, CurrentIsListed, TodoIsLeft, UncheckedAreListed, UncheckedIsOver,
         MadePC, CreatingPC
<1> QED
  BY <1>4, <1>5

\* AttachPolicies changes at most the policies of the socket just created.
LEMMA AttachPoliciesApi ==
    ASSUME TypeInv, AttachPolicies
    PROVE  /\ round.made \in Ids
           /\ \/ api' = api
              \/ /\ Exists(round.made)
                 /\ \E p \in SUBSET Policies : api' = [api EXCEPT ![round.made].policies = p]
<1>1. round.made \in Ids /\ round.pc = "attach"
  BY DEF AttachPolicies, MadePC, CreatingPC, TypeInv, Shape, MadeIsSet
<1>2. Wanted.policies \in SUBSET Policies
  BY <1>1, WantedType DEF CreatingPC, LocalSocket
<1>3. CASE ~Exists(round.made)
  BY <1>1, <1>3 DEF AttachPolicies
<1>4. CASE Exists(round.made)
  <2>1. PICK p \in PolicyOutcomes(api[round.made].policies, {}, Wanted.policies) :
           api' = [api EXCEPT ![round.made].policies = p]
    BY <1>4 DEF AttachPolicies
  <2>2. api[round.made].policies \in SUBSET Policies
    BY <1>1, <1>4 DEF TypeInv, TypeOK, ApiState, ApiSocket, Exists
  <2>3. p \in SUBSET Policies
    BY <1>2, <2>2, PolicyOutcomesType
  <2> QED
    BY <1>1, <1>4, <2>1, <2>3
<1> QED
  BY <1>3, <1>4

LEMMA AttachPoliciesType ==
    ASSUME TypeInv, AttachPolicies
    PROVE  WorkerTypeInv'
<1>1. round.made \in Ids /\ round.pc = "attach" /\ faults' \in 0..MaxFaults
  BY AttachPoliciesApi DEF AttachPolicies, TypeInv, TypeOK
<1>3. api' \in ApiState
  BY AttachPoliciesApi, PoliciesType DEF TypeInv, TypeOK
<1>4. CASE round.cur # None
  <2>1. round' = [round EXCEPT !.pc = "check", !.cur = None, !.made = None]
    BY <1>4 DEF AttachPolicies
  <2>2. round' \in Round
    BY <2>1 DEF TypeInv, TypeOK, Round, WorkerPC
  <2>3. Shape'
    BY <2>1 DEF TypeInv, TypeOK, Round, Shape, MadeIsSet, CurrentIsListed, TodoIsLeft,
            UncheckedAreListed, UncheckedIsOver, MadePC, CreatingPC
  <2> QED
    BY <1>1, <1>3, <2>2, <2>3 DEF WorkerTypeInv
<1>5. CASE round.cur = None
  <2>1. round.todo # <<>> /\ Wanted = Head(round.todo)
    BY <1>1, <1>5 DEF Wanted, TypeInv, Shape, TodoIsLeft, CreatingPC
  <2>2. round' = [round EXCEPT !.pc = "create", !.todo = Tail(@), !.made = None,
                     !.toConnect = Append(@, [key |-> Head(round.todo).key, id |-> round.made])]
    BY <1>5, <2>1 DEF AttachPolicies, TypeInv, TypeOK, Round
  <2>3. round' \in Round /\ Shape'
    BY <1>1, <1>5, <2>1, <2>2, AdvancedType
  <2> QED
    BY <1>1, <1>3, <2>3 DEF WorkerTypeInv
<1> QED
  BY <1>4, <1>5

\* KeepSocket, and an UpdateSocket that succeeds.
LEMMA AdvanceType ==
    ASSUME TypeInv, round.pc \in {"create", "update"}, round.todo # <<>>,
           round.apiOf[Head(round.todo).key] # None, round' = Advanced
    PROVE  round' \in Round /\ Shape'
<1>1. Head(round.todo).key \in Keys
  <2>1. Head(round.todo) \in LocalSocket
    BY DEF TypeInv, TypeOK, Round
  <2> QED
    BY <2>1 DEF LocalSocket
<1>2. round.apiOf[Head(round.todo).key] \in Ids
  BY <1>1 DEF TypeInv, TypeOK, Round
<1>3. round.cur = None
  BY DEF TypeInv, Shape, CurrentIsListed, CreatingPC
<1>4. round.made \in Ids \cup {None}
  BY DEF TypeInv, TypeOK, Round
<1>5. round' = [round EXCEPT !.pc = "create", !.todo = Tail(@), !.made = round.made,
                   !.toConnect = Append(@, [key |-> Head(round.todo).key,
                                            id |-> round.apiOf[Head(round.todo).key]])]
  BY DEF Advanced, TypeInv, TypeOK, Round
<1> QED
  BY <1>2, <1>3, <1>4, <1>5, AdvancedType

LEMMA KeepSocketType ==
    ASSUME TypeInv, KeepSocket
    PROVE  WorkerTypeInv'
<1>1. round' \in Round /\ Shape'
  BY AdvanceType DEF KeepSocket, AtKnownSocket
<1> QED
  BY <1>1 DEF KeepSocket, WorkerTypeInv, TypeInv, TypeOK

\* ApplyPolicies changes at most the policies of the listed socket.
LEMMA ApplyPoliciesApi ==
    ASSUME TypeInv, ApplyPolicies
    PROVE  /\ round.apiOf[Head(round.todo).key] \in Ids
           /\ \/ api' = api
              \/ /\ Exists(round.apiOf[Head(round.todo).key])
                 /\ \E p \in SUBSET Policies :
                       api' = [api EXCEPT ![round.apiOf[Head(round.todo).key]].policies = p]
<1> DEFINE i == round.apiOf[Head(round.todo).key]
<1>1. Head(round.todo) \in LocalSocket
  BY DEF ApplyPolicies, AtKnownSocket, TypeInv, TypeOK, Round
<1>2. i \in Ids /\ Head(round.todo).policies \in SUBSET Policies
  BY <1>1 DEF ApplyPolicies, AtKnownSocket, TypeInv, TypeOK, Round, LocalSocket
<1>3. CASE ~Exists(i)
  BY <1>2, <1>3 DEF ApplyPolicies
<1>4. CASE Exists(i)
  <2>1. PICK p \in PolicyOutcomes(api[i].policies, Snapshot.policies, Head(round.todo).policies) :
           api' = [api EXCEPT ![i].policies = p]
    BY <1>4 DEF ApplyPolicies
  <2>2. api[i].policies \in SUBSET Policies
    BY <1>2, <1>4 DEF TypeInv, TypeOK, ApiState, ApiSocket, Exists
  <2>3. p \in SUBSET Policies
    BY <1>2, <2>2, PolicyOutcomesType
  <2> QED
    BY <1>2, <1>4, <2>1, <2>3
<1> QED
  BY <1>3, <1>4

LEMMA ApplyPoliciesType ==
    ASSUME TypeInv, ApplyPolicies
    PROVE  WorkerTypeInv'
<1>3. api' \in ApiState
  BY ApplyPoliciesApi, PoliciesType DEF TypeInv, TypeOK
<1>4. round' = [round EXCEPT !.pc = "update"] /\ faults' \in 0..MaxFaults
  BY DEF ApplyPolicies, TypeInv, TypeOK
<1>5. round' \in Round
  BY <1>4 DEF TypeInv, TypeOK, Round, WorkerPC
<1>6. Shape'
  BY <1>4 DEF ApplyPolicies, AtKnownSocket, TypeInv, TypeOK, Round, Shape, MadeIsSet,
          CurrentIsListed, TodoIsLeft, UncheckedAreListed, UncheckedIsOver, MadePC, CreatingPC
<1> QED
  BY <1>3, <1>4, <1>5, <1>6 DEF WorkerTypeInv

\* UpdateSocket changes at most the fields and the data of the listed socket.
LEMMA UpdateSocketApi ==
    ASSUME TypeInv, UpdateSocket
    PROVE  /\ round.apiOf[Head(round.todo).key] \in Ids
           /\ round.todo # <<>> /\ Head(round.todo) \in LocalSocket
           /\ round' \in {Advanced, Idle} /\ faults' \in 0..MaxFaults
           /\ \/ api' = api
              \/ /\ Exists(round.apiOf[Head(round.todo).key])
                 /\ \E a \in Attrs :
                       api' = [api EXCEPT ![round.apiOf[Head(round.todo).key]].attrs = a,
                                          ![round.apiOf[Head(round.todo).key]].data =
                                               Head(round.todo).data]
<1> DEFINE i == round.apiOf[Head(round.todo).key]
           put(a) == [api EXCEPT ![i].attrs = a, ![i].data = Head(round.todo).data]
<1>1. round.pc = "update" /\ round.todo # <<>> /\ i # None
  BY DEF UpdateSocket, TypeInv, Shape, TodoIsLeft
<1>2. Head(round.todo) \in LocalSocket
  BY <1>1 DEF TypeInv, TypeOK, Round
<1>3. i \in Ids
  BY <1>1, <1>2 DEF TypeInv, TypeOK, Round, LocalSocket
<1>4. IF Exists(i) THEN \E a \in PutAttrs(api[i].attrs, Head(round.todo).attrs) :
                              Call(put(a), Advanced)
                  ELSE NotFound
  BY DEF UpdateSocket
<1>5. CASE ~Exists(i)
  <2>1. NotFound
    BY <1>4, <1>5
  <2> QED
    BY <1>1, <1>2, <1>3, <2>1 DEF NotFound, TypeInv, TypeOK
<1>6. CASE Exists(i)
  <2>1. PICK a \in PutAttrs(api[i].attrs, Head(round.todo).attrs) : Call(put(a), Advanced)
    BY <1>4, <1>6
  <2>2. a \in Attrs
    BY DEF PutAttrs
  <2>3. api' \in {api, put(a)} /\ round' \in {Advanced, Idle} /\ faults' \in 0..MaxFaults
    BY <2>1, CallOutcomes, Zenon DEF TypeInv
  <2> QED
    BY <1>1, <1>2, <1>3, <1>6, <2>2, <2>3
<1> QED
  BY <1>5, <1>6

LEMMA UpdateSocketType ==
    ASSUME TypeInv, UpdateSocket
    PROVE  WorkerTypeInv'
<1> DEFINE i == round.apiOf[Head(round.todo).key]
           put(a) == [api EXCEPT ![i].attrs = a, ![i].data = Head(round.todo).data]
<1>1. api' \in ApiState
  <2>1. ASSUME i \in Ids, Exists(i), NEW a \in Attrs, api' = put(a) PROVE api' \in ApiState
    <3>1. Head(round.todo) \in LocalSocket
      BY UpdateSocketApi
    <3>2. api[i] \in ApiSocket
      BY <2>1 DEF TypeInv, TypeOK, ApiState, Exists
    <3>3. [api[i] EXCEPT !.attrs = a, !.data = Head(round.todo).data] \in ApiSocket
      BY <3>1, <3>2 DEF ApiSocket, LocalSocket
    <3> QED
      BY <2>1, <3>2, <3>3 DEF TypeInv, TypeOK, ApiState, ApiSocket
  <2> QED
    BY <2>1, UpdateSocketApi DEF TypeInv, TypeOK
<1>2. round' \in Round /\ Shape'
  <2>1. CASE round' = Advanced
    BY <2>1, AdvanceType DEF UpdateSocket, TypeInv, Shape, TodoIsLeft
  <2>2. CASE round' = Idle
    BY <2>2, IdleRound
  <2> QED
    BY <2>1, <2>2, UpdateSocketApi
<1> QED
  BY <1>1, <1>2, UpdateSocketApi DEF WorkerTypeInv

LEMMA FinishCreatesType ==
    ASSUME TypeInv, FinishCreates
    PROVE  WorkerTypeInv'
<1>1. round' \in Round
  BY DEF FinishCreates, TypeInv, TypeOK, Round, WorkerPC, NoView, NoneOf, ApiState
<1>2. Shape'
  BY DEF FinishCreates, TypeInv, TypeOK, Round, Shape, MadeIsSet, CurrentIsListed, TodoIsLeft,
         UncheckedAreListed, UncheckedIsOver, MadePC, CreatingPC
<1> QED
  BY <1>1, <1>2 DEF FinishCreates, WorkerTypeInv, TypeInv, TypeOK

\* The loop over socketsToConnect.
LEMMA ConnectLoopType ==
    ASSUME TypeInv, RequestConnect \/ SkipConnected
    PROVE  WorkerTypeInv' /\ connectChan' \in Seq(Request) /\ Len(connectChan') <= ChanCap
<1>1. round' = [round EXCEPT !.toConnect = Tail(@)] /\ round.toConnect # <<>> /\ round.pc = "connect"
  BY DEF RequestConnect, SkipConnected
<1>2. Head(round.toConnect) \in Target /\ Tail(round.toConnect) \in Seq(Target)
  BY <1>1 DEF TypeInv, TypeOK, Round
<1>3. round' \in Round
  BY <1>1, <1>2 DEF TypeInv, TypeOK, Round
<1>4. Shape'
  BY <1>1 DEF TypeInv, TypeOK, Round, Shape, MadeIsSet, CurrentIsListed, TodoIsLeft,
          UncheckedAreListed, UncheckedIsOver, MadePC, CreatingPC
<1>5. [key |-> Head(round.toConnect).key, id |-> Head(round.toConnect).id, action |-> "connect"]
        \in Request
  BY <1>2 DEF Target, Request
<1>6. connectChan' \in Seq(Request) /\ Len(connectChan') <= ChanCap
  <2>1. CASE RequestConnect
    BY <1>5, <2>1, ConstantsAssumption DEF RequestConnect, TypeInv, TypeOK
  <2>2. CASE SkipConnected
    BY <2>2 DEF SkipConnected, OnlyWorker, TypeInv, TypeOK
  <2> QED
    BY <2>1, <2>2
<1> QED
  BY <1>3, <1>4, <1>6 DEF RequestConnect, SkipConnected, WorkerTypeInv, TypeInv, TypeOK

LEMMA FinishRoundType ==
    ASSUME TypeInv, FinishRound
    PROVE  WorkerTypeInv'
BY IdleRound DEF FinishRound, WorkerTypeInv, TypeInv, TypeOK

\* A worker step keeps TypeInv: beside what WorkerTypeInv says, it takes from
\* socketUpdateCh and adds to connectChan.
LEMMA WorkerKeepsType == TypeInv /\ WorkerStep => TypeInv'
<1> SUFFICES ASSUME TypeInv, WorkerStep PROVE TypeInv'
  OBVIOUS
<1>1. TrackedUnderOwnKey'
  BY DEF WorkerStep, Receive, ListSockets, DeleteSocket, FinishDeletes, BeginCreate, CreateSocket,
         CreateTunnel, UpdatePrivate, AttachPolicies, KeepSocket, ApplyPolicies, UpdateSocket,
         FinishCreates, RequestConnect, SkipConnected, FinishRound, RequestDisconnect,
         RecreateSocket, OnlyWorker, tunnelVars, TypeInv, TrackedUnderOwnKey
<1>2. UNCHANGED <<world, found, tracked, sess>>
  BY DEF WorkerStep, Receive, ListSockets, DeleteSocket, FinishDeletes, BeginCreate, CreateSocket,
         CreateTunnel, UpdatePrivate, AttachPolicies, KeepSocket, ApplyPolicies, UpdateSocket,
         FinishCreates, RequestConnect, SkipConnected, FinishRound, RequestDisconnect,
         RecreateSocket, OnlyWorker, tunnelVars, discoveryVars
<1>3. CASE Receive
  BY <1>1, <1>2, <1>3, ReceiveType DEF Receive, TypeInv, TypeOK, WorkerTypeInv
<1>4. CASE RequestConnect \/ SkipConnected
  BY <1>1, <1>2, <1>4, ConnectLoopType
     DEF RequestConnect, SkipConnected, OnlyWorker, TypeInv, TypeOK, WorkerTypeInv
<1>5. CASE \E i \in Ids : RequestDisconnect(i) \/ RecreateSocket(i)
  BY <1>1, <1>2, <1>5, PickType
     DEF RequestDisconnect, RecreateSocket, OnlyWorker, TypeInv, TypeOK, WorkerTypeInv
<1>6. CASE \/ ListSockets \/ DeleteSocket \/ FinishDeletes \/ BeginCreate \/ CreateSocket
           \/ CreateTunnel \/ UpdatePrivate \/ AttachPolicies \/ KeepSocket
           \/ ApplyPolicies \/ UpdateSocket \/ FinishCreates \/ FinishRound
  <2>1. WorkerTypeInv'
    BY <1>6, ListSocketsType, DeleteSocketType, FinishDeletesType, BeginCreateType,
       CreateSocketType, SetupCallType, AttachPoliciesType, KeepSocketType, ApplyPoliciesType,
       UpdateSocketType, FinishCreatesType, FinishRoundType
  <2>2. UNCHANGED <<updates, connectChan>>
    BY <1>6 DEF ListSockets, DeleteSocket, FinishDeletes, BeginCreate, CreateSocket, CreateTunnel,
       UpdatePrivate, AttachPolicies, KeepSocket, ApplyPolicies, UpdateSocket, FinishCreates,
       FinishRound, OnlyWorker
  <2> QED
    BY <1>1, <1>2, <2>1, <2>2 DEF TypeInv, TypeOK, WorkerTypeInv
<1> QED
  BY <1>3, <1>4, <1>5, <1>6 DEF WorkerStep

LEMMA DiscoveryKeepsType == TypeInv /\ DiscoveryStep => TypeInv'
<1> SUFFICES ASSUME TypeInv, DiscoveryStep PROVE TypeInv'
  OBVIOUS
<1>1. TypeOK'
  <2>1. CASE Find
    BY <2>1 DEF Find, TypeInv, TypeOK, tunnelVars
  <2>2. CASE Publish
    BY <2>2 DEF Publish, TypeInv, TypeOK, tunnelVars
  <2> QED
    BY <2>1, <2>2 DEF DiscoveryStep
<1>2. UNCHANGED <<round, tracked, sess>>
  BY DEF DiscoveryStep, Find, Publish, tunnelVars
<1> QED
  BY <1>1, <1>2 DEF TypeInv, Shape, MadeIsSet, CurrentIsListed, TodoIsLeft, UncheckedAreListed,
                    UncheckedIsOver, Discovered, TrackedUnderOwnKey

\* Collect keeps the type, and every object the map holds.
LEMMA CollectKeeps ==
    ASSUME NEW objects \in [Sessions -> Session \cup {None}], NEW map
    PROVE  /\ Collect(objects, map) \in [Sessions -> Session \cup {None}]
           /\ \A s \in Sessions : Collect(objects, map)[s] \in {objects[s], None}
           /\ \A k \in Keys : map[k] \in Sessions =>
                  Collect(objects, map)[map[k]] = objects[map[k]]
BY DEF Collect

\* A goroutine that goes on, with the map as it was.
LEMMA SessionMoves ==
    ASSUME TypeInv, NEW s \in Sessions, sess[s] # None, NEW c \in Session,
           c.key = sess[s].key, c.pc = "spawned" => sess[s].pc = "spawned",
           \/ sess' = [sess EXCEPT ![s] = c]
           \/ sess' = Collect([sess EXCEPT ![s] = c], tracked),
           tracked' = tracked
    PROVE  sess' \in [Sessions -> Session \cup {None}] /\ TrackedUnderOwnKey'
<1> DEFINE moved == [sess EXCEPT ![s] = c]
<1>1. moved \in [Sessions -> Session \cup {None}]
  BY DEF TypeInv, TypeOK
<1>2. sess' \in [Sessions -> Session \cup {None}]
  <2>1. Collect(moved, tracked) \in [Sessions -> Session \cup {None}]
    BY <1>1, CollectKeeps
  <2> QED
    BY <1>1, <2>1
<1>3. \A k \in Keys : tracked[k] # None => tracked[k] \in Sessions /\ sess'[tracked[k]] = moved[tracked[k]]
  BY <1>1, CollectKeeps DEF TypeInv, TypeOK
<1>4. c # None
  BY ConstantsAssumption
<1>5. \A k \in Keys : tracked[k] # None =>
        /\ moved[tracked[k]] # None
        /\ moved[tracked[k]].key = k
        /\ moved[tracked[k]].pc # "spawned"
  BY <1>3, <1>4 DEF TypeInv, TypeOK, TrackedUnderOwnKey
<1> QED
  BY <1>2, <1>3, <1>5 DEF TrackedUnderOwnKey

\* Goto changes the program counter only.
LEMMA GotoMoves ==
    ASSUME TypeInv, NEW s \in Sessions, sess[s] # None, NEW pc \in SessionPC \ {"spawned"},
           sess' = Goto(s, pc), tracked' = tracked
    PROVE  sess' \in [Sessions -> Session \cup {None}] /\ TrackedUnderOwnKey'
<1>1. sess[s] \in Session
  BY DEF TypeInv, TypeOK
<1> DEFINE c == [sess[s] EXCEPT !.pc = pc]
<1>2. c \in Session /\ c.key = sess[s].key /\ c.pc = pc
  BY <1>1 DEF Session
<1>3. sess' = Collect([sess EXCEPT ![s] = c], tracked)
  BY DEF Goto
<1> HIDE DEF c
<1> QED
  BY <1>2, <1>3, SessionMoves

LEMMA CloseMoves ==
    ASSUME NEW c \in Session
    PROVE  /\ Close(c) \in Session /\ Close(c).key = c.key
           /\ Close(c).pc = "spawned" => c.pc = "spawned"
BY DEF Close, Session, SessionPC

\* What a step of the tunnels may change.
TunnelTypeInv == /\ connectChan \in Seq(Request) /\ Len(connectChan) <= ChanCap
                 /\ tracked \in [Keys -> Sessions \cup {None}]
                 /\ sess \in [Sessions -> Session \cup {None}]
                 /\ faults \in 0..MaxFaults
                 /\ TrackedUnderOwnKey

LEMMA StartTunnelType ==
    ASSUME TypeInv, NEW s \in Sessions, StartTunnel(s)
    PROVE  TunnelTypeInv'
<1> DEFINE c == [key |-> Head(connectChan).key, id |-> Head(connectChan).id,
                 pc |-> "spawned", closed |-> FALSE, tries |-> 0]
<1>1. Head(connectChan) \in Request
  BY DEF StartTunnel, TypeInv, TypeOK
<1>2. c \in Session
  BY <1>1, ConstantsAssumption DEF Request, Session, SessionPC
<1>3. sess' = [sess EXCEPT ![s] = c]
  BY DEF StartTunnel
<1> HIDE DEF c
<1>4. sess' \in [Sessions -> Session \cup {None}]
  BY <1>2, <1>3 DEF TypeInv, TypeOK
<1>5. \A k \in Keys : tracked[k] # s
  BY ConstantsAssumption DEF TypeInv, TrackedUnderOwnKey, StartTunnel
<1>6. TrackedUnderOwnKey'
  BY <1>3, <1>5 DEF StartTunnel, TypeInv, TypeOK, TrackedUnderOwnKey
<1>7. connectChan' \in Seq(Request) /\ Len(connectChan') <= ChanCap
  BY ConstantsAssumption DEF StartTunnel, TypeInv, TypeOK
<1> QED
  BY <1>4, <1>6, <1>7 DEF StartTunnel, TunnelTypeInv, TypeInv, TypeOK

LEMMA CloseTunnelType ==
    ASSUME TypeInv, CloseTunnel
    PROVE  TunnelTypeInv'
<1> DEFINE s == tracked[Head(connectChan).key]
<1>1. connectChan' \in Seq(Request) /\ Len(connectChan') <= ChanCap
  BY ConstantsAssumption DEF CloseTunnel, TypeInv, TypeOK
<1>2. Head(connectChan).key \in Keys
  <2>1. Head(connectChan) \in Request
    BY DEF CloseTunnel, TypeInv, TypeOK
  <2> QED
    BY <2>1 DEF Request
<1>3. CASE s = None
  BY <1>1, <1>3 DEF CloseTunnel, TunnelTypeInv, TypeInv, TypeOK, TrackedUnderOwnKey
<1>4. CASE s # None
  <2>1. s \in Sessions /\ sess[s] # None /\ sess[s] \in Session
    BY <1>2, <1>4 DEF TypeInv, TypeOK, TrackedUnderOwnKey
  <2>2. sess' = [sess EXCEPT ![s] = Close(sess[s])] /\ tracked' = tracked
    BY <1>4 DEF CloseTunnel
  <2>3. sess' \in [Sessions -> Session \cup {None}] /\ TrackedUnderOwnKey'
    BY <2>1, <2>2, CloseMoves, SessionMoves
  <2> QED
    BY <1>1, <2>3 DEF CloseTunnel, TunnelTypeInv, TypeInv, TypeOK
<1> QED
  BY <1>3, <1>4

LEMMA StoreType ==
    ASSUME TypeInv, NEW s \in Sessions, Store(s)
    PROVE  TunnelTypeInv'
<1> DEFINE c == [sess[s] EXCEPT !.pc = "stored"]
           moved == [sess EXCEPT ![s] = c]
<1>1. sess[s] # None /\ sess[s] \in Session /\ sess[s].key \in Keys /\ s # None
  BY ConstantsAssumption DEF Store, At, TypeInv, TypeOK, Session
<1>2. c \in Session /\ c.key = sess[s].key /\ c.pc = "stored" /\ c # None
  BY <1>1, ConstantsAssumption DEF Session, SessionPC
<1>3. sess' = Collect(moved, tracked') /\ tracked' = [tracked EXCEPT ![sess[s].key] = s]
  BY DEF Store
<1> HIDE DEF c
<1>4. moved \in [Sessions -> Session \cup {None}]
  BY <1>2 DEF TypeInv, TypeOK
<1>5. tracked' \in [Keys -> Sessions \cup {None}]
  BY <1>3 DEF TypeInv, TypeOK
<1>6. /\ sess' \in [Sessions -> Session \cup {None}]
      /\ \A k \in Keys : tracked'[k] # None => sess'[tracked'[k]] = moved[tracked'[k]]
  BY <1>3, <1>4, <1>5, CollectKeeps
<1>7. \A k \in Keys : tracked'[k] # None =>
        /\ moved[tracked'[k]] # None
        /\ moved[tracked'[k]].key = k
        /\ moved[tracked'[k]].pc # "spawned"
  BY <1>1, <1>2, <1>3 DEF TypeInv, TypeOK, TrackedUnderOwnKey
<1>8. TrackedUnderOwnKey'
  BY <1>6, <1>7 DEF TrackedUnderOwnKey
<1> QED
  BY <1>5, <1>6, <1>8 DEF Store, TunnelTypeInv, TypeInv, TypeOK

LEMMA ForgetType ==
    ASSUME TypeInv, NEW s \in Sessions, Forget(s)
    PROVE  TunnelTypeInv'
<1> DEFINE c == [sess[s] EXCEPT !.pc = "done"]
           moved == [sess EXCEPT ![s] = c]
<1>1. sess[s] # None /\ sess[s] \in Session /\ sess[s].key \in Keys
  BY DEF Forget, At, TypeInv, TypeOK, Session
<1>2. c \in Session /\ c.key = sess[s].key /\ c.pc = "done" /\ c # None
  BY <1>1, ConstantsAssumption DEF Session, SessionPC
<1>3. sess' = Collect(moved, tracked') /\ tracked' = [tracked EXCEPT ![sess[s].key] = None]
  BY DEF Forget
<1> HIDE DEF c
<1>4. moved \in [Sessions -> Session \cup {None}]
  BY <1>2 DEF TypeInv, TypeOK
<1>5. tracked' \in [Keys -> Sessions \cup {None}]
  BY <1>3 DEF TypeInv, TypeOK
<1>6. /\ sess' \in [Sessions -> Session \cup {None}]
      /\ \A k \in Keys : tracked'[k] # None => sess'[tracked'[k]] = moved[tracked'[k]]
  BY <1>3, <1>4, <1>5, CollectKeeps
<1>7. \A k \in Keys : tracked'[k] # None =>
        /\ moved[tracked'[k]] # None
        /\ moved[tracked'[k]].key = k
        /\ moved[tracked'[k]].pc # "spawned"
  BY <1>1, <1>2, <1>3 DEF TypeInv, TypeOK, TrackedUnderOwnKey
<1>8. TrackedUnderOwnKey'
  BY <1>6, <1>7 DEF TrackedUnderOwnKey
<1> QED
  BY <1>5, <1>6, <1>8 DEF Forget, TunnelTypeInv, TypeInv, TypeOK

\* A failed attempt, and a session that ends.
LEMMA AttemptFailsType ==
    ASSUME TypeInv, NEW s \in Sessions, sess[s] # None, NEW b \in BOOLEAN, AttemptFails(s, b)
    PROVE  sess' \in [Sessions -> Session \cup {None}] /\ TrackedUnderOwnKey'
<1> DEFINE closed == sess[s].closed \/ b
           tries == IF sess[s].tries < NumOfRetry THEN sess[s].tries + 1 ELSE sess[s].tries
           pc == IF sess[s].tries < NumOfRetry THEN "dialing" ELSE "ended"
           c == [sess[s] EXCEPT !.closed = closed, !.tries = tries, !.pc = pc]
<1>1. sess[s] \in Session
  BY DEF TypeInv, TypeOK
<1>2. c \in Session /\ c.key = sess[s].key /\ c.pc # "spawned"
  <2>1. closed \in BOOLEAN
    OBVIOUS
  <2>2. tries \in 0..NumOfRetry
    BY <1>1, ConstantsAssumption DEF Session
  <2>3. pc \in SessionPC \ {"spawned"}
    BY DEF SessionPC
  <2> HIDE DEF closed, tries, pc
  <2> QED
    BY <1>1, <2>1, <2>2, <2>3 DEF Session
<1>3. sess' = [sess EXCEPT ![s] = c] /\ tracked' = tracked
  BY <1>1 DEF AttemptFails, OnlySess, TypeInv, TypeOK, Session
<1> HIDE DEF c
<1> QED
  BY <1>2, <1>3, SessionMoves

LEMMA SessionStepType ==
    ASSUME TypeInv, NEW s \in Sessions, SessionStep(s) \/ SessionDrops(s) \/ Hangs(s)
    PROVE  TunnelTypeInv'
<1>1. CASE Store(s)
  BY <1>1, StoreType
<1>2. CASE Forget(s)
  BY <1>2, ForgetType
<1>3. CASE \/ Reload(s) \/ ReloadFails(s) \/ GetTunnel(s) \/ GetTunnelFails(s)
           \/ Listen(s) \/ Hangs(s) \/ Establish(s)
  <2>1. sess[s] # None /\ UNCHANGED <<tracked, connectChan>>
    BY <1>3 DEF Reload, ReloadFails, GetTunnel, GetTunnelFails, Listen, Hangs, Establish, At,
       OnlySess
  <2>2. \E pc \in SessionPC \ {"spawned"} : sess' = Goto(s, pc)
    BY <1>3 DEF Reload, ReloadFails, GetTunnel, GetTunnelFails, Listen, Hangs, Establish, SessionPC
  <2>3. faults' \in 0..MaxFaults
    BY <1>3, FaultType DEF Reload, ReloadFails, GetTunnel, GetTunnelFails, Listen, Hangs, Establish,
       TypeInv, TypeOK
  <2>4. sess' \in [Sessions -> Session \cup {None}] /\ TrackedUnderOwnKey'
    BY <2>1, <2>2, GotoMoves
  <2> QED
    BY <2>1, <2>3, <2>4 DEF TunnelTypeInv, TypeInv, TypeOK
<1>4. CASE CertFails(s) \/ DialFails(s) \/ SetupFails(s)
  <2>1. sess[s] # None /\ \E b \in BOOLEAN : AttemptFails(s, b)
    BY <1>4 DEF CertFails, DialFails, SetupFails, At
  <2>2. UNCHANGED <<tracked, connectChan>>
    BY <2>1 DEF AttemptFails, OnlySess
  <2>3. faults' \in 0..MaxFaults
    BY <1>4, FaultType DEF CertFails, DialFails, SetupFails, TypeInv, TypeOK
  <2>4. sess' \in [Sessions -> Session \cup {None}] /\ TrackedUnderOwnKey'
    BY <2>1, AttemptFailsType
  <2> QED
    BY <2>2, <2>3, <2>4 DEF TunnelTypeInv, TypeInv, TypeOK
<1>5. CASE ListenRefused(s) \/ SessionDrops(s)
  <2> DEFINE c == [sess[s] EXCEPT !.closed = TRUE, !.pc = "ended"]
  <2>1. sess[s] # None /\ sess[s] \in Session /\ UNCHANGED <<tracked, connectChan>>
    BY <1>5 DEF ListenRefused, SessionDrops, At, OnlySess, TypeInv, TypeOK
  <2>2. c \in Session /\ c.key = sess[s].key /\ c.pc # "spawned"
    BY <2>1 DEF Session, SessionPC
  <2>3. sess' = [sess EXCEPT ![s] = c]
    <3>1. CASE ListenRefused(s)
      BY <2>1, <3>1 DEF ListenRefused, TypeInv, TypeOK, Session
    <3>2. CASE SessionDrops(s)
      BY <2>1, <3>2 DEF SessionDrops, Close, At, TypeInv, TypeOK, Session
    <3> QED
      BY <1>5, <3>1, <3>2
  <2>4. faults' \in 0..MaxFaults
    BY <1>5, FaultType DEF ListenRefused, SessionDrops, TypeInv, TypeOK
  <2> HIDE DEF c
  <2>5. sess' \in [Sessions -> Session \cup {None}] /\ TrackedUnderOwnKey'
    BY <2>1, <2>2, <2>3, SessionMoves
  <2> QED
    BY <2>1, <2>4, <2>5 DEF TunnelTypeInv, TypeInv, TypeOK
<1> QED
  BY <1>1, <1>2, <1>3, <1>4, <1>5 DEF SessionStep

LEMMA TunnelKeepsType == TypeInv /\ TunnelNext => TypeInv'
<1> SUFFICES ASSUME TypeInv, TunnelNext PROVE TypeInv'
  OBVIOUS
<1>1. TunnelTypeInv'
  BY StartTunnelType, CloseTunnelType, SessionStepType DEF TunnelNext, JobStep
<1>2. UNCHANGED <<world, found, updates, round, api>>
  BY DEF TunnelNext, JobStep, StartTunnel, CloseTunnel, SessionStep, SessionDrops, Store, Reload,
     ReloadFails, GetTunnel, GetTunnelFails, CertFails, DialFails, Listen, ListenRefused,
     Hangs, SetupFails, Establish, Forget, AttemptFails, OnlySess, discoveryVars
<1> QED
  BY <1>1, <1>2 DEF TunnelTypeInv, TypeInv, TypeOK, Shape, MadeIsSet, CurrentIsListed, TodoIsLeft,
                    UncheckedAreListed, UncheckedIsOver, Discovered

LEMMA EnvironmentKeepsType == TypeInv /\ Environment => TypeInv'
<1> SUFFICES ASSUME TypeInv, Environment PROVE TypeInv'
  OBVIOUS
<1>1. CASE Restart
  <2>1. round' \in Round /\ Shape'
    BY <1>1, IdleRound DEF Restart
  <2>2. faults' \in 0..MaxFaults
    BY <1>1, FaultType DEF Restart, TypeInv
  <2>3. TypeOK'
    BY <1>1, <2>1, <2>2, ConstantsAssumption DEF Restart, TypeInv, TypeOK, NoneOf
  <2>4. TrackedUnderOwnKey'
    BY <1>1 DEF Restart, TrackedUnderOwnKey, NoneOf
  <2> QED
    BY <2>1, <2>3, <2>4 DEF TypeInv
<1>2. CASE \/ WorldChanges
           \/ \E i \in Ids : UserDeletes(i) \/ UserEdits(i)
  <2>1. faults' \in 0..MaxFaults
    BY <1>2, FaultType DEF WorldChanges, UserDeletes, UserEdits, TypeInv
  <2>2. UNCHANGED <<found, updates, round, connectChan, tracked, sess>> /\ world' \in Discoveries
    BY <1>2 DEF WorldChanges, UserDeletes, UserEdits, tunnelVars, discoveryVars, TypeInv, TypeOK
  <2>3. api' \in ApiState
    <3>1. CASE WorldChanges
      BY <3>1 DEF WorldChanges, TypeInv, TypeOK
    <3>2. ASSUME NEW i \in Ids, UserDeletes(i) PROVE api' \in ApiState
      BY <3>2 DEF UserDeletes, TypeInv, TypeOK, ApiState
    <3>3. ASSUME NEW i \in Ids, UserEdits(i) PROVE api' \in ApiState
      <4>1. PICK a \in Attrs : api' = [api EXCEPT ![i].attrs = a]
        BY <3>3 DEF UserEdits
      <4>2. api[i] \in ApiSocket
        BY <3>3 DEF UserEdits, Exists, TypeInv, TypeOK, ApiState
      <4>3. [api[i] EXCEPT !.attrs = a] \in ApiSocket
        BY <4>2 DEF ApiSocket
      <4> QED
        BY <4>1, <4>3 DEF TypeInv, TypeOK, ApiState
    <3> QED
      BY <1>2, <3>1, <3>2, <3>3
  <2> QED
    BY <2>1, <2>2, <2>3 DEF TypeInv, TypeOK, Shape, MadeIsSet, CurrentIsListed, TodoIsLeft,
                            UncheckedAreListed, UncheckedIsOver, Discovered, TrackedUnderOwnKey
<1> QED
  BY <1>1, <1>2 DEF Environment

LEMMA StutterKeepsType == TypeInv /\ UNCHANGED vars => TypeInv'
BY DEF vars, TypeInv, TypeOK, Shape, MadeIsSet, CurrentIsListed, TodoIsLeft, UncheckedAreListed,
       UncheckedIsOver, Discovered, TrackedUnderOwnKey

THEOREM TypeInvariant == Spec => []TypeInv
<1>1. TypeInv /\ [Next]_vars => TypeInv'
  BY DiscoveryKeepsType, WorkerKeepsType, TunnelKeepsType, EnvironmentKeepsType, StutterKeepsType
     DEF Next, ReconcileNext
<1> QED
  BY InitType, <1>1, PTL DEF Spec

\* Type correctness of the connector core.
THEOREM TypeCorrect == Spec => []TypeOK
<1>1. TypeInv => TypeOK
  BY DEF TypeInv
<1> QED
  BY <1>1, TypeInvariant, PTL

\* IsSocketConnected never answers for another key's Connection.
THEOREM TrackedCorrect == Spec => []TrackedUnderOwnKey
<1>1. TypeInv => TrackedUnderOwnKey
  BY DEF TypeInv
<1> QED
  BY <1>1, TypeInvariant, PTL
=============================================================================
