----------------------------- MODULE Reconcile -----------------------------
(***************************************************************************)
(* The discovery loop (DiscoverNewSocketChanges) and the socket worker     *)
(* (StartSocketWorker, HandleUpdates, SocketsCoreHandler) of one connector *)
(* core.  Every API call is a step of its own: the tunnel goroutines, the  *)
(* user and the service act between any two of them.                       *)
(***************************************************************************)
EXTENDS ConnectorState, PolicySets

-----------------------------------------------------------------------------
(* Discovery *)

\* Discover.Find returns the world as it is now; an error leaves no trace.
Find ==
    /\ found = None
    /\ found' = world
    /\ UNCHANGED <<world, updates, round, api, connectChan, tunnelVars, faults>>

\* Mutant: a send that does not wait for room.
PublishUnbounded ==
    /\ found # None
    /\ updates' = Append(updates, found)
    /\ found' = None
    /\ UNCHANGED <<world, round, api, connectChan, tunnelVars, faults>>

\* `ch <- sockets`, into a channel of capacity 1.
Publish ==
    /\ found # None
    /\ Len(updates) < 1
    /\ updates' = Append(updates, found)
    /\ found' = None
    /\ UNCHANGED <<world, round, api, connectChan, tunnelVars, faults>>

-----------------------------------------------------------------------------
(* The worker's view of its round *)

Discovered(k) == \E n \in DOMAIN round.local : round.local[n].key = k

\* localSocketsMap[k]: of several sockets with one key the last one stays.
LocalFor(k) ==
    round.local[CHOOSE n \in DOMAIN round.local :
                    /\ round.local[n].key = k
                    /\ \A m \in DOMAIN round.local :
                           round.local[m].key = k => m <= n]

\* CheckSocketsToDelete acts on these: its own sockets that are not discovered
\* or were discovered with another ConnectorData.
Superseded(s) ==
    /\ s.key \in Keys
    /\ Discovered(s.key) => LocalFor(s.key).data # s.data

\* socketApiMap for some order of the list: the last socket of each key.
LastByKey ==
    {m \in [Keys -> Ids \cup {None}] :
        \A k \in Keys :
            LET S == {i \in Ids : Exists(i) /\ api[i].key = k}
            IN  IF S = {} THEN m[k] = None ELSE m[k] \in S}

\* The next list entry to act on: the one socketApiMap kept comes after the
\* others with its key.
NextEntry(i) ==
    /\ i \in round.unchecked
    /\ \A j \in round.unchecked \ {i} :
         round.view[j].key = round.view[i].key => round.apiOf[round.view[i].key] # i

\* The local socket CreateSocketAndTunnel creates: for RecreateSocket the one
\* with the deleted socket's key, else the one CheckSocketsToCreate is at.
Wanted == IF round.cur # None THEN LocalFor(round.view[round.cur].key)
                              ELSE Head(round.todo)

\* The snapshot entry CheckAndUpdateSocket compares the local socket with.
Snapshot == round.view[round.apiOf[Head(round.todo).key]]
\* Mutant: a comparison that forgets the updatable fields.
MatchesPoliciesOnly(s, l) == s.policies = l.policies
Matches(s, l) == s.attrs = l.attrs /\ s.policies = l.policies

\* An id the API never issued before: nothing refers to it any more.
Fresh(i) ==
    /\ ~Exists(i) /\ round.view[i] = None
    /\ \A n \in DOMAIN round.toConnect : round.toConnect[n].id # i
    /\ \A n \in DOMAIN connectChan : connectChan[n].id # i
    /\ \A s \in Sessions : sess[s] # None => sess[s].id # i

-----------------------------------------------------------------------------
(* API calls *)

\* Mutant: a call whose answer is lost is made once more.
CallRetried(after, next) ==
    \/ api' = after /\ round' = next /\ UNCHANGED faults
    \/ Fault("api") /\ round' = Idle /\ UNCHANGED api
    \/ Fault("lost") /\ api' = after /\ round' = round

\* A call that changes the API to `after`: it succeeds and the worker goes on
\* with `next`; it fails; or it takes effect and its answer is lost.  On an
\* error HandleUpdates returns and the worker waits for the next update.
Call(after, next) ==
    \/ api' = after /\ round' = next /\ UNCHANGED faults
    \/ Fault("api") /\ round' = Idle /\ UNCHANGED api
    \/ Fault("lost") /\ api' = after /\ round' = Idle

\* A call on a socket that is gone: 404, api.ErrNotFound.
NotFound == round' = Idle /\ UNCHANGED <<api, faults>>

OnlyWorker == UNCHANGED <<discoveryVars, updates, connectChan, tunnelVars>>

\* The server's values of the fields after a PUT of `new`: what the body leaves
\* out, a blank field and always UpstreamType, may be kept or cleared.
PutAttrs(old, new) ==
    {a \in Attrs :
        \A f \in Fields :
            IF f = UpstreamType \/ new[f] = Blank
            THEN a[f] \in {old[f], Blank}
            ELSE a[f] = new[f]}

-----------------------------------------------------------------------------
(* HandleUpdates *)

\* StartSocketWorker: case sockets := <-socketUpdateCh.
Receive ==
    /\ round.pc = "receive"
    /\ updates # <<>>
    /\ round' = [Idle EXCEPT !.pc = "list", !.local = Head(updates)]
    /\ updates' = Tail(updates)
    /\ UNCHANGED <<discoveryVars, api, connectChan, tunnelVars, faults>>

\* Mutant: without the filter on the connector's and the plugin's name.
ListSocketsOfAll ==
    /\ round.pc = "list"
    /\ \E map \in LastByKey :
         round' = [round EXCEPT
           !.pc = "check", !.view = api, !.apiOf = map,
           !.unchecked = {i \in Ids : Exists(i) /\ ~Discovered(api[i].key)}]
    /\ UNCHANGED <<api, faults>> /\ OnlyWorker

\* Mutant: sockets whose data changed are not recreated.
ListSocketsNoRecreate ==
    /\ round.pc = "list"
    /\ \E map \in LastByKey :
         round' = [round EXCEPT
           !.pc = "check", !.view = api, !.apiOf = map,
           !.unchecked = {i \in Ids : /\ Exists(i) /\ api[i].key \in Keys
                                      /\ ~Discovered(api[i].key)}]
    /\ UNCHANGED <<api, faults>> /\ OnlyWorker

\* SocketsCoreHandler: GetSockets, then the map of the API's sockets.
ListSockets ==
    /\ round.pc = "list"
    /\ \/ /\ \E map \in LastByKey :
               round' = [round EXCEPT
                 !.pc = "check", !.view = api, !.apiOf = map,
                 !.unchecked = {i \in Ids : Exists(i) /\ Superseded(api[i])}]
          /\ UNCHANGED faults
       \/ Fault("api") /\ round' = Idle
    /\ UNCHANGED api /\ OnlyWorker

\* CheckSocketsToDelete, a socket that is not discovered: ask the tunnel job
\* to disconnect (blocks while connectChan is full), then delete it.
RequestDisconnect(i) ==
    /\ round.pc = "check"
    /\ NextEntry(i)
    /\ ~Discovered(round.view[i].key)
    /\ Len(connectChan) < ChanCap
    /\ connectChan' = Append(connectChan, [key |-> round.view[i].key, id |-> i,
                                           action |-> "disconnect"])
    /\ round' = [round EXCEPT !.pc = "delete", !.cur = i, !.unchecked = @ \ {i}]
    /\ UNCHANGED <<discoveryVars, updates, api, tunnelVars, faults>>

\* CheckSocketsToDelete, a socket with other data: RecreateSocket.
RecreateSocket(i) ==
    /\ round.pc = "check"
    /\ NextEntry(i)
    /\ Discovered(round.view[i].key)
    /\ round' = [round EXCEPT !.pc = "delete", !.cur = i, !.unchecked = @ \ {i}]
    /\ UNCHANGED <<api, faults>> /\ OnlyWorker

\* Mutant: RecreateSocket goes on when its DeleteSocket failed.
DeleteSocketErrorIgnored ==
    /\ round.pc = "delete"
    /\ Exists(round.cur)
    /\ LET recreate == Discovered(round.view[round.cur].key)
       IN  /\ \/ api' = [api EXCEPT ![round.cur] = None] /\ UNCHANGED faults
              \/ Fault("api") /\ UNCHANGED api
           /\ round' = IF recreate THEN [round EXCEPT !.pc = "createSocket"]
                       ELSE [round EXCEPT !.pc = "check", !.cur = None]
    /\ OnlyWorker

\* DeleteSocket, for either of them.
DeleteSocket ==
    /\ round.pc = "delete"
    /\ LET recreate == Discovered(round.view[round.cur].key)
       IN  IF Exists(round.cur)
           THEN Call([api EXCEPT ![round.cur] = None],
                     IF recreate THEN [round EXCEPT !.pc = "createSocket"]
                                 ELSE [round EXCEPT !.pc = "check", !.cur = None])
           ELSE NotFound
    /\ OnlyWorker

\* The delete loop is over; CheckSocketsToCreate starts.
FinishDeletes ==
    /\ round.pc = "check"
    /\ round.unchecked = {}
    /\ round' = [round EXCEPT !.pc = "create", !.todo = round.local]
    /\ UNCHANGED <<api, faults>> /\ OnlyWorker

\* CheckSocketsToCreate: the next local socket has no entry in socketApiMap.
BeginCreate ==
    /\ round.pc = "create"
    /\ round.todo # <<>>
    /\ round.apiOf[Head(round.todo).key] = None
    /\ round' = [round EXCEPT !.pc = "createSocket"]
    /\ UNCHANGED <<api, faults>> /\ OnlyWorker

\* CreateSocketAndTunnel: CreateSocket.
CreateSocket ==
    /\ round.pc = "createSocket"
    /\ \E i \in Ids :
         /\ Fresh(i)
         /\ Call([api EXCEPT ![i] =
                    [key |-> Wanted.key, data |-> Wanted.data,
                     attrs |-> Wanted.attrs, policies |-> {}, tunnel |-> FALSE]],
                 [round EXCEPT !.pc = "createTunnel", !.made = i])
    /\ OnlyWorker

\* CreateSocketAndTunnel: CreateTunnel.
CreateTunnel ==
    /\ round.pc = "createTunnel"
    /\ IF Exists(round.made)
       THEN Call([api EXCEPT ![round.made].tunnel = TRUE],
                 [round EXCEPT !.pc = IF Wanted.private THEN "updatePrivate"
                                                        ELSE "attach"])
       ELSE NotFound
    /\ OnlyWorker

\* CreateSocketAndTunnel: the custom domain of a private socket, PUT with the
\* fields CreateSocket answered.
UpdatePrivate ==
    /\ round.pc = "updatePrivate"
    /\ IF Exists(round.made)
       THEN \E a \in PutAttrs(api[round.made].attrs, Wanted.attrs) :
              Call([api EXCEPT ![round.made].attrs = a],
                   [round EXCEPT !.pc = "attach"])
       ELSE NotFound
    /\ OnlyWorker

\* CreateSocketAndTunnel: ApplyPolicies, whose error is dropped; then back to
\* the loop that called.  RecreateSocket's result is not connected: the create
\* loop reads the old socketApiMap.
AttachPolicies ==
    /\ round.pc = "attach"
    /\ IF Exists(round.made)
       THEN \E p \in PolicyOutcomes(api[round.made].policies, {}, Wanted.policies) :
                api' = [api EXCEPT ![round.made].policies = p]
       ELSE UNCHANGED api
    /\ round' = IF round.cur # None
                THEN [round EXCEPT !.pc = "check", !.cur = None, !.made = None]
                ELSE [round EXCEPT !.pc = "create", !.made = None,
                        !.todo = Tail(@),
                        !.toConnect = Append(@, [key |-> Wanted.key, id |-> round.made])]
    /\ UNCHANGED faults /\ OnlyWorker

\* The next local socket and its entry in socketApiMap, and the worker after it.
AtKnownSocket ==
    /\ round.pc = "create"
    /\ round.todo # <<>>
    /\ round.apiOf[Head(round.todo).key] # None

\* Mutant: only created sockets are connected.
AdvancedUnconnected == [round EXCEPT !.pc = "create", !.todo = Tail(@)]

Advanced == [round EXCEPT !.pc = "create", !.todo = Tail(@),
               !.toConnect = Append(@, [key |-> Head(round.todo).key,
                                        id |-> round.apiOf[Head(round.todo).key]])]

\* CheckAndUpdateSocket: nothing differs.  With another UpstreamType than the
\* API's, which no PUT ever brings there, this never is the case.
KeepSocket ==
    /\ AtKnownSocket
    /\ Matches(Snapshot, Head(round.todo))
    /\ round' = Advanced
    /\ UNCHANGED <<api, faults>> /\ OnlyWorker

\* CheckAndUpdateSocket: ApplyPolicies, whose error is only logged.
ApplyPolicies ==
    /\ AtKnownSocket
    /\ ~Matches(Snapshot, Head(round.todo))
    /\ LET i == round.apiOf[Head(round.todo).key]
       IN  IF Exists(i)
           THEN \E p \in PolicyOutcomes(api[i].policies, Snapshot.policies,
                                        Head(round.todo).policies) :
                    api' = [api EXCEPT ![i].policies = p]
           ELSE UNCHANGED api
    /\ round' = [round EXCEPT !.pc = "update"]
    /\ UNCHANGED faults /\ OnlyWorker

\* CheckAndUpdateSocket: UpdateSocket PUTs the fields and the tags to the id
\* of the snapshot.
UpdateSocket ==
    /\ round.pc = "update"
    /\ LET i == round.apiOf[Head(round.todo).key]
       IN  IF Exists(i)
           THEN \E a \in PutAttrs(api[i].attrs, Head(round.todo).attrs) :
                  Call([api EXCEPT ![i].attrs = a, ![i].data = Head(round.todo).data],
                       Advanced)
           ELSE NotFound
    /\ OnlyWorker

\* The create loop is over; HandleUpdates goes through socketsToConnect.  The
\* listing and the map went out of scope with SocketsCoreHandler.
FinishCreates ==
    /\ round.pc = "create"
    /\ round.todo = <<>>
    /\ round' = [round EXCEPT !.pc = "connect", !.view = NoView,
                               !.apiOf = NoneOf(Keys)]
    /\ UNCHANGED <<api, faults>> /\ OnlyWorker

\* Mutant: every element of socketsToConnect points to the last socket.
RequestConnectLast ==
    /\ round.pc = "connect"
    /\ round.toConnect # <<>>
    /\ ~IsSocketConnected(Head(round.toConnect).key)
    /\ Len(connectChan) < ChanCap
    /\ connectChan' = Append(connectChan,
         [key |-> Head(round.toConnect).key,
          id |-> round.toConnect[Len(round.toConnect)].id, action |-> "connect"])
    /\ round' = [round EXCEPT !.toConnect = Tail(@)]
    /\ UNCHANGED <<discoveryVars, updates, api, tunnelVars, faults>>

\* HandleUpdates: ask for a tunnel unless the key counts as connected.
RequestConnect ==
    /\ round.pc = "connect"
    /\ round.toConnect # <<>>
    /\ ~IsSocketConnected(Head(round.toConnect).key)
    /\ Len(connectChan) < ChanCap
    /\ connectChan' = Append(connectChan, [key |-> Head(round.toConnect).key,
                                           id |-> Head(round.toConnect).id,
                                           action |-> "connect"])
    /\ round' = [round EXCEPT !.toConnect = Tail(@)]
    /\ UNCHANGED <<discoveryVars, updates, api, tunnelVars, faults>>

SkipConnected ==
    /\ round.pc = "connect"
    /\ round.toConnect # <<>>
    /\ IsSocketConnected(Head(round.toConnect).key)
    /\ round' = [round EXCEPT !.toConnect = Tail(@)]
    /\ UNCHANGED <<api, faults>> /\ OnlyWorker

\* HandleUpdates returns.
FinishRound ==
    /\ round.pc = "connect"
    /\ round.toConnect = <<>>
    /\ round' = Idle
    /\ UNCHANGED <<api, faults>> /\ OnlyWorker

-----------------------------------------------------------------------------
DiscoveryStep == Find \/ Publish

WorkerStep ==
    \/ Receive \/ ListSockets \/ DeleteSocket \/ FinishDeletes
    \/ BeginCreate \/ CreateSocket \/ CreateTunnel \/ UpdatePrivate
    \/ AttachPolicies \/ KeepSocket \/ ApplyPolicies \/ UpdateSocket
    \/ FinishCreates \/ RequestConnect \/ SkipConnected \/ FinishRound
    \/ \E i \in Ids : RequestDisconnect(i) \/ RecreateSocket(i)

ReconcileNext == DiscoveryStep \/ WorkerStep
=============================================================================
