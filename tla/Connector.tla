----------------------------- MODULE Connector -----------------------------
(***************************************************************************)
(* One connector core: the discovery loop, the socket worker, the tunnel   *)
(* job and the tunnel goroutines (Reconcile, TunnelSessions) run           *)
(* concurrently and share socketUpdateCh, connectChan, connectedTunnels    *)
(* and the API; the process may be killed and started again, and the       *)
(* discovered world and the API change under it.                           *)
(***************************************************************************)
EXTENDS Reconcile, TunnelSessions

\* The scanned network, the containers, the instances, the config change.
WorldChanges ==
    /\ Fault("world")
    /\ world' \in Discoveries \ {world}
    /\ UNCHANGED <<found, updates, round, api, connectChan, tunnelVars>>

\* Somebody deletes a socket by other means (portal, `border0 socket delete`).
UserDeletes(i) ==
    /\ Exists(i)
    /\ Fault("userDelete")
    /\ api' = [api EXCEPT ![i] = None]
    /\ UNCHANGED <<discoveryVars, updates, round, connectChan, tunnelVars>>

\* Somebody edits an updatable field of a socket.
UserEdits(i) ==
    /\ Exists(i)
    /\ Fault("userEdit")
    /\ \E f \in Fields, a \in Attrs \ {api[i].attrs} :
         /\ \A g \in Fields \ {f} : a[g] = api[i].attrs[g]
         /\ api' = [api EXCEPT ![i].attrs = a]
    /\ UNCHANGED <<discoveryVars, updates, round, connectChan, tunnelVars>>

\* The process dies (a signal, log.Fatalf) and is started again: everything
\* but the API and the world is lost.
Restart ==
    /\ Fault("crash")
    /\ found' = None /\ updates' = <<>> /\ round' = Idle /\ connectChan' = <<>>
    /\ tracked' = NoneOf(Keys) /\ sess' = NoneOf(Sessions)
    /\ UNCHANGED <<world, api>>

Environment ==
    \/ WorldChanges
    \/ Restart
    \/ \E i \in Ids : UserDeletes(i) \/ UserEdits(i)

Next == ReconcileNext \/ TunnelNext \/ Environment

\* Every goroutine the Go runtime can run is run; nothing is assumed of the
\* environment.  The sleeps between rounds end.
Fairness ==
    /\ WF_vars(DiscoveryStep)
    /\ WF_vars(WorkerStep)
    /\ WF_vars(JobStep)
    /\ \A s \in Sessions : WF_vars(SessionStep(s))

Spec == Init /\ [][Next]_vars
FairSpec == Spec /\ Fairness

-----------------------------------------------------------------------------
TypeOK ==
    /\ world \in Discoveries
    /\ found \in Discoveries \cup {None}
    /\ updates \in Seq(Discoveries) /\ Len(updates) <= 1
    /\ round \in Round
    /\ api \in ApiState
    /\ connectChan \in Seq(Request) /\ Len(connectChan) <= ChanCap
    /\ tracked \in [Keys -> Sessions \cup {None}]
    /\ sess \in [Sessions -> Session \cup {None}]
    /\ faults \in 0..MaxFaults

\* However rounds fail, answers get lost and the process restarts, the worker
\* never leaves two sockets of one key at the API: CheckSocketsToCreate trusts
\* a listing that may be many steps old, and RecreateSocket creates under a key
\* CheckSocketsToCreate is going to look at (core.go:293-379).
OneSocketPerKey ==
    \A i, j \in Ids :
        /\ Exists(i) /\ Exists(j) /\ i # j
        => ~(api[i].key = api[j].key /\ api[i].key \in Keys)

\* Once the delete loop is over, every socket of this connector and plugin at
\* the API was discovered and carries the discovered data, whatever became of
\* the listing the loop worked from (core.go:308-350).
NoStaleSocketSurvives ==
    round.pc \in {"create", "update", "connect"} =>
        \A i \in Ids :
            Exists(i) /\ api[i].key \in Keys =>
                /\ Discovered(api[i].key)
                /\ LocalFor(api[i].key).data = api[i].data

\* The worker removes a socket only if it is its own and the discovery result
\* it works on does not contain it, or contains it with other data; the
\* sockets of other connectors, plugins and users are neither removed nor
\* changed (the filters at core.go:311 and core.go:329).
RemovesOnlySuperseded ==
    [][WorkerStep =>
         \A i \in Ids :
             Exists(i) =>
                 /\ api[i].key = Foreign => api'[i] = api[i]
                 /\ api'[i] = None => Superseded(api[i])]_vars

\* A Connection is in connectedTunnels under its own key only, and only after
\* its goroutine stored it: IsSocketConnected never answers for another key.
TrackedUnderOwnKey ==
    \A k \in Keys :
        tracked[k] # None =>
            /\ sess[tracked[k]] # None
            /\ sess[tracked[k]].key = k
            /\ sess[tracked[k]].pc # "spawned"

\* A connect request and the goroutine it leads to name a socket and that
\* socket's own key, though ids go stale in the queue while sockets are deleted
\* and created: what IsSocketConnected and a disconnect look up by key is the
\* tunnel of that socket.
TunnelsServeTheirKey ==
    /\ \A n \in DOMAIN connectChan :
         Exists(connectChan[n].id) => api[connectChan[n].id].key = connectChan[n].key
    /\ \A s \in Sessions :
         sess[s] # None /\ Exists(sess[s].id) => api[sess[s].id].key = sess[s].key

\* "close tunnel connection before deleting the socket" (core.go:336).
ClosedBeforeDeleted ==
    [][round.pc = "delete" /\ ~Discovered(round.view[round.cur].key)
       /\ Exists(round.cur) /\ api'[round.cur] = None
         => ~ PortTaken(round.cur)]_vars

\* The API holds exactly the sockets of the discovered world, with their data
\* and every field a PUT carries: not one emptied locally, and not the upstream
\* type, which is compared (core.go:263) but never sent (core.go:271).
Mirrors ==
    /\ \A i \in Ids :
         Exists(i) /\ api[i].key \in Keys =>
           \E n \in DOMAIN world :
              /\ world[n].key = api[i].key
              /\ world[n].data = api[i].data
              /\ \A f \in Fields \ {UpstreamType} :
                   world[n].attrs[f] # Blank => world[n].attrs[f] = api[i].attrs[f]
    /\ \A n \in DOMAIN world : \E i \in Ids : Exists(i) /\ api[i].key = world[n].key

\* Whatever failed, got lost, was edited or deleted: once the faults are over,
\* the API comes to mirror the discovered world (but for the upstream types of
\* its sockets, for whose sake every round may PUT again) and goes on doing so.
EventuallyMirrors == <>[]Mirrors

\* What the map holds for the key hangs and was not closed: the key counts as
\* connected for ever (connect.go:184 has no deadline).
Stuck(k) == IsSocketConnected(k) /\ sess[tracked[k]].pc = "hung"

\* Every discovered key has a running tunnel, but for one that is stuck.
AllLive ==
    \A n \in DOMAIN world :
        \/ Stuck(world[n].key)
        \/ \E s \in Sessions : /\ sess[s] # None
                               /\ sess[s].pc = "live"
                               /\ sess[s].key = world[n].key

\* Sessions that drop and attempts that fail, however they race with the
\* rounds, the retries and the late Deletes of earlier goroutines, do not keep
\* a discovered socket from getting its tunnel back for good; nor does a server
\* that goes silent in an attempt, unless the Connection was never closed yet.
EventuallyLive == <>[]AllLive
=============================================================================
