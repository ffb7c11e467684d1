--------------------------- MODULE ConnectorState ---------------------------
(***************************************************************************)
(* The state of one connector core (one discovery plugin of                *)
(* `border0 connector start`, internal/connector) and of the Border0 API   *)
(* it reconciles: the constants, the types, the variables and the helpers  *)
(* that Reconcile (discovery loop and socket worker) and TunnelSessions    *)
(* (tunnel job and one goroutine per tunnel) share.                        *)
(*                                                                         *)
(* A socket name, a host, a port or a tag is data the properties do not    *)
(* look into.  ConnectorData.Key() is a member of Keys, the rest of the    *)
(* ConnectorData (type, port, target host, ...) is a member of Data, and   *)
(* fields CheckAndUpdateSocket compares are functions from Fields to       *)
(* Texts; their `omitempty` JSON tags leave a Blank one out of a PUT, and  *)
(* UpstreamType, which the code blanks before every PUT, always.           *)
(***************************************************************************)
EXTENDS Naturals, Sequences

CONSTANTS
    Keys,         \* keys that carry this connector's and this plugin's name
    Foreign,      \* the key of every other socket of the organization
    Data,         \* values of a ConnectorData beside its key
    Fields,       \* the fields that are compared and updated in place
    UpstreamType, \* the one of them that no PUT carries
    Texts,        \* values of a field
    Blank,        \* the empty one, left out of the JSON body of a PUT
    Policies,     \* policies of the organization
    Ids,          \* socket ids the API issues
    Sessions,     \* ssh.Connection objects
    None,         \* "nil": no socket, no session, no value
    Discoveries,  \* the results Discover.Find can have
    InitialApis,  \* what the API may hold when the connector first starts
    ChanCap,      \* capacity of connectChan (5 in NewConnectorCore)
    NumOfRetry,   \* ssh.WithRetry(3)
    FaultKinds,   \* the faults a model lets the environment inject
    MaxFaults     \* and how many of them

\* The fields of a socket that are updated in place.
Attrs == [Fields -> Texts]

\* A discovered socket (models.Socket as SocketsCoreHandler prepares it).
LocalSocket == [key: Keys, data: Data, attrs: Attrs,
                policies: SUBSET Policies, private: BOOLEAN]

\* A socket as the API holds it: what BuildConnectorDataByTags reads from its
\* tags, the updatable fields, its policies, whether it has a tunnel.
ApiSocket == [key: Keys \cup {Foreign}, data: Data, attrs: Attrs,
              policies: SUBSET Policies, tunnel: BOOLEAN]

ApiState == [Ids -> ApiSocket \cup {None}]

\* A socket the worker wants connected, and a message on connectChan.
Target == [key: Keys, id: Ids]
Request == [key: Keys, id: Ids, action: {"connect", "disconnect"}]

\* Where a TunnelConnnect goroutine is.  "bound": it listens on the tunnel's
\* port but Connection.session is still nil; "live": it waits in session.Wait;
\* "hung": it waits for the answer of a server that has gone silent;
\* "ended": Connect has returned; "done": the goroutine has returned.
SessionPC == {"spawned", "stored", "reloaded", "dialing", "bound", "live",
              "hung", "ended", "done"}

\* An ssh.Connection with the goroutine that created it.
Session == [key: Keys, id: Ids, pc: SessionPC, closed: BOOLEAN,
            tries: 0..NumOfRetry]

\* Where the socket worker is in HandleUpdates.
WorkerPC == {"receive", "list", "check", "delete", "createSocket",
             "createTunnel", "updatePrivate", "attach", "create", "update",
             "connect"}

\* The local variables of one HandleUpdates call.
Round == [pc: WorkerPC,
          local: Seq(LocalSocket),        \* discoveredSockets
          view: ApiState,                 \* socketsFromApi, as listed
          unchecked: SUBSET Ids,          \* what CheckSocketsToDelete has left to act on
          apiOf: [Keys -> Ids \cup {None}],  \* socketApiMap
          todo: Seq(LocalSocket),         \* what CheckSocketsToCreate has left
          toConnect: Seq(Target),         \* socketsToConnect
          cur: Ids \cup {None},           \* the socket being deleted or recreated
          made: Ids \cup {None}]          \* the socket being created

ASSUME ConstantsAssumption ==
    /\ Foreign \notin Keys
    /\ UpstreamType \in Fields /\ Blank \in Texts
    /\ None \notin ApiSocket /\ None \notin Ids /\ None \notin Sessions
    /\ None \notin Session /\ None \notin Seq(LocalSocket)
    /\ Discoveries \subseteq Seq(LocalSocket)
    /\ InitialApis \subseteq ApiState
    /\ ChanCap \in Nat \ {0}
    /\ NumOfRetry \in Nat
    /\ MaxFaults \in Nat

VARIABLES
    world,        \* what Find would return now
    found,        \* the result DiscoverNewSocketChanges is sending, or None
    updates,      \* socketUpdateCh, capacity 1
    round,        \* the socket worker's current HandleUpdates
    api,          \* the sockets of the organization
    connectChan,  \* ConnectorCore.connectChan
    tracked,      \* ConnectorCore.connectedTunnels
    sess,         \* the Connection objects that exist
    faults        \* faults injected so far

discoveryVars == <<world, found>>
tunnelVars == <<tracked, sess>>
vars == <<world, found, updates, round, api, connectChan, tracked, sess, faults>>

-----------------------------------------------------------------------------
NoView == [i \in Ids |-> None]
NoneOf(S) == [x \in S |-> None]

\* The worker between two updates.
Idle == [pc |-> "receive", local |-> <<>>, view |-> NoView, unchecked |-> {},
         apiOf |-> NoneOf(Keys), todo |-> <<>>, toConnect |-> <<>>,
         cur |-> None, made |-> None]

Exists(i) == api[i] # None

\* IsSocketConnected: in the map and not closed.
IsSocketConnected(k) == tracked[k] # None /\ ~sess[tracked[k]].closed

\* One more fault of a kind the model injects.
Fault(kind) ==
    /\ kind \in FaultKinds
    /\ faults < MaxFaults
    /\ faults' = faults + 1

\* A connection object is garbage once its goroutine has returned and the map
\* does not hold it.
Collect(objects, map) ==
    [s \in Sessions |->
        IF /\ objects[s] # None
           /\ objects[s].pc = "done"
           /\ \A k \in Keys : map[k] # s
        THEN None
        ELSE objects[s]]

Init ==
    /\ world \in Discoveries
    /\ found = None
    /\ updates = <<>>
    /\ round = Idle
    /\ api \in InitialApis
    /\ connectChan = <<>>
    /\ tracked = NoneOf(Keys)
    /\ sess = NoneOf(Sessions)
    /\ faults = 0
=============================================================================
