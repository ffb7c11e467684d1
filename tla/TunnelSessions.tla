--------------------------- MODULE TunnelSessions ---------------------------
(***************************************************************************)
(* ConnectorCore.TunnelConnectJob, the goroutine it spawns per connect     *)
(* request (ConnectorCore.TunnelConnnect) and the ssh.Connection that      *)
(* goroutine drives (internal/ssh/connect.go).                             *)
(*                                                                         *)
(* The job never waits for a goroutine.  A goroutine stores its Connection *)
(* in connectedTunnels before anything else and deletes the entry BY KEY   *)
(* when Connect returns, whichever Connection the entry holds then.        *)
(***************************************************************************)
EXTENDS ConnectorState

\* The job takes a connect request and starts a goroutine for it.
StartTunnel(s) ==
    /\ connectChan # <<>>
    /\ Head(connectChan).action = "connect"
    /\ sess[s] = None
    /\ connectChan' = Tail(connectChan)
    /\ sess' = [sess EXCEPT ![s] =
                  [key |-> Head(connectChan).key, id |-> Head(connectChan).id,
                   pc |-> "spawned", closed |-> FALSE, tries |-> 0]]
    /\ UNCHANGED <<discoveryVars, updates, round, api, tracked, faults>>

\* Connection.Close: a running ssh session ends; the flag is set in any case.
Close(c) == [c EXCEPT !.closed = TRUE,
                      !.pc = IF c.pc = "live" THEN "ended" ELSE c.pc]

\* The job takes a disconnect request and closes the Connection the map holds.
CloseTunnel ==
    /\ connectChan # <<>>
    /\ Head(connectChan).action = "disconnect"
    /\ connectChan' = Tail(connectChan)
    /\ LET s == tracked[Head(connectChan).key]
       IN  sess' = IF s = None THEN sess ELSE [sess EXCEPT ![s] = Close(@)]
    /\ UNCHANGED <<discoveryVars, updates, round, api, tracked, faults>>

-----------------------------------------------------------------------------
At(s, pc) == sess[s] # None /\ sess[s].pc = pc
Goto(s, pc) == Collect([sess EXCEPT ![s].pc = pc], tracked)
OnlySess == UNCHANGED <<discoveryVars, updates, round, api, connectChan, tracked>>

\* Some goroutine listens on the remote port of socket i's tunnel.
PortTaken(i) == \E s \in Sessions : /\ sess[s] # None
                                    /\ sess[s].id = i
                                    /\ sess[s].pc \in {"bound", "live"}

\* Mutant: the goroutines share the job's variable and see its latest request.
StoreSharedVariable(s) ==
    /\ At(s, "spawned")
    /\ tracked' = [tracked EXCEPT
         ![IF connectChan = <<>> THEN sess[s].key ELSE Head(connectChan).key] = s]
    /\ sess' = Collect([sess EXCEPT ![s].pc = "stored"], tracked')
    /\ UNCHANGED <<discoveryVars, updates, round, api, connectChan, faults>>

\* connectedTunnels.m.Store(key, session): a previous entry is dropped.
Store(s) ==
    /\ At(s, "spawned")
    /\ tracked' = [tracked EXCEPT ![sess[s].key] = s]
    /\ sess' = Collect([sess EXCEPT ![s].pc = "stored"], tracked')
    /\ UNCHANGED <<discoveryVars, updates, round, api, connectChan, faults>>

\* GetUserIDFromAccessToken, GetOrganizationInfo, GetSocket, and a tunnel.
Reload(s) ==
    /\ At(s, "stored")
    /\ Exists(sess[s].id) /\ api[sess[s].id].tunnel
    /\ sess' = Goto(s, "reloaded")
    /\ OnlySess /\ UNCHANGED faults

\* One of those fails, the socket is gone or has no tunnel: the goroutine
\* returns and leaves its Connection, never closed, in the map.
ReloadFails(s) ==
    /\ At(s, "stored")
    /\ \/ /\ ~(Exists(sess[s].id) /\ api[sess[s].id].tunnel)
          /\ UNCHANGED faults
       \/ Fault("api")
    /\ sess' = Goto(s, "done")
    /\ OnlySess

\* Connection.Connect reads the tunnel before its first attempt.
GetTunnel(s) ==
    /\ At(s, "reloaded")
    /\ Exists(sess[s].id)
    /\ sess' = Goto(s, "dialing")
    /\ OnlySess /\ UNCHANGED faults

GetTunnelFails(s) ==
    /\ At(s, "reloaded")
    /\ \/ ~Exists(sess[s].id) /\ UNCHANGED faults
       \/ Fault("api")
    /\ sess' = Goto(s, "ended")
    /\ OnlySess

\* backoff.Retry: another attempt while the retry budget lasts.  connect()
\* closes the Connection on every return (defer c.Close()), so `closed` stays
\* set during the attempts that follow a failed one.
AttemptFails(s, closes) ==
    /\ sess' = [sess EXCEPT
         ![s].closed = @ \/ closes,
         ![s].tries = IF @ < NumOfRetry THEN @ + 1 ELSE @,
         ![s].pc = IF sess[s].tries < NumOfRetry THEN "dialing" ELSE "ended"]
    /\ OnlySess

\* getSshCert fails (it does for a socket that is gone): connect() never ran.
CertFails(s) ==
    /\ At(s, "dialing")
    /\ \/ ~Exists(sess[s].id) /\ UNCHANGED faults
       \/ Fault("dial")
    /\ AttemptFails(s, FALSE)

DialFails(s) ==
    /\ At(s, "dialing")
    /\ Fault("dial")
    /\ AttemptFails(s, TRUE)

\* sshClient.Listen succeeds: the server gives a port to one client.
Listen(s) ==
    /\ At(s, "dialing")
    /\ Exists(sess[s].id)
    /\ ~PortTaken(sess[s].id)
    /\ sess' = Goto(s, "bound")
    /\ OnlySess /\ UNCHANGED faults

\* The port is taken, or Listen fails otherwise: ErrListenOnPort is not retried.
ListenRefused(s) ==
    /\ At(s, "dialing")
    /\ (PortTaken(sess[s].id) /\ UNCHANGED faults) \/ Fault("dial")
    /\ sess' = [sess EXCEPT ![s].closed = TRUE, ![s].pc = "ended"]
    /\ OnlySess

\* The server goes silent before KeepAlive runs: no call of connect() has a
\* deadline, and the goroutine waits for ever.
Hangs(s) ==
    /\ At(s, "dialing") \/ At(s, "bound")
    /\ Fault("silent")
    /\ sess' = Goto(s, "hung")
    /\ OnlySess

\* NewSession, RequestPty, Shell, the certificate: an error is retried.
SetupFails(s) ==
    /\ At(s, "bound")
    /\ Fault("dial")
    /\ AttemptFails(s, TRUE)

\* c.session = session; session.Wait().
Establish(s) ==
    /\ At(s, "bound")
    /\ sess' = Goto(s, "live")
    /\ OnlySess /\ UNCHANGED faults

\* The server, the network or KeepAlive ends the session.  The server may end
\* the session of a deleted socket at any time.
SessionDrops(s) ==
    /\ At(s, "live")
    /\ \/ ~Exists(sess[s].id) /\ UNCHANGED faults
       \/ Fault("drop")
    /\ sess' = [sess EXCEPT ![s] = Close(@)]
    /\ OnlySess

\* Connect always returns an error: connectedTunnels.Delete(key).
Forget(s) ==
    /\ At(s, "ended")
    /\ tracked' = [tracked EXCEPT ![sess[s].key] = None]
    /\ sess' = Collect([sess EXCEPT ![s].pc = "done"], tracked')
    /\ UNCHANGED <<discoveryVars, updates, round, api, connectChan, faults>>

-----------------------------------------------------------------------------
\* What the scheduler runs on its own, and what the environment may do.
JobStep == CloseTunnel \/ \E s \in Sessions : StartTunnel(s)

SessionStep(s) ==
    \/ Store(s) \/ Reload(s) \/ ReloadFails(s) \/ GetTunnel(s)
    \/ GetTunnelFails(s) \/ CertFails(s) \/ DialFails(s) \/ Listen(s)
    \/ ListenRefused(s) \/ SetupFails(s) \/ Establish(s) \/ Forget(s)

TunnelNext == JobStep \/ \E s \in Sessions : SessionStep(s) \/ SessionDrops(s) \/ Hangs(s)
=============================================================================
