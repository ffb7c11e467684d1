----------------------------- MODULE Foreground -----------------------------
(***************************************************************************)
(* The commands that stay in the foreground of a terminal: `border0        *)
(* connect`, `border0 socket connect` and `border0 tunnel connect`, which  *)
(* serve a socket with SshConnect; the visitor of a tunnel they serve; and *)
(* `border0 client tls`, which relays its terminal or a local connection.  *)
(* A visitor is a job of its own: all it shares with its tunnel is that it *)
(* may vanish at any time.                                                 *)
(*                                                                         *)
(* `connect` creates the socket it serves and deletes it in two places, in *)
(* main after SshConnect has returned and in the goroutine that gets the   *)
(* interrupt, which share the variable err.                                *)
(***************************************************************************)
EXTENDS SshSession, Relay

CONSTANT Jobs   \* what is started: records [command, relay]

ASSUME ForegroundAssumption ==
    /\ MaxFaults \in Nat /\ MaxSaid \in Nat
    /\ MaxMisses \in Nat \ {0}
    /\ Clients \subseteq Nat \ {None}
    /\ Jobs \subseteq [command : Commands, relay : RelayKinds]

VARIABLES
    handler,  \* where the goroutine is that waits for the signal
    err,      \* connect's err: does it hold an error
    exit      \* "running", or how the process has ended

vars == <<command, main, socket, client, cur, owner, faults, relay,
          handler, err, exit>>

HandlerPC == {"none", "started", "waits", "delete", "check"}

Init ==
    /\ \E job \in Jobs :
         /\ command = job.command
         /\ relay = NoRelay(job.relay)
    /\ main = CASE command = "connect" -> "post"
                [] command \in Relays -> "relay"
                [] OTHER -> "gets"
    /\ socket = (command # "connect")
    /\ client = [c \in Clients |-> NoClient]
    /\ cur = None /\ owner = None
    /\ handler = "none" /\ err = FALSE /\ exit = "running"
    /\ faults = 0

Alive == exit = "running"

\* The process ends: its connections are closed by the system.
Exit(how) ==
    /\ exit' = how
    /\ main' = "exited" /\ handler' = "none"
    /\ client' = [c \in Clients |-> NoClient]
    /\ cur' = None /\ owner' = None
    /\ relay' = NoRelay(Kind)
    /\ UNCHANGED <<command>>

Fatal == Exit("failed")

\* A step of the main goroutine, or of the handler, that ends nothing.
MainGoes(pc) ==
    /\ main' = pc
    /\ UNCHANGED <<command, sshVars, relay, handler, exit>>
HandlerGoes(pc) ==
    /\ handler' = pc
    /\ UNCHANGED <<command, main, sshVars, relay, exit>>

-----------------------------------------------------------------------------
(* Before SshConnect *)

\* connect: POST connect.
Post ==
    /\ At("post")
    /\ \/ socket' = TRUE /\ MainGoes("gets") /\ UNCHANGED <<err, faults>>
       \/ Fault("api") /\ Fatal /\ UNCHANGED <<socket, err>>
       \/ Fault("lost") /\ Fatal /\ socket' = TRUE /\ UNCHANGED err

\* connect: the policies and the organization, then 1 s; socket and tunnel
\* connect: the socket.  An error ends the command, and what connect has
\* posted stays.
Gets ==
    /\ At("gets")
    /\ \/ /\ socket \/ command = "connect"
          /\ MainGoes("register") /\ UNCHANGED faults
       \/ /\ (~socket /\ command # "connect" /\ UNCHANGED faults) \/ Fault("api")
          /\ Fatal
    /\ UNCHANGED <<socket, err>>

\* signal.Notify, and the goroutine that is going to receive.
Register ==
    /\ At("register")
    /\ main' = IF command = "tunnel" THEN "organization" ELSE "tunnelInfo"
    /\ handler' = "started"
    /\ UNCHANGED <<command, socket, sshVars, relay, err, exit, faults>>

\* tunnel connect asks for the organization last.
Organization ==
    /\ At("organization")
    /\ \/ MainGoes("tunnelInfo") /\ UNCHANGED faults
       \/ Fault("api") /\ Fatal
    /\ UNCHANGED <<socket, err>>

-----------------------------------------------------------------------------
(* After SshConnect *)

\* DELETE socket/<id>, and what it makes of err.
Delete(next(_)) ==
    /\ \/ socket' = FALSE /\ err' = ~socket /\ UNCHANGED faults
       \/ Fault("api") /\ err' = TRUE /\ UNCHANGED socket
       \/ Fault("lost") /\ err' = TRUE /\ socket' = FALSE
    /\ next("check")

\* socket and tunnel connect print the error and are done.
Return ==
    /\ At("returned") /\ command \in {"socket", "tunnel"}
    /\ Exit("ok")
    /\ UNCHANGED <<socket, err, faults>>

\* connect: client, err = http.NewClient().  Without a token the client is nil
\* and the request on it a panic.
CleanUp ==
    /\ At("returned") /\ command = "connect"
    /\ \/ err' = FALSE /\ MainGoes("delete") /\ UNCHANGED faults
       \/ Fault("token") /\ err' = TRUE /\ Fatal
    /\ UNCHANGED socket

\* Mutant of MainDeletes: the request's error is not assigned.
MainDeletesUnchecked ==
    /\ At("delete")
    /\ \/ socket' = FALSE /\ UNCHANGED faults
       \/ Fault("api") /\ UNCHANGED socket
    /\ MainGoes("check") /\ UNCHANGED err

MainDeletes == At("delete") /\ Delete(MainGoes)

MainChecks ==
    /\ At("check")
    /\ IF err THEN Fatal ELSE Exit("ok")
    /\ UNCHANGED <<socket, err, faults>>

-----------------------------------------------------------------------------
(* The signal *)

\* The goroutine is at its receive.
Waits ==
    /\ handler = "started"
    /\ HandlerGoes("waits")
    /\ UNCHANGED <<socket, err, faults>>

\* Ctrl-C.  Before Notify it kills; connect's channel is unbuffered and drops
\* a signal its goroutine is not waiting for; socket and tunnel connect have
\* room for one and exit.
Interrupt ==
    /\ command \notin Relays /\ Alive
    /\ Fault("interrupt")
    /\ CASE handler = "none" -> Fatal
         [] command # "connect" -> Exit("ok")
         [] handler = "waits" -> HandlerGoes("delete")
         [] OTHER -> HandlerGoes(handler)
    /\ UNCHANGED <<socket, err>>

\* client, _ := http.NewClient(): without a token a request on nil, a panic.
HandlerDeletes ==
    /\ handler = "delete"
    /\ Delete(HandlerGoes) \/ (Fault("token") /\ Fatal /\ UNCHANGED <<socket, err>>)

HandlerChecks ==
    /\ handler = "check"
    /\ IF err THEN Fatal ELSE Exit("ok")
    /\ UNCHANGED <<socket, err, faults>>

HandlerStep == Waits \/ HandlerDeletes \/ HandlerChecks

-----------------------------------------------------------------------------
(* Visitors, and the tls client *)

OnlyRelay == UNCHANGED <<command, main, socket, sshVars, handler, err, exit>>

\* A visitor of the tunnel, the tls client's connection.
Accept ==
    /\ relay.pc = "none" /\ At("relay")
    /\ relay' = [relay EXCEPT !.pc = "accepted"]
    /\ UNCHANGED faults /\ OnlyRelay

\* The connector-auth handshake and the dial of the local service, or of the
\* socket; the built-in SSH server has neither.
Connected ==
    /\ relay.pc = "accepted" /\ Alive
    /\ relay' = [relay EXCEPT !.pc = "wait"]
    /\ UNCHANGED faults /\ OnlyRelay

\* They fail: the visitor is left as it is, open; the listener goes on, the
\* tls client of a terminal ends.
ConnectFails ==
    /\ relay.pc = "accepted" /\ Kind \notin Shells
    /\ Fault("service")
    /\ IF Kind = "tlsStdio"
       THEN Fatal /\ UNCHANGED <<socket, err>>
       ELSE relay' = NoRelay(Kind) /\ OnlyRelay

RelayGoes == Alive /\ (Ends \/ Copies) /\ UNCHANGED faults /\ OnlyRelay

\* The tls client: log.Fatalf for a failed write, the whole process.
WriteIsFatal ==
    /\ Kind \in Tls /\ \E c \in {"in", "out"} : WriteFails(c)
    /\ Fatal /\ UNCHANGED <<socket, err, faults>>

\* The tls client of a terminal is done.
TlsReturns ==
    /\ Kind = "tlsStdio" /\ relay.pc = "over" /\ Alive
    /\ exit' = "ok" /\ main' = "exited"
    /\ UNCHANGED <<command, socket, sshVars, relay, handler, err, faults>>

-----------------------------------------------------------------------------
UserDeletes ==
    /\ socket /\ Alive /\ command \notin Relays
    /\ Fault("userDelete")
    /\ socket' = FALSE
    /\ UNCHANGED <<command, main, sshVars, relay, handler, err, exit>>

InSsh == UNCHANGED <<relay, handler, err, exit>>

MainStep ==
    \/ Post \/ Gets \/ Register \/ Organization
    \/ SshStep /\ InSsh
    \/ Return \/ CleanUp \/ MainDeletes \/ MainChecks

RelayStep == Connected \/ WriteIsFatal \/ TlsReturns
             \/ (Alive /\ Copies /\ UNCHANGED faults /\ OnlyRelay)

Next ==
    \/ MainStep \/ HandlerStep
    \/ Accept \/ ConnectFails \/ Connected
    \/ RelayGoes \/ WriteIsFatal \/ TlsReturns
    \/ Interrupt \/ UserDeletes
    \/ (SessionEnds \/ ServerFrees) /\ InSsh
    \/ \E c \in Clients : (KeepAliveStep(c) \/ GoesSilent(c) \/ Forgotten(c)) /\ InSsh

\* Goroutines run, the API answers, and the server and the runtime give up
\* what is gone.  Nobody need connect, press Ctrl-C or say anything.
Fairness ==
    /\ WF_vars(MainStep)
    /\ WF_vars(HandlerStep)
    /\ WF_vars(RelayStep)
    /\ WF_vars(ServerFrees /\ InSsh)
    /\ \A c \in Clients : /\ WF_vars(KeepAliveStep(c) /\ InSsh)
                          /\ WF_vars(Forgotten(c) /\ InSsh)

Spec == Init /\ [][Next]_vars /\ Fairness

-----------------------------------------------------------------------------
TypeOK ==
    /\ command \in Commands /\ main \in MainPC
    /\ socket \in BOOLEAN /\ err \in BOOLEAN
    /\ client \in [Clients -> Client]
    /\ cur \in Clients \cup {None} /\ owner \in Clients \cup {None}
    /\ main \in SshPC \ {"tunnelInfo", "sign", "dial", "returned"} => cur # None
    /\ relay \in Relay
    /\ handler \in HandlerPC
    /\ exit \in {"running", "ok", "failed"}
    /\ faults \in 0..MaxFaults

\* `connect` ends well only if its socket is gone, though both of its
\* goroutines may be deleting it and write the one err: the only exception is
\* an interrupted clean-up that fails while main begins its own, which sets
\* err back to nil, and has not got to its DELETE (connect.go:181-209).
ExitZeroMeansGone ==
    [][exit = "running" /\ exit' = "ok" /\ command = "connect" /\ socket
       => handler = "check" /\ main = "delete"]_vars

\* Hung: the handshake with a server that has gone silent in the midst of it.
\* NewClientConn has no deadline and there is no KeepAlive yet (handler.go:278).
Hung == main = "handshake" /\ client[cur].link = "silent"

\* Whatever fails, drops or goes silent, at the API, at the server or on the
\* way, and at whichever step but the handshake, the command ends or its tunnel
\* is up in the end: a silent server is noticed, the connection's port comes
\* free again, and no deferred call waits for ever (handler.go:243-265,
\* 267-301, 432-473).
StaysConnected ==
    <>[](\/ exit # "running" \/ command \in Relays \/ ~socket \/ Hung
         \/ main = "wait" /\ client[cur].link = "up")

\* A relay both of whose ends are gone keeps no goroutine but those known to.
EventuallyTidy ==
    <>[](relay.pc = "over" /\ relay.far \in {"ended", "closed"} => Left <= MayStay)
=============================================================================
