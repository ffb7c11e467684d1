----------------------------- MODULE SshSession -----------------------------
(***************************************************************************)
(* SshConnect and sshConnect (internal/ssh/handler.go): a foreground       *)
(* command's loop that gets a certificate, connects, listens on the        *)
(* tunnel's port and waits for the session to end, over and over; and the  *)
(* KeepAlive goroutine of every connection, which is the only one to       *)
(* notice that a server has gone silent.                                   *)
(*                                                                         *)
(* A connection is a slot of Clients, used again when nothing refers to it *)
(* any more.  A server that does not answer any more is a "silent" link.   *)
(* Time is abstract: the 10 s ticker ticks at some point.                  *)
(***************************************************************************)
EXTENDS Naturals

CONSTANTS
    Clients,     \* slots for connections: {1, 2, ...}
    MaxMisses,   \* max in KeepAlive (4)
    FaultKinds,  \* the faults a model lets the environment inject
    MaxFaults    \* and how many of them

None == 0        \* no connection
Relays == {"tls", "visitor"}   \* no SshConnect of their own
Commands == {"connect", "socket", "tunnel"} \cup Relays

\* Where the main goroutine of the command is.  From "tunnelInfo" to "close":
\* in SshConnect; "returned": SshConnect has returned.  Before it and after it:
\* see Foreground.
SshPC == {"tunnelInfo", "sign", "dial", "handshake", "listen", "setup", "wait",
          "closeListener", "stopKeepAlive", "close", "returned"}
MainPC == SshPC \cup {"post", "gets", "register", "organization", "relay",
                      "newClient", "delete", "check", "exited"}

Client == [link : {"none", "up", "silent", "closed"},
           probes : {"none", "tick", "probe"},  \* where its KeepAlive is
           missed : 0..MaxMisses,               \* n
           done : 0..1]                         \* what the channel done holds

NoClient == [link |-> "none", probes |-> "none", missed |-> 0, done |-> 0]

VARIABLES
    command,  \* what was started
    main,     \* where its main goroutine is
    socket,   \* is the socket there
    client,   \* the connections
    cur,      \* the one sshConnect works with
    owner,    \* the one the server lets listen on the tunnel's port
    faults    \* faults injected so far

sshVars == <<client, cur, owner>>

Fault(kind) ==
    /\ kind \in FaultKinds
    /\ faults < MaxFaults
    /\ faults' = faults + 1

At(pc) == main = pc
OnlyMain == UNCHANGED <<command, socket, sshVars>>
Link(state) == client[cur].link = state

\* `socket connect` passes no tunnel: listen on a port of the server's choice.
HasTunnel == command # "socket"

-----------------------------------------------------------------------------
(* SshConnect *)

\* GetTunnel; the identity files and the proxy.
TunnelInfo ==
    /\ At("tunnelInfo")
    /\ \/ (HasTunnel => socket) /\ main' = "sign" /\ UNCHANGED faults
       \/ HasTunnel /\ ~socket /\ main' = "returned" /\ UNCHANGED faults
       \/ HasTunnel /\ Fault("api") /\ main' = "returned"
    /\ OnlyMain

\* getSshCert, ten times at most: a socket that is gone, an API that is down.
Sign ==
    /\ At("sign")
    /\ \/ socket /\ main' = "dial" /\ UNCHANGED faults
       \/ ~socket /\ main' = "returned" /\ UNCHANGED faults
       \/ Fault("api") /\ main' = "returned"
    /\ OnlyMain

\* A slot nothing refers to.
Free(c) == client[c] = NoClient /\ owner # c

\* Mutant of Probing: as in Connection.connect, KeepAlive starts with the session.
ProbingLate == "none"
Probing == "tick"

\* proxyDialer.Dial: a TCP connection.
Dial ==
    /\ At("dial")
    /\ \/ /\ \E c \in Clients :
               /\ Free(c) /\ \A b \in Clients : Free(b) => c <= b
               /\ client' = [client EXCEPT ![c].link = "up"]
               /\ cur' = c
          /\ main' = "handshake" /\ UNCHANGED faults
       \/ Fault("dial") /\ main' = "sign" /\ UNCHANGED <<client, cur>>
    /\ UNCHANGED <<command, socket, owner>>

\* NewClientConn, which has no deadline: a silent server does not answer at all.
\* Then go KeepAlive(sshClient, done); or conn.Close, and SshConnect starts over.
Handshake ==
    /\ At("handshake") /\ Link("up")
    /\ \/ /\ client' = [client EXCEPT ![cur].probes = Probing, ![cur].missed = 0]
          /\ main' = "listen" /\ UNCHANGED <<cur, faults>>
       \/ /\ Fault("dial")
          /\ client' = [client EXCEPT ![cur].link = "closed"]
          /\ main' = "sign" /\ cur' = None
    /\ UNCHANGED <<command, socket, owner>>

\* The port is free, or not yet: the server may still know an earlier
\* connection of ours; or it refuses for a reason of its own.  A silent server
\* does not answer at all.
Listen ==
    /\ At("listen") /\ Link("up")
    /\ \/ HasTunnel /\ owner # None /\ main' = "stopKeepAlive" /\ UNCHANGED <<owner, faults>>
       \/ Fault("setup") /\ main' = "stopKeepAlive" /\ UNCHANGED owner
       \/ ~(HasTunnel /\ owner # None) /\ main' = "setup" /\ owner' = cur /\ UNCHANGED faults
    /\ UNCHANGED <<command, socket, client, cur>>

\* NewSession, RequestPty, Shell; the certificate, the SSH server; accept.
Setup ==
    /\ At("setup") /\ Link("up")
    /\ \/ main' = "wait" /\ UNCHANGED faults
       \/ Fault("setup") /\ main' = "closeListener"
    /\ OnlyMain

\* The server ends the session, of a deleted socket in any case.
SessionEnds ==
    /\ At("wait") /\ Link("up")
    /\ Fault("drop") \/ (~socket /\ UNCHANGED faults)
    /\ main' = "closeListener"
    /\ OnlyMain

\* The connection was closed by KeepAlive: every request on it fails.
ConnectionLost ==
    /\ main \in {"listen", "setup", "wait"} /\ Link("closed")
    /\ main' = IF At("listen") THEN "stopKeepAlive" ELSE "closeListener"
    /\ OnlyMain /\ UNCHANGED faults

-----------------------------------------------------------------------------
(* The deferred calls, last one first.                                       *)

\* listener.Close asks the server to stop forwarding and waits for an answer.
CloseListener ==
    /\ At("closeListener") /\ ~Link("silent")
    /\ owner' = IF Link("up") /\ owner = cur THEN None ELSE owner
    /\ main' = "stopKeepAlive"
    /\ UNCHANGED <<command, socket, client, cur, faults>>

\* Mutant of StopKeepAlive: a channel without room, taken by KeepAlive only.
StopKeepAliveUnbuffered ==
    /\ At("stopKeepAlive")
    /\ client[cur].probes = "tick"
    /\ client' = [client EXCEPT ![cur].probes = "none"]
    /\ main' = "close"
    /\ UNCHANGED <<command, socket, cur, owner, faults>>

\* done <- true, whether or not KeepAlive is still there.
StopKeepAlive ==
    /\ At("stopKeepAlive")
    /\ client[cur].done < 1
    /\ client' = [client EXCEPT ![cur].done = @ + 1]
    /\ main' = "close"
    /\ UNCHANGED <<command, socket, cur, owner, faults>>

\* sshClient.Close, and sshConnect returns: SshConnect starts over.
CloseClient ==
    /\ At("close")
    /\ client' = [client EXCEPT ![cur].link = "closed"]
    /\ cur' = None /\ main' = "sign"
    /\ UNCHANGED <<command, socket, owner, faults>>

SshStep ==
    \/ TunnelInfo \/ Sign \/ Dial \/ Handshake \/ Listen \/ Setup \/ ConnectionLost
    \/ CloseListener \/ StopKeepAlive \/ CloseClient

-----------------------------------------------------------------------------
(* KeepAlive *)

OnlyClient == UNCHANGED <<command, main, socket, cur, owner>>

Stopped(c) ==
    /\ client[c].probes = "tick" /\ client[c].done > 0
    /\ client' = [client EXCEPT ![c].probes = "none", ![c].done = 0]
    /\ UNCHANGED faults /\ OnlyClient

Tick(c) ==
    /\ client[c].probes = "tick"
    /\ client' = [client EXCEPT ![c].probes = "probe"]
    /\ UNCHANGED faults /\ OnlyClient

Answered(c) ==
    /\ client[c].probes = "probe" /\ client[c].link = "up"
    /\ client' = [client EXCEPT ![c].probes = "tick", ![c].missed = 0]
    /\ UNCHANGED faults /\ OnlyClient

\* Mutant of Missed: n > max.
MissedOneMore(c) ==
    LET n == client[c].missed + 1
    IN  /\ client[c].probes = "probe"
        /\ (client[c].link # "up" /\ UNCHANGED faults) \/ Fault("slow")
        /\ client' = [client EXCEPT ![c].missed = n,
                        ![c].link = IF n > MaxMisses THEN "closed" ELSE @,
                        ![c].probes = IF n > MaxMisses THEN "none" ELSE "tick"]
        /\ OnlyClient

\* No answer within 5 s, or an error: the answer that comes later goes into a
\* channel of its own and is not looked at.
Missed(c) ==
    LET n == client[c].missed + 1
    IN  /\ client[c].probes = "probe"
        /\ (client[c].link # "up" /\ UNCHANGED faults) \/ Fault("slow")
        /\ client' = [client EXCEPT ![c].missed = n,
                        ![c].link = IF n >= MaxMisses THEN "closed" ELSE @,
                        ![c].probes = IF n >= MaxMisses THEN "none" ELSE "tick"]
        /\ OnlyClient

KeepAliveStep(c) == Stopped(c) \/ Tick(c) \/ Answered(c) \/ Missed(c)

-----------------------------------------------------------------------------
(* The server and the network *)

GoesSilent(c) ==
    /\ client[c].link = "up"
    /\ Fault("silent")
    /\ client' = [client EXCEPT ![c].link = "silent"]
    /\ OnlyClient

\* The server notices that a connection is gone.
ServerFrees ==
    /\ owner # None
    /\ client[owner].link = "closed"
    /\ owner' = None
    /\ UNCHANGED <<command, main, socket, client, cur, faults>>

\* A connection nobody refers to is garbage.
Forgotten(c) ==
    /\ client[c].link = "closed" /\ client[c].probes = "none"
    /\ cur # c /\ owner # c
    /\ client' = [client EXCEPT ![c] = NoClient]
    /\ UNCHANGED faults /\ OnlyClient
=============================================================================
