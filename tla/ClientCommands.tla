--------------------------- MODULE ClientCommands ---------------------------
(***************************************************************************)
(* The client commands (cmd/client.go, cmd/client/ssh, tls and db): the    *)
(* functions each of them calls, in their order, and what a command does   *)
(* with the key pairs: it connects with them itself, or starts a database  *)
(* client with the names of files.                                         *)
(***************************************************************************)
EXTENDS ClientCerts

-----------------------------------------------------------------------------
(* The commands as the steps they go through.                                *)

\* GetResourceInfo: MTLSLogin, IsClientCertValid, and the pair that is there
\* then.
GetResourceInfo == <<"readToken", "fileOrg", "readKey">>

PickIfNotNamed(p) == IF plan[p].host THEN <<>> ELSE <<"pickHost">>

LoginCommand == <<"authorize", "readPref", "newPref">>
FetchCommand == <<"fileOrg">>
TlsCommand(p) == PickIfNotNamed(p) \o GetResourceInfo \o <<"dial", "session">>
SshCommand(p) ==
    PickIfNotNamed(p) \o <<"readToken", "readPref", "sshReadCrt">> \o GetResourceInfo
      \o <<"dial", "signer", "newPref", "session">>
KeysignCommand == <<"readToken", "sshReadCrt">>

\* The preference is written by a deferred function.
MysqlCommand ==
    <<"pickHost", "readPref">> \o GetResourceInfo \o <<"mysql", "session", "newPref">>
MycliCommand == MysqlCommand
PsqlCommand ==
    <<"pickHost", "newChain", "readPref">> \o GetResourceInfo
      \o <<"psql", "session", "newPref">>
PgcliCommand == PsqlCommand

\* DBeaver is given a key store made of the pair in hand; MTLSLogin is called
\* again for the name of its file.
DbeaverCommand ==
    <<"pickHost", "readPref">> \o GetResourceInfo
      \o <<"readToken", "newJks", "dbeaver", "session", "newPref">>
\* MySQL Workbench is given a directory with one connection in it.
WorkbenchCommand ==
    <<"pickHost", "readPref">> \o GetResourceInfo
      \o <<"newXml", "workbench", "session", "newPref">>

\* `client db` asks for a client and calls its command.
DbCommand == <<"pickHost", "readPref", "chooseClient">>

Program(p) ==
    CASE plan[p].cmd = "login"     -> LoginCommand
      [] plan[p].cmd = "fetch"     -> FetchCommand
      [] plan[p].cmd = "tls"       -> TlsCommand(p)
      [] plan[p].cmd = "ssh"       -> SshCommand(p)
      [] plan[p].cmd = "keysign"   -> KeysignCommand
      [] plan[p].cmd = "mysql"     -> MysqlCommand
      [] plan[p].cmd = "mycli"     -> MycliCommand
      [] plan[p].cmd = "psql"      -> PsqlCommand
      [] plan[p].cmd = "pgcli"     -> PgcliCommand
      [] plan[p].cmd = "dbeaver"   -> DbeaverCommand
      [] plan[p].cmd = "workbench" -> WorkbenchCommand
      [] plan[p].cmd = "db"        -> DbCommand

StartClient(p) ==
    /\ plan[p].cmd \in ClientCmds
    /\ At(p, "idle")
    /\ GoOn(p, [AtRest EXCEPT !.todo = Program(p)])
    /\ NoFile /\ UNCHANGED faults

ChooseClient(p) ==
    /\ At(p, "chooseClient")
    /\ \E program \in {MysqlCommand, PsqlCommand, DbeaverCommand, WorkbenchCommand} :
         GoOn(p, [AtRest EXCEPT !.todo = program])
    /\ NoFile /\ UNCHANGED faults

-----------------------------------------------------------------------------
(* What a database client is started with besides the pair: the certificate  *)
(* chain of the host, removed and written anew by psql and pgcli; DBeaver's  *)
(* key store, under a password of this run; MySQL Workbench's connection.    *)

HandOver(p, f, new, fill) ==
    /\ \/ /\ At(p, new)
          /\ handed' = [handed EXCEPT ![f] = Torn]
          /\ Goto(p, fill)
       \/ /\ At(p, fill)
          /\ handed' = [handed EXCEPT ![f] = p]
          /\ Return(p)
    /\ UNCHANGED <<plan, token, keyFile, crtFile, prefs, faults>>

\* Of two commands that download a chain at a time one may write to the file
\* that the other has removed; one that cannot be downloaded ends the command.
DownloadCertificateChain(p) ==
    \/ HandOver(p, "chain", "newChain", "fillChain")
    \/ /\ At(p, "fillChain")
       /\ \E q \in Procs \ {p} : At(q, "fillChain")
       /\ Return(p)
       /\ NoFile /\ UNCHANGED faults
    \/ At(p, "fillChain") /\ Fault("api") /\ End(p) /\ NoFile

WriteKeyStore(p) == HandOver(p, "jks", "newJks", "fillJks")
WriteConnections(p) == HandOver(p, "xml", "newXml", "fillXml")

-----------------------------------------------------------------------------
(* The connection.  Its handshake proves possession of the certificate's key. *)

\* The pair: with StartConnectorAuthListener the client connects through the
\* command, which has a pair in hand as tls, ssh and the key store have;
\* without, it reads the files it was given the names of, which may be another
\* organization's.
PairOf(p) ==
    IF plan[p].auth \/ At(p, "dial") \/ At(p, "dbeaver")
    THEN <<proc[p].key, proc[p].crt>>
    ELSE <<keyFile[<<"tls", proc[p].org>>], crtFile[<<"tls", proc[p].org>>]>>

Accepted(pair) == Match(pair[1], pair[2]) /\ pair[2].live

\* A host accepts certificates of its own organization.
Admitted(p) == Accepted(PairOf(p)) /\ PairOf(p)[2].pair.slot = Mine(p, "tls")

\* The client finds what was handed to it: a key store has its own password.
Found(p) ==
    CASE At(p, "psql")      -> Readable(handed["chain"])
      [] At(p, "dbeaver")   -> handed["jks"] = p
      [] At(p, "workbench") -> handed["xml"] = p
      [] OTHER              -> TRUE

\* Connected: of what p had in hand only the preference is used again.
InSession(p) ==
    [proc[p] EXCEPT !.tok = None, !.org = None, !.key = None, !.crt = None]

\* The client's error is what the deferred write of the preference looks at;
\* psql and pgcli return it without keeping it, and write.
Failed(p) ==
    IF At(p, "psql") THEN Become(p, [proc[p] EXCEPT !.pc = "newPref", !.todo = <<>>])
                     ELSE End(p)

Dial(p) ==
    /\ proc[p].pc \in {"dial", "mysql", "psql", "dbeaver", "workbench"}
    /\ LET ok == Admitted(p) /\ Found(p)
       IN  \/ ok /\ GoOn(p, InSession(p)) /\ UNCHANGED faults
           \/ ~ok /\ Failed(p) /\ UNCHANGED faults
           \/ Fault("api") /\ Failed(p)
    /\ NoFile

\* Connected, ssh reads the SSH key file once more and makes the signer of it
\* and of the certificate it has kept.
Signer(p) ==
    /\ At(p, "signer")
    /\ IF Accepted(<<keyFile[Mine(p, "ssh")], proc[p].cert>>)
       THEN GoOn(p, [proc[p] EXCEPT !.cert = None])
       ELSE End(p)
    /\ NoFile /\ UNCHANGED faults

SessionEnds(p) ==
    /\ At(p, "session")
    /\ Return(p)
    /\ NoFile /\ UNCHANGED faults

-----------------------------------------------------------------------------
(* OnInterruptDo(persistPreference): another goroutine writes the preference *)
(* and exits, whatever the main goroutine is doing meanwhile.                *)

Interrupt(p) ==
    /\ plan[p].cmd \in DbCommands
    /\ proc[p].pc \in {"mysql", "psql", "dbeaver", "workbench", "session", "newPref",
                       "fillPref"}
    /\ proc[p].irq = "off"
    /\ Fault("interrupt")
    /\ Become(p, [proc[p] EXCEPT !.irq = "new"])
    /\ NoFile

OnInterruptDo(p) ==
    /\ \/ /\ proc[p].irq = "new"
          /\ prefs' = Torn
          /\ Become(p, [proc[p] EXCEPT !.irq = "fill"])
       \/ /\ proc[p].irq = "fill"
          /\ prefs' = proc[p].pref
          /\ Become(p, [proc[p] EXCEPT !.irq = "exit"])
       \/ /\ proc[p].irq = "exit"
          /\ End(p)
          /\ UNCHANGED prefs
    /\ UNCHANGED <<plan, token, keyFile, crtFile, handed, faults>>

CommandStep(p) ==
    \/ StartClient(p) \/ ChooseClient(p)
    \/ DownloadCertificateChain(p) \/ WriteKeyStore(p) \/ WriteConnections(p)
    \/ Dial(p) \/ Signer(p) \/ SessionEnds(p)
    \/ Interrupt(p) \/ OnInterruptDo(p)
=============================================================================
