----------------------------- MODULE HomeFiles -----------------------------
(***************************************************************************)
(* The files of one user that all `border0` processes on a machine share,  *)
(* none of them locked and all written in place (truncate, then write):    *)
(*                                                                         *)
(*   ~/.border0/client_token    the token of the client commands           *)
(*   ~/.border0/token           the token of the API commands              *)
(*   ~/.border0/<org>.key/.crt  the TLS key pair of an organization        *)
(*   ~/.ssh/<org>[-cert.pub]    the SSH key and its certificate            *)
(*   <config>/preference.json   the organizations and sockets last used    *)
(*   ~/.border0/<org>.jks, connections.xml, <host>.chain.crt               *)
(*                              what a database client is started with     *)
(*                                                                         *)
(* and the processes that use them: ClientLogin, ClientCerts,              *)
(* ClientCommands and ApiToken have the commands, LocalFiles puts them     *)
(* together.                                                               *)
(*                                                                         *)
(* A token is the organization (for the API commands: the account) it is   *)
(* for and whether the API accepts it.  A key pair is the slot it was made *)
(* for and a number; a preference is the process that set it.              *)
(***************************************************************************)
EXTENDS Naturals, FiniteSets, Sequences

CONSTANTS
    Procs,      \* border0 processes
    Orgs,       \* organizations, and accounts
    None,       \* no file, no token
    Torn,       \* a file that is empty or does not parse
    FirstTokens, \* what the two token files may hold at first
    Plans,      \* what the processes may be started with, [Procs -> Plan]
    MaxPairs,   \* key pairs of a slot in use at a time (a bound of the model)
    FaultKinds, \* the faults a model lets the environment inject
    MaxFaults   \* and how many of them

Slots == {"tls", "ssh"} \X Orgs
Pairs == [slot: Slots, n: 1..MaxPairs]
Certificates == [pair: Pairs, live: BOOLEAN]
TokenFiles == {"client", "api"}
Token == [of: Orgs, live: BOOLEAN]

DbCommands == {"mysql", "mycli", "psql", "pgcli", "dbeaver", "workbench", "db"}
ClientCmds == {"login", "fetch", "tls", "ssh", "keysign"} \cup DbCommands
ApiCmds == {"refresh", "signIn", "device", "switchOrg"}

\* A command, the organization its host or account belongs to, the token in
\* its environment, whether the host is named on the command line, whether its
\* connector authenticates clients itself, whether the account asks for a
\* second factor, and whether the user runs the command again and again.
Plan == [cmd: ClientCmds \cup ApiCmds, org: Orgs, env: Token \cup {None},
         host: BOOLEAN, auth: BOOLEAN, mfa: BOOLEAN, again: BOOLEAN]

ASSUME HomeAssumption ==
    /\ None \notin Token /\ Torn \notin Token /\ None # Torn
    /\ None \notin Pairs /\ Torn \notin Pairs /\ None \notin Orgs
    /\ None \notin Certificates /\ Torn \notin Certificates
    /\ None \notin Procs /\ Torn \notin Procs /\ \A S \in SUBSET Procs : S # Torn
    /\ Plans \subseteq [Procs -> Plan]
    /\ FirstTokens \subseteq [TokenFiles -> Token \cup {None}]
    /\ MaxPairs \in Nat /\ MaxFaults \in Nat

VARIABLES
    plan,     \* what each process runs
    proc,     \* where it is and what it has in hand
    token,    \* the two token files
    keyFile,  \* the key file of each slot
    crtFile,  \* the certificate file of each slot
    prefs,    \* the preference file
    handed,   \* the files database clients are started with: whose they are
    hist,     \* history, see LocalFiles
    faults

files == <<token, keyFile, crtFile, prefs, handed>>
vars == <<plan, proc, files, hist, faults>>

\* Where a process is.  The names follow the steps of the commands.
PC == {"idle", "done", "session",
       "pickHost", "authorize", "poll", "readToken", "launch", "fillToken",
       "readPref", "newPref", "fillPref", "chooseClient",
       "sshReadCrt", "sshReadKey", "sshNewKey", "sshFillKey", "sshNewCrt",
       "sshFillCrt", "signer",
       "fileOrg", "validKey", "validCrt", "newKey", "fillKey", "newCrt",
       "fillCrt", "readKey", "readCrt",
       "newChain", "fillChain", "newJks", "fillJks", "newXml", "fillXml",
       "dial", "mysql", "psql", "dbeaver", "workbench",
       "readApi", "refresh", "switchOrg", "password", "deviceCode",
       "devicePoll", "challenge", "newToken"}

Handed == {"chain", "jks", "xml"}

\* "todo": the steps that follow, as the command and the functions that are
\* running have them; "irq": the goroutine of OnInterruptDo.
Process == [pc: PC, todo: Seq(PC), tok: Token \cup {None},
            org: Orgs \cup {None}, key: Pairs \cup {None},
            crt: Certificates \cup {None}, cert: Certificates \cup {None},
            pref: SUBSET Procs, irq: {"off", "new", "fill", "exit"}]

AtRest == [pc |-> "idle", todo |-> <<>>, tok |-> None, org |-> None,
           key |-> None, crt |-> None, cert |-> None, pref |-> {}, irq |-> "off"]

-----------------------------------------------------------------------------
At(p, pc) == proc[p].pc = pc
Become(p, r) == proc' = [proc EXCEPT ![p] = r]
Goto(p, pc) == Become(p, [proc[p] EXCEPT !.pc = pc])

\* The command returns or exits: the process is gone; a user may run it again.
End(p) == Become(p, [AtRest EXCEPT !.pc = IF plan[p].again THEN "idle" ELSE "done"])

\* p, with r in hand, goes on with the first of what is to do.
GoOn(p, r) ==
    IF r.todo = <<>> THEN End(p)
    ELSE Become(p, [r EXCEPT !.pc = Head(r.todo), !.todo = Tail(r.todo)])

Return(p) == GoOn(p, proc[p])

\* p calls a function and has then "rest" to do before what it had.
Call(p, r, function, rest) ==
    Become(p, [r EXCEPT !.pc = function, !.todo = rest \o @])

Fault(kind) ==
    /\ kind \in FaultKinds
    /\ faults < MaxFaults
    /\ faults' = faults + 1

NoFile == UNCHANGED <<plan, files>>

\* A file that is there and parses; a certificate that has not expired; a
\* certificate and the key it was issued for.
Readable(f) == f \notin {None, Torn}
Good(c) == Readable(c) /\ c.live
Match(key, crt) == Readable(key) /\ Readable(crt) /\ crt.pair = key

\* A new key pair for a slot: one that nothing refers to any more.
Refers(i, s) ==
    LET is(key, crt) == key = i \/ Match(i, crt)
    IN  is(keyFile[s], crtFile[s]) \/ \E p \in Procs :
            is(proc[p].key, proc[p].crt) \/ is(None, proc[p].cert)

Unused(s) == {n \in 1..MaxPairs : ~Refers([slot |-> s, n |-> n], s)}
NewPair(s) == [slot |-> s, n |-> CHOOSE n \in Unused(s) : TRUE]

Init ==
    /\ plan \in Plans
    /\ proc = [p \in Procs |-> AtRest]
    /\ token \in FirstTokens
    /\ keyFile = [s \in Slots |-> None]
    /\ crtFile = [s \in Slots |-> None]
    /\ prefs = {}
    /\ handed = [f \in Handed |-> None]
    /\ hist = [dirty |-> {}, saved |-> {}, account |-> token["api"]]
    /\ faults = 0
=============================================================================
