# A TLA+ model of the Border0 CLI

`border0` is a command line client (Go) of the Border0 API. Its largest part is the
*connector* (`border0 connector start`, `internal/connector`, `internal/ssh`): a
daemon that keeps the sockets of an organization, held by a remote API, equal to
what it discovers around itself, and keeps a tunnel open for each of them. Around
it are commands that run in the foreground of a terminal until they are
interrupted (`run`, `connect`, `socket connect`, `tunnel connect`, `client tls`),
and client commands that share a handful of files in the user's home directory.
This directory holds TLA+ modules for all of these, TLC instances, and
machine-checked proofs of the safety properties of every group of them.

Paths below are relative to `src/`.

## 1. The system

| Component | State | Operations | Talks to | What is hard |
|---|---|---|---|---|
| Discovery loop, `internal/connector/core/core.go` 164-188 | `numberOfRuns` | `DiscoverNewSocketChanges`: wait, `Find`, send on `socketUpdateCh` (capacity 1) | plugins; socket worker | a result may be old when it is used |
| Socket worker, `core.go` 115-134, 190-416; `service.go` 146-159 | locals of one `HandleUpdates`: discovery result, API listing, two maps, sockets to connect | `SocketsCoreHandler`: list, delete loop, create/update loop; then connect requests | API, tunnel job (`connectChan`, capacity 5), `connectedTunnels` | every API call may fail half-way through a round; the listing and the maps go stale during it |
| Tunnel job, `core.go` 136-162 | `connectChan` | spawn a goroutine per connect, close on disconnect | worker, goroutines | asynchronous to the worker's deletes |
| Tunnel goroutines, `core.go` 64-113, `internal/ssh/connect.go` | `connectedTunnels` (key to `ssh.Connection`), `closed`, `session` | `TunnelConnnect`, `Connect` (retry 3), `connect`, `Close` | API, tunnel server | stores before and deletes after, by key and without looking at the value; `closed` is never reset |
| Policy manager, `policy_manager.go` | none | `ApplyPolicies`: look up, attach, detach | API | partial failure |
| Discovery plugins, `discover/*.go` | none | `Find` | Docker, EC2, Kubernetes, the network, the configuration | partial results that are not errors; 200 workers on one slice |
| Connector service, `service.go` | error group | `Start`, one core with three goroutines per plugin | everything above | restart: only the API survives |
| `border0 run`, `cmd/run.go` | child process, two `socketId`s, quit and done channels | two reconnect loops, two clean-ups, the exit | API, SSH | the clean-up races with the loop, the exit with the clean-up |
| SSH reconnect loop and keep-alive, `internal/ssh/handler.go` | failure counter, channels | `SshConnect`, `sshConnect`, `KeepAlive`, `handleClient` | tunnel server | a late answer to a timed-out probe; deferred calls that wait for each other |
| `connect`, `socket connect`, `tunnel connect`, `cmd/*.go` | the socket, a shared `err` | register, `SshConnect`, clean up; a signal goroutine | API, the above | the signal goroutine and the main one delete the same socket |
| Relays: `handleClient`, `cmd/client/tls`, `handleConnection`, `execCmd` | channels between two or three copiers | copy both ways, give up | the two ends | which copier ends first, who waits for whom |
| Built-in SSH server, `internal/ssh/server*.go` | child process, pty | `execCmd` | the client's channel | the output of a command that has already ended |
| HTTP client and token file, `internal/http/handler.go` | `~/.border0/token` | `RefreshLogin`, `Login`, `SaveTokenInDisk`, `GetToken` | API; other processes on the same file | two processes refresh at once; a truncated file |
| Login and certificates, `internal/client/*.go` | token, client certificate and key files | device login polling, `MTLSLogin`, certificate validity | API, browser | two files that belong together are written one after the other |
| Preferences, `client/preference/*.go` | one JSON file | `CreateOrUpdate` (read, change, write) | commands running at once | lost updates |
| Client commands, `cmd/client/**` | none of their own | `tls`, `ssh`, `keysign`, seven database clients: log in, find a certificate, write files, start a program | the three rows above | all of them at once on the same files, killed or interrupted |
| Policy commands, `cmd/policy.go` | a temporary file with a fixed name | `add`, `edit`, `attach`, `detach`, `delete` | API; an editor | two edits of one name; a file left behind |
| Other API commands, configuration, start-up | none of their own | one request, one table | API | nothing concurrent |

### What makes each of them correct

* **Worker.** It never leaves two sockets of one key at the API; after its
  delete loop no stale socket of its own is left; it removes nothing but its own
  superseded sockets; whatever fails, the API comes to mirror what is
  discovered.
* **Tunnels.** A Connection is found under its own key only; a request or a
  tunnel never names the socket of another key; a tunnel that drops comes back,
  unless a server goes silent where nothing has a deadline.
* **`border0 run`.** No socket is left behind when the child has ended, as far
  as the 2 s limit allows; the process always exits.
* **Foreground commands.** Whatever drops, fails or goes silent after the handshake,
  the command ends or its tunnel comes back; `connect` says it succeeded only if its
  socket is gone.
* **Relays.** What the far end said arrives (in `client tls` but for a last read that
  comes with the end of file); both ends gone, no goroutine stays.
* **Shared files.** A key and its certificate belong to the organization they are
  stored under; files that no two commands wrote at once are right; a client
  command that is repeated keeps getting connected.
* **Plugins.** A Find that nothing disturbed returns exactly what there is to
  discover, each once; every Find returns.
* **Policies.** A socket comes to have the configured policies that exist, and is
  not left without any on the way.

## 2. The modules

    ConnectorState        constants, types, variables, Init
     |- Reconcile         discovery loop and socket worker (with PolicySets)
     |- TunnelSessions    tunnel job, tunnel goroutines, ssh.Connection
    Connector             both of them, the environment, Spec, the properties
     |- ConnectorMirror   the refinement mapping to Mirror
     |   |- MCConnector   instances for TLC
     |- ConnectorInv      the inductive invariants
         |- ConnectorProofs     types, shapes, connectedTunnels
             |- ConnectorSafety     listing, requests, tunnels, stale sockets, one per key
                 |- MirrorProofs        Connector implements Mirror
    Mirror                what a connector core promises: the abstract specification
    RunCommand            `border0 run`, its invariants, instances for TLC
     |- RunProofs         types, what a clean-up leaves
    PartFaults            a budget of faults
     |- FindState         a plugin's configuration, its world, one Find
     |   |- NetworkScan   the network plugin: workers, append, subnets
     |   |- Listings      docker, EC2, Kubernetes, static sockets
     |- Policies          ApplyPolicies and the policy commands (with PolicySets)
    Parts                 what Connector takes as one step: a Find, ApplyPolicies
     |- MCParts           instances for TLC
     |- PartsProofs       ApplyPolicies and the policy commands
         |- FindProofs        what a Find returns, the types
    SshSession            SshConnect, sshConnect, KeepAlive
    Relay                 two or three copiers between two ends
    Foreground            the commands that use both, Spec, the properties
     |- MCForeground      instances for TLC
     |- ForegroundProofs  types, what a relay delivers, connect's exit
    HomeFiles             the shared files, processes, key pairs
     |- ClientLogin       tokens, device login, preferences
         |- ClientCerts       TLS and SSH key pairs
             |- ClientCommands    the client commands
     |- ApiToken          the API commands' token
    LocalFiles            all of them at once, kills, expiry, the properties
     |- MCLocalFiles      instances for TLC
     |- FilesProofs       types, organizations, what undisturbed files hold

The four groups (connector, `run`, foreground commands, shared files) are separate
processes; what one sees of another is a fault or an external action of its model
(a socket deleted by a user, a process restarted). Inside the connector, `Parts` checks
by itself what `Connector` takes as one step: a `Find` is `Connector`'s `Find` from a
`world`, and `OutcomesHold` says that the set `PolicyOutcomes`, which `Reconcile`'s one
step of `ApplyPolicies` draws from, is what the calls leave.

### State

`api` is the organization as the API holds it: an id is issued once (`Fresh`)
and maps to a key, the data that forces a recreate, the fields that are updated
in place, the policies and whether there is a tunnel. `ConnectorData.Key()` is a
member of `Keys`; the key of every socket that is not this connector's and this
plugin's is `Foreign`. The filter is the same in the code: a local key contains
both names (`socket.go` 108-128), so "found in `localSocketsMap`" and "has my
connector and plugin name" both imply a key of this core. `Data` stands for the
rest of the `ConnectorData` struct. `Attrs` are the fields `CheckAndUpdateSocket`
compares, `[Fields -> Texts]`: of a PUT, `omitempty` leaves out every field that is
`Blank`, each by itself, and `UpstreamType` always, because the code blanks it
(`core.go:271`) after comparing it (`core.go:263`). What a PUT leaves out the server may
keep or clear (`PutAttrs`). Two fields are enough, the upstream type and one that
stands for the others, which the code treats alike.

`round` holds the local variables of the one `HandleUpdates` call that can run:
`local` (`discoveredSockets`), `view` (`socketsFromApi`), `apiOf`
(`socketApiMap`), `unchecked` and `todo` (what the two loops have left),
`toConnect`, `cur` (the socket being deleted or recreated), `made` (the one being
created) and a program counter. `found`, `updates`, `connectChan` are the three
hand-overs between goroutines. `tracked` is `connectedTunnels`; `sess` are the
`ssh.Connection` objects that exist, each with the program counter of the
goroutine that made it; `Collect` is the garbage collector. `world` is what
`Find` would return now.

### Actions

Each API call is one action, so that everybody else can act between two of
them; the code between two calls reads and writes locals only and belongs to the
action of the call it precedes or follows. `Call` gives every writing call three
outcomes: it works, it fails, or it works and the answer is lost; on the last
two `HandleUpdates` returns. A call on a socket that is gone is a 404, with the
same effect and no fault spent. `ApplyPolicies` is the exception: its error is
dropped or only logged, and `PolicyOutcomes` is the set of policies it may leave.

| Code | Actions |
|---|---|
| `DiscoverNewSocketChanges` | `Find`, `Publish` |
| `StartSocketWorker`, `HandleUpdates` | `Receive`, `RequestConnect`, `SkipConnected`, `FinishRound` |
| `SocketsCoreHandler` | `ListSockets`, `FinishDeletes`, `FinishCreates` |
| `CheckSocketsToDelete`, `RecreateSocket` | `RequestDisconnect`, `RecreateSocket`, `DeleteSocket` |
| `CheckSocketsToCreate`, `CreateSocketAndTunnel` | `BeginCreate`, `CreateSocket`, `CreateTunnel`, `UpdatePrivate`, `AttachPolicies` |
| `CheckAndUpdateSocket` | `KeepSocket`, `ApplyPolicies`, `UpdateSocket` |
| `TunnelConnectJob` | `StartTunnel`, `CloseTunnel` |
| `TunnelConnnect` | `Store`, `Reload`, `ReloadFails`, `Forget` |
| `Connection.Connect`, `connect` | `GetTunnel`, `GetTunnelFails`, `CertFails`, `DialFails`, `Listen`, `ListenRefused`, `Hangs`, `SetupFails`, `Establish`, `SessionDrops` |
| environment | `WorldChanges`, `UserDeletes`, `UserEdits`, `Restart` |

`RecreateSocket`'s result is put into the map of local sockets and is not
connected in its round: the create loop finds the key in the *old* API map and
connects the old, deleted id. The model has exactly this. The order in which the
API lists sockets decides which of two with one key `socketApiMap` keeps
(`LastByKey`, `NextEntry`).

Lines whose detail is abstracted: name sanitising, tags and their parsing, type
and port guessing, JSON, logging, and the ssh set-up between `Listen` and
`Establish` (one step that may fail).

### `border0 run`

`RunCommand` has the main goroutine (`main`), the child, the two loops (`loop`,
`socketId`), the two clean-up goroutines (`cleaner`, `target`), the sockets at
the API (`api`, ids in the order of `issued`) and the key file of `getSshCert`.
The two functions of the loops are one set of actions: they differ in
`log.Fatalf` when the policies cannot be listed (`GetPoliciesFails`) and in a
2 s sleep. What brings a loop back to its POST is one step, because the retry,
the end of the retries and the `for` loop around them have the same effect.
`socketId` is written by the loop and read by the clean-up without
synchronisation: a Go string is two words, so while it is stored (`BeginStore`,
`EndStore`) a read gives the old value, the new one, or a new length with a null
pointer (`Reads`, `Torn`), which ends the process. `NilClient` is the other
panic: the error of `NewClient` is dropped. `atQuit` is a history variable.

| Code | Actions |
|---|---|
| `runCmd.Run` | `ChildEnds`, `Waited`, `QuitSsh`, `QuitHttp`, `CleanupDone`, `Exit`, `Timeout` |
| `createSocketStartTunnel`, `createHTTPSocketStartTunnel` | `Connect`, `ConnectFails`, `BeginStore`, `EndStore`, `GetPolicies`, `GetPoliciesFails`, `Prepare` |
| their clean-up goroutines | `Test`, `Use`, `NilClient`, `Delete` |
| `SshConnect`, `sshConnect` | `GetTunnel`, `FatalConfig`, `SessionEnds` |
| `getSshCert` | `FindKey`, `CreateKey`, `FillKey`, `Sign`, `SignFails` |

### Mirror

`Mirror` has, per key, the one socket of the organization or none, the discovery
result a round works on, whether it is clearing or adding, and whether it has replaced
a socket. `ConnectorMirror` maps `Connector` to it: the socket of a key is the one
whose tags name the key (`EntryIn`; two of them are a value that `Mirror` does not
have), the phase is read off the worker's program counter, and a socket was replaced
if it is in the listing, superseded and discovered, and the delete loop is past it
(`Recreated`). A `Restart` or a failed call is `Mirror`'s `Break`, or `BrokenOff`
together with the last effect; a tunnel goroutine's step is a stutter.

Before the first fault (`faults = 0`: none in any round so far) a round ends with
exactly what was discovered, with one exception that the proof brought to light: `RecreateSocket` leaves the old id in
`socketApiMap`, the create loop takes the recreated key for known, and if its listed
fields differ from the discovered ones `CheckAndUpdateSocket` sends a PUT to the deleted
id (`core.go` 265-289). The answer is 404, `HandleUpdates` returns, and the keys after
it wait for the next round. `Mirror`'s `Break` admits this for a round that has
`replaced` a socket, and for no other.

### Foreground commands

`SshSession` has the main goroutine inside `SshConnect` and, per connection, its
link, the program counter of its `KeepAlive` goroutine, its count of missed probes
and the buffered `done` channel. A probe that takes longer than 5 s is `Missed`; its
late answer goes into a channel of its own that nobody reads. `Foreground` adds what
comes before and after in each command, the signal goroutine of `connect`, and the
relay. Time is left out: a tick comes some time. A server may go silent at any step.
In the handshake (`NewClientConn`, `handler.go:278`) the code has neither a deadline nor
a `KeepAlive` yet, so the command then hangs for ever: `Handshake` needs a link that is
up, and `StaysConnected` excepts this (`Hung`).

`Relay` has one relay of one kind: `forward` (`handleClient`, `handleConnection`),
`tlsListener` and `tlsStdio` (`client tls`), `pty` and `exec` (`execCmd`). The kinds
differ in the capacity of the channel the copiers report on (`ChanCap`), in how many
reports are awaited and in who closes what.

| Code | Actions |
|---|---|
| `connectCmd` | `Post`, `Register`, `CleanUp`, `MainDeletes`, `MainChecks`, `Waits`, `HandlerDeletes`, `HandlerChecks` |
| `socketConnectCmd`, `tunnelConnectCmd` | `Gets`, `Organization`, `Return`, `Interrupt` |
| `SshConnect`, `sshConnect` | `TunnelInfo`, `Sign`, `Dial`, `Handshake`, `Listen`, `Setup`, `SessionEnds`, `ConnectionLost`, `CloseListener`, `StopKeepAlive`, `CloseClient` |
| `KeepAlive` | `Tick`, `Answered`, `Missed`, `Stopped` |
| `handleClient`, `copyStream`, `execCmd` | `Accept`, `CopyOut`, `OutEnds`, `LastReadLost`, `CopyIn`, `InEnds`, `Report`, `Receive`, `OutStarts`, `CommandReaped`, `OutputCopied`, `CommandDone`, `ContextDone`, `GiveUp` |

### Shared files

A process is one command: a program counter and the steps that follow (`todo`), as
the Go functions it is in would have them. Every read of a file, every truncation and
every write is an action. A file is missing, torn, or what its writer put there: a key is
the pair it belongs to, a certificate names its pair and expires, a token names an
organization and expires, a preference file is the set of commands whose preference
it holds. `hist` is history: which files two commands had in their hands at once or a
command left half-way (`dirty`), which preferences were saved, which account was
chosen last by a sign-in or a switch. A new key pair is one that no file and no process
refers to (`Unused`); `MaxPairs` bounds how many are in use.

`GetResourceInfo` has two pairs: the one it reads, of the organization of the token in
hand, and the paths of the one `IsClientCertValid` found good, which is the organization
of the token *file* (`client.go:333`). `tls`, `ssh`, DBeaver's key store and the local
listener use the first; `mysql`, `mycli`, `psql`, `pgcli` and the connection of MySQL
Workbench the second, so a process keeps the organization of the paths (`proc[p].org`)
until its client has started, and `PairOf` reads that organization's files. A host
accepts certificates of its own organization (`Admitted`, external).

The chain files, one per host, are modelled as one file, and so are the key stores, one
per organization: commands of different hosts or organizations then overlap on files on
which the code's do not, which only adds to `dirty`.

| Code | Actions |
|---|---|
| `MTLSLogin`, `Launch`, `Login`, `pollForToken`, `saveToken` | `ReadToken`, `Launch`, `Authorize`, `PollForToken`, `SaveToken` |
| `preference.Read`, `Write`, `OnInterruptDo` | `ReadPref`, `NewPref`, `FillPref`, `Interrupt`, `OnInterruptDo` |
| `IsClientCertValid`, `GetCert`, `WriteCertToFile`, `ReadOrgCert` | `FileOrg`, `ValidKey`, `ValidCrt`, `NewKey`, `FillKey`, `NewCrt`, `FillCrt`, `ReadKey`, `ReadCrt` |
| `validSshCert`, `GenSSHKey` | `SshReadCrt`, `SshReadKey`, `SshNewKey`, `SshFillKey`, `SshNewCrt`, `SshFillCrt` |
| the commands | `Program` (their steps), `ChooseClient`, `DownloadCertificateChain`, `WriteKeyStore`, `WriteConnections`, `Dial`, `Signer`, `SessionEnds` |
| `RefreshLogin`, `Login`, `MFAChallenge`, device login, `switchOrg` | `Refresh`, `Password`, `MFAChallenge`, `CreateDeviceAuthorization`, `DevicePoll`, `SwitchOrg`, `NewToken` |

### Finds and policies

`NetworkScan` has `Find` with its dispatcher, the unbuffered channel and the workers.
An append is what the Go compiler makes of it for a variable in memory: read the
header, reserve or grow, store the element, here as two words (`StoreName`,
`StoreTarget`), each a step. `subnetToIps` keeps its width (`Bits`); what it returns is
the set of pairs of a subnet's number and an address, which the dispatcher sends in
order (`Precedes`), so `jobs` needs no sequence and no fold. `Listings` has the
other plugins, in one or a few steps each, with the order of a Go map as a choice.

`Policies` has `ApplyPolicies` call by call and, beside it, users who each run one
policy command, with the temporary file as a sequence of JSON documents.

### Faults

Every fault draws on one budget, `MaxFaults`, and a run lists the kinds it
admits. In the connector: `api` (a call fails), `lost` (its answer is lost), `world`,
`userDelete`, `userEdit`, `crash` (the process dies and is started again; only the API
and the world survive), `drop` (a session ends), `dial` (an attempt to connect fails, or
its listener), `silent` (the server does not answer any more, in an attempt).
Counters are bounded by this budget, by `NumOfRetry`, and by the pools `Ids` and
`Sessions`. A pool that is empty would block the step that draws on it, so it is
sized from the budget: the runs of the connector check for deadlock and none is
found. (The commands end, so their runs do not check for it.)

| Model | Faults |
|---|---|
| `RunCommand` | `api` (a call fails, for `getSshCert` all ten), `lost`, `token` (the token file cannot be read), `config` (a `log.Fatalf` in `SshConnect`), `drop`, `userDelete`, `torn` (the key file is read while the other loop writes it) |
| `Foreground` | `api`, `lost`, `token`, `dial`, `setup` (the SSH set-up or listener fails), `drop`, `silent` (no answer any more), `slow` (a probe's answer is late), `interrupt`, `service` (the forwarded service refuses), `userDelete` |
| `LocalFiles` | `api`, `login` (a login fails or is refused), `kill`, `interrupt` (with `OnInterruptDo`), `expire` (a token or a certificate, at any step) |
| `Parts` | `world`, `dial` (a dial fails that should not), `list` (a listing fails), `lookup`, `api`, `lost`, `editor` (it does not start), `kill` |

## 3. The runs

| Run | Instance | Question |
|---|---|---|
| `rounds` (`ConnectorRounds.cfg`) | one key, one foreign socket, perhaps a leftover of an earlier start with other data and with or without a tunnel; 4 ids, 3 Connections, `connectChan` of 1, one retry; one fault: `api`, `lost`, `world`, `userDelete`, `crash` | `TypeOK`, `OneSocketPerKey`, `NoStaleSocketSurvives`, `RemovesOnlySuperseded`, `ImplementsMirror` |
| `two_keys` (`ConnectorTwoKeys.cfg`) | two keys, the first of which perhaps has an outdated socket, with other data and fields, the second of which comes and goes once; 4 ids, 3 Connections | `TrackedUnderOwnKey`, `TunnelsServeTheirKey`, `ImplementsMirror` |
| `converges` (`ConnectorConverges.cfg`) | a key that is absent, private with a policy, or public with empty fields; an upstream type and one more field; one fault of any kind but `drop` and `dial` | `EventuallyMirrors` |
| `live` (`ConnectorLive.cfg`) | a key that is always discovered; one retry, 3 Connections; two faults: `drop`, `dial`, `silent` | `EventuallyLive` |
| `close_order` (`ConnectorCloseOrder.cfg`) | a key that comes and goes | `ClosedBeforeDeleted`, violated |
| `run_cleanup` (`RunCleanup.cfg`) | 6 sockets; two faults: `drop`, `userDelete` | `TypeOK`, `CleanupLeavesOnlyLater` |
| `run_lives` (`RunLives.cfg`) | 4 sockets, no key file yet; one fault: `api`, `lost`, `token`, `config`, `torn`, `drop` | `EventuallyExits`, `EventuallyServes` |
| `run_orphans` (`RunOrphans.cfg`) | 2 sockets, no fault | `NoOrphans`, violated |
| `foreground` (`Foreground.cfg`) | one of the three commands with a relay, a visitor's relay of each kind, or `client tls`; 3 connection slots, 2 misses, 2 chunks; three faults | `TypeOK`, `DeliveredToQuiet`, `ExitZeroMeansGone`, `StaysConnected`, `EventuallyTidy` |
| `local_files` (`LocalFiles.cfg`) | fifteen pairs of commands of one or two organizations, most with a command that is repeated; 4 key pairs of a slot; one fault | `TypeOK`, `CertOfItsOrg`, `UndisturbedFilesRight`, `KeepsConnecting` |
| `prefs_saved` (`PrefsSaved.cfg`) | `psql` alone | `SavedOnSuccess`, violated |
| `parts` (`Parts.cfg`) | four network scans with 3-bit addresses and 2 workers, docker on the host and in a network, EC2, two Kubernetes namespaces, static sockets, with one name twice and without; or two policies, two users, one command each; one fault | `TypeOK`, `FindExact`, `FindReturns`, `OutcomesHold`, `NeverBare`, `PoliciesConverge`, `UndisturbedEdit` |

The first two explore about 510,000 and 380,000 states up to the symmetry of ids
and Connections; the liveness runs use no symmetry: `converges` has about 1,210,000
and `live` about 770,000.

*Why these bounds are enough.* A bug of the worker needs one socket that is
where it should not be and one step out of order: one key with two values of its
data has every pair (listing, API) the loops distinguish, and one fault at any
step breaks a round at every point. Two keys are needed where keys can be mixed
up, and there data does not matter. `connectChan` of capacity 1 blocks sooner
than the code's 5, which only adds interleavings in which the worker waits;
`NumOfRetry` of 1 has both outcomes of a failed attempt. Two dropped sessions
are what it takes for a late `Delete` of one goroutine to hit the entry of the
next. In `border0 run` two faults of a loop let it replace its socket twice around
one clean-up, which has two reads; `MaxIds` is what the loops can post: one each,
one per fault, one each after their socket was cleaned up. These runs have 0.6 to
3 million states. The theorems below remove the bounds for every safety property of
the passing runs.

In `foreground` one fault brings a connection down, a second hits the attempt that
replaces it, a third the attempt or the clean-up after that; three slots are what can be
referred to at a time, and two chunks are one before and one after whatever ends a
relay. In `local_files` every race on a file is between two processes, and a kill or a
failure is one fault; the pairs are chosen so that every command and every file occurs,
as the one that is repeated or the one beside it, with the same and with another
organization. In `parts` two workers have every overlap of two appends; 3-bit addresses have
a /31, a /32, overlapping subnets, and the last address; two names and two ids of each
are what it takes to replace a policy between two calls, and to swap one for another.

Each property was also checked against a plausible error in the code it is about
(the definitions marked "Mutant"): the run then finds it violated.

### What the runs found

* `close_order`: the comment at `internal/connector/core/core.go:336` says "close
  tunnel connection before deleting the socket". The code sends a request on
  `connectChan` and deletes the socket at once; the job handles the request
  whenever it gets to it. The socket is deleted while its tunnel listens.
* `run_orphans`: the comment at `cmd/run.go:110` says "this makes sure we don't
  leave any sockets orphans". A clean-up that looks at `socketId` before the POST
  is answered finishes without the socket. There are more ways to leave one: a
  second clean-up cut off after 100 ms (the code has a TODO for it), and a loop
  that posts again while its earlier socket exists, after a failed set-up call or
  a key file read half-written. `CleanupLeavesOnlyLater` is therefore stated for
  the faults under which a loop replaces only a socket that is gone.
* `prefs_saved`: `cmd/client/db/psql.go:72` (and `pgcli.go:69`) says "make sure we will
  persist preference on successful connection to socket". `persistPreference` looks at
  `err`, which `return client.ExecCommand(...)` does not assign: the preference is
  saved whatever the client returned.
* `copyStream` breaks on an error of `Read` without writing what that
  `Read` returned (`cmd/client/tls/tls.go:138-144`), and `crypto/tls` returns data together with
  `io.EOF` under TLS 1.2 when the close_notify is already there: the last bytes are
  dropped. `DeliveredToQuiet` allows a tls client this one chunk; the other kinds use
  `io.Copy`, which writes it.
* A socket whose upstream type differs from the discovered one is PUT again in every
  round and never gets it: `CheckAndUpdateSocket` compares `UpstreamType`
  (`core.go:263`) and sets it to `""` before the PUT (`core.go:271`). `Mirrors` asks for
  every other field.
* A server that goes silent before `KeepAlive` runs stops `SshConnect` for good
  (`handler.go:278`), and in a connector the goroutine of that key (`connect.go:184`).
  There the key is served again only if an earlier attempt of the same Connection failed,
  because that failure's `Close` makes it count as not connected and a second goroutine
  is started; otherwise it counts as connected for ever (`Stuck`).
* A database command whose token is its environment's, or is overtaken by another
  login, starts its client with the certificate of the token file's organization and is
  refused until that certificate expires (`client.go:333`, `mysql.go:81`). It then gets
  its own, unless another command that is repeated too keeps renewing the wrong one.
  `KeepsConnecting` is therefore stated for one repeated command.
* A failed GET of the policies in the HTTP loop is `log.Fatalf`: `border0 run` ends
  and its child goes on without it.
* A key can get *stuck*: if `TunnelConnnect` returns before `Connect` (an API
  call fails, the id is stale, or the socket has no tunnel because a crash or an
  error came between `CreateSocket` and `CreateTunnel`), its Connection stays in
  `connectedTunnels`, never closed. `IsSocketConnected` then answers true for
  ever. After a recreate in a round this is the regular course: the create loop
  connects the deleted id. This is why `EventuallyLive` is stated for the faults
  `drop`, `dial` and `silent` only; no document of the repository promises more.
* Two discovered sockets with one key (names that sanitise to the same text)
  give two sockets at the API in one round, of which the map keeps one. The
  worlds of the runs have distinct keys, and the two theorems that need it say so
  (`DistinctDiscoveries`).
* Two appends at once in the network scan lose a result, return it twice, return a
  socket with the name of one host and the target of another, or a blank one, and the
  worker deletes and creates sockets accordingly. `FindExact` is stated for scans in
  which no two appends overlapped. Likewise for a Find that skipped a Kubernetes
  namespace it could not list.
* A scan of a subnet that is the last address (`255.255.255.255/32`) never ends, a /31
  yields no address, a Kubernetes service without ports ends the connector
  (`k8.go:76`), a container with two addresses changes its target from Find to Find
  (`docker.go:213`), one at the gateway's address gets its first published port
  whatever its label says (`docker.go:100`), two Kubernetes services of one name in two
  namespaces have one key (`k8.go:115`), and of two static sockets in one map one is
  kept at random (`static_sockets.go:28`), and two maps that share a name have one key
  (`static_sockets.go:25`). `Ambiguous` and `FindReturns` name these
  exceptions.
* Not in any model, met on the way: EC2's listing is read for its first page only
  (`ec2.go:51`); a scanned port's connection is never closed (`networkscan.go:218`);
  the example in `data_tag.go:24` says `upstream_user`, the tag that is read is
  `upstream_username`; `policy edit` sends its PUT without a version, so of two edits
  the later wins (`policy.go:362`).
* `connect` may say it failed or succeeded by the other goroutine's request: the one
  exception of `ExitZeroMeansGone` is a clean-up by interrupt that fails while the main
  goroutine begins its own.
* `client tls` keeps the goroutine of the direction that has not ended
  (`tls.go:133`), and a pty the one that waits for its command when nobody received
  from its channel: `MayStay` is what `EventuallyTidy` allows.
* After a socket was recreated, an update of its old id may break the round off: see
  *Mirror* above. `ImplementsMirror` was first stated without this exception, on one
  key, where nothing comes after it; the proof failed and `two_keys` shows it.
* With a token in the environment (`BORDER0_ADMIN_TOKEN`), the goroutine that refreshes
  tokens takes that one and writes what the API answers to `~/.border0/token`
  (`internal/http/handler.go` 436 and 155-191): it replaces the account the user has
  signed in with by the environment's. Here too a proof failed first. It is no race,
  so `UndisturbedFilesRight` counts such a write as a choice of account, as it does a
  sign-in.
* A policy list that becomes empty is never detached, and a socket one of whose
  `omitempty` fields was emptied is PUT in every round: `Mirrors` asks for neither.

### Fairness

`FairSpec` has weak fairness of the discovery loop, the worker, the job and each
tunnel goroutine: goroutines the Go runtime schedules, whose sleeps end and whose
HTTP calls return (with an answer or an error). A goroutine blocked on a channel
is not enabled, nor is one that waits, without a deadline, for a server that has gone
silent. Nothing is assumed of the environment: no fault has to happen,
and since faults are bounded they end. Weak fairness is enough because no other
goroutine takes away what one of them waits for.

`RunCommand`'s `ExitSpec` is fair to the main goroutine only, since a request to the
API has no timeout and need not be answered: `EventuallyExits` holds even then.
`EventuallyServes` assumes `LoopsRun`, fairness to the loops too, since a tunnel cannot
come back while a call hangs. Neither makes
the child end or a session drop.

`Foreground` is fair to the goroutines of the process it runs and to its kernel (an
answer comes or does not, a closed connection is read to its end), not to the user, the
service or the network. `LocalFiles` is fair to every process, and strongly fair to
`LongPause`: there are pauses between commands so long that nothing outlives them,
which is what replaces a TLS pair that does not match. `Parts` is fair to a Find and to
the rounds that run `ApplyPolicies`, not to the users' commands nor to the world.

## 4. The proofs

TLAPS checks these for every value of the constants that satisfies the `ASSUME` of its
module (`ConstantsAssumption`, `RunAssumption`, `PartsAssumption`, `ScenariosAssumption`,
`HomeAssumption`, `ForegroundAssumption`, and `MirrorAssumption` for the mapping), which
ask only that the atoms differ, the numbers are numbers and the inputs have their types,
and, of docker's containers, that none has the gateway's address.

| Theorem | Says | Assumes |
|---|---|---|
| `TypeCorrect` (`ConnectorProofs`) | `Spec => []TypeOK` | |
| `TrackedCorrect` | `Spec => []TrackedUnderOwnKey` | |
| `RemovesCorrect` (`ConnectorSafety`) | `Spec => RemovesOnlySuperseded` | |
| `ServingCorrect` | `Spec => []TunnelsServeTheirKey` | |
| `NoStaleCorrect` | `Spec => []NoStaleSocketSurvives` | `DistinctDiscoveries` |
| `OneSocketCorrect` | `Spec => []OneSocketPerKey` | `DistinctDiscoveries`, `UniqueAtFirst` |
| `RunTypeCorrect` (`RunProofs`) | `Spec => []TypeOK` of `RunCommand` | |
| `CleanupCorrect` | `Spec => []CleanupLeavesOnlyLater` | `OnlyDropsAndDeletes` |
| `MirrorCorrect` (`MirrorProofs`) | `Spec => ImplementsMirror` | `DistinctDiscoveries`, `UniqueAtFirst` |
| `PoliciesInvariant` (`PartsProofs`) | `Spec => []PoliciesInv`, the invariant of the next three | |
| `OutcomesCorrect` | `Spec => []OutcomesHold` | |
| `EditsCorrect` | `Spec => []UndisturbedEdit` | |
| `NeverBareCorrect` | `Spec => NeverBare` | |
| `FindInvariant` (`FindProofs`) | `Spec => []FindInv`, the invariant of the next two | |
| `FindExactCorrect` | `Spec => []FindExact` | |
| `PartsTypesCorrect` | `Spec => []TypeOK` of `Parts` | |
| `FilesCorrect` (`FilesProofs`) | `Spec => [](TypeOK /\ ProcsOK)` of `LocalFiles` | |
| `CertOfItsOrgHolds` | `Spec => []CertOfItsOrg` | |
| `FilesRight` | `Spec => []UndisturbedFilesRight` | |
| `ForegroundCorrect` (`ForegroundProofs`) | `Spec => []TypeOK` of `Foreground` | |
| `DeliveredCorrect` | `Spec => []DeliveredToQuiet` | |
| `ExitZeroCorrect` | `Spec => ExitZeroMeansGone` | |

`DistinctDiscoveries`: no discovery result has two sockets with one key.
`UniqueAtFirst`: the API does not hold two sockets of one key when the connector
first starts. Both are needed: without either the property is false.

The argument, invariant by invariant (`ConnectorInv`; all of them were checked
with TLC on the instances of `rounds` and `two_keys` before they were proved):

1. `TypeInv` = types, `Shape`, `TrackedUnderOwnKey`. A type alone is not
   inductive: that `round.view[round.cur].key` is a key depends on where the
   worker is. `Shape` says which locals are set at which program counter.
   `TrackedUnderOwnKey` is inductive with it, because only `Store` enters a
   Connection and a Connection in the map is not collected.
2. `ListingInv`: what the listing says stays true of what still exists. Ids are
   never issued again while anything refers to them (`Fresh`), so an id taken
   from a listing names the listed socket or nothing; data change by
   `UpdateSocket` only, which comes after the delete loop. So a socket about to
   be deleted is superseded *now*, and one about to be updated has the key it is
   updated for. With `StepEffect` (what any step can do to a socket) this gives
   `RemovesOnlySuperseded`.
3. `ServingInv`: targets, requests and goroutines took their id and key together
   from the listing or from `CreateSocket`; `StepEffect` keeps them true.
4. `StaleInv`: every superseded socket is still in `unchecked`, or is the one
   being deleted. `CreateSocket` and `UpdateSocket` write what was discovered,
   provided a key is discovered once. When the delete loop ends `unchecked` is
   empty.
5. `UniqueInv`: every key the worker is still going to create is free. After the
   listing, a key without an entry in the map is free (`UnmappedIsFree`), and the
   delete loop creates only under keys with an entry; deleting the only socket of
   a key frees it (`RecreatedIsFree`); creating one key of `todo` takes none of
   the others (`TodoIsFree`).

6. `UndisturbedInv`, for the refinement: as long as `faults = 0`, every listed socket
   that is gone is a superseded one the delete loop has done with (`ListedStand`), the
   socket being made exists (`MadeStands`), and every discovered key has a socket, is
   the one being recreated, or is still to be created (`DiscoveredIsHeld`). So a call of
   an undisturbed round can fail by 404 on a recreated socket's old id only, and when
   its loops are through nothing is missing. `MirrorProofs` then maps each step: the
   ones that change an entry are `CreateSocket`, `DeleteSocket` and `UserDeletes`, which
   `StaleInv` and `UniqueInv` say are `Add`, `Clear` and `Disturb`; of the others it is
   proved that they change neither `Entry` nor `Replaced`, and how they change the phase.

For `border0 run` (`RunAssumption`, and `OnlyDropsAndDeletes`: the faults are
`drop` and `userDelete`, the key file exists) the invariant is `CleanupInv`: a loop
has at most one socket, the one it last posted, and none when it posts
(`OneSocketPerLoop`); and both `socketId` and the id being deleted lie between
`atQuit` and the last id the loop posted (`InOrder`). So if the loop's only socket
is not newer than what the clean-up was asked for, it is the one deleted.

`RoundStep`, `RoundProgress` and `StepEffect` classify the steps once; the
preservation proofs are about these classes rather than about thirty actions.

*Policies* (`PartsProofs`). `PoliciesInv` has the types; every document under the name of
its policy (`OfItsName`); whose temporary file it is, and that a command which has its
file to itself reads its own user's document (`FilesInv`); where a call of
`ApplyPolicies` is between what it found and what it leaves (`CallInv`); and that
nobody else has changed the socket while the history says so (`AloneInv`). A call
attaches before it detaches and detaches only what it did not look up, which is
`NeverBare`; what is attached at each of its ends is one of `PolicyOutcomes`.

*Finds* (`FindProofs`). Of the network scan `NoneLost` says where an address that answers
is: still to be sent, in the hands of a worker, or in the slice, and that nothing else is
in the slice; `NoneTwice` that it is at one of these places only, once, if no two networks
share an address; `SliceInv` that at most one worker appends, and that the slice is what
this worker read, plus the element it is storing. All three are claimed while `clean`
holds, which a second append at once ends, and a dial that fails though it should not:
these are the two things the code does not guard against. `FindOK` and `ScanOK`, the
types, hold in any case: a slice that was torn between two appends still names an array
there is. When the workers have ended nothing is left to be sent or in hand, so the slice
is what was scanned; `NetworkHosts` says that these are the hosts. That is arithmetic
modulo powers of 2 and needs that 2^(m + n) = 2^m * 2^n and that 2^n is 1 for n = 0 only:
both follow from 2^n being the number of subsets of n things, the one fact about `^` the
library has. The other plugins' results are images of sets of
containers, instances, services or names under a map that is injective unless
`Ambiguous`; Kubernetes' needs `NamespacesInv`, what the namespaces passed so far gave.
The proof made `Ambiguous` name static maps that share a name.

*Shared files* (`FilesProofs`). `ProcsOK` says that a process is in the middle of its
program: what is still to do (`todo`) is in the order of the Go functions, and what a
step uses is in hand, so a token is there before it is saved and a key belongs to the
organization whose name it is stored under; `CertOfItsOrg` is inductive with it. For
`UndisturbedFilesRight` there is, file by file, `AloneInv` (on a file that is not
`dirty` at most one process writes, and then no other holds what it read of it), and what
the file and its writer have to do with each other: `PairsRight` (the pair being written
is the writer's own, half of it already there), `PrefsRight`, `HandedRight`, `ApiRight`.
Every process's step is one of a few kinds (it ends, goes on, opens or fills a file, is
interrupted), which is proved once (`StepAt`) and used for each kind of file.

*Foreground commands* (`ForegroundProofs`). `QuietInv`: if the near end stays, either
nothing has ended yet, in the relay or in the report of its end, or the far end is over
and all it said is accounted for: delivered, still to be read, or a tls client's one
last read, lost. `RelayInv` adds that what was delivered and what is
still to be read add up to no more than what was said; `ControlInv` that a KeepAlive
which still probes has misses left, without which `missed` would outgrow its type; `ErrInv`
that whoever is back from its DELETE has seen the socket go or has an error in `err`,
unless main is at its own DELETE with a fresh `err`. The proof made `ExitZeroMeansGone`
sharper than it was: main at its check is no exception.

What stays with TLC: the liveness properties (fairness and `ENABLED` are out of the
prover's reach), and the three violated ones, whose counterexamples are what they are for.
Every invariant and every action property of the passing runs is proved.

## 5. What is not modelled, and the plan

Left out for good: printing, flags, prompts, completion and logging; the commands that
send one request and print a table (`socket`, `tunnel`, `account`, `organization`,
`hosts`); the YAML parsing of the configuration; HTTP, JSON and TLS encoding; the
generated mocks. None of them keeps a state another part depends on. `PROJECT.json`
lists every part with its reason. Of the modelled parts, these details are left out: name
sanitising and the spelling of tags; the subnets of network interfaces; EC2's paging; a
host given in a label; torn words of a slice header; the window-size goroutine and the
certificate check of the SSH server; the local HTTP server of `internal/http/server.go`.

Planned: which of `Foreground`'s and `RunCommand`'s liveness properties rest on a safety
core that can be stated by itself (who may wait for whom), and its proof.
