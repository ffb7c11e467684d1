----------------------------- MODULE RunCommand -----------------------------
(***************************************************************************)
(* `border0 run` (cmd/run.go): a child process, two goroutines that each   *)
(* POST a socket and serve its tunnel for as long as the child lives, two  *)
(* clean-up goroutines that delete the sockets, and the main goroutine,    *)
(* which waits for the child, asks for the clean-up over two unbuffered    *)
(* channels and exits after the first clean-up or after two seconds.       *)
(*                                                                         *)
(* The sockets a loop has posted are numbered in the order the API issues  *)
(* them.  Time is abstract: a sleep, a back-off and the 2 s ticker end at  *)
(* some point.  Signals matter only through the end of the child, which    *)
(* gets all of them.                                                       *)
(***************************************************************************)
EXTENDS Naturals

CONSTANTS
    MaxIds,      \* sockets the API issues at most (a bound of the model)
    KeyFileAtFirst, \* the user's SSH key file at the start: "missing" or "written"
    FaultKinds,  \* the faults a model lets the environment inject
    MaxFaults    \* and how many of them

ASSUME RunAssumption ==
    /\ MaxIds \in Nat
    /\ MaxFaults \in Nat
    /\ KeyFileAtFirst \in {"missing", "written"}

Ids == 1..MaxIds
None == 0                \* no socket: the empty string
Torn == MaxIds + 1       \* a string whose length is stored and whose bytes are not

\* createSocketStartTunnel and createHTTPSocketStartTunnel.
Loops == {"ssh", "http"}

\* Where a loop is.  "answered": the POST has returned; "storing": it writes
\* socketId, two words; "policies", "prepare": the calls before SshConnect;
\* "tunnel" to "session": in SshConnect.
LoopPC == {"post", "answered", "storing", "policies", "prepare", "tunnel",
           "key", "create", "fill", "sign", "session"}

MainPC == {"wait", "quitSsh", "quitHttp", "select", "linger", "exited"}
CleanerPC == {"wait", "test", "use", "delete", "report", "done"}

VARIABLES
    child,     \* is the child process running
    main,      \* where runCmd.Run is
    loop,      \* where each loop is, and c.SocketID
    socketId,  \* the variable a loop shares with its clean-up goroutine
    cleaner,   \* where each clean-up goroutine is
    target,    \* the id each of them deletes
    api,       \* the loop each socket was posted by, None once it is deleted
    issued,    \* the number of ids issued
    keyFile,   \* ~/.border0/user_<id>
    atQuit,    \* history: socketId when the clean-up goroutine got its request
    faults

loopVars == <<loop, socketId, keyFile>>
cleanVars == <<cleaner, target, atQuit>>
apiVars == <<api, issued>>
vars == <<child, main, loop, socketId, cleaner, target, api, issued, keyFile,
          atQuit, faults>>

-----------------------------------------------------------------------------
Init ==
    /\ child = "running"
    /\ main = "wait"
    /\ loop = [l \in Loops |-> [pc |-> "post", id |-> None]]
    /\ socketId = [l \in Loops |-> None]
    /\ cleaner = [l \in Loops |-> "wait"]
    /\ target = [l \in Loops |-> None]
    /\ api = [i \in Ids |-> "none"]
    /\ issued = 0
    /\ keyFile = KeyFileAtFirst
    /\ atQuit = [l \in Loops |-> None]
    /\ faults = 0

Exists(i) == i \in Ids /\ api[i] # "none"

Fault(kind) ==
    /\ kind \in FaultKinds
    /\ faults < MaxFaults
    /\ faults' = faults + 1

\* The process is there and loop l is at pc.
At(l, pc) == main # "exited" /\ loop[l].pc = pc

Goto(l, pc) == loop' = [loop EXCEPT ![l].pc = pc]

\* A step of loop l that touches nothing but its own program counter.
Moves(l, pc) ==
    /\ Goto(l, pc)
    /\ UNCHANGED <<child, main, socketId, keyFile, cleanVars, apiVars>>

\* The process ends with everything in it.
Dies ==
    /\ main' = "exited"
    /\ UNCHANGED <<child, loopVars, cleanVars, apiVars>>

-----------------------------------------------------------------------------
(* The loops.  An error goes back to the POST, whether RetryNotify tries     *)
(* again or gives up: the for loop starts it anew.  SshConnect's error is    *)
(* dropped, with the same result.                                            *)

\* POST connect: the API issues a socket with its tunnel.
Connect(l) ==
    /\ At(l, "post")
    /\ issued < MaxIds
    /\ issued' = issued + 1
    /\ api' = [api EXCEPT ![issued + 1] = l]
    /\ \/ /\ loop' = [loop EXCEPT ![l] = [pc |-> "answered", id |-> issued + 1]]
          /\ UNCHANGED faults
       \/ Fault("lost") /\ UNCHANGED loop
    /\ UNCHANGED <<child, main, socketId, keyFile, cleanVars>>

\* No token, or the POST fails: back-off, and again.
ConnectFails(l) ==
    /\ At(l, "post")
    /\ Fault("token") \/ Fault("api")
    /\ Moves(l, "post")

\* socketId = c.SocketID, read by the clean-up goroutine without a lock.
BeginStore(l) ==
    /\ At(l, "answered")
    /\ Moves(l, "storing")
    /\ UNCHANGED faults

EndStore(l) ==
    /\ At(l, "storing")
    /\ socketId' = [socketId EXCEPT ![l] = loop[l].id]
    /\ Goto(l, "policies")
    /\ UNCHANGED <<child, main, keyFile, cleanVars, apiVars, faults>>

GetPolicies(l) ==
    /\ At(l, "policies")
    /\ Moves(l, "prepare")
    /\ UNCHANGED faults

\* The SSH loop tries again, the HTTP loop calls log.Fatalf.
GetPoliciesFails(l) ==
    /\ At(l, "policies")
    /\ Fault("api")
    /\ IF l = "http" THEN Dies ELSE Moves(l, "post")

\* The user's id from the token, the organization and its certificates.
Prepare(l) ==
    /\ At(l, "prepare")
    /\ \/ Moves(l, "tunnel") /\ UNCHANGED faults
       \/ (Fault("api") \/ Fault("token")) /\ Moves(l, "post")

\* SshConnect: GetTunnel; a socket that is gone is a 404.
GetTunnel(l) ==
    /\ At(l, "tunnel")
    /\ \/ Exists(loop[l].id) /\ Moves(l, "key") /\ UNCHANGED faults
       \/ ~Exists(loop[l].id) /\ Moves(l, "post") /\ UNCHANGED faults
       \/ (Fault("api") \/ Fault("token")) /\ Moves(l, "post")

\* log.Fatalf on an identity file or a proxy URL that cannot be read.
FatalConfig(l) ==
    /\ At(l, "tunnel")
    /\ Fault("config")
    /\ Dies

\* getSshCert: both loops use the key file of the one user.
FindKey(l) ==
    /\ At(l, "key")
    /\ Moves(l, IF keyFile = "missing" THEN "create" ELSE "sign")
    /\ UNCHANGED faults

\* ioutil.WriteFile truncates, then writes.
CreateKey(l) ==
    /\ At(l, "create")
    /\ keyFile' = "empty"
    /\ Goto(l, "fill")
    /\ UNCHANGED <<child, main, socketId, cleanVars, apiVars, faults>>

FillKey(l) ==
    /\ At(l, "fill")
    /\ keyFile' = "written"
    /\ Goto(l, "sign")
    /\ UNCHANGED <<child, main, socketId, cleanVars, apiVars, faults>>

\* Read the key, have it signed: ready to connect.
Sign(l) ==
    /\ At(l, "sign")
    /\ keyFile = "written"
    /\ Exists(loop[l].id)
    /\ Moves(l, "session")
    /\ UNCHANGED faults

\* Mutant of SignFails: the error ends the loop.
SignFailsReturns(l) ==
    /\ At(l, "sign")
    /\ \/ ~Exists(loop[l].id) /\ UNCHANGED faults
       \/ Fault("api")
    /\ Moves(l, "returned")

\* ErrFailedToGetSshCert: ten requests fail, the socket is gone, or the file
\* was read between the other loop's truncation and its write.
SignFails(l) ==
    /\ At(l, "sign")
    /\ \/ ~Exists(loop[l].id) /\ UNCHANGED faults
       \/ Fault("api") \/ Fault("token")
       \/ keyFile = "empty" /\ Fault("torn")
    /\ Moves(l, "post")

\* sshConnect returns, whatever the reason: SshConnect asks for a new
\* certificate and connects the same tunnel again.
SessionEnds(l) ==
    /\ At(l, "session")
    /\ \/ Fault("drop")
       \/ ~Exists(loop[l].id) /\ UNCHANGED faults
    /\ Moves(l, "key")

-----------------------------------------------------------------------------
(* The main goroutine.                                                       *)

\* process.Wait() returns.
ChildEnds ==
    /\ child = "running"
    /\ main # "exited"
    /\ child' = "ended"
    /\ UNCHANGED <<main, loopVars, cleanVars, apiVars, faults>>

Waited ==
    /\ main = "wait"
    /\ child = "ended"
    /\ main' = "quitSsh"
    /\ UNCHANGED <<child, loopVars, cleanVars, apiVars, faults>>

\* A send on an unbuffered channel: the clean-up goroutine has it at once.
Quit(l, next) ==
    /\ cleaner[l] = "wait"
    /\ cleaner' = [cleaner EXCEPT ![l] = "test"]
    /\ atQuit' = [atQuit EXCEPT ![l] = socketId[l]]
    /\ main' = next
    /\ UNCHANGED <<child, loopVars, target, apiVars, faults>>

QuitSsh == main = "quitSsh" /\ Quit("ssh", "quitHttp")
QuitHttp == main = "quitHttp" /\ Quit("http", "select")

\* <-cleanupDone from one of the two; the other stays blocked on its send.
CleanupDone(l) ==
    /\ main = "select"
    /\ cleaner[l] = "report"
    /\ cleaner' = [cleaner EXCEPT ![l] = "done"]
    /\ main' = "linger"
    /\ UNCHANGED <<child, loopVars, target, atQuit, apiVars, faults>>

\* The 100 ms after it are over.
Exit ==
    /\ main = "linger"
    /\ Dies
    /\ UNCHANGED faults

\* Mutant of Timeout: the ticker is checked only after a clean-up has reported.
TimeoutAfterReport ==
    /\ main = "select"
    /\ \E l \in Loops : cleaner[l] = "report"
    /\ Dies
    /\ UNCHANGED faults

\* The 2 s ticker fires.
Timeout ==
    /\ main = "select"
    /\ Dies
    /\ UNCHANGED faults

-----------------------------------------------------------------------------
(* The clean-up goroutines.                                                  *)

\* What a read of socketId can see: while the loop stores it, the old value,
\* the new one, or the new length with the old, null pointer.
Reads(l) ==
    {socketId[l]}
    \cup IF loop[l].pc # "storing" THEN {}
         ELSE {loop[l].id} \cup (IF socketId[l] = None THEN {Torn} ELSE {})

Cleans(l, pc) == main # "exited" /\ cleaner[l] = pc

\* Mutant of Test: the goroutine captured socketId when it was started.
TestCaptured(l) ==
    /\ Cleans(l, "test")
    /\ cleaner' = [cleaner EXCEPT ![l] = "report"]
    /\ UNCHANGED <<child, main, loopVars, target, atQuit, apiVars, faults>>

\* if socketId != "".
Test(l) ==
    /\ Cleans(l, "test")
    /\ \E v \in Reads(l) :
         cleaner' = [cleaner EXCEPT ![l] = IF v = None THEN "report" ELSE "use"]
    /\ UNCHANGED <<child, main, loopVars, target, atQuit, apiVars, faults>>

\* Mutant of Use: the string is sent on as it was read.
UseUnchecked(l) ==
    /\ Cleans(l, "use")
    /\ \E v \in Reads(l) :
         /\ target' = [target EXCEPT ![l] = v]
         /\ cleaner' = [cleaner EXCEPT ![l] = "delete"]
    /\ UNCHANGED <<child, main, loopVars, atQuit, apiVars, faults>>

\* A second read builds the URL; a null pointer ends the process.
Use(l) ==
    /\ Cleans(l, "use")
    /\ \E v \in Reads(l) :
         \/ v = Torn /\ Dies
         \/ /\ v # Torn
            /\ target' = [target EXCEPT ![l] = v]
            /\ cleaner' = [cleaner EXCEPT ![l] = "delete"]
            /\ UNCHANGED <<child, main, loopVars, atQuit, apiVars>>
    /\ UNCHANGED faults

\* NewClient's error is dropped and the nil client is used: a panic.
NilClient(l) ==
    /\ Cleans(l, "use")
    /\ Fault("token")
    /\ Dies

\* DELETE socket/<id>: an error is logged.
Delete(l) ==
    /\ Cleans(l, "delete")
    /\ \/ /\ api' = [i \in Ids |-> IF i = target[l] THEN "none" ELSE api[i]]
          /\ UNCHANGED faults \/ Fault("lost")
       \/ Fault("api") /\ UNCHANGED api
    /\ cleaner' = [cleaner EXCEPT ![l] = "report"]
    /\ UNCHANGED <<child, main, loopVars, target, atQuit, issued>>

-----------------------------------------------------------------------------
\* Somebody deletes the socket in the portal.
UserDeletes(i) ==
    /\ main # "exited"
    /\ Exists(i)
    /\ Fault("userDelete")
    /\ api' = [api EXCEPT ![i] = "none"]
    /\ UNCHANGED <<child, main, loopVars, cleanVars, issued>>

LoopStep(l) ==
    \/ Connect(l) \/ ConnectFails(l) \/ BeginStore(l) \/ EndStore(l)
    \/ GetPolicies(l) \/ GetPoliciesFails(l) \/ Prepare(l)
    \/ GetTunnel(l) \/ FatalConfig(l)
    \/ FindKey(l) \/ CreateKey(l) \/ FillKey(l) \/ Sign(l) \/ SignFails(l)

CleanerStep(l) == Test(l) \/ Use(l) \/ NilClient(l) \/ Delete(l)

MainStep ==
    \/ Waited \/ QuitSsh \/ QuitHttp \/ Exit \/ Timeout
    \/ \E l \in Loops : CleanupDone(l)

Next ==
    \/ MainStep
    \/ ChildEnds
    \/ \E l \in Loops : LoopStep(l) \/ SessionEnds(l) \/ CleanerStep(l)
    \/ \E i \in Ids : UserDeletes(i)

Spec == Init /\ [][Next]_vars

\* The main goroutine is scheduled and the ticker fires; a request need never
\* be answered (http.DefaultClient has no timeout).
ExitSpec == Spec /\ WF_vars(MainStep)

\* The loops are scheduled as well and their requests are answered.
LoopsRun == \A l \in Loops : WF_vars(LoopStep(l))

-----------------------------------------------------------------------------
TypeOK ==
    /\ child \in {"running", "ended"}
    /\ main \in MainPC
    /\ loop \in [Loops -> [pc : LoopPC, id : Ids \cup {None}]]
    /\ socketId \in [Loops -> Ids \cup {None}]
    /\ cleaner \in [Loops -> CleanerPC]
    /\ target \in [Loops -> Ids \cup {None}]
    /\ api \in [Ids -> Loops \cup {"none"}]
    /\ issued \in 0..MaxIds
    /\ keyFile \in {"missing", "empty", "written"}
    /\ atQuit \in [Loops -> Ids \cup {None}]
    /\ faults \in 0..MaxFaults

\* A clean-up goroutine that has finished leaves no socket of its loop that
\* existed when it was asked for, as long as sessions only drop and sockets
\* only get deleted: the loop replaces a socket only once it is gone, and the
\* unsynchronised socketId is the latest when it is read (run.go:136-148).
CleanupLeavesOnlyLater ==
    \A l \in Loops :
        cleaner[l] \in {"report", "done"} /\ atQuit[l] # None =>
            \A i \in Ids : api[i] = l => i > atQuit[l]

\* "if done, then cleanup.. this makes sure we don't leave any sockets
\* orphans" (run.go:110): at the latest when one clean-up has been received
\* and the other has finished too, nothing is left.
NoOrphans ==
    /\ main = "exited"
    /\ \A l \in Loops : cleaner[l] \in {"report", "done"}
    /\ \E l \in Loops : cleaner[l] = "done"
    => \A i \in Ids : ~Exists(i)

\* Once the child has ended `border0 run` ends, though a DELETE may hang, one
\* of the clean-up goroutines is never listened to again and both requests are
\* sent on unbuffered channels (run.go:110-129).
EventuallyExits == child = "ended" ~> main = "exited"

\* While the child runs both tunnels are up again after any failure that does
\* not end the process, if requests are answered (run.go:152-245,
\* handler.go:171-265).
EventuallyServes ==
    LoopsRun => <>[](\/ child = "ended"
                     \/ main = "exited"
                     \/ \A l \in Loops : loop[l].pc = "session")

-----------------------------------------------------------------------------
(* The invariant behind CleanupLeavesOnlyLater.                              *)

\* The environment it is stated for.
OnlyDropsAndDeletes ==
    /\ FaultKinds \subseteq {"drop", "userDelete"}
    /\ KeyFileAtFirst = "written"

\* The loop's socket is the only one it has, and it has none when it posts.
OneSocketPerLoop ==
    \A l \in Loops, i \in Ids :
        api[i] = l => i = loop[l].id /\ loop[l].pc # "post"

\* The ids grow along: what the clean-up was asked for, what it deletes, what
\* the loop has stored, what it has posted, what is issued.
InOrder ==
    \A l \in Loops :
        /\ atQuit[l] <= socketId[l]
        /\ socketId[l] <= loop[l].id
        /\ loop[l].id <= issued
        /\ loop[l].pc \notin {"answered", "storing"} => socketId[l] = loop[l].id
        /\ cleaner[l] = "delete" => atQuit[l] <= target[l] /\ target[l] <= loop[l].id
        /\ cleaner[l] = "wait" => atQuit[l] = None

\* Nobody writes the key file.
KeyIsThere ==
    /\ keyFile = "written"
    /\ \A l \in Loops : loop[l].pc \notin {"create", "fill"}

CleanupInv ==
    /\ TypeOK
    /\ KeyIsThere
    /\ OneSocketPerLoop
    /\ InOrder
    /\ CleanupLeavesOnlyLater
=============================================================================
