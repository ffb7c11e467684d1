------------------------------ MODULE Policies ------------------------------
(***************************************************************************)
(* The policies of one socket: the connector's policy manager, call by     *)
(* call (policy_manager.go, and the comparison in CheckAndUpdateSocket     *)
(* that runs it), and the users' `border0 policy` commands beside it.      *)
(*                                                                         *)
(* A policy has a name and the id it was created with; a deleted one is    *)
(* gone from every socket, and a request that names it is refused.  The    *)
(* file a command edits is TempDir/<name>.json, of whoever edits that name *)
(* on the machine; its text is a sequence of JSON documents, and what a    *)
(* user makes of a document is [by, of].                                   *)
(***************************************************************************)
EXTENDS PartFaults, Sequences, FiniteSets, SequencesExt, PolicySets

CONSTANTS
    Names,        \* names of policies
    MaxId,        \* bound: ids of one name
    Wishes,       \* what the configuration may list for the socket
    Users         \* each runs one command, on one machine

Ids == Names \X (1..MaxId)
Ops == {"attach", "detach", "delete", "edit", "add"}
Document == [by : Users \cup {None}, of : Names]

VARIABLES
    policy,    \* [id, text] of each name, or None
    attached,  \* ids on the socket
    wish,      \* localPolicies, sorted: CheckAndUpdateSocket sorts the list
    manager,   \* ApplyPolicies' local variables
    file,      \* the temporary file of each name, or None
    cmd        \* the users' commands

policyVars == <<policy, attached, wish, manager, file, cmd>>

\* listed: socket.Policies; take: policiesToAttach; held: what was attached
\* when the call began; alone: no user changed a policy or the socket since.
Manager == [pc : {"rest", "lookup", "attach", "detach"},
            todo : Seq(Names), listed : SUBSET Ids, take : SUBSET Ids,
            held : SUBSET Names, missed : BOOLEAN, alone : BOOLEAN]

NoManager == [pc |-> "rest", todo |-> <<>>, listed |-> {}, take |-> {},
              held |-> {}, missed |-> FALSE, alone |-> FALSE]

CmdPC == {"idle", "find", "request", "create", "fill", "open", "save", "read",
          "send", "ok", "failed"}

\* got: the policy found; seen: its document, or the template; text: what the
\* command or its editor has read; temp: it uses the temporary file; mine:
\* nobody else did meanwhile.
Command == [op : Ops \cup {None}, name : Names \cup {None}, pc : CmdPC,
            got : Ids \cup {None}, seen : Document \cup {None},
            text : Seq(Document), temp : BOOLEAN, mine : BOOLEAN]

NoCommand == [op |-> None, name |-> None, pc |-> "idle", got |-> None,
              seen |-> None, text |-> <<>>, temp |-> FALSE, mine |-> TRUE]

Original(n) == [by |-> None, of |-> n]
NamesOf(S) == {i[1] : i \in S}
Named(n) == policy[n] # None
IdOf(n) == policy[n].id
Live(i) == policy[i[1]] # None /\ policy[i[1]].id = i

OnlyManager == UNCHANGED <<policy, wish, file, cmd>>

-----------------------------------------------------------------------------
(* CheckAndUpdateSocket and ApplyPolicies *)

ManagerDone == [manager EXCEPT !.pc = "rest", !.todo = <<>>]

\* A round that finds other policies on the socket than those it wants, or
\* another field to write.  An empty list is ErrEmptyPolicyList and changes
\* nothing.
List ==
    /\ manager.pc = "rest"
    /\ wish # <<>>
    /\ manager' = [pc |-> "lookup", todo |-> wish, listed |-> attached, take |-> {},
                   held |-> NamesOf(attached), missed |-> FALSE, alone |-> TRUE]
    /\ UNCHANGED attached /\ UNCHANGED faults /\ OnlyManager

\* Mutant: a policy that was not found is used all the same.
LookUpNotSkipped ==
    /\ manager.pc = "lookup" /\ manager.todo # <<>>
    /\ LET n == Head(manager.todo)
       IN  manager' = [manager EXCEPT !.todo = Tail(@),
                         !.take = @ \cup {IF Named(n) THEN IdOf(n) ELSE None}]
    /\ UNCHANGED <<attached, faults>> /\ OnlyManager

\* GetPolicyByName; not found, or failed, is skipped.
LookUp ==
    /\ manager.pc = "lookup" /\ manager.todo # <<>>
    /\ LET n == Head(manager.todo)
           next == [manager EXCEPT !.todo = Tail(@)]
       IN  \/ /\ Named(n) /\ UNCHANGED faults
              /\ manager' = [next EXCEPT !.take = @ \cup {IdOf(n)}]
           \/ /\ (~Named(n) /\ UNCHANGED faults) \/ Fault("lookup")
              /\ manager' = [next EXCEPT !.missed = TRUE]
    /\ UNCHANGED attached /\ OnlyManager

\* Mutant: everything listed is detached.
StaleAll == manager.listed

\* The listed ones whose name is not configured.
Stale == {i \in manager.listed : i[1] \notin ToSet(wish)}

\* Mutant of LookedUp: detach before attach.
LookedUpDetachFirst ==
    /\ manager.pc = "lookup" /\ manager.todo = <<>>
    /\ attached' = attached \ Stale
    /\ manager' = [manager EXCEPT !.pc = IF manager.take = {} THEN "detach" ELSE "attach"]
    /\ UNCHANGED faults /\ OnlyManager

\* Nothing found: nothing to attach.
LookedUp ==
    /\ manager.pc = "lookup" /\ manager.todo = <<>>
    /\ manager' = [manager EXCEPT !.pc = IF manager.take = {} THEN "detach" ELSE "attach"]
    /\ UNCHANGED attached /\ UNCHANGED faults /\ OnlyManager

\* A PUT of the ids `S` that makes the socket's policies `after`.  An error ends
\* the call; ids that are gone are refused or ignored.
Put(S, after, next) ==
    \/ /\ attached' = {i \in after : Live(i)}
       /\ manager' = next /\ UNCHANGED faults
    \/ /\ (UNCHANGED faults /\ \E i \in S : ~Live(i)) \/ Fault("api")
       /\ manager' = ManagerDone /\ UNCHANGED attached
    \/ /\ Fault("lost")
       /\ attached' = {i \in after : Live(i)} /\ manager' = ManagerDone

AttachPolicies ==
    /\ manager.pc = "attach"
    /\ Put(manager.take, attached \cup manager.take, [manager EXCEPT !.pc = "detach"])
    /\ OnlyManager

\* Mutant: the stale policies are left.
DetachPoliciesNot ==
    /\ manager.pc = "detach"
    /\ manager' = ManagerDone
    /\ UNCHANGED <<attached, faults>> /\ OnlyManager

DetachPolicies ==
    /\ manager.pc = "detach"
    /\ IF Stale = {} THEN manager' = ManagerDone /\ UNCHANGED <<attached, faults>>
       ELSE Put(Stale, attached \ Stale, ManagerDone)
    /\ OnlyManager

-----------------------------------------------------------------------------
(* border0 policy attach, detach, delete, edit, add *)

Becomes(u, next) == cmd' = [cmd EXCEPT ![u] = next]
Goes(u, pc) == Becomes(u, [cmd[u] EXCEPT !.pc = pc])
Ends(u, how) == Becomes(u, [NoCommand EXCEPT !.pc = how])
CmdAt(u, pc) == cmd[u].pc = pc

\* The manager's call now has company.
Disturb == manager' = [manager EXCEPT !.alone = FALSE]

OnlyCmd == UNCHANGED <<policy, attached, wish, manager, file>>

\* A user starts a command; add asks for no policy.
RunCommand(u) ==
    /\ CmdAt(u, "idle")
    /\ \E op \in Ops, n \in Names :
         Becomes(u, [NoCommand EXCEPT !.op = op, !.name = n,
                       !.pc = IF op = "add" THEN "create" ELSE "find",
                       !.seen = IF op = "add" THEN Original(n) ELSE None])
    /\ UNCHANGED faults /\ OnlyCmd

\* findPolicyByName: log.Fatal for an error.
FindPolicyByName(u) ==
    /\ CmdAt(u, "find")
    /\ LET n == cmd[u].name
       IN  \/ /\ Named(n) /\ UNCHANGED faults
              /\ Becomes(u, [cmd[u] EXCEPT !.got = IdOf(n), !.seen = policy[n].text,
                               !.pc = IF cmd[u].op = "edit" THEN "create" ELSE "request"])
           \/ /\ (~Named(n) /\ UNCHANGED faults) \/ Fault("api")
              /\ Ends(u, "failed")
    /\ OnlyCmd

\* A request of the command: it is refused, fails, or takes effect, and then its
\* answer may be lost.
Refused(u, possible) ==
    /\ (~possible /\ UNCHANGED faults) \/ Fault("api")
    /\ Ends(u, "failed")
    /\ OnlyCmd

Answered(u) ==
    \/ Ends(u, "ok") /\ UNCHANGED faults
    \/ Ends(u, "failed") /\ Fault("lost")

\* policyAttach, policyDettach: PUT policy/<id>/socket.
SetSocket(u) ==
    /\ CmdAt(u, "request") /\ cmd[u].op \in {"attach", "detach"}
    /\ \/ Refused(u, Live(cmd[u].got))
       \/ /\ Live(cmd[u].got)
          /\ attached' = IF cmd[u].op = "attach" THEN attached \cup {cmd[u].got}
                                                 ELSE attached \ {cmd[u].got}
          /\ Answered(u)
          /\ Disturb /\ UNCHANGED <<policy, wish, file>>

\* policyDelete: DELETE policy/<id>.
DeletePolicy(u) ==
    /\ CmdAt(u, "request") /\ cmd[u].op = "delete"
    /\ \/ Refused(u, Live(cmd[u].got))
       \/ /\ Live(cmd[u].got)
          /\ policy' = [policy EXCEPT ![cmd[u].name] = None]
          /\ attached' = attached \ {cmd[u].got}
          /\ Answered(u)
          /\ Disturb /\ UNCHANGED <<wish, file>>

\* --policy-file: the text is the user's.
ReadPolicyFile(u) ==
    /\ CmdAt(u, "create")
    /\ Becomes(u, [cmd[u] EXCEPT !.pc = "send",
                     !.text = <<[by |-> u, of |-> cmd[u].name]>>])
    /\ UNCHANGED faults /\ OnlyCmd

\* Commands that use the temporary file of the name now.
Sharing(n) == {u \in Users : cmd[u].temp /\ cmd[u].name = n
                             /\ cmd[u].pc \in {"fill", "open", "save", "read", "send"}}

\* Mutant: an existing file is opened as it is.
TruncatedNot(n) == IF file[n] = None THEN <<>> ELSE file[n]
Truncated(n) == <<>>

\* os.Create.
CreateFile(u) ==
    /\ CmdAt(u, "create")
    /\ LET n == cmd[u].name
       IN  /\ file' = [file EXCEPT ![n] = Truncated(n)]
           /\ cmd' = [v \in Users |->
                  IF v = u THEN [cmd[u] EXCEPT !.pc = "fill", !.temp = TRUE,
                                               !.mine = Sharing(n) = {}]
                  ELSE IF v \in Sharing(n) THEN [cmd[v] EXCEPT !.mine = FALSE]
                  ELSE cmd[v]]
    /\ UNCHANGED <<policy, attached, wish, manager, faults>>

\* os.OpenFile with O_APPEND, and without O_CREATE.
FillFile(u) ==
    /\ CmdAt(u, "fill")
    /\ LET n == cmd[u].name
       IN  IF file[n] = None THEN Ends(u, "failed") /\ UNCHANGED file
           ELSE Goes(u, "open") /\ file' = [file EXCEPT ![n] = Append(@, cmd[u].seen)]
    /\ UNCHANGED <<policy, attached, wish, manager, faults>>

\* The deferred os.Remove of edit; log.Fatal skips it.
Removed(u) == IF cmd[u].op = "edit" /\ cmd[u].temp THEN [file EXCEPT ![cmd[u].name] = None]
                                                  ELSE file

\* The editor opens the file, a new one when it is gone; or does not start.
EditorOpens(u) ==
    /\ CmdAt(u, "open")
    /\ \/ /\ Becomes(u, [cmd[u] EXCEPT !.pc = "save",
                            !.text = IF file[cmd[u].name] = None THEN <<>>
                                     ELSE file[cmd[u].name]])
          /\ UNCHANGED <<file, faults>>
       \/ /\ Fault("editor")
          /\ Ends(u, "failed") /\ file' = Removed(u)
    /\ UNCHANGED <<policy, attached, wish, manager>>

\* The user changes the one document there is, and saves; or quits.
EditorSaves(u) ==
    /\ CmdAt(u, "save")
    /\ \/ /\ Len(cmd[u].text) = 1
          /\ file' = [file EXCEPT ![cmd[u].name] =
                        <<[by |-> u, of |-> Head(cmd[u].text).of]>>]
       \/ UNCHANGED file
    /\ Goes(u, "read")
    /\ UNCHANGED <<policy, attached, wish, manager, faults>>

\* os.Open and ReadAll, after the editor.
ReadFile(u) ==
    /\ CmdAt(u, "read")
    /\ IF file[cmd[u].name] = None THEN Ends(u, "failed")
       ELSE Becomes(u, [cmd[u] EXCEPT !.pc = "send", !.text = file[cmd[u].name]])
    /\ UNCHANGED faults /\ OnlyCmd

\* json.Unmarshal, log.Fatal for what is not one document.
BadJson(u) ==
    /\ CmdAt(u, "send") /\ Len(cmd[u].text) # 1
    /\ Ends(u, "failed")
    /\ UNCHANGED faults /\ OnlyCmd

\* policyEditCmd: PUT policy/<id>, whatever became of it since it was read.
UpdatePolicy(u) ==
    /\ CmdAt(u, "send") /\ cmd[u].op = "edit" /\ Len(cmd[u].text) = 1
    /\ \/ Refused(u, Live(cmd[u].got))
       \/ /\ Live(cmd[u].got)
          /\ policy' = [policy EXCEPT ![cmd[u].name].text = Head(cmd[u].text)]
          /\ Answered(u)
          /\ file' = IF cmd'[u].pc = "ok" THEN Removed(u) ELSE file
          /\ UNCHANGED <<attached, wish, manager>>

\* An id nothing refers to: the API issues every id once.
Fresh(i) == /\ ~Live(i) /\ i \notin manager.listed \cup manager.take
            /\ \A u \in Users : cmd[u].got # i

\* policyAddCmd: POST policies; a name that exists is refused.
AddPolicy(u) ==
    /\ CmdAt(u, "send") /\ cmd[u].op = "add" /\ Len(cmd[u].text) = 1
    /\ LET n == cmd[u].name
       IN  \/ Refused(u, ~Named(n))
           \/ /\ ~Named(n)
              /\ \E i \in Ids :
                   /\ i[1] = n /\ Fresh(i)
                   /\ policy' = [policy EXCEPT ![n] = [id |-> i, text |-> Head(cmd[u].text)]]
              /\ Answered(u)
              /\ Disturb /\ UNCHANGED <<attached, wish, file>>

\* Ctrl-C.
Kill(u) ==
    /\ cmd[u].pc \notin {"idle", "ok", "failed"}
    /\ Fault("kill")
    /\ Ends(u, "failed") /\ OnlyCmd

CmdStep(u) ==
    \/ RunCommand(u) \/ FindPolicyByName(u) \/ SetSocket(u) \/ DeletePolicy(u)
    \/ ReadPolicyFile(u) \/ CreateFile(u) \/ FillFile(u) \/ EditorOpens(u)
    \/ EditorSaves(u) \/ ReadFile(u) \/ BadJson(u) \/ UpdatePolicy(u)
    \/ AddPolicy(u) \/ Kill(u)

-----------------------------------------------------------------------------
ManagerStep == List \/ LookUp \/ LookedUp \/ AttachPolicies \/ DetachPolicies
=============================================================================
