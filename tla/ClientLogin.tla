---------------------------- MODULE ClientLogin ----------------------------
(***************************************************************************)
(* The client token and the preferences: MTLSLogin, which every client     *)
(* command starts with, Login and PickHost, and the reads and writes of    *)
(* the preference file around them (internal/client, client/preference).   *)
(*                                                                         *)
(* A request changes no file: its outcome is part of the step that uses it. *)
(***************************************************************************)
EXTENDS HomeFiles

\* The token of the environment goes before the one in the file.
TokenOf(p) == IF plan[p].env # None THEN plan[p].env ELSE token["client"]

\* The token parses and its date is not past.
Valid(t) == t \in Token /\ t.live

\* FetchResource: a host is known to its own organization only.
Admits(t, p) == Valid(t) /\ t.of = plan[p].org

\* FetchResources: the hosts of the token's organization.
Lists(t, p) == t.of = plan[p].org

\* ReadTokenOrAskToLogIn: the user logs in to the host's organization first.
AskToLogIn(p) == ~plan[p].host /\ Goto(p, "authorize") /\ UNCHANGED faults

\* PickHost: a host named on the command line is taken as it is if the token
\* is not valid; otherwise it is looked up, or picked, among the hosts of the
\* token's organization, and the user gives up if it is not there.
PickHost(p) ==
    /\ At(p, "pickHost")
    /\ LET t == TokenOf(p)
       IN  IF ~Valid(t)
           THEN \/ plan[p].host /\ Return(p) /\ UNCHANGED faults
                \/ AskToLogIn(p)
           ELSE \/ Lists(t, p) /\ Return(p) /\ UNCHANGED faults
                \/ ~Lists(t, p) /\ End(p) /\ UNCHANGED faults
                \/ Fault("api") /\ End(p)
    /\ NoFile

-----------------------------------------------------------------------------
(* MTLSLogin.  An expired token of the environment is an error, one in the   *)
(* file the same as none.                                                    *)

ReadToken(p) ==
    /\ At(p, "readToken")
    /\ LET env == plan[p].env
           refused == env # None /\ ~env.live
       IN  \/ refused /\ End(p) /\ UNCHANGED faults
           \/ Admits(TokenOf(p), p) /\ Return(p) /\ UNCHANGED faults
           \/ ~Admits(TokenOf(p), p) /\ ~refused /\ Goto(p, "launch") /\ UNCHANGED faults
           \/ ~refused /\ Fault("api") /\ Goto(p, "launch")
    /\ NoFile

\* os.Create truncates a token file before it is written.
NewClientToken(p) ==
    /\ token' = [token EXCEPT !["client"] = Torn]
    /\ Become(p, [proc[p] EXCEPT
         !.pc = "fillToken", !.tok = [of |-> plan[p].org, live |-> TRUE]])

\* Launch: the browser answers with a token of the host's organization; when
\* it does not answer within a minute, or with an error, the process exits.
Launch(p) ==
    /\ At(p, "launch")
    /\ \/ NewClientToken(p) /\ UNCHANGED faults
       \/ Fault("login") /\ End(p) /\ UNCHANGED token
    /\ UNCHANGED <<plan, keyFile, crtFile, prefs, handed>>

-----------------------------------------------------------------------------
(* Login: a code from the API that the user takes to the browser, and polls  *)
(* for its answer, a bounded number of times.                                *)

Authorize(p) ==
    /\ At(p, "authorize")
    /\ \/ Goto(p, "poll") /\ UNCHANGED faults
       \/ Fault("api") /\ End(p)
    /\ NoFile

\* Not authorized, or still waiting at the last attempt: the process exits.
PollForToken(p) ==
    /\ At(p, "poll")
    /\ \/ NewClientToken(p) /\ UNCHANGED faults
       \/ Fault("login") /\ End(p) /\ UNCHANGED token
    /\ UNCHANGED <<plan, keyFile, crtFile, prefs, handed>>

-----------------------------------------------------------------------------
(* The token that has been received is written to the truncated file.  Of    *)
(* two tokens written over one another the longer one's tail may stay.       *)

TokenFile(p) == IF plan[p].cmd \in ApiCmds THEN "api" ELSE "client"

SaveToken(p) ==
    /\ At(p, "fillToken")
    /\ \E v \in {proc[p].tok} \cup (IF token[TokenFile(p)] = Torn THEN {} ELSE {Torn}) :
         token' = [token EXCEPT ![TokenFile(p)] = v]
    /\ GoOn(p, [proc[p] EXCEPT !.tok = None])
    /\ UNCHANGED <<plan, keyFile, crtFile, prefs, handed, faults>>

-----------------------------------------------------------------------------
(* The preference file *)

\* Mutant: an update that starts from an empty preference.
ReadPrefNot(p) ==
    /\ At(p, "readPref")
    /\ GoOn(p, [proc[p] EXCEPT !.pref = {p}])
    /\ NoFile /\ UNCHANGED faults

\* The preference of p's socket or organization is set, the others stay.
SetSocket(pref, p) == pref \cup {p}

\* A file that does not parse ends CreateOrUpdate; the other commands print a
\* warning and go on from an empty preference.
ReadPref(p) ==
    /\ At(p, "readPref")
    /\ IF prefs = Torn /\ plan[p].cmd = "login"
       THEN End(p)
       ELSE GoOn(p, [proc[p] EXCEPT !.pref = SetSocket(IF prefs = Torn THEN {} ELSE prefs, p)])
    /\ NoFile /\ UNCHANGED faults

NewPref(p) ==
    /\ At(p, "newPref")
    /\ prefs' = Torn
    /\ Goto(p, "fillPref")
    /\ UNCHANGED <<plan, token, keyFile, crtFile, handed, faults>>

FillPref(p) ==
    /\ At(p, "fillPref")
    /\ prefs' = proc[p].pref
    /\ Return(p)
    /\ UNCHANGED <<plan, token, keyFile, crtFile, handed, faults>>

LoginStep(p) ==
    \/ PickHost(p) \/ ReadToken(p) \/ Launch(p) \/ Authorize(p) \/ PollForToken(p)
    \/ SaveToken(p) \/ ReadPref(p) \/ NewPref(p) \/ FillPref(p)
=============================================================================
