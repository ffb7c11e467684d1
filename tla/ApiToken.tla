----------------------------- MODULE ApiToken -----------------------------
(***************************************************************************)
(* The token of the API commands, ~/.border0/token (internal/http): the    *)
(* goroutines of a running connector, `border0 run` or `socket connect`    *)
(* refresh it every hour, `border0 login` replaces it, with a second       *)
(* request and a second write when the account asks for a second factor,   *)
(* and `border0 account switch-org` exchanges it for one of another        *)
(* organization.  SaveToken of ClientLogin writes it.                      *)
(***************************************************************************)
EXTENDS ClientLogin

\* One round of the refresh goroutine; `login` by the browser or with a
\* password; `switch-org`.
RefreshRound == <<"readApi", "refresh", "newToken">>
SignInCommand(p) ==
    IF plan[p].cmd = "device"
    THEN <<"deviceCode", "newToken">>
    ELSE <<"password", "newToken">>
         \o (IF plan[p].mfa THEN <<"readApi", "challenge", "newToken">> ELSE <<>>)
SwitchOrgCommand == <<"readApi", "switchOrg", "newToken">>

StartApi(p) ==
    /\ plan[p].cmd \in ApiCmds
    /\ At(p, "idle")
    /\ GoOn(p, [AtRest EXCEPT !.todo =
         CASE plan[p].cmd = "refresh"   -> RefreshRound
           [] plan[p].cmd = "switchOrg" -> SwitchOrgCommand
           [] OTHER                     -> SignInCommand(p)])
    /\ NoFile /\ UNCHANGED faults

\* The API answers a request, or a login, with a new token, or it fails, which
\* ends what p does.
Answered(p, of, live, fault) ==
    /\ \/ /\ GoOn(p, [proc[p] EXCEPT !.tok = [of |-> of, live |-> live]])
          /\ UNCHANGED faults
       \/ Fault(fault) /\ End(p)
    /\ NoFile

Refused(p) == End(p) /\ NoFile /\ UNCHANGED faults

\* GetToken: the token of the environment, else the file's; an empty one is
\* refused by the API.
ReadApi(p) ==
    /\ At(p, "readApi")
    /\ LET t == IF plan[p].env # None THEN plan[p].env ELSE token["api"]
       IN  IF t \in Token THEN GoOn(p, [proc[p] EXCEPT !.tok = t]) ELSE End(p)
    /\ NoFile /\ UNCHANGED faults

\* RefreshLogin: another token of the organization of this one.
Refresh(p) ==
    /\ At(p, "refresh")
    /\ IF proc[p].tok.live THEN Answered(p, proc[p].tok.of, TRUE, "api") ELSE Refused(p)

\* switch-org: a token of another organization.
SwitchOrg(p) ==
    /\ At(p, "switchOrg")
    /\ IF proc[p].tok.live THEN Answered(p, plan[p].org, TRUE, "api") ELSE Refused(p)

\* Login with a password; the API does not accept the token before the second
\* factor has been given.
Password(p) ==
    /\ At(p, "password")
    /\ Answered(p, plan[p].org, ~plan[p].mfa, "login")

\* The device flow: a code ...
CreateDeviceAuthorization(p) ==
    /\ At(p, "deviceCode")
    /\ \/ Goto(p, "devicePoll") /\ UNCHANGED faults
       \/ Fault("login") /\ End(p)
    /\ NoFile

\* ... and its answer, polled for without a limit until the user has
\* authorized it; a request that fails four times in a row ends the command.
DevicePoll(p) ==
    /\ At(p, "devicePoll")
    /\ Answered(p, plan[p].org, TRUE, "login")

\* MFAChallenge sends the code with the token GetToken has given it: it is a
\* code of this user's account.
MFAChallenge(p) ==
    /\ At(p, "challenge")
    /\ IF proc[p].tok.of = plan[p].org
       THEN Answered(p, plan[p].org, TRUE, "api")
       ELSE Refused(p)

\* SaveTokenInDisk, and the same lines in RefreshLogin, MFAChallenge and
\* switch-org.
NewToken(p) ==
    /\ At(p, "newToken")
    /\ token' = [token EXCEPT !["api"] = Torn]
    /\ Goto(p, "fillToken")
    /\ UNCHANGED <<plan, keyFile, crtFile, prefs, handed, faults>>

ApiStep(p) ==
    \/ StartApi(p) \/ ReadApi(p) \/ Refresh(p) \/ SwitchOrg(p) \/ Password(p)
    \/ CreateDeviceAuthorization(p) \/ DevicePoll(p) \/ MFAChallenge(p) \/ NewToken(p)
=============================================================================
