----------------------------- MODULE LocalFiles -----------------------------
(***************************************************************************)
(* All commands that share the files of HomeFiles, run at the same time by *)
(* one user, killed at any point, with certificates and tokens that        *)
(* expire.                                                                 *)
(***************************************************************************)
EXTENDS ClientCommands, ApiToken

Step(p) == LoginStep(p) \/ CertStep(p) \/ CommandStep(p) \/ ApiStep(p)

\* The process is killed.
Kill(p) ==
    /\ proc[p].pc \notin {"idle", "done"}
    /\ Fault("kill")
    /\ End(p)
    /\ NoFile

Resting(p) == proc[p].pc \in {"idle", "done", "session"} /\ proc[p].irq = "off"

Expired(c) == IF Readable(c) THEN [c EXCEPT !.live = FALSE] ELSE c

\* Certificates and tokens outlive a command as a rule, and none outlives a
\* long pause.
LongPause ==
    /\ \A p \in Procs : Resting(p)
    /\ (\E s \in Slots : Good(crtFile[s])) \/ Valid(token["client"])
    /\ crtFile' = [s \in Slots |-> Expired(crtFile[s])]
    /\ token' = [token EXCEPT !["client"] = Expired(@)]
    /\ UNCHANGED <<plan, proc, keyFile, prefs, handed, faults>>

Expire ==
    /\ Fault("expire")
    /\ \/ /\ \E s \in Slots :
               Good(crtFile[s]) /\ crtFile' = [crtFile EXCEPT ![s] = Expired(@)]
          /\ UNCHANGED token
       \/ /\ \E t \in TokenFiles :
               Valid(token[t]) /\ token' = [token EXCEPT ![t] = Expired(@)]
          /\ UNCHANGED crtFile
    /\ UNCHANGED <<plan, proc, keyFile, prefs, handed>>

Action ==
    \/ \E p \in Procs : Step(p) \/ Kill(p)
    \/ LongPause \/ Expire

-----------------------------------------------------------------------------
(* History: what the files should hold if commands did not disturb one       *)
(* another.                                                                  *)

Shared == Slots \cup {<<"prefs">>, <<"api">>} \cup {<<f>> : f \in Handed}
FileOf(f) == CASE f \in Slots -> <<keyFile[f], crtFile[f]>>
               [] f = <<"prefs">> -> prefs
               [] f = <<"api">> -> token["api"]
               [] OTHER -> handed[f[1]]

\* The files a process `r` with plan `pl` has truncated and is not through with.
WritingOf(pl, r) ==
    (CASE r.pc \in {"fillKey", "newCrt", "fillCrt"} -> {<<"tls", pl.org>>}
       [] r.pc \in {"sshFillKey", "sshNewCrt", "sshFillCrt"} -> {<<"ssh", pl.org>>}
       [] r.pc = "fillPref"  -> {<<"prefs">>}
       [] r.pc = "fillToken" -> IF pl.cmd \in ApiCmds THEN {<<"api">>} ELSE {}
       [] r.pc = "fillChain" -> {<<"chain">>}
       [] r.pc = "fillJks"   -> {<<"jks">>}
       [] r.pc = "fillXml"   -> {<<"xml">>}
       [] OTHER              -> {})
    \cup (IF r.irq = "fill" THEN {<<"prefs">>} ELSE {})

\* It refreshes the token in the file, not one of its environment.
Refreshes(pl) == pl.cmd = "refresh" /\ pl.env = None

\* The files it is going to write from what it has read of them.
HoldingOf(pl, r) ==
    (IF r.pref # {} /\ "newPref" \in {r.pc} \cup {r.todo[n] : n \in DOMAIN r.todo}
     THEN {<<"prefs">>} ELSE {})
    \cup (IF Refreshes(pl) /\ r.pc \in {"refresh", "newToken"} THEN {<<"api">>} ELSE {})

Writing(p) == WritingOf(plan[p], proc[p])
Holding(p) == HoldingOf(plan[p], proc[p])

Overlaps ==
    UNION {Writing(p) \cap UNION {Writing(q) \cup Holding(q) : q \in Procs \ {p}} :
             p \in Procs}

\* Left half-way by a command that has ended.
Abandoned(p) == {f \in Writing(p) : FileOf(f)' = FileOf(f)}

History ==
    hist' = [
      dirty |-> hist.dirty \cup Overlaps'
                \cup UNION {IF Resting(p)' THEN Abandoned(p) ELSE {} : p \in Procs},
      saved |-> hist.saved \cup {p \in Procs : At(p, "fillPref") /\ ~At(p, "fillPref")'
                                               /\ prefs' = proc[p].pref},
      account |-> IF \E p \in Procs : /\ plan[p].cmd \in ApiCmds /\ ~Refreshes(plan[p])
                                      /\ <<"api">> \in Writing(p)
                                      /\ token'["api"] # token["api"]
                  THEN token'["api"] ELSE hist.account]

Next == Action /\ History

Spec == Init /\ [][Next]_vars

\* Every process is scheduled and the user repeats the repeated command; a
\* certificate is not valid for ever.
Fairness ==
    /\ \A p \in Procs : WF_vars(Step(p) /\ History)
    /\ SF_vars(LongPause /\ History)

FairSpec == Spec /\ Fairness

-----------------------------------------------------------------------------
TypeOK ==
    /\ plan \in Plans
    /\ proc \in [Procs -> Process]
    /\ token \in [TokenFiles -> Token \cup {None, Torn}]
    /\ keyFile \in [Slots -> Pairs \cup {None, Torn}]
    /\ crtFile \in [Slots -> Certificates \cup {None, Torn}]
    /\ prefs = Torn \/ prefs \subseteq Procs
    /\ handed \in [Handed -> Procs \cup {None, Torn}]
    /\ hist.dirty \subseteq Shared
    /\ hist.saved \subseteq Procs
    /\ faults \in 0..MaxFaults

\* A key or certificate stored under an organization's name was made for that
\* organization, although another command may log in to another organization
\* between any two of its steps (client.go:290-305).
CertOfItsOrg ==
    \A s \in Slots :
        /\ Readable(keyFile[s]) => keyFile[s].slot = s
        /\ Readable(crtFile[s]) => crtFile[s].pair.slot = s

\* As long as no two commands overlapped on a file and none was killed or
\* failed half-way, the file is right: a key file and a certificate file are a
\* pair, every preference that was saved is there, the API token is the one of
\* the last sign-in or switch, or a refreshed one of the same organization; but a
\* command that refreshes a token of its environment leaves that one there
\* (client.go:226-231, preference.go:73-91, handler.go:155-191).
UndisturbedFilesRight ==
    \A f \in Shared \ hist.dirty :
        \/ \E p \in Procs : f \in Writing(p)
        \/ f \in Slots /\ (Match(keyFile[f], crtFile[f]) \/ keyFile[f] = None)
        \/ f = <<"prefs">> /\ prefs # Torn /\ hist.saved \subseteq prefs
        \/ f[1] \in Handed /\ handed[f[1]] # Torn
        \/ /\ f = <<"api">>
           /\ IF hist.account = None THEN token["api"] = None
              ELSE token["api"] \in Token /\ token["api"].of = hist.account.of

\* No other command is run again and again.
OnlyRepeated(p) == \A q \in Procs : plan[q].again <=> q = p

\* A user who repeats one client command keeps getting connected, whatever
\* other commands and kills have left in the files: an SSH pair that does not
\* match is replaced at once, a TLS pair at the latest when it expires, and so
\* is the pair of another organization that the token file leads the command to
\* (client.go:271-288, 333, 504-548).  Beside another command that is repeated
\* for ever nothing is promised: it may renew that pair, or write its own over
\* the one in use, each time.
KeepsConnecting ==
    []<>(\A p \in Procs :
            OnlyRepeated(p) /\ plan[p].cmd \in {"tls", "ssh"} \cup DbCommands
                => At(p, "session"))

\* The preference of a database socket is saved "on successful connection to
\* socket" (psql.go:72): psql and pgcli save it whatever their client returned.
SavedOnSuccess ==
    [][\A p \in Procs : plan[p].cmd \in DbCommands /\ At(p, "newPref")'
                        => At(p, "session") \/ At(p, "newPref")]_vars
=============================================================================
