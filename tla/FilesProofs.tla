---------------------------- MODULE FilesProofs ----------------------------
(***************************************************************************)
(* What the shared files are, whatever commands of one user run, die and   *)
(* overlap: a key and a certificate belong to the organization they are    *)
(* stored under, and a file that no two commands overlapped on is right.   *)
(***************************************************************************)
EXTENDS LocalFiles, TLAPS

-----------------------------------------------------------------------------
(* Where a process is, and what it has still to do *)

ApiEntries == {"readApi", "refresh", "switchOrg", "password", "deviceCode", "challenge",
               "newToken"}
ClientEntries == {"pickHost", "authorize", "readToken", "readPref", "newPref",
                  "chooseClient", "sshReadCrt", "signer", "fileOrg", "newKey", "readKey",
                  "newChain", "newJks", "newXml", "dial", "mysql", "psql", "dbeaver",
                  "workbench", "session"}

\* What may come next in the commands of a kind ...
Entries(cmd) == CASE cmd = "refresh" -> {"readApi", "refresh", "newToken"}
                  [] cmd \in ApiCmds \ {"refresh"} -> ApiEntries
                  [] cmd = "db" -> ClientEntries
                  [] OTHER -> ClientEntries \ {"chooseClient"}

\* ... and where they are between two of these steps.
Between(cmd) == IF cmd \in ApiCmds THEN {"idle", "done", "fillToken"}
                                           \cup (IF cmd = "refresh" THEN {} ELSE {"devicePoll"})
                ELSE PC \ (ApiEntries \cup {"devicePoll", "chooseClient"})

\* The steps with a token in hand, and those that come by one.
WithToken == {"refresh", "switchOrg", "challenge", "newToken"}
GetToken == {"readApi", "refresh", "switchOrg", "challenge", "password", "deviceCode",
             "devicePoll"}

\* The steps of a command that has read the preferences.
Late(pl) == {"mysql", "psql", "dbeaver", "workbench", "newPref"}
            \cup (IF pl.cmd = "tls" THEN {} ELSE {"session"})

\* The steps of a database command that end with a write of the preferences.
Due(pl) == {"mysql", "psql", "dbeaver", "workbench"}
           \cup (IF pl.cmd \in DbCommands THEN {"session"} ELSE {})

TlsPC == {"fillKey", "newCrt", "fillCrt"}
SshPC == {"sshFillKey", "sshNewCrt", "sshFillCrt"}

\* What process `p` with plan `pl` and record `r` does next is in order:
\* preferences are read before they are needed and written after a database
\* session, and a token is got before it is used.
InOrder(pl, todo, pref) ==
    /\ todo \in Seq(Entries(pl.cmd))
    /\ \A k \in DOMAIN todo : todo[k] \in Late(pl) =>
          pref # {} \/ \E j \in 1..(k - 1) : todo[j] = "readPref"
    /\ \A j, k \in DOMAIN todo : j < k /\ todo[j] \in Late(pl) => todo[k] \in Late(pl)
    /\ \A k \in DOMAIN todo : k > 1 /\ todo[k] \in WithToken => todo[k - 1] \in GetToken
    /\ \A k \in DOMAIN todo : todo[k] \in Due(pl) => todo[Len(todo)] = "newPref"

\* One process by itself.
ProcOK(p, pl, r) ==
    /\ r \in Process
    /\ r.pc \in Entries(pl.cmd) \cup Between(pl.cmd)
    /\ InOrder(pl, r.todo, IF r.pc = "readPref" THEN {p} ELSE r.pref)
    /\ r.todo # <<>> /\ Head(r.todo) \in WithToken => r.pc \in GetToken
    /\ r.pc \in WithToken \cup {"fillToken"} => r.tok \in Token
    /\ r.pc \in TlsPC => r.key \in Pairs /\ r.key.slot = <<"tls", pl.org>>
    /\ r.pc \in SshPC => r.key \in Pairs /\ r.key.slot = <<"ssh", pl.org>>
    /\ r.pref # {} => p \in r.pref
    /\ r.pc \in Late(pl) \cup {"fillPref"} =>
          r.pref # {} /\ \A k \in DOMAIN r.todo : r.todo[k] \in Late(pl)
    /\ r.pc \in Due(pl) => r.todo # <<>> /\ r.todo[Len(r.todo)] = "newPref"
    /\ r.irq # "off" => pl.cmd \in DbCommands /\ r.pc \in Late(pl) \cup {"fillPref"}

ProcsOK == \A p \in Procs : ProcOK(p, plan[p], proc[p])

-----------------------------------------------------------------------------
(* What the files are *)

WritesPref(r) == r.pc = "fillPref" \/ r.irq = "fill"
HoldsPref(r) == r.pref # {} /\ (r.pc = "newPref" \/ \E k \in DOMAIN r.todo : r.todo[k] = "newPref")

Undisturbed(f) == f \notin hist.dirty
Alone(f) ==
    \A p, q \in Procs : p # q /\ f \in Writing(p) => f \notin Writing(q) \cup Holding(q)

AloneInv == \A f \in Shared : Undisturbed(f) => Alone(f)

\* Of a pair the key is written first.
PairRight(s) ==
    /\ \A p \in Procs : s \in Writing(p) =>
          proc[p].pc \in {"fillKey", "sshFillKey"} \/ keyFile[s] = proc[p].key
    /\ \/ \E p \in Procs : s \in Writing(p)
       \/ Match(keyFile[s], crtFile[s]) \/ keyFile[s] = None

PairsRight == \A s \in Slots : Undisturbed(s) => PairRight(s)

PrefsRightly ==
    /\ \A p \in Procs : WritesPref(proc[p]) \/ HoldsPref(proc[p]) => hist.saved \subseteq proc[p].pref
    /\ \/ \E p \in Procs : WritesPref(proc[p])
       \/ prefs # Torn /\ hist.saved \subseteq prefs

PrefsRight == Undisturbed(<<"prefs">>) => PrefsRightly

HandedRight ==
    \A f \in Handed : Undisturbed(<<f>>) =>
        (\E p \in Procs : <<f>> \in Writing(p)) \/ handed[f] # Torn

\* The token is of the account, and so is the one that is being refreshed.
OfAccount(t) == hist.account # None /\ t \in Token /\ t.of = hist.account.of
ApiRightly ==
    /\ hist.account \in Token \cup {None}
    /\ \A p \in Procs : Refreshes(plan[p]) /\ proc[p].pc \in {"refresh", "newToken", "fillToken"} =>
          OfAccount(proc[p].tok)
    /\ IF \E p \in Procs : <<"api">> \in Writing(p) THEN token["api"] = Torn
       ELSE IF hist.account = None THEN token["api"] = None
       ELSE OfAccount(token["api"])

ApiRight == Undisturbed(<<"api">>) => ApiRightly

-----------------------------------------------------------------------------
(* What the commands consist of *)

\* The steps of a kind of command.
LEMMA KindsOfCommands ==
    ASSUME NEW pl \in Plan
    PROVE  /\ pl.cmd \in ClientCmds =>
                 /\ Entries(pl.cmd) \subseteq ClientEntries
                 /\ ClientEntries \ {"chooseClient"} \subseteq Entries(pl.cmd)
                 /\ IF pl.cmd = "db" THEN "chooseClient" \in Entries(pl.cmd)
                                     ELSE "chooseClient" \notin Entries(pl.cmd)
                 /\ Between(pl.cmd) = PC \ (ApiEntries \cup {"devicePoll", "chooseClient"})
           /\ pl.cmd \in ApiCmds \ {"refresh"} =>
                 /\ Entries(pl.cmd) = ApiEntries
                 /\ Between(pl.cmd) = {"idle", "done", "fillToken", "devicePoll"}
           /\ pl.cmd = "refresh" =>
                 /\ Entries(pl.cmd) = {"readApi", "refresh", "newToken"}
                 /\ Between(pl.cmd) = {"idle", "done", "fillToken"}
<1>1. pl.cmd \in ClientCmds \cup ApiCmds
  BY DEF Plan
<1>2. ASSUME pl.cmd \in ClientCmds
      PROVE  pl.cmd \notin ApiCmds
  BY <1>2 DEF ClientCmds, ApiCmds, DbCommands
<1> QED
  BY <1>1, <1>2 DEF Entries, Between, ApiCmds, ClientEntries

LEMMA StepsArePCs ==
    ASSUME NEW pl \in Plan
    PROVE  /\ Entries(pl.cmd) \subseteq PC
           /\ Between(pl.cmd) \subseteq PC
           /\ pl.cmd \in ClientCmds \/ pl.cmd \in ApiCmds
           /\ ~(pl.cmd \in ClientCmds /\ pl.cmd \in ApiCmds)
           /\ {"idle", "done"} \subseteq Between(pl.cmd)
<1>1. pl.cmd \in ClientCmds \cup ApiCmds
  BY DEF Plan
<1>2. ASSUME pl.cmd \in ClientCmds
      PROVE  pl.cmd \notin ApiCmds
  BY <1>2 DEF ClientCmds, ApiCmds, DbCommands
<1> QED
  BY <1>1, <1>2 DEF Entries, Between, PC, ApiEntries, ClientEntries

\* What is left of an orderly program is one.
LEMMA OrderIsKept ==
    ASSUME NEW pl \in Plan, NEW p, NEW todo, NEW pref,
           InOrder(pl, todo, pref), todo # <<>>
    PROVE  /\ todo \in Seq(Entries(pl.cmd))
           /\ Head(todo) \in Entries(pl.cmd)
           /\ InOrder(pl, Tail(todo), IF Head(todo) = "readPref" THEN {p} ELSE pref)
           /\ Head(todo) \in Late(pl) =>
                 pref # {} /\ \A k \in DOMAIN Tail(todo) : Tail(todo)[k] \in Late(pl)
           /\ Tail(todo) # <<>> /\ Head(Tail(todo)) \in WithToken => Head(todo) \in GetToken
           /\ Head(todo) \in Due(pl) => Tail(todo) # <<>> /\ Tail(todo)[Len(Tail(todo))] = "newPref"
<1> DEFINE rest == Tail(todo)
<1>1. todo \in Seq(Entries(pl.cmd))
  BY DEF InOrder
<1>2. /\ rest \in Seq(Entries(pl.cmd))
      /\ Len(rest) = Len(todo) - 1
      /\ Len(todo) \in Nat \ {0}
      /\ DOMAIN todo = 1..Len(todo)
      /\ DOMAIN rest = 1..Len(rest)
      /\ \A k \in DOMAIN rest : k + 1 \in DOMAIN todo /\ rest[k] = todo[k + 1]
  BY <1>1
<1>3. Head(todo) = todo[1] /\ 1 \in DOMAIN todo /\ Head(todo) \in Entries(pl.cmd)
  BY <1>1, <1>2
<1>4. /\ \A k \in DOMAIN todo : todo[k] \in Late(pl) =>
            pref # {} \/ \E j \in 1..(k - 1) : todo[j] = "readPref"
      /\ \A j, k \in DOMAIN todo : j < k /\ todo[j] \in Late(pl) => todo[k] \in Late(pl)
      /\ \A k \in DOMAIN todo : k > 1 /\ todo[k] \in WithToken => todo[k - 1] \in GetToken
      /\ \A k \in DOMAIN todo : todo[k] \in Due(pl) => todo[Len(todo)] = "newPref"
  BY DEF InOrder
<1> HIDE DEF rest
<1>r. Len(rest) # 0 => rest # <<>>
  OBVIOUS
<1>5. ASSUME NEW k \in DOMAIN rest, rest[k] \in Late(pl), Head(todo) # "readPref", pref = {}
      PROVE  \E j \in 1..(k - 1) : rest[j] = "readPref"
  <2>1. k \in Nat /\ k + 1 \in DOMAIN todo /\ todo[k + 1] \in Late(pl)
    BY <1>2, <1>5
  <2>2. PICK j \in 1..((k + 1) - 1) : todo[j] = "readPref"
    BY <1>4, <1>5, <2>1
  <2>3. j # 1 /\ j - 1 \in 1..(k - 1) /\ j - 1 \in DOMAIN rest
    BY <1>2, <1>3, <1>5, <2>1, <2>2
  <2>4. rest[j - 1] = "readPref"
    BY <1>2, <2>2, <2>3
  <2> QED
    BY <2>3, <2>4
<1>6. ASSUME NEW j \in DOMAIN rest, NEW k \in DOMAIN rest, j < k, rest[j] \in Late(pl)
      PROVE  rest[k] \in Late(pl)
  BY <1>2, <1>4, <1>6
<1>7. ASSUME NEW k \in DOMAIN rest, k > 1, rest[k] \in WithToken
      PROVE  rest[k - 1] \in GetToken
  <2>1. k - 1 \in DOMAIN rest /\ (k - 1) + 1 = k /\ (k + 1) - 1 = k /\ k + 1 > 1
    BY <1>2, <1>7
  <2>2. k + 1 \in DOMAIN todo /\ todo[k + 1] \in WithToken /\ rest[k - 1] = todo[k]
    BY <1>2, <1>7, <2>1
  <2> QED
    BY <1>4, <2>1, <2>2
<1>d. ASSUME NEW k \in DOMAIN rest, rest[k] \in Due(pl)
      PROVE  rest[Len(rest)] = "newPref"
  <2>1. k + 1 \in DOMAIN todo /\ todo[k + 1] \in Due(pl) /\ Len(rest) \in DOMAIN rest
    BY <1>2, <1>d
  <2>2. rest[Len(rest)] = todo[Len(todo)]
    BY <1>2, <2>1
  <2> QED
    BY <1>4, <2>1, <2>2
<1>8. InOrder(pl, rest, IF Head(todo) = "readPref" THEN {p} ELSE pref)
  BY <1>2, <1>5, <1>6, <1>7, <1>d DEF InOrder
<1>11. ASSUME Head(todo) \in Due(pl)
       PROVE  rest # <<>> /\ rest[Len(rest)] = "newPref"
  <2>1. todo[Len(todo)] = "newPref" /\ todo[1] # "newPref"
    BY <1>3, <1>4, <1>11 DEF Due
  <2>2. Len(todo) # 1
    BY <2>1
  <2>3. rest # <<>> /\ Len(rest) \in DOMAIN rest /\ rest[Len(rest)] = todo[Len(todo)]
    BY <1>2, <1>r, <2>2
  <2> QED
    BY <2>1, <2>3
<1>9. ASSUME Head(todo) \in Late(pl)
      PROVE  pref # {} /\ \A k \in DOMAIN rest : rest[k] \in Late(pl)
  <2>1. pref # {}
    BY <1>2, <1>3, <1>4, <1>9
  <2>2. ASSUME NEW k \in DOMAIN rest
        PROVE  rest[k] \in Late(pl)
    BY <1>2, <1>3, <1>4, <1>9
  <2> QED
    BY <2>1, <2>2
<1>10. ASSUME rest # <<>>, Head(rest) \in WithToken
       PROVE  Head(todo) \in GetToken
  <2>1. Head(rest) = rest[1] /\ 1 \in DOMAIN rest
    BY <1>2, <1>10
  <2>2. 1 + 1 \in DOMAIN todo /\ rest[1] = todo[1 + 1] /\ (1 + 1) - 1 = 1 /\ 1 + 1 > 1
    BY <1>2, <2>1
  <2> QED
    BY <1>3, <1>4, <1>10, <2>1, <2>2
<1> QED
  BY <1>1, <1>3, <1>8, <1>9, <1>10, <1>11 DEF rest

\* The fields of a process, and what the sets of steps have in common.
LEMMA Fields ==
    ASSUME NEW r \in Process
    PROVE  /\ r.pc \in PC /\ r.todo \in Seq(PC) /\ r.tok \in Token \cup {None}
           /\ r.org \in Orgs \cup {None} /\ r.key \in Pairs \cup {None}
           /\ r.crt \in Certificates \cup {None} /\ r.cert \in Certificates \cup {None}
           /\ r.pref \in SUBSET Procs /\ r.irq \in {"off", "new", "fill", "exit"}
BY DEF Process

LEMMA Steps ==
    ASSUME NEW pl \in Plan
    PROVE  /\ Entries(pl.cmd) \cap (TlsPC \cup SshPC \cup {"fillPref", "fillToken", "idle",
                                                          "done", "devicePoll"}) = {}
           /\ (TlsPC \cup SshPC \cup {"fillPref", "idle", "done"}) \cap WithToken = {}
           /\ Late(pl) \cap (WithToken \cup GetToken \cup TlsPC \cup SshPC) = {}
           /\ "readPref" \notin Late(pl) \cup WithToken \cup GetToken
           /\ Due(pl) \subseteq Late(pl)
           /\ WithToken \cap ClientEntries = {}
BY StepsArePCs DEF Entries, ApiEntries, ClientEntries, TlsPC, SshPC, WithToken, GetToken, Late,
                   Due, DbCommands

\* A process that goes on with the first of what is to do.
LEMMA GoesOn ==
    ASSUME NEW p, NEW pl \in Plan, NEW r \in Process, NEW r2 \in Process,
           InOrder(pl, r.todo, r.pref), r.todo # <<>>,
           Head(r.todo) \in WithToken => r.tok \in Token,
           r.pref # {} => p \in r.pref,
           r.irq # "off" =>
              pl.cmd \in DbCommands /\ \A k \in DOMAIN r.todo : r.todo[k] \in Late(pl),
           r2.pc = Head(r.todo), r2.todo = Tail(r.todo), r2.tok = r.tok,
           r2.pref = r.pref, r2.irq = r.irq
    PROVE  ProcOK(p, pl, r2)
<1>1. /\ r.todo \in Seq(Entries(pl.cmd))
      /\ r2.pc \in Entries(pl.cmd)
      /\ InOrder(pl, r2.todo, IF r2.pc = "readPref" THEN {p} ELSE r2.pref)
      /\ r2.pc \in Late(pl) =>
            r2.pref # {} /\ \A k \in DOMAIN r2.todo : r2.todo[k] \in Late(pl)
      /\ r2.todo # <<>> /\ Head(r2.todo) \in WithToken => r2.pc \in GetToken
      /\ r2.pc \in Due(pl) => r2.todo # <<>> /\ r2.todo[Len(r2.todo)] = "newPref"
  BY OrderIsKept
<1>2. r2.pc \notin TlsPC \cup SshPC \cup {"fillPref", "fillToken"}
  BY <1>1, Steps
<1>3. ASSUME r2.irq # "off"
      PROVE  pl.cmd \in DbCommands /\ r2.pc \in Late(pl)
  <2>1. 1 \in DOMAIN r.todo /\ r2.pc = r.todo[1]
    BY <1>1
  <2> QED
    BY <1>3, <2>1
<1> QED
  BY <1>1, <1>2, <1>3 DEF ProcOK

\* One that goes from one step to another with the same steps to follow.
LEMMA Moves ==
    ASSUME NEW p, NEW pl \in Plan, NEW r, NEW r2 \in Process, ProcOK(p, pl, r),
           r.pc # "readPref", r2.pc \in Entries(pl.cmd) \cup Between(pl.cmd),
           r2.pc # "readPref",
           r2.todo = r.todo, r2.pref = r.pref, r2.irq = r.irq,
           r.pc \in GetToken => r2.pc \in GetToken,
           r2.pc \in WithToken \cup {"fillToken"} => r2.tok \in Token,
           r2.pc \in TlsPC => r2.key \in Pairs /\ r2.key.slot = <<"tls", pl.org>>,
           r2.pc \in SshPC => r2.key \in Pairs /\ r2.key.slot = <<"ssh", pl.org>>,
           r2.pc \in Late(pl) \cup {"fillPref"} <=> r.pc \in Late(pl) \cup {"fillPref"},
           r2.pc \in Due(pl) => r.pc \in Due(pl)
    PROVE  ProcOK(p, pl, r2)
BY DEF ProcOK

\* One that has ended or not begun.
LEMMA Rests ==
    ASSUME NEW p, NEW pl \in Plan, NEW pc \in {"idle", "done"}, NEW r,
           r = [AtRest EXCEPT !.pc = pc] \/ (r = AtRest /\ pc = "idle")
    PROVE  ProcOK(p, pl, r)
<1>1. r.pc = pc /\ r.todo = <<>> /\ r.pref = {} /\ r.irq = "off"
  <2>1. CASE r = AtRest /\ pc = "idle"
    BY <2>1 DEF AtRest
  <2>2. CASE r = [AtRest EXCEPT !.pc = pc]
    BY <2>2 DEF AtRest
  <2> QED
    BY <2>1, <2>2
<1>2. r \in Process
  <2>1. pc \in PC /\ <<>> \in Seq(PC)
    BY DEF PC
  <2>2. CASE r = AtRest
    BY <2>1, <2>2 DEF AtRest, Process
  <2>3. CASE r = [AtRest EXCEPT !.pc = pc]
    BY <2>1, <2>3 DEF AtRest, Process
  <2> QED
    BY <2>2, <2>3
<1>3. r.pc \in Between(pl.cmd)
  BY <1>1, StepsArePCs
<1>4. InOrder(pl, <<>>, {})
  BY DEF InOrder
<1>5. r.pc \notin Late(pl) \cup Due(pl) \cup WithToken \cup TlsPC \cup SshPC \cup {"readPref", "fillPref", "fillToken"}
  BY <1>1 DEF Late, Due, WithToken, TlsPC, SshPC
<1> QED
  BY <1>1, <1>2, <1>3, <1>4, <1>5 DEF ProcOK

-----------------------------------------------------------------------------
(* The programs are in order *)

\* Two pieces make a program.
LEMMA Joined ==
    ASSUME NEW pl \in Plan, NEW s, NEW t, NEW pref, NEW then,
           InOrder(pl, s, pref), InOrder(pl, t, then),
           then # {} => pref # {} \/ \E j \in DOMAIN s : s[j] = "readPref",
           \A k \in DOMAIN s : s[k] \notin Late(pl),
           t # <<>> /\ Head(t) \in WithToken => s = <<>> \/ s[Len(s)] \in GetToken
    PROVE  InOrder(pl, s \o t, pref)
<1> DEFINE u == s \o t
           n == Len(s)
<1>1. s \in Seq(Entries(pl.cmd)) /\ t \in Seq(Entries(pl.cmd))
  BY DEF InOrder
<1>2. /\ n \in Nat /\ DOMAIN s = 1..n /\ Len(t) \in Nat /\ DOMAIN t = 1..Len(t)
      /\ u \in Seq(Entries(pl.cmd)) /\ Len(u) = n + Len(t) /\ DOMAIN u = 1..Len(u)
      /\ \A k \in 1..n : u[k] = s[k]
  BY <1>1
<1>3. \A k \in DOMAIN u : k > n => k - n \in DOMAIN t /\ u[k] = t[k - n]
  BY <1>1, <1>2
<1>s. /\ \A k \in DOMAIN s : s[k] \in Late(pl) =>
            pref # {} \/ \E j \in 1..(k - 1) : s[j] = "readPref"
      /\ \A j, k \in DOMAIN s : j < k /\ s[j] \in Late(pl) => s[k] \in Late(pl)
      /\ \A k \in DOMAIN s : k > 1 /\ s[k] \in WithToken => s[k - 1] \in GetToken
  BY DEF InOrder
<1>t. /\ \A k \in DOMAIN t : t[k] \in Late(pl) =>
            then # {} \/ \E j \in 1..(k - 1) : t[j] = "readPref"
      /\ \A j, k \in DOMAIN t : j < k /\ t[j] \in Late(pl) => t[k] \in Late(pl)
      /\ \A k \in DOMAIN t : k > 1 /\ t[k] \in WithToken => t[k - 1] \in GetToken
      /\ \A k \in DOMAIN t : t[k] \in Due(pl) => t[Len(t)] = "newPref"
  BY DEF InOrder
<1> HIDE DEF u, n
<1>4. \A j \in DOMAIN t : n + j \in DOMAIN u /\ u[n + j] = t[j]
  <2> SUFFICES ASSUME NEW j \in DOMAIN t
               PROVE  n + j \in DOMAIN u /\ u[n + j] = t[j]
    OBVIOUS
  <2>1. n + j \in DOMAIN u /\ n + j > n /\ (n + j) - n = j
    BY <1>2
  <2> QED
    BY <1>3, <2>1
<1>5. ASSUME NEW k \in DOMAIN u, u[k] \in Late(pl), pref = {}
      PROVE  \E j \in 1..(k - 1) : u[j] = "readPref"
  <2>1. CASE k \in DOMAIN s
    BY <1>2, <1>s, <1>5, <2>1
  <2>2. CASE k > n
    <3>1. k - n \in DOMAIN t /\ t[k - n] \in Late(pl)
      BY <1>3, <1>5, <2>2
    <3>2. CASE \E j \in 1..((k - n) - 1) : t[j] = "readPref"
      <4>1. PICK j \in 1..((k - n) - 1) : t[j] = "readPref"
        BY <3>2
      <4>2. j \in DOMAIN t /\ n + j \in 1..(k - 1)
        BY <1>2, <3>1, <4>1, <2>2
      <4> QED
        BY <1>4, <4>1, <4>2
    <3>3. CASE \E j \in DOMAIN s : s[j] = "readPref"
      <4>1. PICK j \in DOMAIN s : s[j] = "readPref"
        BY <3>3
      <4>2. j \in 1..(k - 1) /\ u[j] = s[j]
        BY <1>2, <2>2, <4>1
      <4> QED
        BY <4>1, <4>2
    <3> QED
      BY <1>5, <1>t, <3>1, <3>2, <3>3
  <2> QED
    BY <1>2, <2>1, <2>2
<1>6. ASSUME NEW j \in DOMAIN u, NEW k \in DOMAIN u, j < k, u[j] \in Late(pl)
      PROVE  u[k] \in Late(pl)
  <2>1. CASE k \in DOMAIN s
    <3>1. j \in DOMAIN s /\ u[j] = s[j] /\ u[k] = s[k]
      BY <1>2, <1>6, <2>1
    <3> QED
      BY <1>6, <1>s, <2>1, <3>1
  <2>2. CASE k > n /\ j \in DOMAIN s
    <3>1. s[j] \in Late(pl) /\ k - n \in DOMAIN t /\ u[k] = t[k - n]
      BY <1>2, <1>3, <1>6, <2>2
    <3> QED
      BY <2>2, <3>1
  <2>3. CASE j > n
    <3>1. /\ j - n \in DOMAIN t /\ k - n \in DOMAIN t /\ j - n < k - n
          /\ u[j] = t[j - n] /\ u[k] = t[k - n]
      BY <1>2, <1>3, <1>6, <2>3
    <3> QED
      BY <1>6, <1>t, <3>1
  <2> QED
    BY <1>2, <1>6, <2>1, <2>2, <2>3
<1>7. ASSUME NEW k \in DOMAIN u, k > 1, u[k] \in WithToken
      PROVE  u[k - 1] \in GetToken
  <2>1. CASE k \in DOMAIN s
    <3>1. k - 1 \in DOMAIN s /\ u[k] = s[k] /\ u[k - 1] = s[k - 1]
      BY <1>2, <1>7, <2>1
    <3> QED
      BY <1>7, <1>s, <2>1, <3>1
  <2>2. CASE k = n + 1
    <3>1. 1 \in DOMAIN t /\ u[k] = t[1] /\ t # <<>> /\ Head(t) = t[1]
      <4>1. k > n /\ k - n = 1
        BY <1>2, <2>2
      <4>2. 1 \in DOMAIN t /\ u[k] = t[1]
        BY <1>3, <4>1
      <4> QED
        BY <1>1, <1>2, <4>2
    <3>2. s # <<>> /\ n \in DOMAIN s /\ k - 1 = n
      BY <1>1, <1>2, <1>7, <2>2 DEF n
    <3>3. s[n] \in GetToken
      BY <1>7, <3>1, <3>2 DEF n
    <3> QED
      BY <1>2, <3>2, <3>3
  <2>3. CASE k > n + 1
    <3>1. /\ k > n /\ k - 1 > n /\ k - 1 \in DOMAIN u /\ (k - 1) - n = (k - n) - 1 /\ k - n > 1
      BY <1>2, <2>3
    <3>2. /\ k - n \in DOMAIN t /\ u[k] = t[k - n] /\ u[k - 1] = t[(k - n) - 1]
      BY <1>3, <3>1
    <3> QED
      BY <1>7, <1>t, <3>1, <3>2
  <2> QED
    BY <1>2, <2>1, <2>2, <2>3
<1>8. u \in Seq(Entries(pl.cmd))
  BY <1>2
<1>9. ASSUME NEW k \in DOMAIN u, u[k] \in Due(pl)
      PROVE  u[Len(u)] = "newPref"
  <2>1. u[k] \in Late(pl)
    BY <1>9, Steps
  <2>2. k > n
    BY <1>2, <2>1
  <2>3. k - n \in DOMAIN t /\ t[k - n] \in Due(pl)
    BY <1>3, <1>9, <2>2
  <2>4. t[Len(t)] = "newPref" /\ Len(t) \in DOMAIN t
    BY <1>2, <1>t, <2>3
  <2>5. u[n + Len(t)] = t[Len(t)]
    BY <1>4, <2>4
  <2> QED
    BY <1>2, <2>4, <2>5
<1> QED
  BY <1>5, <1>6, <1>7, <1>8, <1>9 DEF InOrder, u

LEMMA ApiProgramsInOrder ==
    ASSUME NEW p \in Procs, plan[p] \in Plan, plan[p].cmd \in ApiCmds
    PROVE  InOrder(plan[p], CASE plan[p].cmd = "refresh"   -> RefreshRound
                              [] plan[p].cmd = "switchOrg" -> SwitchOrgCommand
                              [] OTHER                     -> SignInCommand(p), {})
<1> DEFINE pl == plan[p]
<1>0. pl.cmd \in {"refresh", "signIn", "device", "switchOrg"}
  BY DEF ApiCmds
<1>1. Entries(pl.cmd) = IF pl.cmd = "refresh" THEN {"readApi", "refresh", "newToken"} ELSE ApiEntries
  BY KindsOfCommands
<1> HIDE DEF pl
<1>2. CASE pl.cmd = "refresh"
  <2>1. InOrder(pl, RefreshRound, {})
    BY <1>1, <1>2 DEF RefreshRound, InOrder, Late, Due, WithToken, GetToken
  <2> QED
    BY <1>2, <2>1 DEF pl
<1>3. CASE pl.cmd = "switchOrg"
  <2>1. InOrder(pl, SwitchOrgCommand, {})
    BY <1>1, <1>3 DEF SwitchOrgCommand, InOrder, Late, Due, WithToken, GetToken, ApiEntries
  <2> QED
    BY <1>3, <2>1 DEF pl
<1>4. CASE pl.cmd = "device"
  <2>1. InOrder(pl, <<"deviceCode", "newToken">>, {})
    BY <1>1, <1>4 DEF InOrder, Late, Due, WithToken, GetToken, ApiEntries
  <2> QED
    BY <1>4, <2>1 DEF pl, SignInCommand
<1>5. CASE pl.cmd = "signIn"
  <2>1. InOrder(pl, <<"password", "newToken">>, {})
    BY <1>1, <1>5 DEF InOrder, Late, Due, WithToken, GetToken, ApiEntries
  <2>2. InOrder(pl, IF pl.mfa THEN <<"readApi", "challenge", "newToken">> ELSE <<>>, {})
    <3>1. InOrder(pl, <<"readApi", "challenge", "newToken">>, {})
      BY <1>1, <1>5 DEF InOrder, Late, Due, WithToken, GetToken, ApiEntries
    <3>2. InOrder(pl, <<>>, {})
      BY DEF InOrder
    <3> QED
      BY <3>1, <3>2
  <2>3. InOrder(pl, <<"password", "newToken">>
                    \o (IF pl.mfa THEN <<"readApi", "challenge", "newToken">> ELSE <<>>), {})
    <3>1. \A k \in DOMAIN <<"password", "newToken">> : <<"password", "newToken">>[k] \notin Late(pl)
      BY DEF Late
    <3>2. LET t == IF pl.mfa THEN <<"readApi", "challenge", "newToken">> ELSE <<>>
          IN  t # <<>> => Head(t) = "readApi"
      OBVIOUS
    <3>3. "readApi" \notin WithToken /\ pl \in Plan
      BY DEF WithToken, pl
    <3> QED
      BY <2>1, <2>2, <3>1, <3>2, <3>3, Joined
  <2> QED
    BY <1>5, <2>3 DEF pl, SignInCommand
<1> QED
  BY <1>0, <1>2, <1>3, <1>4, <1>5

\* Pieces of programs in which no step is late, and which no such piece has before it.
LEMMA PiecesInOrder ==
    ASSUME NEW pl \in Plan, pl.cmd \in ClientCmds, NEW pref
    PROVE  /\ InOrder(pl, GetResourceInfo, pref)
           /\ InOrder(pl, <<>>, pref)
           /\ InOrder(pl, <<"newKey">>, pref)
           /\ InOrder(pl, <<"pickHost">>, pref)
           /\ InOrder(pl, <<"pickHost", "readPref">>, pref)
           /\ InOrder(pl, <<"pickHost", "newChain", "readPref">>, pref)
           /\ pl.cmd = "db" => InOrder(pl, <<"pickHost", "readPref", "chooseClient">>, pref)
           /\ InOrder(pl, <<"readToken", "readPref", "sshReadCrt">>, pref)
           /\ InOrder(pl, <<"readToken", "sshReadCrt">>, pref)
           /\ InOrder(pl, <<"fileOrg">>, pref)
           /\ InOrder(pl, <<"authorize", "readPref", "newPref">>, pref)
           /\ pl.cmd = "tls" => InOrder(pl, <<"dial", "session">>, pref)
           /\ pref # {} /\ pl.cmd = "ssh" =>
                 InOrder(pl, <<"dial", "signer", "newPref", "session">>, pref)
           /\ pref # {} /\ pl.cmd # "tls" =>
                 /\ InOrder(pl, <<"mysql", "session", "newPref">>, pref)
                 /\ InOrder(pl, <<"psql", "session", "newPref">>, pref)
                 /\ InOrder(pl, <<"readToken", "newJks", "dbeaver", "session", "newPref">>, pref)
                 /\ InOrder(pl, <<"newXml", "workbench", "session", "newPref">>, pref)
<1>1. /\ ClientEntries \ {"chooseClient"} \subseteq Entries(pl.cmd)
      /\ pl.cmd = "db" => ClientEntries \subseteq Entries(pl.cmd)
  BY KindsOfCommands
<1>2. /\ InOrder(pl, GetResourceInfo, pref)
      /\ InOrder(pl, <<>>, pref)
      /\ InOrder(pl, <<"newKey">>, pref)
      /\ InOrder(pl, <<"pickHost">>, pref)
  BY <1>1 DEF InOrder, ClientEntries, Late, Due, WithToken, GetToken, GetResourceInfo
<1>3. /\ InOrder(pl, <<"pickHost", "readPref">>, pref)
      /\ InOrder(pl, <<"pickHost", "newChain", "readPref">>, pref)
      /\ pl.cmd = "db" => InOrder(pl, <<"pickHost", "readPref", "chooseClient">>, pref)
      /\ InOrder(pl, <<"readToken", "readPref", "sshReadCrt">>, pref)
  BY <1>1 DEF InOrder, ClientEntries, Late, Due, WithToken, GetToken
<1>4. /\ InOrder(pl, <<"readToken", "sshReadCrt">>, pref)
      /\ InOrder(pl, <<"fileOrg">>, pref)
  BY <1>1 DEF InOrder, ClientEntries, Late, Due, WithToken, GetToken
<1>5. InOrder(pl, <<"authorize", "readPref", "newPref">>, pref)
  BY <1>1 DEF InOrder, ClientEntries, Late, Due, WithToken, GetToken
<1>6. ASSUME pl.cmd = "tls"
      PROVE  InOrder(pl, <<"dial", "session">>, pref)
  BY <1>1, <1>6 DEF InOrder, ClientEntries, Late, Due, DbCommands, WithToken, GetToken
<1>7. ASSUME pref # {}, pl.cmd # "tls"
      PROVE  /\ pl.cmd = "ssh" => InOrder(pl, <<"dial", "signer", "newPref", "session">>, pref)
             /\ InOrder(pl, <<"mysql", "session", "newPref">>, pref)
             /\ InOrder(pl, <<"psql", "session", "newPref">>, pref)
             /\ InOrder(pl, <<"readToken", "newJks", "dbeaver", "session", "newPref">>, pref)
             /\ InOrder(pl, <<"newXml", "workbench", "session", "newPref">>, pref)
  <2>1. pl.cmd = "ssh" => InOrder(pl, <<"dial", "signer", "newPref", "session">>, pref)
    BY <1>1, <1>7 DEF InOrder, ClientEntries, Late, Due, DbCommands, WithToken, GetToken
  <2>2. InOrder(pl, <<"mysql", "session", "newPref">>, pref)
    BY <1>1, <1>7 DEF InOrder, ClientEntries, Late, Due, WithToken, GetToken
  <2>3. InOrder(pl, <<"psql", "session", "newPref">>, pref)
    BY <1>1, <1>7 DEF InOrder, ClientEntries, Late, Due, WithToken, GetToken
  <2>4. InOrder(pl, <<"readToken", "newJks", "dbeaver", "session", "newPref">>, pref)
    BY <1>1, <1>7 DEF InOrder, ClientEntries, Late, Due, WithToken, GetToken
  <2>5. InOrder(pl, <<"newXml", "workbench", "session", "newPref">>, pref)
    BY <1>1, <1>7 DEF InOrder, ClientEntries, Late, Due, WithToken, GetToken
  <2> QED
    BY <2>1, <2>2, <2>3, <2>4, <2>5
<1> QED
  BY <1>2, <1>3, <1>4, <1>5, <1>6, <1>7

\* A piece in which no step is late, and one that reads the preferences.
Early(pl, s) == \A k \in DOMAIN s : s[k] \notin Late(pl)
ReadsPref(s) == \E k \in DOMAIN s : s[k] = "readPref"

LEMMA ClientJoined ==
    ASSUME NEW pl \in Plan, pl.cmd \in ClientCmds, NEW s, NEW t, NEW pref, NEW then,
           InOrder(pl, s, pref), InOrder(pl, t, then), Early(pl, s),
           then # {} => pref # {} \/ ReadsPref(s)
    PROVE  /\ InOrder(pl, s \o t, pref)
           /\ Early(pl, t) => Early(pl, s \o t)
           /\ ReadsPref(s) \/ ReadsPref(t) => ReadsPref(s \o t)
<1>1. s \in Seq(ClientEntries) /\ t \in Seq(ClientEntries)
  BY KindsOfCommands DEF InOrder
<1>2. t # <<>> => Head(t) \notin WithToken
  BY <1>1, Steps
<1>3. InOrder(pl, s \o t, pref)
  BY <1>2, Joined DEF Early, ReadsPref
<1> DEFINE u == s \o t
           n == Len(s)
<1>4. /\ n \in Nat /\ DOMAIN s = 1..n /\ Len(t) \in Nat /\ DOMAIN t = 1..Len(t)
      /\ DOMAIN u = 1..(n + Len(t))
      /\ \A k \in 1..n : u[k] = s[k]
      /\ \A k \in DOMAIN u : k > n => k - n \in DOMAIN t /\ u[k] = t[k - n]
  BY <1>1
<1>5. \A k \in DOMAIN t : n + k \in DOMAIN u /\ u[n + k] = t[k]
  <2> SUFFICES ASSUME NEW k \in DOMAIN t
               PROVE  n + k \in DOMAIN u /\ u[n + k] = t[k]
    OBVIOUS
  <2> HIDE DEF u, n
  <2>1. n + k \in DOMAIN u /\ n + k > n /\ (n + k) - n = k
    BY <1>4
  <2> QED
    BY <1>4, <2>1
<1> HIDE DEF u, n
<1>6. Early(pl, t) => Early(pl, u)
  BY <1>4 DEF Early
<1>7. ReadsPref(s) => ReadsPref(u)
  <2>1. \A k \in DOMAIN s : k \in DOMAIN u /\ u[k] = s[k]
    BY <1>4
  <2> QED
    BY <2>1 DEF ReadsPref
<1>8. ReadsPref(t) => ReadsPref(u)
  BY <1>5 DEF ReadsPref
<1> QED
  BY <1>3, <1>6, <1>7, <1>8 DEF u

\* GetResourceInfo after a first piece and before a last one.
LEMMA ConnectsInOrder ==
    ASSUME NEW pl \in Plan, pl.cmd \in ClientCmds, NEW s, NEW t,
           InOrder(pl, s, {}), Early(pl, s),
           \/ InOrder(pl, t, {})
           \/ ReadsPref(s) /\ InOrder(pl, t, {0})
    PROVE  InOrder(pl, s \o GetResourceInfo \o t, {})
<1>1. Early(pl, GetResourceInfo) /\ InOrder(pl, GetResourceInfo, {})
  BY PiecesInOrder DEF Early, GetResourceInfo, Late
<1>2. /\ InOrder(pl, s \o GetResourceInfo, {})
      /\ Early(pl, s \o GetResourceInfo)
      /\ ReadsPref(s) => ReadsPref(s \o GetResourceInfo)
  BY <1>1, ClientJoined
<1> QED
  BY <1>2, ClientJoined

LEMMA DbProgramsInOrder ==
    ASSUME NEW pl \in Plan, pl.cmd \in DbCommands
    PROVE  \A program \in {MysqlCommand, PsqlCommand, DbeaverCommand, WorkbenchCommand} :
              InOrder(pl, program, {})
<1>1. pl.cmd \in ClientCmds /\ pl.cmd # "tls"
  BY DEF DbCommands, ClientCmds
<1> DEFINE s == <<"pickHost", "readPref">>
           c == <<"pickHost", "newChain", "readPref">>
<1>2. /\ InOrder(pl, s, {}) /\ Early(pl, s) /\ ReadsPref(s)
      /\ InOrder(pl, c, {}) /\ Early(pl, c) /\ ReadsPref(c)
  <2>1. InOrder(pl, s, {}) /\ InOrder(pl, c, {})
    BY <1>1, PiecesInOrder
  <2>2. Early(pl, s) /\ Early(pl, c)
    BY DEF Early, Late
  <2>3. 2 \in DOMAIN s /\ s[2] = "readPref" /\ 3 \in DOMAIN c /\ c[3] = "readPref"
    OBVIOUS
  <2> QED
    BY <2>1, <2>2, <2>3 DEF ReadsPref
<1>3. /\ InOrder(pl, <<"mysql", "session", "newPref">>, {0})
      /\ InOrder(pl, <<"psql", "session", "newPref">>, {0})
      /\ InOrder(pl, <<"readToken", "newJks", "dbeaver", "session", "newPref">>, {0})
      /\ InOrder(pl, <<"newXml", "workbench", "session", "newPref">>, {0})
  BY <1>1, PiecesInOrder
<1> HIDE DEF s, c
<1>4. InOrder(pl, s \o GetResourceInfo \o <<"mysql", "session", "newPref">>, {})
  BY <1>1, <1>2, <1>3, ConnectsInOrder
<1>5. InOrder(pl, c \o GetResourceInfo \o <<"psql", "session", "newPref">>, {})
  BY <1>1, <1>2, <1>3, ConnectsInOrder
<1>6. InOrder(pl, s \o GetResourceInfo
                    \o <<"readToken", "newJks", "dbeaver", "session", "newPref">>, {})
  BY <1>1, <1>2, <1>3, ConnectsInOrder
<1>7. InOrder(pl, s \o GetResourceInfo
                    \o <<"newXml", "workbench", "session", "newPref">>, {})
  BY <1>1, <1>2, <1>3, ConnectsInOrder
<1> QED
  BY <1>4, <1>5, <1>6, <1>7
     DEF s, c, MysqlCommand, PsqlCommand, DbeaverCommand, WorkbenchCommand

LEMMA ClientProgramsInOrder ==
    ASSUME NEW p \in Procs, plan[p] \in Plan, plan[p].cmd \in ClientCmds
    PROVE  InOrder(plan[p], Program(p), {})
<1> DEFINE pl == plan[p]
<1>1. CASE pl.cmd = "login"
  <2>1. InOrder(pl, <<"authorize", "readPref", "newPref">>, {})
    BY PiecesInOrder
  <2> QED
    BY <1>1, <2>1 DEF Program, LoginCommand
<1>2. CASE pl.cmd = "fetch"
  <2>1. InOrder(pl, <<"fileOrg">>, {})
    BY PiecesInOrder
  <2> QED
    BY <1>2, <2>1 DEF Program, FetchCommand
<1>3. CASE pl.cmd = "keysign"
  <2>1. InOrder(pl, <<"readToken", "sshReadCrt">>, {})
    BY PiecesInOrder
  <2> QED
    BY <1>3, <2>1 DEF Program, KeysignCommand
<1>4. CASE pl.cmd = "db"
  <2>1. InOrder(pl, <<"pickHost", "readPref", "chooseClient">>, {})
    BY <1>4, PiecesInOrder
  <2> QED
    BY <1>4, <2>1 DEF Program, DbCommand
<1>5. InOrder(pl, PickIfNotNamed(p), {}) /\ Early(pl, PickIfNotNamed(p))
  <2>1. InOrder(pl, <<"pickHost">>, {}) /\ InOrder(pl, <<>>, {})
    BY PiecesInOrder
  <2>2. Early(pl, <<"pickHost">>) /\ Early(pl, <<>>)
    BY DEF Early, Late
  <2> QED
    BY <2>1, <2>2 DEF PickIfNotNamed
<1>6. CASE pl.cmd = "tls"
  <2>1. InOrder(pl, <<"dial", "session">>, {})
    BY <1>6, PiecesInOrder
  <2>2. InOrder(pl, PickIfNotNamed(p) \o GetResourceInfo \o <<"dial", "session">>, {})
    BY <1>5, <2>1, ConnectsInOrder
  <2> QED
    BY <1>6, <2>2 DEF Program, TlsCommand
<1>7. CASE pl.cmd = "ssh"
  <2> DEFINE a == <<"readToken", "readPref", "sshReadCrt">>
  <2>1. InOrder(pl, a, {}) /\ Early(pl, a) /\ ReadsPref(a)
    <3>1. InOrder(pl, a, {})
      BY PiecesInOrder
    <3>2. Early(pl, a)
      BY DEF Early, Late
    <3>3. 2 \in DOMAIN a /\ a[2] = "readPref"
      OBVIOUS
    <3> QED
      BY <3>1, <3>2, <3>3 DEF ReadsPref
  <2>2. InOrder(pl, <<"dial", "signer", "newPref", "session">>, {0})
    BY <1>7, PiecesInOrder
  <2> HIDE DEF a
  <2>3. /\ InOrder(pl, PickIfNotNamed(p) \o a, {})
        /\ Early(pl, PickIfNotNamed(p) \o a)
        /\ ReadsPref(PickIfNotNamed(p) \o a)
    BY <1>5, <2>1, ClientJoined
  <2>4. InOrder(pl, PickIfNotNamed(p) \o a \o GetResourceInfo
                      \o <<"dial", "signer", "newPref", "session">>, {})
    BY <2>2, <2>3, ConnectsInOrder
  <2> QED
    BY <1>7, <2>4 DEF a, Program, SshCommand
<1>8. CASE pl.cmd \in DbCommands \ {"db"}
  <2>1. \A program \in {MysqlCommand, PsqlCommand, DbeaverCommand, WorkbenchCommand} :
           InOrder(pl, program, {})
    BY <1>8, DbProgramsInOrder
  <2> QED
    BY <1>8, <2>1 DEF Program, DbCommands, MycliCommand, PgcliCommand
<1> QED
  BY <1>1, <1>2, <1>3, <1>4, <1>6, <1>7, <1>8 DEF ClientCmds, DbCommands

-----------------------------------------------------------------------------
(* Every step keeps the processes in order *)

ProcessesOK == proc \in [Procs -> Process] /\ ProcsOK

\* Steps with a truncated file, and the steps that lead to them.
Fills == TlsPC \cup SshPC \cup {"fillPref", "fillToken", "fillChain", "fillJks", "fillXml"}
OpensAt(from, to) ==
    \/ from = "newKey" /\ to = "fillKey"
    \/ from = "fillKey" /\ to = "newCrt"
    \/ from = "newCrt" /\ to = "fillCrt"
    \/ from = "sshNewKey" /\ to = "sshFillKey"
    \/ from = "sshFillKey" /\ to = "sshNewCrt"
    \/ from = "sshNewCrt" /\ to = "sshFillCrt"
    \/ from = "newPref" /\ to = "fillPref"
    \/ from \in {"launch", "poll", "newToken"} /\ to = "fillToken"
    \/ from = "newChain" /\ to = "fillChain"
    \/ from = "newJks" /\ to = "fillJks"
    \/ from = "newXml" /\ to = "fillXml"

Refreshing(pl, r) == Refreshes(pl) /\ r.pc \in {"refresh", "newToken", "fillToken"}

\* What a step does with its process `p`: it ends; it goes on, with no file
\* truncated; it truncates one; its other goroutine does something.
Bystanders(p) == \A q \in Procs \ {p} : proc'[q] = proc[q]
Ended(p) ==
    proc'[p].pc \in {"idle", "done"} /\ proc'[p].irq = "off" /\ proc'[p].pref = {}
Walks(p) ==
    /\ proc'[p].pc \notin Fills
    /\ proc'[p].irq = proc[p].irq
    /\ HoldsPref(proc'[p]) =>
          proc[p].pc = "readPref" \/ (HoldsPref(proc[p]) /\ proc'[p].pref = proc[p].pref)
    /\ Refreshing(plan[p], proc'[p]) => proc[p].pc \in {"readApi", "refresh"}
Opens(p) ==
    /\ OpensAt(proc[p].pc, proc'[p].pc)
    /\ proc'[p].irq = proc[p].irq /\ proc'[p].pref = proc[p].pref /\ proc'[p].todo = proc[p].todo
Interrupted(p) ==
    /\ proc'[p].pc = proc[p].pc /\ proc'[p].pref = proc[p].pref /\ proc'[p].todo = proc[p].todo
    /\ proc'[p].tok = proc[p].tok /\ proc'[p].key = proc[p].key
    /\ proc[p].pc \in Late(plan[p]) \cup {"fillPref"}
    /\ plan[p].cmd \in DbCommands
    /\ Interrupt(p) \/ OnInterruptDo(p)

Shape(p) == Bystanders(p) /\ (Ended(p) \/ Walks(p) \/ Opens(p) \/ Interrupted(p))
Kept(p) == ProcessesOK' /\ Shape(p)

LEMMA PlanOf ==
    ASSUME TypeOK, NEW p \in Procs
    PROVE  plan[p] \in Plan
BY HomeAssumption DEF TypeOK

LEMMA OneBecomes ==
    ASSUME TypeOK, ProcsOK, NEW p \in Procs, NEW r, Become(p, r), plan' = plan,
           ProcOK(p, plan[p], r)
    PROVE  ProcessesOK' /\ Bystanders(p) /\ proc'[p] = r
<1>1. proc \in [Procs -> Process] /\ r \in Process
  BY DEF TypeOK, ProcOK
<1>2. proc' \in [Procs -> Process]
  BY <1>1 DEF Become
<1>3. ASSUME NEW q \in Procs
      PROVE  ProcOK(q, plan'[q], proc'[q])
  <2>1. CASE q = p
    BY <1>1, <2>1 DEF Become
  <2>2. CASE q # p
    BY <1>1, <2>2 DEF Become, ProcsOK
  <2> QED
    BY <2>1, <2>2
<1>4. Bystanders(p) /\ proc'[p] = r
  BY <1>1 DEF Become, Bystanders
<1> QED
  BY <1>2, <1>3, <1>4 DEF ProcessesOK, ProcsOK

LEMMA Ends ==
    ASSUME TypeOK, ProcsOK, NEW p \in Procs, End(p), plan' = plan
    PROVE  Kept(p)
<1> DEFINE pc == IF plan[p].again THEN "idle" ELSE "done"
           r == [AtRest EXCEPT !.pc = pc]
<1>1. pc \in {"idle", "done"} /\ Become(p, r)
  BY DEF End
<1> HIDE DEF pc
<1>2. ProcOK(p, plan[p], r)
  BY <1>1, PlanOf, Rests
<1>3. r.pc = pc /\ r.irq = "off" /\ r.pref = {}
  BY DEF AtRest
<1> HIDE DEF r
<1>4. ProcessesOK' /\ Bystanders(p) /\ proc'[p] = r
  BY <1>1, <1>2, OneBecomes
<1> QED
  BY <1>1, <1>3, <1>4 DEF Kept, Shape, Ended

LEMMA GoesOnWith ==
    ASSUME TypeOK, ProcsOK, NEW p \in Procs, NEW r \in Process, GoOn(p, r), plan' = plan,
           InOrder(plan[p], r.todo, r.pref),
           r.todo # <<>> /\ Head(r.todo) \in WithToken => r.tok \in Token,
           r.pref # {} => p \in r.pref,
           r.irq # "off" => plan[p].cmd \in DbCommands
                            /\ \A k \in DOMAIN r.todo : r.todo[k] \in Late(plan[p]),
           r.irq = proc[p].irq,
           \/ r.pref = {} \/ proc[p].pc = "readPref"
           \/ r.pref = proc[p].pref /\ r.todo = proc[p].todo,
           r.todo # <<>> /\ Head(r.todo) \in WithToken => proc[p].pc \in GetToken
    PROVE  Kept(p)
<1>1. CASE r.todo = <<>>
  BY <1>1, Ends DEF GoOn
<1>2. CASE r.todo # <<>>
  <2> DEFINE r2 == [r EXCEPT !.pc = Head(r.todo), !.todo = Tail(r.todo)]
  <2>1. Become(p, r2)
    BY <1>2 DEF GoOn
  <2>2. plan[p] \in Plan
    BY PlanOf
  <2>3. /\ Head(r.todo) \in PC /\ Tail(r.todo) \in Seq(PC)
    <3>1. r.todo \in Seq(PC)
      BY Fields
    <3> QED
      BY <1>2, <3>1
  <2>4. /\ r2 \in Process
        /\ r2.pc = Head(r.todo) /\ r2.todo = Tail(r.todo) /\ r2.tok = r.tok
        /\ r2.pref = r.pref /\ r2.irq = r.irq
    BY <2>3 DEF Process
  <2> HIDE DEF r2
  <2>5. ProcOK(p, plan[p], r2)
    BY <1>2, <2>2, <2>4, GoesOn
  <2>6. ProcessesOK' /\ Bystanders(p) /\ proc'[p] = r2
    BY <2>1, <2>5, OneBecomes
  <2>7. r2.pc \in Entries(plan[p].cmd) /\ r2.pc \notin Fills
    <3>1. r2.pc \in Entries(plan[p].cmd)
      BY <1>2, <2>2, <2>4, OrderIsKept
    <3>2. \A x \in Entries(plan[p].cmd) : x \notin Fills
      BY <2>2, StepsArePCs DEF Entries, ApiEntries, ClientEntries, Fills, TlsPC, SshPC
    <3> QED
      BY <3>1, <3>2
  <2>8. ASSUME HoldsPref(r2)
        PROVE  proc[p].pc = "readPref" \/ (HoldsPref(proc[p]) /\ r2.pref = proc[p].pref)
    <3>1. r.todo \in Seq(PC)
      BY Fields
    <3>2. /\ Head(r.todo) = r.todo[1] /\ 1 \in DOMAIN r.todo
          /\ \A k \in DOMAIN Tail(r.todo) : k + 1 \in DOMAIN r.todo /\ Tail(r.todo)[k] = r.todo[k + 1]
      BY <1>2, <3>1
    <3>3. \E k \in DOMAIN r.todo : r.todo[k] = "newPref"
      BY <2>4, <2>8, <3>2 DEF HoldsPref
    <3> QED
      BY <2>4, <2>8, <3>3 DEF HoldsPref
  <2>9. ASSUME Refreshing(plan[p], r2)
        PROVE  proc[p].pc \in {"readApi", "refresh"}
    <3>1. r2.pc \in WithToken /\ plan[p].cmd = "refresh"
      BY <2>7, <2>9 DEF Refreshing, Refreshes, WithToken, Fills
    <3>2. proc[p].pc \in GetToken
      BY <1>2, <2>4, <3>1
    <3>3. proc[p].pc \in {"readApi", "refresh", "newToken", "idle", "done", "fillToken"}
      BY <2>2, <3>1, KindsOfCommands DEF ProcsOK, ProcOK
    <3> QED
      BY <3>2, <3>3 DEF GetToken
  <2>10. Walks(p)
    BY <2>4, <2>6, <2>7, <2>8, <2>9 DEF Walks
  <2> QED
    BY <2>6, <2>10 DEF Kept, Shape
<1> QED
  BY <1>1, <1>2

\* A step that returns to what p was called from.
LEMMA GoesOnFrom ==
    ASSUME TypeOK, ProcsOK, NEW p \in Procs, NEW r \in Process, GoOn(p, r), plan' = plan,
           r.todo = proc[p].todo, r.irq = proc[p].irq,
           IF proc[p].pc = "readPref" THEN p \in r.pref ELSE r.pref = proc[p].pref,
           proc[p].pc \in GetToken => r.tok \in Token
    PROVE  Kept(p)
<1>1. ProcOK(p, plan[p], proc[p])
  BY DEF ProcsOK
<1>2. InOrder(plan[p], r.todo, r.pref)
  <2>1. InOrder(plan[p], r.todo, IF proc[p].pc = "readPref" THEN {p} ELSE proc[p].pref)
    BY <1>1 DEF ProcOK
  <2>2. CASE proc[p].pc # "readPref" /\ r.pref = proc[p].pref
    BY <2>1, <2>2
  <2>3. CASE proc[p].pc = "readPref" /\ p \in r.pref
    <3>1. r.pref # {} /\ InOrder(plan[p], r.todo, {p})
      BY <2>1, <2>3
    <3> QED
      BY <3>1 DEF InOrder
  <2> QED
    BY <2>2, <2>3
<1>3. /\ r.todo # <<>> /\ Head(r.todo) \in WithToken => r.tok \in Token
      /\ r.pref # {} => p \in r.pref
      /\ r.irq # "off" => plan[p].cmd \in DbCommands
                            /\ \A k \in DOMAIN r.todo : r.todo[k] \in Late(plan[p])
      /\ r.todo # <<>> /\ Head(r.todo) \in WithToken => proc[p].pc \in GetToken
  BY <1>1 DEF ProcOK
<1> QED
  BY <1>2, <1>3, GoesOnWith

LEMMA Returns ==
    ASSUME TypeOK, ProcsOK, NEW p \in Procs, Return(p), plan' = plan,
           proc[p].pc \notin GetToken \cup {"readPref"}
    PROVE  Kept(p)
<1>1. proc[p] \in Process
  BY DEF TypeOK
<1> QED
  BY <1>1, GoesOnFrom DEF Return

\* Another step with the same steps to follow.
LEMMA MovesTo ==
    ASSUME TypeOK, ProcsOK, NEW p \in Procs, NEW r \in Process, Become(p, r), plan' = plan,
           proc[p].pc # "readPref", r.pc \in Entries(plan[p].cmd) \cup Between(plan[p].cmd),
           r.pc # "readPref",
           r.todo = proc[p].todo, r.pref = proc[p].pref, r.irq = proc[p].irq,
           proc[p].pc \in GetToken => r.pc \in GetToken,
           r.pc \in WithToken \cup {"fillToken"} => r.tok \in Token,
           r.pc \in TlsPC => r.key \in Pairs /\ r.key.slot = <<"tls", plan[p].org>>,
           r.pc \in SshPC => r.key \in Pairs /\ r.key.slot = <<"ssh", plan[p].org>>,
           IF r.pc = "fillPref" THEN proc[p].pc \in Late(plan[p]) \cup {"fillPref"}
           ELSE r.pc \notin Late(plan[p]) /\ proc[p].pc \notin Late(plan[p]) \cup {"fillPref"},
           IF r.pc \in Fills THEN OpensAt(proc[p].pc, r.pc)
           ELSE r.pc \notin {"newPref", "refresh", "newToken"}
    PROVE  Kept(p)
<1>1. ProcOK(p, plan[p], proc[p]) /\ plan[p] \in Plan
  BY PlanOf DEF ProcsOK
<1>2. r.pc \notin Due(plan[p])
  BY <1>1, Steps DEF Due
<1>3. ProcOK(p, plan[p], r)
  BY <1>1, <1>2, Moves
<1>4. ProcessesOK' /\ Bystanders(p) /\ proc'[p] = r
  BY <1>3, OneBecomes
<1>5. CASE r.pc \in Fills
  BY <1>4, <1>5 DEF Kept, Shape, Opens
<1>6. CASE r.pc \notin Fills
  <2>1. HoldsPref(r) => HoldsPref(proc[p])
    BY <1>6 DEF HoldsPref
  <2>2. ~Refreshing(plan[p], r)
    BY <1>6 DEF Refreshing, Fills
  <2>3. Walks(p)
    BY <1>4, <1>6, <2>1, <2>2 DEF Walks
  <2> QED
    BY <1>4, <2>3 DEF Kept, Shape
<1> QED
  BY <1>5, <1>6

\* The kind of command that a step belongs to.
LEMMA ClientAt ==
    ASSUME TypeOK, ProcsOK, NEW p \in Procs,
           proc[p].pc \notin ApiEntries \cup {"idle", "done", "fillToken", "devicePoll"}
    PROVE  /\ plan[p].cmd \in ClientCmds
           /\ plan[p].cmd \notin ApiCmds
           /\ proc[p].pc = "chooseClient" => plan[p].cmd = "db"
           /\ PC \ (ApiEntries \cup {"devicePoll", "chooseClient"})
                 \subseteq Entries(plan[p].cmd) \cup Between(plan[p].cmd)
<1>1. plan[p] \in Plan /\ proc[p].pc \in Entries(plan[p].cmd) \cup Between(plan[p].cmd)
  BY PlanOf DEF ProcsOK, ProcOK
<1>2. plan[p].cmd \in ClientCmds /\ plan[p].cmd \notin ApiCmds
  <2>1. plan[p].cmd \in ApiCmds => proc[p].pc \in ApiEntries \cup {"idle", "done", "fillToken", "devicePoll"}
    BY <1>1, KindsOfCommands DEF ApiEntries
  <2> QED
    BY <1>1, <2>1, StepsArePCs
<1> QED
  BY <1>1, <1>2, KindsOfCommands

LEMMA ApiAt ==
    ASSUME TypeOK, ProcsOK, NEW p \in Procs,
           proc[p].pc \in ApiEntries \cup {"devicePoll"}
    PROVE  /\ plan[p].cmd \in ApiCmds
           /\ {"readApi", "refresh", "newToken", "fillToken"}
                 \subseteq Entries(plan[p].cmd) \cup Between(plan[p].cmd)
           /\ proc[p].pc \in {"switchOrg", "password", "deviceCode", "challenge", "devicePoll"} =>
                 /\ plan[p].cmd # "refresh"
                 /\ "devicePoll" \in Between(plan[p].cmd)
<1>1. plan[p] \in Plan /\ proc[p].pc \in Entries(plan[p].cmd) \cup Between(plan[p].cmd)
  BY PlanOf DEF ProcsOK, ProcOK
<1>2. ApiEntries \cap ClientEntries = {} /\ "devicePoll" \notin ClientEntries
  BY DEF ApiEntries, ClientEntries
<1>3. plan[p].cmd \in ApiCmds
  BY <1>1, <1>2, KindsOfCommands, StepsArePCs
<1>4. plan[p].cmd \in {"refresh"} \/ plan[p].cmd \in ApiCmds \ {"refresh"}
  BY <1>3
<1>5. CASE plan[p].cmd = "refresh"
  <2>1. /\ Entries(plan[p].cmd) = {"readApi", "refresh", "newToken"}
        /\ Between(plan[p].cmd) = {"idle", "done", "fillToken"}
    BY <1>1, <1>5, KindsOfCommands
  <2> HIDE DEF Entries, Between
  <2>2. proc[p].pc \in {"readApi", "refresh", "newToken", "idle", "done", "fillToken"}
    BY <1>1, <2>1
  <2> QED
    BY <1>3, <2>1, <2>2
<1>6. CASE plan[p].cmd \in ApiCmds \ {"refresh"}
  BY <1>1, <1>3, <1>6, KindsOfCommands DEF ApiEntries
<1> QED
  BY <1>4, <1>5, <1>6

LEMMA PlanKept ==
    ASSUME NoFile
    PROVE  /\ plan' = plan /\ token' = token /\ keyFile' = keyFile /\ crtFile' = crtFile
           /\ prefs' = prefs /\ handed' = handed
BY DEF NoFile, files

\* A Goto of a process of a client command.
LEMMA ClientGoes ==
    ASSUME TypeOK, ProcsOK, NEW p \in Procs, NEW r \in Process, Become(p, r), plan' = plan,
           proc[p].pc \in PC \ (ApiEntries \cup {"devicePoll", "readPref", "idle", "done",
                                                 "fillToken"}),
           r.pc \in PC \ (ApiEntries \cup {"devicePoll", "readPref", "chooseClient"}),
           r.todo = proc[p].todo, r.pref = proc[p].pref, r.irq = proc[p].irq,
           r.pc = "fillToken" => r.tok \in Token,
           r.pc \in TlsPC => r.key \in Pairs /\ r.key.slot = <<"tls", plan[p].org>>,
           r.pc \in SshPC => r.key \in Pairs /\ r.key.slot = <<"ssh", plan[p].org>>,
           r.pc \in Fills => OpensAt(proc[p].pc, r.pc),
           IF r.pc = "fillPref" THEN proc[p].pc \in Late(plan[p]) \cup {"fillPref"}
           ELSE r.pc \notin Late(plan[p]) /\ proc[p].pc \notin Late(plan[p]) \cup {"fillPref"}
    PROVE  Kept(p)
<1>1. r.pc \in Entries(plan[p].cmd) \cup Between(plan[p].cmd)
  BY ClientAt
<1>2. /\ proc[p].pc \notin GetToken /\ r.pc \notin WithToken
      /\ r.pc \notin Fills => r.pc \notin {"newPref", "refresh", "newToken"}
  BY DEF GetToken, WithToken, ApiEntries, Late, Fills
<1> QED
  BY <1>1, <1>2, MovesTo

LEMMA GotoFields ==
    ASSUME TypeOK, NEW p \in Procs, NEW pc \in PC, Goto(p, pc)
    PROVE  \E r \in Process :
              /\ r = [proc[p] EXCEPT !.pc = pc]
              /\ Become(p, r) /\ r.pc = pc /\ r.todo = proc[p].todo /\ r.tok = proc[p].tok
              /\ r.pref = proc[p].pref /\ r.irq = proc[p].irq /\ r.key = proc[p].key
              /\ r.org = proc[p].org /\ r.crt = proc[p].crt /\ r.cert = proc[p].cert
<1> DEFINE r == [proc[p] EXCEPT !.pc = pc]
<1>1. proc[p] \in Process /\ Become(p, r)
  BY DEF TypeOK, Goto
<1>2. /\ r \in Process
      /\ r.pc = pc /\ r.todo = proc[p].todo /\ r.tok = proc[p].tok
      /\ r.pref = proc[p].pref /\ r.irq = proc[p].irq /\ r.key = proc[p].key
      /\ r.org = proc[p].org /\ r.crt = proc[p].crt /\ r.cert = proc[p].cert
  BY <1>1 DEF Process
<1> QED
  BY <1>1, <1>2

LEMMA ClientGoto ==
    ASSUME TypeOK, ProcsOK, NEW p \in Procs, NEW pc \in PC, Goto(p, pc), plan' = plan,
           proc[p].pc \in PC \ (ApiEntries \cup {"devicePoll", "readPref", "idle", "done",
                                                 "fillToken"}),
           pc \in PC \ (ApiEntries \cup {"devicePoll", "readPref", "fillToken", "chooseClient"}),
           pc \in TlsPC => proc[p].pc \in TlsPC,
           pc \in SshPC => proc[p].pc \in SshPC,
           pc \in Fills => OpensAt(proc[p].pc, pc),
           IF pc = "fillPref" THEN proc[p].pc \in Late(plan[p]) \cup {"fillPref"}
           ELSE pc \notin Late(plan[p]) /\ proc[p].pc \notin Late(plan[p]) \cup {"fillPref"}
    PROVE  Kept(p)
<1>1. PICK r \in Process :
              /\ Become(p, r) /\ r.pc = pc /\ r.todo = proc[p].todo
              /\ r.pref = proc[p].pref /\ r.irq = proc[p].irq /\ r.key = proc[p].key
  BY GotoFields
<1>2. /\ proc[p].pc \in TlsPC => proc[p].key \in Pairs /\ proc[p].key.slot = <<"tls", plan[p].org>>
      /\ proc[p].pc \in SshPC => proc[p].key \in Pairs /\ proc[p].key.slot = <<"ssh", plan[p].org>>
  BY DEF ProcsOK, ProcOK
<1> QED
  BY <1>1, <1>2, ClientGoes

LEMMA LoginKeeps ==
    ASSUME TypeOK, ProcsOK, NEW p \in Procs, LoginStep(p)
    PROVE  Kept(p)
<1>0. proc[p] \in Process /\ ProcOK(p, plan[p], proc[p]) /\ plan[p] \in Plan
  BY PlanOf DEF TypeOK, ProcsOK
<1> USE DEF At
<1>1. ASSUME PickHost(p)
      PROVE  Kept(p)
  <2>1. plan' = plan /\ proc[p].pc = "pickHost"
    BY <1>1, PlanKept DEF PickHost
  <2>2. Return(p) \/ Goto(p, "authorize") \/ End(p)
    BY <1>1 DEF PickHost, AskToLogIn
  <2>3. CASE Goto(p, "authorize")
    BY <2>1, <2>3, ClientGoto DEF PC, ApiEntries, TlsPC, SshPC, Late, Fills, OpensAt
  <2> QED
    BY <2>1, <2>2, <2>3, Ends, Returns DEF GetToken
<1>2. ASSUME ReadToken(p)
      PROVE  Kept(p)
  <2>1. plan' = plan /\ proc[p].pc = "readToken"
    BY <1>2, PlanKept DEF ReadToken
  <2>2. Return(p) \/ Goto(p, "launch") \/ End(p)
    BY <1>2 DEF ReadToken
  <2>3. CASE Goto(p, "launch")
    BY <2>1, <2>3, ClientGoto DEF PC, ApiEntries, TlsPC, SshPC, Late, Fills, OpensAt
  <2> QED
    BY <2>1, <2>2, <2>3, Ends, Returns DEF GetToken
<1>3. ASSUME proc[p].pc \in {"launch", "poll"}, plan' = plan, NewClientToken(p) \/ End(p)
      PROVE  Kept(p)
  <2>1. CASE NewClientToken(p)
    <3> DEFINE t == [of |-> plan[p].org, live |-> TRUE]
               r == [proc[p] EXCEPT !.pc = "fillToken", !.tok = t]
    <3>1. t \in Token
      BY <1>0 DEF Plan, Token
    <3> HIDE DEF t
    <3>2. /\ r \in Process /\ r.pc = "fillToken" /\ r.tok = t /\ r.todo = proc[p].todo
          /\ r.pref = proc[p].pref /\ r.irq = proc[p].irq
      <4>1. "fillToken" \in PC
        BY DEF PC
      <4> QED
        BY <1>0, <3>1, <4>1 DEF Process
    <3>3. Become(p, r)
      BY <2>1 DEF NewClientToken, t
    <3> HIDE DEF r
    <3> QED
      BY <1>3, <3>1, <3>2, <3>3, ClientGoes DEF PC, ApiEntries, TlsPC, SshPC, Late, Fills, OpensAt
  <2> QED
    BY <1>3, <2>1, Ends
<1>4. ASSUME Launch(p) \/ PollForToken(p)
      PROVE  Kept(p)
  BY <1>3, <1>4 DEF Launch, PollForToken
<1>5. ASSUME Authorize(p)
      PROVE  Kept(p)
  <2>1. plan' = plan /\ proc[p].pc = "authorize"
    BY <1>5, PlanKept DEF Authorize
  <2>2. Goto(p, "poll") \/ End(p)
    BY <1>5 DEF Authorize
  <2>3. CASE Goto(p, "poll")
    BY <2>1, <2>3, ClientGoto DEF PC, ApiEntries, TlsPC, SshPC, Late, Fills, OpensAt
  <2> QED
    BY <2>1, <2>2, <2>3, Ends
<1>6. ASSUME SaveToken(p)
      PROVE  Kept(p)
  <2> DEFINE r == [proc[p] EXCEPT !.tok = None]
  <2>1. plan' = plan /\ proc[p].pc = "fillToken" /\ GoOn(p, r)
    BY <1>6 DEF SaveToken
  <2>2. r \in Process /\ r.todo = proc[p].todo /\ r.irq = proc[p].irq /\ r.pref = proc[p].pref
    BY <1>0 DEF Process
  <2>3. proc[p].pc \notin GetToken
    BY <2>1 DEF GetToken
  <2> HIDE DEF r
  <2> QED
    BY <2>1, <2>2, <2>3, GoesOnFrom
<1>7. ASSUME ReadPref(p)
      PROVE  Kept(p)
  <2> DEFINE pref == SetSocket(IF prefs = Torn THEN {} ELSE prefs, p)
             r == [proc[p] EXCEPT !.pref = pref]
  <2>1. plan' = plan /\ proc[p].pc = "readPref" /\ (End(p) \/ GoOn(p, r))
    BY <1>7, PlanKept DEF ReadPref
  <2>2. pref \in SUBSET Procs /\ p \in pref
    BY DEF TypeOK, SetSocket
  <2> HIDE DEF pref
  <2>3. r \in Process /\ r.todo = proc[p].todo /\ r.irq = proc[p].irq /\ r.pref = pref
    BY <1>0, <2>2 DEF Process
  <2>4. proc[p].pc \notin GetToken
    BY <2>1 DEF GetToken
  <2> HIDE DEF r
  <2>5. CASE GoOn(p, r)
    <3>1. p \in r.pref
      BY <2>2, <2>3
    <3> QED
      BY <2>1, <2>3, <2>4, <2>5, <3>1, GoesOnFrom
  <2>6. CASE End(p)
    BY <2>1, <2>6, Ends
  <2> QED
    BY <2>1, <2>5, <2>6
<1>8. ASSUME NewPref(p)
      PROVE  Kept(p)
  <2>1. plan' = plan /\ proc[p].pc = "newPref" /\ Goto(p, "fillPref")
    BY <1>8 DEF NewPref
  <2> QED
    BY <2>1, ClientGoto DEF PC, ApiEntries, TlsPC, SshPC, Late, Fills, OpensAt
<1>9. ASSUME FillPref(p)
      PROVE  Kept(p)
  BY <1>9, Returns DEF FillPref, GetToken
<1> QED
  BY <1>1, <1>2, <1>4, <1>5, <1>6, <1>7, <1>8, <1>9 DEF LoginStep

\* A pair that is not in use belongs to the slot.
LEMMA NewPairOfSlot ==
    ASSUME NEW s \in Slots, Unused(s) # {}
    PROVE  NewPair(s) \in Pairs /\ NewPair(s).slot = s
<1>1. (CHOOSE n \in Unused(s) : TRUE) \in 1..MaxPairs
  BY DEF Unused
<1> QED
  BY <1>1 DEF NewPair, Pairs

LEMMA MineIsASlot ==
    ASSUME TypeOK, NEW p \in Procs
    PROVE  /\ Mine(p, "tls") = <<"tls", plan[p].org>> /\ Mine(p, "ssh") = <<"ssh", plan[p].org>>
           /\ Mine(p, "tls") \in Slots /\ Mine(p, "ssh") \in Slots /\ Target(p) = Mine(p, "tls")
<1>1. plan[p].org \in Orgs
  BY PlanOf DEF Plan
<1> QED
  BY <1>1 DEF Mine, Slots, Target

\* What a file is that can be read.
LEMMA ReadableFiles ==
    ASSUME TypeOK, NEW s \in Slots
    PROVE  /\ Readable(keyFile[s]) => keyFile[s] \in Pairs
           /\ Readable(crtFile[s]) => crtFile[s] \in Certificates
BY DEF TypeOK, Readable

LEMMA FetchesPair ==
    ASSUME TypeOK, ProcsOK, NEW p \in Procs, FetchPair(p), plan' = plan,
           proc[p].pc \in {"fileOrg", "validKey", "validCrt"}
    PROVE  Kept(p)
<1> DEFINE todo == <<"newKey">> \o proc[p].todo
           r == [[proc[p] EXCEPT !.org = None] EXCEPT !.pc = "readToken", !.todo = todo]
<1>1. proc[p] \in Process /\ ProcOK(p, plan[p], proc[p]) /\ plan[p] \in Plan
  BY PlanOf DEF TypeOK, ProcsOK
<1>2. plan[p].cmd \in ClientCmds /\ "readToken" \in Entries(plan[p].cmd)
  <2>1. plan[p].cmd \in ClientCmds
    BY ClientAt DEF ApiEntries
  <2> QED
    BY <1>1, <2>1, KindsOfCommands DEF ClientEntries
<1>3. InOrder(plan[p], proc[p].todo, proc[p].pref) /\ proc[p].todo \in Seq(ClientEntries)
  BY <1>1, <1>2, KindsOfCommands DEF ProcOK, InOrder
<1>4. InOrder(plan[p], todo, proc[p].pref)
  <2>1. InOrder(plan[p], <<"newKey">>, proc[p].pref) /\ Early(plan[p], <<"newKey">>)
    BY <1>1, <1>2, PiecesInOrder DEF Early, Late
  <2> QED
    BY <1>1, <1>2, <1>3, <2>1, ClientJoined
<1>5. todo \in Seq(PC)
  BY <1>1, <1>4, StepsArePCs DEF InOrder
<1>6. todo # <<>> /\ Head(todo) = "newKey"
  BY <1>3
<1>7. Become(p, r)
  <2>1. ([proc[p] EXCEPT !.org = None]).todo = proc[p].todo
    BY <1>1 DEF Process
  <2> QED
    BY <2>1 DEF FetchPair, Call
<1> HIDE DEF todo
<1>8. /\ r \in Process /\ r.pc = "readToken" /\ r.todo = todo /\ r.tok = proc[p].tok
      /\ r.pref = proc[p].pref /\ r.irq = proc[p].irq
  <2>1. "readToken" \in PC
    BY DEF PC
  <2> QED
    BY <1>1, <1>5, <2>1 DEF Process
<1> HIDE DEF r
<1>9. "newKey" \notin WithToken
      /\ "readToken" \notin WithToken \cup {"fillToken", "fillPref", "readPref"} \cup TlsPC \cup SshPC \cup Late(plan[p])
                            \cup Due(plan[p])
      /\ proc[p].pc \notin Late(plan[p]) \cup {"fillPref"}
  BY DEF WithToken, TlsPC, SshPC, Late, Due
<1>10. ProcOK(p, plan[p], r)
  BY <1>1, <1>2, <1>4, <1>6, <1>8, <1>9 DEF ProcOK
<1>11. ProcessesOK' /\ Bystanders(p) /\ proc'[p] = r
  BY <1>7, <1>10, OneBecomes
<1>12. HoldsPref(r) => HoldsPref(proc[p])
  <2> DEFINE t == proc[p].todo
  <2>1. /\ t \in Seq(ClientEntries) /\ todo = <<"newKey">> \o t
    BY <1>3 DEF todo
  <2>2. \A k \in DOMAIN todo : todo[k] = "newKey" \/ (k - 1 \in DOMAIN t /\ todo[k] = t[k - 1])
    BY <2>1
  <2> HIDE DEF t
  <2>3. "newKey" # "newPref" /\ "readToken" # "newPref"
    OBVIOUS
  <2> QED
    BY <1>8, <2>2, <2>3 DEF HoldsPref, t
<1>13. r.pc \notin Fills /\ ~Refreshing(plan[p], r)
  BY <1>8 DEF Fills, TlsPC, SshPC, Refreshing
<1>14. Walks(p)
  BY <1>8, <1>11, <1>12, <1>13 DEF Walks
<1> QED
  BY <1>11, <1>14 DEF Kept, Shape

LEMMA GoodPairKeeps ==
    ASSUME TypeOK, ProcsOK, NEW p \in Procs, NEW org \in Orgs \cup {None}, GoodPair(p, org),
           plan' = plan, proc[p].pc \notin GetToken \cup {"readPref"}
    PROVE  Kept(p)
<1> DEFINE r == [proc[p] EXCEPT !.org = org, !.key = None]
<1>1. proc[p] \in Process /\ GoOn(p, r)
  BY DEF TypeOK, GoodPair
<1>2. r \in Process /\ r.todo = proc[p].todo /\ r.irq = proc[p].irq /\ r.pref = proc[p].pref
  BY <1>1 DEF Process
<1> HIDE DEF r
<1> QED
  BY <1>1, <1>2, GoesOnFrom

LEMMA SignedKeeps ==
    ASSUME TypeOK, ProcsOK, NEW p \in Procs, NEW cert \in Certificates, Signed(p, cert),
           plan' = plan, proc[p].pc \notin GetToken \cup {"readPref"}
    PROVE  Kept(p)
<1> DEFINE r == [proc[p] EXCEPT !.key = None, !.crt = None, !.cert = cert]
<1>1. proc[p] \in Process /\ GoOn(p, r)
  BY DEF TypeOK, Signed
<1>2. r \in Process /\ r.todo = proc[p].todo /\ r.irq = proc[p].irq /\ r.pref = proc[p].pref
  BY <1>1 DEF Process
<1> HIDE DEF r
<1> QED
  BY <1>1, <1>2, GoesOnFrom

LEMMA CertKeeps ==
    ASSUME TypeOK, ProcsOK, NEW p \in Procs, CertStep(p)
    PROVE  Kept(p)
<1>0. /\ proc[p] \in Process /\ ProcOK(p, plan[p], proc[p]) /\ plan[p] \in Plan
      /\ Mine(p, "tls") = <<"tls", plan[p].org>> /\ Mine(p, "ssh") = <<"ssh", plan[p].org>>
      /\ Mine(p, "tls") \in Slots /\ Mine(p, "ssh") \in Slots /\ Target(p) = Mine(p, "tls")
  BY PlanOf, MineIsASlot DEF TypeOK, ProcsOK
<1> USE DEF At
\* The steps that only go from one to the other.
<1>a. /\ "validCrt" \in PC /\ "newCrt" \in PC /\ "fillCrt" \in PC /\ "sshNewKey" \in PC
      /\ "sshNewCrt" \in PC /\ "sshFillCrt" \in PC /\ "validKey" \in PC /\ "readCrt" \in PC
      /\ "sshReadKey" \in PC
  BY DEF PC
<1>b. ASSUME NEW to \in {"validCrt", "newCrt", "fillCrt", "sshNewKey", "sshNewCrt", "sshFillCrt",
                         "validKey", "readCrt", "sshReadKey"}
      PROVE  /\ to \in PC \ (ApiEntries \cup {"devicePoll", "readPref", "fillToken", "chooseClient"})
             /\ to \notin Late(plan[p]) \cup {"fillPref"}
             /\ to \in TlsPC <=> to \in {"newCrt", "fillCrt"}
             /\ to \in SshPC <=> to \in {"sshNewCrt", "sshFillCrt"}
  BY DEF PC, ApiEntries, Late, TlsPC, SshPC
<1>c. ASSUME NEW from \in {"fileOrg", "validKey", "fillKey", "newCrt", "sshReadKey", "sshFillKey",
                           "sshNewCrt", "readKey", "sshReadCrt"}
      PROVE  /\ from \in PC \ (ApiEntries \cup {"devicePoll", "readPref", "idle", "done", "fillToken"})
             /\ from \notin Late(plan[p]) \cup {"fillPref"}
             /\ from \in {"fillKey", "newCrt"} => from \in TlsPC
             /\ from \in {"sshFillKey", "sshNewCrt"} => from \in SshPC
  BY DEF PC, ApiEntries, Late, TlsPC, SshPC
<1>d. ASSUME plan' = plan, NEW to, Goto(p, to),
             \/ proc[p].pc = "validKey" /\ to = "validCrt"
             \/ proc[p].pc = "fillKey" /\ to = "newCrt"
             \/ proc[p].pc = "newCrt" /\ to = "fillCrt"
             \/ proc[p].pc = "sshReadKey" /\ to = "sshNewKey"
             \/ proc[p].pc = "sshFillKey" /\ to = "sshNewCrt"
             \/ proc[p].pc = "sshNewCrt" /\ to = "sshFillCrt"
      PROVE  Kept(p)
  <2>1. /\ to \in PC \ (ApiEntries \cup {"devicePoll", "readPref", "fillToken", "chooseClient"})
        /\ to \notin Late(plan[p]) \cup {"fillPref"}
        /\ to \in TlsPC => proc[p].pc \in TlsPC
        /\ to \in SshPC => proc[p].pc \in SshPC
    BY <1>b, <1>c, <1>d
  <2>2. /\ proc[p].pc \in PC \ (ApiEntries \cup {"devicePoll", "readPref", "idle", "done", "fillToken"})
        /\ proc[p].pc \notin Late(plan[p]) \cup {"fillPref"}
    BY <1>c, <1>d
  <2>3. to \in Fills => OpensAt(proc[p].pc, to)
    BY <1>d DEF Fills, TlsPC, SshPC, OpensAt
  <2> QED
    BY <1>d, <2>1, <2>2, <2>3, ClientGoto
<1>e. ASSUME plan' = plan, NEW r \in Process, Become(p, r),
             r.todo = proc[p].todo, r.pref = proc[p].pref, r.irq = proc[p].irq,
             r.pc \in {"validKey", "readCrt", "sshReadKey", "sshNewKey"},
             proc[p].pc \in {"fileOrg", "readKey", "sshReadCrt"}
      PROVE  Kept(p)
  <2>1. /\ r.pc \in PC \ (ApiEntries \cup {"devicePoll", "readPref", "fillToken", "chooseClient"})
        /\ r.pc \notin Late(plan[p]) \cup {"fillPref"} \cup TlsPC \cup SshPC
    BY <1>b, <1>e
  <2>2. /\ proc[p].pc \in PC \ (ApiEntries \cup {"devicePoll", "readPref", "idle", "done", "fillToken"})
        /\ proc[p].pc \notin Late(plan[p]) \cup {"fillPref"}
    BY <1>c, <1>e
  <2>3. r.pc \notin Fills /\ r.pc # "fillToken"
    BY <1>e DEF Fills, TlsPC, SshPC
  <2> QED
    BY <1>e, <2>1, <2>2, <2>3, ClientGoes
<1>1. ASSUME FileOrg(p)
      PROVE  Kept(p)
  <2>1. plan' = plan /\ proc[p].pc = "fileOrg"
    BY <1>1, PlanKept DEF FileOrg
  <2>2. CASE FetchPair(p)
    BY <2>1, <2>2, FetchesPair
  <2>3. CASE ~FetchPair(p)
    <3> DEFINE org == token["client"].of
               r == [proc[p] EXCEPT !.pc = "validKey", !.org = org]
    <3>1. token["client"] \in Token /\ Become(p, r)
      BY <1>1, <2>3 DEF FileOrg
    <3>2. org \in Orgs
      BY <3>1 DEF Token
    <3> HIDE DEF org
    <3>3. r \in Process /\ r.pc = "validKey" /\ r.todo = proc[p].todo /\ r.pref = proc[p].pref
          /\ r.irq = proc[p].irq
      BY <1>0, <1>a, <3>2 DEF Process
    <3> HIDE DEF r
    <3> QED
      BY <1>e, <2>1, <3>1, <3>3
  <2> QED
    BY <2>2, <2>3
<1>2. ASSUME ValidKey(p)
      PROVE  Kept(p)
  <2>1. plan' = plan /\ proc[p].pc = "validKey" /\ (Goto(p, "validCrt") \/ FetchPair(p))
    BY <1>2, PlanKept DEF ValidKey
  <2> QED
    BY <1>d, <2>1, FetchesPair
<1>3. ASSUME ValidCrt(p)
      PROVE  Kept(p)
  <2>1. /\ plan' = plan /\ proc[p].pc = "validCrt" /\ proc[p].org \in Orgs \cup {None}
        /\ GoodPair(p, proc[p].org) \/ FetchPair(p)
    BY <1>0, <1>3, PlanKept, Fields DEF ValidCrt
  <2> QED
    BY <2>1, FetchesPair, GoodPairKeeps DEF GetToken
<1>4. ASSUME NewKey(p)
      PROVE  Kept(p)
  <2>1. plan' = plan /\ proc[p].pc = "newKey"
    BY <1>4 DEF NewKey
  <2>2. CASE End(p)
    BY <2>1, <2>2, Ends
  <2>3. CASE ~End(p)
    <3> DEFINE i == NewPair(Mine(p, "tls"))
               r == [proc[p] EXCEPT !.pc = "fillKey", !.key = i]
    <3>1. Become(p, r) /\ Unused(Mine(p, "tls")) # {}
      BY <1>4, <2>3 DEF NewKey
    <3>2. i \in Pairs /\ i.slot = <<"tls", plan[p].org>>
      BY <1>0, <3>1, NewPairOfSlot
    <3> HIDE DEF i
    <3>3. /\ r \in Process /\ r.pc = "fillKey" /\ r.key = i
          /\ r.todo = proc[p].todo /\ r.irq = proc[p].irq /\ r.pref = proc[p].pref
      <4>1. "fillKey" \in PC
        BY DEF PC
      <4> QED
        BY <1>0, <3>2, <4>1 DEF Process
    <3> HIDE DEF r
    <3>4. /\ proc[p].pc \in PC \ (ApiEntries \cup {"devicePoll", "readPref", "idle", "done",
                                                   "fillToken"})
          /\ r.pc \in PC \ (ApiEntries \cup {"devicePoll", "readPref", "chooseClient"})
          /\ r.pc # "fillToken" /\ r.pc \notin SshPC
          /\ r.pc \notin Late(plan[p]) \cup {"fillPref"}
          /\ proc[p].pc \notin Late(plan[p]) \cup {"fillPref"}
      BY <2>1, <3>3 DEF PC, ApiEntries, SshPC, Late
    <3>5. OpensAt(proc[p].pc, r.pc)
      BY <2>1, <3>3 DEF OpensAt
    <3> QED
      BY <2>1, <3>1, <3>2, <3>3, <3>4, <3>5, ClientGoes
  <2> QED
    BY <2>2, <2>3
<1>5. ASSUME FillKey(p) \/ NewCrt(p)
      PROVE  Kept(p)
  BY <1>5, <1>d DEF FillKey, NewCrt
<1>6. ASSUME FillCrt(p)
      PROVE  Kept(p)
  <2>1. plan[p].org \in Orgs
    BY PlanOf DEF Plan
  <2> QED
    BY <1>6, <2>1, GoodPairKeeps DEF FillCrt, GetToken
<1>7. ASSUME ReadKey(p)
      PROVE  Kept(p)
  <2>1. plan' = plan /\ proc[p].pc = "readKey"
    BY <1>7, PlanKept DEF ReadKey
  <2>2. CASE End(p)
    BY <2>1, <2>2, Ends
  <2>3. CASE ~End(p)
    <3> DEFINE i == keyFile[Mine(p, "tls")]
               r == [proc[p] EXCEPT !.pc = "readCrt", !.key = i]
    <3>1. Become(p, r) /\ Readable(i)
      BY <1>7, <2>3 DEF ReadKey
    <3>2. i \in Pairs
      BY <1>0, <3>1, ReadableFiles
    <3> HIDE DEF i
    <3>3. /\ r \in Process /\ r.pc = "readCrt"
          /\ r.todo = proc[p].todo /\ r.irq = proc[p].irq /\ r.pref = proc[p].pref
      BY <1>0, <1>a, <3>2 DEF Process
    <3> HIDE DEF r
    <3> QED
      BY <1>e, <2>1, <3>1, <3>3
  <2> QED
    BY <2>2, <2>3
<1>8. ASSUME ReadCrt(p)
      PROVE  Kept(p)
  <2> DEFINE i == crtFile[Mine(p, "tls")]
             r1 == [proc[p] EXCEPT !.org = None, !.crt = i]
             r2 == [proc[p] EXCEPT !.key = None]
  <2>1. plan' = plan /\ proc[p].pc = "readCrt"
    BY <1>8, PlanKept DEF ReadCrt
  <2>2. CASE End(p)
    BY <2>1, <2>2, Ends
  <2>3. proc[p].pc \notin GetToken
    BY <2>1 DEF GetToken
  <2>4. CASE GoOn(p, r1) /\ Readable(i)
    <3>1. i \in Certificates
      BY <1>0, <2>4, ReadableFiles
    <3> HIDE DEF i
    <3>2. r1 \in Process /\ r1.todo = proc[p].todo /\ r1.irq = proc[p].irq /\ r1.pref = proc[p].pref
      BY <1>0, <3>1 DEF Process
    <3> HIDE DEF r1
    <3> QED
      BY <2>1, <2>3, <2>4, <3>2, GoesOnFrom
  <2>5. CASE GoOn(p, r2)
    <3>1. r2 \in Process /\ r2.todo = proc[p].todo /\ r2.irq = proc[p].irq /\ r2.pref = proc[p].pref
      BY <1>0 DEF Process
    <3> HIDE DEF r2
    <3> QED
      BY <2>1, <2>3, <2>5, <3>1, GoesOnFrom
  <2> QED
    BY <1>8, <2>2, <2>4, <2>5 DEF ReadCrt
<1>9. ASSUME SshReadCrt(p)
      PROVE  Kept(p)
  <2>1. plan' = plan /\ proc[p].pc = "sshReadCrt"
    BY <1>9, PlanKept DEF SshReadCrt
  <2>2. CASE End(p)
    BY <2>1, <2>2, Ends
  <2>3. CASE ~End(p)
    <3> DEFINE i == crtFile[Mine(p, "ssh")]
               pc == IF Readable(i) THEN "sshReadKey" ELSE "sshNewKey"
               crt == IF Readable(i) THEN i ELSE None
               r == [proc[p] EXCEPT !.pc = pc, !.crt = crt]
    <3>1. Become(p, r)
      BY <1>9, <2>3 DEF SshReadCrt
    <3>2. crt \in Certificates \cup {None} /\ pc \in {"sshReadKey", "sshNewKey"}
      BY <1>0, ReadableFiles
    <3> HIDE DEF i, pc, crt
    <3>3. /\ r \in Process /\ r.pc = pc
          /\ r.todo = proc[p].todo /\ r.irq = proc[p].irq /\ r.pref = proc[p].pref
      BY <1>0, <1>a, <3>2 DEF Process
    <3> HIDE DEF r
    <3> QED
      BY <1>e, <2>1, <3>1, <3>2, <3>3
  <2> QED
    BY <2>2, <2>3
<1>10. ASSUME SshReadKey(p)
       PROVE  Kept(p)
  <2>1. plan' = plan /\ proc[p].pc = "sshReadKey"
    BY <1>10, PlanKept DEF SshReadKey
  <2>2. CASE Goto(p, "sshNewKey")
    BY <1>d, <2>1, <2>2
  <2>3. CASE ~Goto(p, "sshNewKey")
    <3>1. Signed(p, proc[p].crt) /\ Match(keyFile[Mine(p, "ssh")], proc[p].crt)
      BY <1>10, <2>3 DEF SshReadKey
    <3>2. proc[p].crt \in Certificates
      BY <1>0, <3>1 DEF Match, Readable, Process
    <3> QED
      BY <2>1, <3>1, <3>2, SignedKeeps DEF GetToken
  <2> QED
    BY <2>2, <2>3
<1>11. ASSUME SshNewKey(p)
       PROVE  Kept(p)
  <2> DEFINE i == NewPair(Mine(p, "ssh"))
             r == [proc[p] EXCEPT !.pc = "sshFillKey", !.crt = None, !.key = i]
  <2>1. plan' = plan /\ proc[p].pc = "sshNewKey" /\ Become(p, r) /\ Unused(Mine(p, "ssh")) # {}
    BY <1>11 DEF SshNewKey
  <2>2. i \in Pairs /\ i.slot = <<"ssh", plan[p].org>>
    BY <1>0, <2>1, NewPairOfSlot
  <2> HIDE DEF i
  <2>3. /\ r \in Process /\ r.pc = "sshFillKey" /\ r.key = i
        /\ r.todo = proc[p].todo /\ r.irq = proc[p].irq /\ r.pref = proc[p].pref
    <3>1. "sshFillKey" \in PC
      BY DEF PC
    <3> QED
      BY <1>0, <2>2, <3>1 DEF Process
  <2> HIDE DEF r
  <2>4. /\ proc[p].pc \in PC \ (ApiEntries \cup {"devicePoll", "readPref", "idle", "done",
                                                 "fillToken"})
        /\ r.pc \in PC \ (ApiEntries \cup {"devicePoll", "readPref", "chooseClient"})
        /\ r.pc # "fillToken" /\ r.pc \notin TlsPC
        /\ r.pc \notin Late(plan[p]) \cup {"fillPref"}
        /\ proc[p].pc \notin Late(plan[p]) \cup {"fillPref"}
    BY <2>1, <2>3 DEF PC, ApiEntries, TlsPC, Late
  <2>5. OpensAt(proc[p].pc, r.pc)
    BY <2>1, <2>3 DEF OpensAt
  <2> QED
    BY <2>1, <2>2, <2>3, <2>4, <2>5, ClientGoes
<1>12. ASSUME SshFillKey(p) \/ SshNewCrt(p)
       PROVE  Kept(p)
  <2>1. CASE SshFillKey(p)
    BY <1>d, <2>1 DEF SshFillKey
  <2>2. CASE SshNewCrt(p)
    BY <1>d, <2>2, Ends DEF SshNewCrt
  <2> QED
    BY <1>12, <2>1, <2>2
<1>13. ASSUME SshFillCrt(p)
       PROVE  Kept(p)
  <2>1. plan' = plan /\ proc[p].pc = "sshFillCrt" /\ Signed(p, Issued(proc[p].key))
    BY <1>13 DEF SshFillCrt
  <2>2. Issued(proc[p].key) \in Certificates
    <3>1. proc[p].key \in Pairs
      BY <1>0, <2>1 DEF ProcOK, SshPC
    <3> QED
      BY <3>1 DEF Issued, Certificates
  <2> QED
    BY <2>1, <2>2, SignedKeeps DEF GetToken
<1> QED
  BY <1>1, <1>2, <1>3, <1>4, <1>5, <1>6, <1>7, <1>8, <1>9, <1>10, <1>11, <1>12, <1>13
     DEF CertStep

\* A command that starts has an orderly program and nothing in hand.
LEMMA Begins ==
    ASSUME TypeOK, ProcsOK, NEW p \in Procs, NEW todo, GoOn(p, [AtRest EXCEPT !.todo = todo]),
           plan' = plan, InOrder(plan[p], todo, {}), proc[p].pc \in {"idle", "chooseClient"},
           todo # <<>> => Head(todo) \notin WithToken
    PROVE  Kept(p)
<1> DEFINE r == [AtRest EXCEPT !.todo = todo]
<1>1. todo \in Seq(PC)
  BY PlanOf, StepsArePCs DEF InOrder
<1>2. r \in Process
  <2>1. "idle" \in PC
    BY DEF PC
  <2> QED
    BY <1>1, <2>1 DEF AtRest, Process
<1>3. r.todo = todo /\ r.pref = {} /\ r.irq = "off"
  BY DEF AtRest
<1>4. proc[p].irq = "off"
  BY DEF ProcsOK, ProcOK, Late
<1> HIDE DEF r
<1> QED
  BY <1>2, <1>3, <1>4, GoesOnWith DEF r

\* From a step after the preferences have been read to another one.
LEMMA LateGoto ==
    ASSUME TypeOK, ProcsOK, NEW p \in Procs, plan' = plan, NEW f \in Handed, NEW new, NEW fill,
           HandOver(p, f, new, fill),
           \/ new = "newChain" /\ fill = "fillChain"
           \/ new = "newJks" /\ fill = "fillJks"
           \/ new = "newXml" /\ fill = "fillXml"
    PROVE  Kept(p)
<1> USE DEF At
<1>1. CASE proc[p].pc = new /\ Goto(p, fill)
  <2>1. /\ fill \in PC /\ proc[p].pc \in PC \ (ApiEntries \cup {"devicePoll", "readPref", "idle",
                                                               "done", "fillToken"})
        /\ fill \in PC \ (ApiEntries \cup {"devicePoll", "readPref", "fillToken", "chooseClient"})
        /\ fill \notin TlsPC \cup SshPC \cup Late(plan[p]) \cup {"fillPref"}
        /\ proc[p].pc \notin Late(plan[p]) \cup {"fillPref"}
    BY <1>1 DEF PC, ApiEntries, TlsPC, SshPC, Late
  <2>2. OpensAt(proc[p].pc, fill)
    BY <1>1 DEF OpensAt
  <2> QED
    BY <1>1, <2>1, <2>2, ClientGoto
<1>2. CASE proc[p].pc = fill /\ Return(p)
  BY <1>2, Returns DEF GetToken
<1> QED
  BY <1>1, <1>2 DEF HandOver

LEMMA CommandKeeps ==
    ASSUME TypeOK, ProcsOK, NEW p \in Procs, CommandStep(p)
    PROVE  Kept(p)
<1>0. proc[p] \in Process /\ ProcOK(p, plan[p], proc[p]) /\ plan[p] \in Plan
  BY PlanOf DEF TypeOK, ProcsOK
<1> USE DEF At
<1>1. ASSUME StartClient(p)
      PROVE  Kept(p)
  <2>1. /\ plan' = plan /\ plan[p].cmd \in ClientCmds /\ proc[p].pc = "idle"
        /\ GoOn(p, [AtRest EXCEPT !.todo = Program(p)])
    BY <1>1, PlanKept DEF StartClient
  <2>2. InOrder(plan[p], Program(p), {})
    BY <1>0, <2>1, ClientProgramsInOrder
  <2>3. Program(p) # <<>> => Head(Program(p)) \notin WithToken
    <3>1. Program(p) \in Seq(ClientEntries)
      BY <1>0, <2>1, <2>2, KindsOfCommands DEF InOrder
    <3> QED
      BY <1>0, <3>1, Steps
  <2> QED
    BY <2>1, <2>2, <2>3, Begins
<1>2. ASSUME ChooseClient(p)
      PROVE  Kept(p)
  <2>1. plan' = plan /\ proc[p].pc = "chooseClient"
    BY <1>2, PlanKept DEF ChooseClient
  <2>2. PICK program \in {MysqlCommand, PsqlCommand, DbeaverCommand, WorkbenchCommand} :
           GoOn(p, [AtRest EXCEPT !.todo = program])
    BY <1>2 DEF ChooseClient
  <2>3. plan[p].cmd \in DbCommands
    BY <2>1, ClientAt DEF ApiEntries, DbCommands
  <2>4. plan[p].cmd \in ClientCmds
    BY <2>1, ClientAt DEF ApiEntries
  <2>5. InOrder(plan[p], program, {})
    BY <1>0, <2>3, DbProgramsInOrder
  <2>6. program # <<>> => Head(program) \notin WithToken
    <3>1. program \in Seq(ClientEntries)
      BY <1>0, <2>4, <2>5, KindsOfCommands DEF InOrder
    <3> QED
      BY <1>0, <3>1, Steps
  <2> QED
    BY <2>1, <2>2, <2>5, <2>6, Begins
<1>3. ASSUME DownloadCertificateChain(p)
      PROVE  Kept(p)
  <2>1. plan' = plan
    BY <1>3, PlanKept DEF DownloadCertificateChain, HandOver
  <2>2. CASE HandOver(p, "chain", "newChain", "fillChain")
    BY <2>1, <2>2, LateGoto DEF Handed
  <2>3. CASE proc[p].pc = "fillChain" /\ Return(p)
    BY <2>1, <2>3, Returns DEF GetToken
  <2> QED
    BY <1>3, <2>1, <2>2, <2>3, Ends DEF DownloadCertificateChain
<1>4. ASSUME WriteKeyStore(p)
      PROVE  Kept(p)
  BY <1>4, LateGoto DEF WriteKeyStore, HandOver, Handed
<1>5. ASSUME WriteConnections(p)
      PROVE  Kept(p)
  BY <1>5, LateGoto DEF WriteConnections, HandOver, Handed
<1>6. ASSUME Dial(p)
      PROVE  Kept(p)
  <2>1. plan' = plan /\ proc[p].pc \in {"dial", "mysql", "psql", "dbeaver", "workbench"}
    BY <1>6, PlanKept DEF Dial
  <2>2. GoOn(p, InSession(p)) \/ Failed(p)
    BY <1>6 DEF Dial
  <2>3. CASE GoOn(p, InSession(p))
    <3> DEFINE r == InSession(p)
    <3>1. r \in Process /\ r.todo = proc[p].todo /\ r.irq = proc[p].irq /\ r.pref = proc[p].pref
      BY <1>0 DEF Process, InSession
    <3>2. proc[p].pc \notin GetToken \cup {"readPref"}
      BY <2>1 DEF GetToken
    <3> HIDE DEF r
    <3> QED
      BY <2>1, <2>3, <3>1, <3>2, GoesOnFrom DEF r
  <2>4. CASE Failed(p) /\ proc[p].pc = "psql"
    <3> DEFINE r == [proc[p] EXCEPT !.pc = "newPref", !.todo = <<>>]
    <3>1. Become(p, r)
      BY <2>4 DEF Failed
    <3>2. "newPref" \in PC /\ <<>> \in Seq(PC)
      BY DEF PC
    <3>3. /\ r \in Process /\ r.pc = "newPref" /\ r.todo = <<>> /\ r.irq = proc[p].irq
          /\ r.pref = proc[p].pref
      BY <1>0, <3>2 DEF Process
    <3> HIDE DEF r
    <3>4. proc[p].pc \in Late(plan[p]) /\ r.pc \in Late(plan[p])
      BY <2>4, <3>3 DEF Late
    <3>5. /\ r.pref # {} /\ p \in r.pref
          /\ r.irq # "off" => plan[p].cmd \in DbCommands
      BY <1>0, <3>3, <3>4 DEF ProcOK
    <3>6. r.pc \in Entries(plan[p].cmd)
      <4>1. plan[p].cmd \in ClientCmds
        BY <2>4, ClientAt DEF ApiEntries
      <4> QED
        BY <1>0, <3>3, <4>1, KindsOfCommands DEF ClientEntries
    <3>7. InOrder(plan[p], <<>>, r.pref)
      BY DEF InOrder
    <3>8. r.pc \notin TlsPC \cup SshPC \cup WithToken \cup {"fillToken", "readPref"} \cup Due(plan[p])
      BY <3>3 DEF TlsPC, SshPC, WithToken, Due
    <3>9. ProcOK(p, plan[p], r)
      BY <3>3, <3>4, <3>5, <3>6, <3>7, <3>8 DEF ProcOK
    <3>10. ProcessesOK' /\ Bystanders(p) /\ proc'[p] = r
      BY <2>1, <3>1, <3>9, OneBecomes
    <3>11. HoldsPref(proc[p])
      <4>1. proc[p].todo # <<>> /\ proc[p].todo[Len(proc[p].todo)] = "newPref"
        BY <1>0, <2>4 DEF ProcOK, Due
      <4>2. Len(proc[p].todo) \in DOMAIN proc[p].todo
        BY <1>0, <4>1, Fields
      <4> QED
        BY <3>3, <3>5, <4>1, <4>2 DEF HoldsPref
    <3>12. r.pc \notin Fills /\ ~Refreshing(plan[p], r)
      BY <2>4, <3>3, ClientAt DEF Fills, TlsPC, SshPC, Refreshing, Refreshes, ApiCmds, ApiEntries
    <3>13. Walks(p)
      BY <3>3, <3>10, <3>11, <3>12 DEF Walks
    <3> QED
      BY <3>10, <3>13 DEF Kept, Shape
  <2>5. CASE Failed(p) /\ proc[p].pc # "psql"
    BY <2>1, <2>5, Ends DEF Failed
  <2> QED
    BY <2>2, <2>3, <2>4, <2>5
<1>7. ASSUME Signer(p)
      PROVE  Kept(p)
  <2> DEFINE r == [proc[p] EXCEPT !.cert = None]
  <2>1. plan' = plan /\ proc[p].pc = "signer" /\ (GoOn(p, r) \/ End(p))
    BY <1>7, PlanKept DEF Signer
  <2>2. r \in Process /\ r.todo = proc[p].todo /\ r.irq = proc[p].irq /\ r.pref = proc[p].pref
    BY <1>0 DEF Process
  <2>3. proc[p].pc \notin GetToken
    BY <2>1 DEF GetToken
  <2> HIDE DEF r
  <2>4. CASE GoOn(p, r)
    BY <2>1, <2>2, <2>3, <2>4, GoesOnFrom
  <2> QED
    BY <2>1, <2>4, Ends
<1>8. ASSUME SessionEnds(p)
      PROVE  Kept(p)
  BY <1>8, PlanKept, Returns DEF SessionEnds, GetToken
<1>9. ASSUME plan' = plan, NEW irq \in {"new", "fill", "exit"},
             Become(p, [proc[p] EXCEPT !.irq = irq]), Interrupt(p) \/ OnInterruptDo(p),
             plan[p].cmd \in DbCommands /\ proc[p].pc \in Late(plan[p]) \cup {"fillPref"}
      PROVE  Kept(p)
  <2> DEFINE r == [proc[p] EXCEPT !.irq = irq]
  <2>1. /\ r \in Process /\ r.pc = proc[p].pc /\ r.todo = proc[p].todo /\ r.tok = proc[p].tok
        /\ r.pref = proc[p].pref /\ r.key = proc[p].key /\ r.irq = irq
    BY <1>0 DEF Process
  <2> HIDE DEF r
  <2>2. ProcOK(p, plan[p], r)
    BY <1>0, <1>9, <2>1 DEF ProcOK
  <2>3. ProcessesOK' /\ Bystanders(p) /\ proc'[p] = r
    BY <1>9, <2>2, OneBecomes DEF r
  <2> QED
    BY <1>9, <2>1, <2>3 DEF Kept, Shape, Interrupted
<1>10. ASSUME Interrupt(p)
       PROVE  Kept(p)
  <2>1. plan[p].cmd # "tls"
    BY <1>10 DEF Interrupt, DbCommands
  <2>2. /\ plan' = plan /\ plan[p].cmd \in DbCommands
        /\ proc[p].pc \in {"mysql", "psql", "dbeaver", "workbench", "session", "newPref", "fillPref"}
        /\ Become(p, [proc[p] EXCEPT !.irq = "new"])
    BY <1>10, PlanKept DEF Interrupt
  <2>3. proc[p].pc \in Late(plan[p]) \cup {"fillPref"}
    BY <2>1, <2>2 DEF Late
  <2> QED
    BY <1>9, <1>10, <2>2, <2>3
<1>11. ASSUME OnInterruptDo(p)
       PROVE  Kept(p)
  <2>1. plan' = plan /\ proc[p].irq # "off"
    BY <1>11 DEF OnInterruptDo
  <2>2. plan[p].cmd \in DbCommands /\ proc[p].pc \in Late(plan[p]) \cup {"fillPref"}
    BY <1>0, <2>1 DEF ProcOK
  <2>3. CASE End(p)
    BY <2>1, <2>3, Ends
  <2>4. CASE ~End(p)
    <3>1. \/ Become(p, [proc[p] EXCEPT !.irq = "fill"])
          \/ Become(p, [proc[p] EXCEPT !.irq = "exit"])
      BY <1>11, <2>4 DEF OnInterruptDo
    <3> QED
      BY <1>9, <1>11, <2>1, <2>2, <3>1
  <2> QED
    BY <2>3, <2>4
<1> QED
  BY <1>1, <1>2, <1>3, <1>4, <1>5, <1>6, <1>7, <1>8, <1>10, <1>11 DEF CommandStep

LEMMA AnsweredKeeps ==
    ASSUME TypeOK, ProcsOK, NEW p \in Procs, NEW of \in Orgs, NEW live \in BOOLEAN, NEW fault,
           Answered(p, of, live, fault), proc[p].pc # "readPref"
    PROVE  Kept(p)
<1> DEFINE t == [of |-> of, live |-> live]
           r == [proc[p] EXCEPT !.tok = t]
<1>1. plan' = plan /\ (GoOn(p, r) \/ End(p))
  BY PlanKept DEF Answered
<1>2. t \in Token
  BY DEF Token
<1> HIDE DEF t
<1>3. proc[p] \in Process
  BY DEF TypeOK
<1>4. r \in Process /\ r.todo = proc[p].todo /\ r.irq = proc[p].irq /\ r.pref = proc[p].pref
      /\ r.tok = t
  BY <1>2, <1>3 DEF Process
<1> HIDE DEF r
<1>5. CASE GoOn(p, r)
  BY <1>1, <1>2, <1>4, <1>5, GoesOnFrom
<1> QED
  BY <1>1, <1>5, Ends

LEMMA ApiKeeps ==
    ASSUME TypeOK, ProcsOK, NEW p \in Procs, ApiStep(p)
    PROVE  Kept(p)
<1>0. /\ proc[p] \in Process /\ ProcOK(p, plan[p], proc[p]) /\ plan[p] \in Plan
      /\ plan[p].org \in Orgs
  BY PlanOf DEF TypeOK, ProcsOK, Plan
<1> USE DEF At
<1>1. ASSUME StartApi(p)
      PROVE  Kept(p)
  <2> DEFINE todo == CASE plan[p].cmd = "refresh"   -> RefreshRound
                       [] plan[p].cmd = "switchOrg" -> SwitchOrgCommand
                       [] OTHER                     -> SignInCommand(p)
  <2>1. /\ plan' = plan /\ plan[p].cmd \in ApiCmds /\ proc[p].pc = "idle"
        /\ GoOn(p, [AtRest EXCEPT !.todo = todo])
    BY <1>1, PlanKept DEF StartApi
  <2>2. InOrder(plan[p], todo, {})
    BY <1>0, <2>1, ApiProgramsInOrder
  <2>3. Head(todo) \notin WithToken
    <3>1. Head(RefreshRound) = "readApi" /\ Head(SwitchOrgCommand) = "readApi"
      BY DEF RefreshRound, SwitchOrgCommand
    <3>2. Head(SignInCommand(p)) \in {"deviceCode", "password"}
      <4>1. CASE plan[p].cmd = "device"
        BY <4>1 DEF SignInCommand
      <4>2. CASE plan[p].cmd # "device"
        <5> DEFINE t == IF plan[p].mfa THEN <<"readApi", "challenge", "newToken">> ELSE <<>>
        <5>1. t \in Seq(ApiEntries) /\ <<"password", "newToken">> \in Seq(ApiEntries)
          <6>1. <<"password", "newToken">> \in Seq(ApiEntries)
            BY DEF ApiEntries
          <6>2. <<"readApi", "challenge", "newToken">> \in Seq(ApiEntries)
            BY DEF ApiEntries
          <6>3. <<>> \in Seq(ApiEntries)
            OBVIOUS
          <6> QED
            BY <6>1, <6>2, <6>3
        <5>2. SignInCommand(p) = <<"password", "newToken">> \o t
          BY <4>2 DEF SignInCommand
        <5> HIDE DEF t
        <5>3. Head(<<"password", "newToken">> \o t) = "password"
          <6> DEFINE s == <<"password", "newToken">>
          <6>1. s \in Seq(ApiEntries) /\ s # <<>> /\ Head(s) = "password"
            BY <5>1
          <6> HIDE DEF s
          <6>2. 1 \in 1..Len(s) /\ s[1] = Head(s)
            BY <5>1, <6>1
          <6>3. s \o t \in Seq(ApiEntries) /\ Len(s \o t) = Len(s) + Len(t) /\ (s \o t)[1] = s[1]
            BY <5>1, <6>1, <6>2
          <6>4. \A x \in Seq(ApiEntries) : Len(x) >= 1 => Head(x) = x[1]
            OBVIOUS
          <6>5. Len(s \o t) >= 1
            BY <5>1, <6>1, <6>2, <6>3
          <6> QED
            BY <6>1, <6>2, <6>3, <6>4, <6>5 DEF s
        <5> QED
          BY <5>2, <5>3
      <4> QED
        BY <4>1, <4>2
    <3> QED
      BY <3>1, <3>2 DEF WithToken
  <2> HIDE DEF todo
  <2> QED
    BY <2>1, <2>2, <2>3, Begins
<1>2. ASSUME ReadApi(p)
      PROVE  Kept(p)
  <2> DEFINE t == IF plan[p].env # None THEN plan[p].env ELSE token["api"]
             r == [proc[p] EXCEPT !.tok = t]
  <2>1. plan' = plan /\ proc[p].pc = "readApi" /\ (End(p) \/ (t \in Token /\ GoOn(p, r)))
    BY <1>2, PlanKept DEF ReadApi
  <2>2. CASE t \in Token /\ GoOn(p, r)
    <3> HIDE DEF t
    <3>1. r \in Process /\ r.todo = proc[p].todo /\ r.irq = proc[p].irq /\ r.pref = proc[p].pref
          /\ r.tok = t
      BY <1>0, <2>2 DEF Process
    <3> HIDE DEF r
    <3> QED
      BY <2>1, <2>2, <3>1, GoesOnFrom
  <2> QED
    BY <2>1, <2>2, Ends
<1>3. proc[p].pc \in {"refresh", "challenge"} => proc[p].tok.of \in Orgs
  BY <1>0 DEF ProcOK, WithToken, Token
<1>4. ASSUME Refused(p)
      PROVE  Kept(p)
  BY <1>4, PlanKept, Ends DEF Refused
<1>5. ASSUME Refresh(p)
      PROVE  Kept(p)
  BY <1>3, <1>4, <1>5, AnsweredKeeps DEF Refresh
<1>6. ASSUME SwitchOrg(p)
      PROVE  Kept(p)
  BY <1>0, <1>4, <1>6, AnsweredKeeps DEF SwitchOrg
<1>7. ASSUME Password(p)
      PROVE  Kept(p)
  BY <1>0, <1>7, AnsweredKeeps DEF Password
<1>8. ASSUME CreateDeviceAuthorization(p)
      PROVE  Kept(p)
  <2>1. plan' = plan /\ proc[p].pc = "deviceCode" /\ (Goto(p, "devicePoll") \/ End(p))
    BY <1>8, PlanKept DEF CreateDeviceAuthorization
  <2>2. CASE Goto(p, "devicePoll")
    <3>1. "devicePoll" \in PC
      BY DEF PC
    <3>2. PICK r \in Process :
              /\ Become(p, r) /\ r.pc = "devicePoll" /\ r.todo = proc[p].todo
              /\ r.pref = proc[p].pref /\ r.irq = proc[p].irq
      BY <2>2, <3>1, GotoFields
    <3>3. "devicePoll" \in Between(plan[p].cmd)
      BY <2>1, ApiAt DEF ApiEntries
    <3>4. /\ r.pc \in GetToken
          /\ r.pc \notin WithToken \cup {"fillToken", "fillPref"} \cup TlsPC \cup SshPC \cup Late(plan[p])
          /\ proc[p].pc \notin Late(plan[p]) \cup {"fillPref"}
      BY <2>1, <3>2 DEF GetToken, WithToken, TlsPC, SshPC, Late
    <3>5. r.pc \notin Fills \cup {"newPref", "refresh", "newToken", "readPref"}
      BY <3>2 DEF Fills, TlsPC, SshPC
    <3> QED
      BY <2>1, <3>2, <3>3, <3>4, <3>5, MovesTo
  <2> QED
    BY <2>1, <2>2, Ends
<1>9. ASSUME DevicePoll(p)
      PROVE  Kept(p)
  BY <1>0, <1>9, AnsweredKeeps DEF DevicePoll
<1>10. ASSUME MFAChallenge(p)
      PROVE  Kept(p)
  BY <1>0, <1>4, <1>10, AnsweredKeeps DEF MFAChallenge
<1>11. ASSUME NewToken(p)
       PROVE  Kept(p)
  <2>1. plan' = plan /\ proc[p].pc = "newToken" /\ Goto(p, "fillToken")
    BY <1>11 DEF NewToken
  <2>2. "fillToken" \in PC
    BY DEF PC
  <2>3. PICK r \in Process :
            /\ Become(p, r) /\ r.pc = "fillToken" /\ r.todo = proc[p].todo
            /\ r.pref = proc[p].pref /\ r.irq = proc[p].irq /\ r.tok = proc[p].tok
    BY <2>1, <2>2, GotoFields
  <2>4. "fillToken" \in Entries(plan[p].cmd) \cup Between(plan[p].cmd)
    BY <2>1, ApiAt DEF ApiEntries
  <2>5. proc[p].tok \in Token
    BY <1>0, <2>1 DEF ProcOK, WithToken
  <2>6. /\ r.pc \notin TlsPC \cup SshPC \cup Late(plan[p]) \cup {"fillPref"}
        /\ proc[p].pc \notin Late(plan[p]) \cup {"fillPref"} \cup GetToken
    BY <2>1, <2>3 DEF GetToken, TlsPC, SshPC, Late
  <2>7. OpensAt(proc[p].pc, r.pc) /\ r.pc \in Fills
    BY <2>1, <2>3 DEF OpensAt, Fills
  <2> QED
    BY <2>1, <2>3, <2>4, <2>5, <2>6, <2>7, MovesTo
<1> QED
  BY <1>1, <1>2, <1>5, <1>6, <1>7, <1>8, <1>9, <1>10, <1>11 DEF ApiStep

\* In sum.
LEMMA StepsKeep ==
    ASSUME TypeOK, ProcsOK, NEW p \in Procs, Step(p) \/ Kill(p)
    PROVE  Kept(p)
<1>1. CASE Step(p)
  BY <1>1, LoginKeeps, CertKeeps, CommandKeeps, ApiKeeps DEF Step
<1>2. CASE Kill(p)
  BY <1>2, PlanKept, Ends DEF Kill
<1> QED
  BY <1>1, <1>2

LEMMA ProcessesKept ==
    ASSUME TypeOK, ProcsOK, [Next]_vars
    PROVE  ProcessesOK'
<1>1. CASE UNCHANGED vars
  BY <1>1 DEF vars, files, TypeOK, ProcessesOK, ProcsOK
<1>2. CASE Next
  <2>1. ASSUME NEW p \in Procs, Step(p) \/ Kill(p)
        PROVE  ProcessesOK'
    BY <2>1, StepsKeep DEF Kept
  <2>2. ASSUME LongPause \/ Expire
        PROVE  ProcessesOK'
    <3>1. plan' = plan /\ proc' = proc
      BY <2>2 DEF LongPause, Expire
    <3> QED
      BY <3>1 DEF TypeOK, ProcessesOK, ProcsOK
  <2> QED
    BY <1>2, <2>1, <2>2 DEF Next, Action
<1> QED
  BY <1>1, <1>2

-----------------------------------------------------------------------------
(* Which steps write which file *)

FaultCounted == faults' = faults \/ \E kind \in FaultKinds : Fault(kind)

KeyUntouched == UNCHANGED keyFile
CrtUntouched == UNCHANGED crtFile
TokenUntouched == UNCHANGED token
PrefsUntouched == UNCHANGED prefs
HandedUntouched == UNCHANGED handed
NothingTouched == KeyUntouched /\ CrtUntouched /\ TokenUntouched /\ PrefsUntouched /\ HandedUntouched

LEMMA NoFileTouches ==
    ASSUME NoFile
    PROVE  NothingTouched
BY PlanKept DEF NothingTouched, KeyUntouched, CrtUntouched, TokenUntouched, PrefsUntouched,
                HandedUntouched

LEMMA OneFault ==
    ASSUME NEW kind, Fault(kind)
    PROVE  FaultCounted
BY DEF Fault, FaultCounted

LEMMA LoginWrites ==
    ASSUME NEW p \in Procs, LoginStep(p)
    PROVE  /\ FaultCounted
           /\ KeyUntouched /\ CrtUntouched /\ HandedUntouched
           /\ TokenUntouched \/ Launch(p) \/ PollForToken(p) \/ SaveToken(p)
           /\ PrefsUntouched \/ NewPref(p) \/ FillPref(p)
<1> USE DEF NothingTouched, KeyUntouched, CrtUntouched, TokenUntouched, PrefsUntouched, HandedUntouched
<1>1. ASSUME PickHost(p)
      PROVE  FaultCounted /\ NothingTouched
  BY <1>1, OneFault, NoFileTouches DEF PickHost, AskToLogIn, FaultCounted
<1>2. ASSUME ReadToken(p)
      PROVE  FaultCounted /\ NothingTouched
  BY <1>2, OneFault, NoFileTouches DEF ReadToken, FaultCounted
<1>3. ASSUME Launch(p)
      PROVE  FaultCounted /\ KeyUntouched /\ CrtUntouched /\ PrefsUntouched /\ HandedUntouched
  BY <1>3, OneFault DEF Launch, FaultCounted
<1>4. ASSUME PollForToken(p)
      PROVE  FaultCounted /\ KeyUntouched /\ CrtUntouched /\ PrefsUntouched /\ HandedUntouched
  BY <1>4, OneFault DEF PollForToken, FaultCounted
<1>5. ASSUME Authorize(p)
      PROVE  FaultCounted /\ NothingTouched
  BY <1>5, OneFault, NoFileTouches DEF Authorize, FaultCounted
<1>6. ASSUME SaveToken(p)
      PROVE  FaultCounted /\ KeyUntouched /\ CrtUntouched /\ PrefsUntouched /\ HandedUntouched
  BY <1>6 DEF SaveToken, FaultCounted
<1>7. ASSUME ReadPref(p)
      PROVE  FaultCounted /\ NothingTouched
  BY <1>7, NoFileTouches DEF ReadPref, FaultCounted
<1>8. ASSUME NewPref(p)
      PROVE  FaultCounted /\ KeyUntouched /\ CrtUntouched /\ TokenUntouched /\ HandedUntouched
  BY <1>8 DEF NewPref, FaultCounted
<1>9. ASSUME FillPref(p)
      PROVE  FaultCounted /\ KeyUntouched /\ CrtUntouched /\ TokenUntouched /\ HandedUntouched
  BY <1>9 DEF FillPref, FaultCounted
<1> HIDE DEF KeyUntouched, CrtUntouched, TokenUntouched, PrefsUntouched, HandedUntouched
<1> QED
  BY <1>1, <1>2, <1>3, <1>4, <1>5, <1>6, <1>7, <1>8, <1>9 DEF LoginStep

LEMMA CertWrites ==
    ASSUME NEW p \in Procs, CertStep(p)
    PROVE  /\ FaultCounted
           /\ TokenUntouched /\ PrefsUntouched /\ HandedUntouched
           /\ \/ KeyUntouched /\ CrtUntouched
              \/ CrtUntouched /\ (NewKey(p) \/ FillKey(p) \/ SshNewKey(p) \/ SshFillKey(p))
              \/ KeyUntouched /\ (NewCrt(p) \/ FillCrt(p) \/ SshNewCrt(p) \/ SshFillCrt(p))
<1> USE DEF NothingTouched, KeyUntouched, CrtUntouched, TokenUntouched, PrefsUntouched, HandedUntouched
<1> DEFINE Others == TokenUntouched /\ PrefsUntouched /\ HandedUntouched
<1>1. ASSUME FileOrg(p) \/ ValidKey(p) \/ ValidCrt(p)
      PROVE  FaultCounted /\ NothingTouched
  BY <1>1, NoFileTouches DEF FileOrg, ValidKey, ValidCrt, FaultCounted
<1>2. ASSUME ReadKey(p)
      PROVE  FaultCounted /\ NothingTouched
  BY <1>2, OneFault, NoFileTouches DEF ReadKey, FaultCounted
<1>3. ASSUME ReadCrt(p) \/ SshReadKey(p)
      PROVE  FaultCounted /\ NothingTouched
  BY <1>3, NoFileTouches DEF ReadCrt, SshReadKey, FaultCounted
<1>4. ASSUME SshReadCrt(p)
      PROVE  FaultCounted /\ NothingTouched
  BY <1>4, OneFault, NoFileTouches DEF SshReadCrt, FaultCounted
<1>5. ASSUME NewKey(p)
      PROVE  FaultCounted /\ CrtUntouched /\ Others
  BY <1>5, OneFault DEF NewKey, FaultCounted
<1>6. ASSUME FillKey(p) \/ SshNewKey(p) \/ SshFillKey(p)
      PROVE  FaultCounted /\ CrtUntouched /\ Others
  BY <1>6 DEF FillKey, SshNewKey, SshFillKey, FaultCounted
<1>7. ASSUME SshNewCrt(p)
      PROVE  FaultCounted /\ KeyUntouched /\ Others
  BY <1>7, OneFault DEF SshNewCrt, FaultCounted
<1>8. ASSUME NewCrt(p) \/ FillCrt(p) \/ SshFillCrt(p)
      PROVE  FaultCounted /\ KeyUntouched /\ Others
  BY <1>8 DEF NewCrt, FillCrt, SshFillCrt, FaultCounted
<1> HIDE DEF KeyUntouched, CrtUntouched, TokenUntouched, PrefsUntouched, HandedUntouched
<1> QED
  BY <1>1, <1>2, <1>3, <1>4, <1>5, <1>6, <1>7, <1>8 DEF CertStep

LEMMA CommandWrites ==
    ASSUME NEW p \in Procs, CommandStep(p)
    PROVE  /\ FaultCounted
           /\ KeyUntouched /\ CrtUntouched /\ TokenUntouched
           /\ PrefsUntouched \/ OnInterruptDo(p)
           /\ HandedUntouched \/ DownloadCertificateChain(p) \/ WriteKeyStore(p)
              \/ WriteConnections(p)
<1> USE DEF NothingTouched, KeyUntouched, CrtUntouched, TokenUntouched, PrefsUntouched, HandedUntouched
<1> DEFINE Others == KeyUntouched /\ CrtUntouched /\ TokenUntouched
<1>1. ASSUME StartClient(p) \/ ChooseClient(p) \/ Signer(p) \/ SessionEnds(p)
      PROVE  FaultCounted /\ NothingTouched
  BY <1>1, NoFileTouches DEF StartClient, ChooseClient, Signer, SessionEnds, FaultCounted
<1>2. ASSUME NEW f, NEW new, NEW fill, HandOver(p, f, new, fill)
      PROVE  FaultCounted /\ Others /\ PrefsUntouched
  BY <1>2 DEF HandOver, FaultCounted
<1>3. ASSUME DownloadCertificateChain(p)
      PROVE  FaultCounted /\ Others /\ PrefsUntouched
  <2>1. CASE HandOver(p, "chain", "newChain", "fillChain")
    BY <1>2, <2>1
  <2>2. CASE NoFile /\ (faults' = faults \/ Fault("api"))
    BY <2>2, OneFault, NoFileTouches DEF FaultCounted
  <2> QED
    BY <1>3, <2>1, <2>2 DEF DownloadCertificateChain
<1>4. ASSUME WriteKeyStore(p) \/ WriteConnections(p)
      PROVE  FaultCounted /\ Others /\ PrefsUntouched
  BY <1>2, <1>4 DEF WriteKeyStore, WriteConnections
<1>5. ASSUME Dial(p)
      PROVE  FaultCounted /\ NothingTouched
  BY <1>5, OneFault, NoFileTouches DEF Dial, FaultCounted
<1>6. ASSUME Interrupt(p)
      PROVE  FaultCounted /\ NothingTouched
  BY <1>6, OneFault, NoFileTouches DEF Interrupt
<1>7. ASSUME OnInterruptDo(p)
      PROVE  FaultCounted /\ Others /\ HandedUntouched
  BY <1>7 DEF OnInterruptDo, FaultCounted
<1> HIDE DEF KeyUntouched, CrtUntouched, TokenUntouched, PrefsUntouched, HandedUntouched
<1> QED
  BY <1>1, <1>3, <1>4, <1>5, <1>6, <1>7 DEF CommandStep

LEMMA ApiWrites ==
    ASSUME NEW p \in Procs, ApiStep(p)
    PROVE  /\ FaultCounted
           /\ KeyUntouched /\ CrtUntouched /\ PrefsUntouched /\ HandedUntouched
           /\ TokenUntouched \/ NewToken(p)
<1> USE DEF NothingTouched, KeyUntouched, CrtUntouched, TokenUntouched, PrefsUntouched, HandedUntouched
<1>1. ASSUME StartApi(p) \/ ReadApi(p)
      PROVE  FaultCounted /\ NothingTouched
  BY <1>1, NoFileTouches DEF StartApi, ReadApi, FaultCounted
<1>2. ASSUME NEW of, NEW live, NEW fault, Answered(p, of, live, fault)
      PROVE  FaultCounted /\ NothingTouched
  BY <1>2, OneFault, NoFileTouches DEF Answered, FaultCounted
<1>3. ASSUME Refused(p)
      PROVE  FaultCounted /\ NothingTouched
  BY <1>3, NoFileTouches DEF Refused, FaultCounted
<1>4. ASSUME Refresh(p)
      PROVE  FaultCounted /\ NothingTouched
  BY <1>2, <1>3, <1>4 DEF Refresh
<1>5. ASSUME SwitchOrg(p)
      PROVE  FaultCounted /\ NothingTouched
  BY <1>2, <1>3, <1>5 DEF SwitchOrg
<1>6. ASSUME Password(p) \/ DevicePoll(p)
      PROVE  FaultCounted /\ NothingTouched
  BY <1>2, <1>6 DEF Password, DevicePoll
<1>7. ASSUME MFAChallenge(p)
      PROVE  FaultCounted /\ NothingTouched
  BY <1>2, <1>3, <1>7 DEF MFAChallenge
<1>8. ASSUME CreateDeviceAuthorization(p)
      PROVE  FaultCounted /\ NothingTouched
  BY <1>8, OneFault, NoFileTouches DEF CreateDeviceAuthorization, FaultCounted
<1>9. ASSUME NewToken(p)
      PROVE  FaultCounted /\ KeyUntouched /\ CrtUntouched /\ PrefsUntouched /\ HandedUntouched
  BY <1>9 DEF NewToken, FaultCounted
<1> HIDE DEF KeyUntouched, CrtUntouched, TokenUntouched, PrefsUntouched, HandedUntouched
<1> QED
  BY <1>1, <1>4, <1>5, <1>6, <1>7, <1>8, <1>9 DEF ApiStep

-----------------------------------------------------------------------------
(* The files hold what belongs into them *)

\* The key in hand when a key or certificate file is written.
LEMMA KeyInHand ==
    ASSUME TypeOK, ProcsOK, NEW p \in Procs
    PROVE  /\ proc[p].pc \in TlsPC => proc[p].key \in Pairs /\ proc[p].key.slot = Mine(p, "tls")
           /\ proc[p].pc \in SshPC => proc[p].key \in Pairs /\ proc[p].key.slot = Mine(p, "ssh")
           /\ proc[p].pc = "fillToken" => proc[p].tok \in Token
BY DEF ProcsOK, ProcOK, Mine

\* What a step writes to one of a pair's files.
KeyWritten ==
    \/ KeyUntouched
    \/ \E s \in Slots : keyFile' = [keyFile EXCEPT ![s] = Torn]
    \/ \E s \in Slots, i \in Pairs : i.slot = s /\ keyFile' = [keyFile EXCEPT ![s] = i]
CrtWritten ==
    \/ CrtUntouched
    \/ \E s \in Slots : crtFile' = [crtFile EXCEPT ![s] = Torn]
    \/ \E s \in Slots, i \in Pairs : i.slot = s /\ crtFile' = [crtFile EXCEPT ![s] = Issued(i)]
    \/ \E S \in SUBSET Slots :
          crtFile' = [s \in Slots |-> IF s \in S THEN Expired(crtFile[s]) ELSE crtFile[s]]

LEMMA PairFilesWritten ==
    ASSUME TypeOK, ProcsOK, Action
    PROVE  KeyWritten /\ CrtWritten
<1>1. ASSUME NEW p \in Procs, Step(p)
      PROVE  KeyWritten /\ CrtWritten
  <2>0. /\ Mine(p, "tls") \in Slots /\ Mine(p, "ssh") \in Slots /\ Target(p) = Mine(p, "tls")
        /\ proc[p].pc \in TlsPC => proc[p].key \in Pairs /\ proc[p].key.slot = Mine(p, "tls")
        /\ proc[p].pc \in SshPC => proc[p].key \in Pairs /\ proc[p].key.slot = Mine(p, "ssh")
    BY MineIsASlot, KeyInHand
  <2>1. CASE CertStep(p)
    <3>1. ASSUME NewKey(p)
          PROVE  KeyWritten
      BY <2>0, <3>1 DEF NewKey, Truncates, KeyWritten, KeyUntouched
    <3>2. ASSUME FillKey(p)
          PROVE  KeyWritten
      <4>1. proc[p].pc \in TlsPC /\ keyFile' = [keyFile EXCEPT ![Mine(p, "tls")] = proc[p].key]
        BY <2>0, <3>2 DEF FillKey, Writes, At, TlsPC
      <4> QED
        BY <2>0, <4>1 DEF KeyWritten
    <3>3. ASSUME SshNewKey(p)
          PROVE  KeyWritten
      BY <2>0, <3>3 DEF SshNewKey, Truncates, KeyWritten
    <3>4. ASSUME SshFillKey(p)
          PROVE  KeyWritten
      <4>1. proc[p].pc \in SshPC /\ keyFile' = [keyFile EXCEPT ![Mine(p, "ssh")] = proc[p].key]
        BY <3>4 DEF SshFillKey, Writes, At, SshPC
      <4> QED
        BY <2>0, <4>1 DEF KeyWritten
    <3>5. ASSUME NewCrt(p)
          PROVE  CrtWritten
      BY <2>0, <3>5 DEF NewCrt, Truncates, CrtWritten
    <3>6. ASSUME FillCrt(p)
          PROVE  CrtWritten
      <4>1. proc[p].pc \in TlsPC /\ crtFile' = [crtFile EXCEPT ![Mine(p, "tls")] = Issued(proc[p].key)]
        BY <2>0, <3>6 DEF FillCrt, Writes, At, TlsPC
      <4> QED
        BY <2>0, <4>1 DEF CrtWritten
    <3>7. ASSUME SshNewCrt(p)
          PROVE  CrtWritten
      BY <2>0, <3>7 DEF SshNewCrt, Truncates, CrtWritten, CrtUntouched
    <3>8. ASSUME SshFillCrt(p)
          PROVE  CrtWritten
      <4>1. proc[p].pc \in SshPC /\ crtFile' = [crtFile EXCEPT ![Mine(p, "ssh")] = Issued(proc[p].key)]
        BY <3>8 DEF SshFillCrt, Writes, At, SshPC
      <4> QED
        BY <2>0, <4>1 DEF CrtWritten
    <3>9. /\ KeyUntouched => KeyWritten
          /\ CrtUntouched => CrtWritten
      BY DEF KeyWritten, CrtWritten
    <3> QED
      BY <2>1, <3>1, <3>2, <3>3, <3>4, <3>5, <3>6, <3>7, <3>8, <3>9, CertWrites
  <2>2. CASE LoginStep(p) \/ CommandStep(p) \/ ApiStep(p)
    BY <2>2, LoginWrites, CommandWrites, ApiWrites DEF KeyWritten, CrtWritten
  <2> QED
    BY <1>1, <2>1, <2>2 DEF Step
<1>2. ASSUME NEW p \in Procs, Kill(p)
      PROVE  KeyWritten /\ CrtWritten
  BY <1>2, NoFileTouches DEF Kill, NothingTouched, KeyWritten, CrtWritten
<1>3. ASSUME LongPause
      PROVE  KeyWritten /\ CrtWritten
  <2>1. crtFile' = [s \in Slots |-> IF s \in Slots THEN Expired(crtFile[s]) ELSE crtFile[s]]
    BY <1>3 DEF LongPause
  <2>2. keyFile' = keyFile
    BY <1>3 DEF LongPause
  <2> QED
    BY <2>1, <2>2 DEF KeyWritten, CrtWritten, KeyUntouched
<1>4. ASSUME Expire
      PROVE  KeyWritten /\ CrtWritten
  <2>1. keyFile' = keyFile
    BY <1>4 DEF Expire
  <2>2. CASE UNCHANGED crtFile
    BY <2>1, <2>2 DEF KeyWritten, CrtWritten, KeyUntouched, CrtUntouched
  <2>3. CASE ~UNCHANGED crtFile
    <3>1. PICK s \in Slots : crtFile' = [crtFile EXCEPT ![s] = Expired(@)]
      BY <1>4, <2>3 DEF Expire
    <3>2. DOMAIN crtFile = Slots /\ crtFile = [t \in Slots |-> crtFile[t]]
      BY DEF TypeOK
    <3>3. crtFile' = [t \in Slots |-> IF t \in {s} THEN Expired(crtFile[t]) ELSE crtFile[t]]
      BY <3>1, <3>2
    <3> QED
      BY <2>1, <3>3 DEF KeyWritten, CrtWritten, KeyUntouched
  <2> QED
    BY <2>2, <2>3
<1> QED
  BY <1>1, <1>2, <1>3, <1>4 DEF Action

\* What a certificate file holds when a certificate expires.
LEMMA ExpiredFile ==
    ASSUME NEW c, c \in Certificates \cup {None, Torn}
    PROVE  /\ Expired(c) \in Certificates \cup {None, Torn}
           /\ Readable(Expired(c)) <=> Readable(c)
           /\ Readable(c) => Expired(c).pair = c.pair
<1>1. CASE Readable(c)
  <2>1. c \in Certificates
    BY <1>1 DEF Readable
  <2>2. [c EXCEPT !.live = FALSE] \in Certificates /\ [c EXCEPT !.live = FALSE].pair = c.pair
    BY <2>1 DEF Certificates
  <2>3. \A x \in Certificates : Readable(x)
    BY HomeAssumption DEF Readable
  <2> QED
    BY <1>1, <2>2, <2>3 DEF Expired
<1>2. CASE ~Readable(c)
  BY <1>2 DEF Expired
<1> QED
  BY <1>1, <1>2

LEMMA IssuedCertificate ==
    ASSUME NEW i \in Pairs
    PROVE  Issued(i) \in Certificates /\ Issued(i).pair = i /\ Issued(i).live
BY DEF Issued, Certificates

LEMMA PairFilesTyped ==
    ASSUME TypeOK, CertOfItsOrg, KeyWritten, CrtWritten
    PROVE  /\ keyFile' \in [Slots -> Pairs \cup {None, Torn}]
           /\ crtFile' \in [Slots -> Certificates \cup {None, Torn}]
           /\ CertOfItsOrg'
<1>1. /\ keyFile \in [Slots -> Pairs \cup {None, Torn}]
      /\ crtFile \in [Slots -> Certificates \cup {None, Torn}]
  BY DEF TypeOK
<1>2. ~Readable(Torn) /\ Torn \notin Pairs
  BY HomeAssumption DEF Readable
<1>k. \A s \in Slots : Readable(keyFile[s]) => keyFile[s].slot = s
  BY DEF CertOfItsOrg
<1>c. \A s \in Slots : Readable(crtFile[s]) => crtFile[s].pair.slot = s
  BY DEF CertOfItsOrg
<1> DEFINE KeysOK == \A s \in Slots : Readable(keyFile'[s]) => keyFile'[s].slot = s
           CrtsOK == \A s \in Slots : Readable(crtFile'[s]) => crtFile'[s].pair.slot = s
<1>3. keyFile' \in [Slots -> Pairs \cup {None, Torn}] /\ KeysOK
  <2>1. CASE KeyUntouched
    BY <1>1, <1>k, <2>1 DEF KeyUntouched
  <2>2. ASSUME NEW s \in Slots, keyFile' = [keyFile EXCEPT ![s] = Torn]
        PROVE  keyFile' \in [Slots -> Pairs \cup {None, Torn}] /\ KeysOK
    BY <1>1, <1>2, <1>k, <2>2
  <2>3. ASSUME NEW s \in Slots, NEW i \in Pairs, i.slot = s, keyFile' = [keyFile EXCEPT ![s] = i]
        PROVE  keyFile' \in [Slots -> Pairs \cup {None, Torn}] /\ KeysOK
    BY <1>1, <1>k, <2>3
  <2> QED
    BY <2>1, <2>2, <2>3 DEF KeyWritten
<1>4. crtFile' \in [Slots -> Certificates \cup {None, Torn}] /\ CrtsOK
  <2>1. CASE CrtUntouched
    BY <1>1, <1>c, <2>1 DEF CrtUntouched
  <2>2. ASSUME NEW s \in Slots, crtFile' = [crtFile EXCEPT ![s] = Torn]
        PROVE  crtFile' \in [Slots -> Certificates \cup {None, Torn}] /\ CrtsOK
    BY <1>1, <1>2, <1>c, <2>2
  <2>3. ASSUME NEW s \in Slots, NEW i \in Pairs, i.slot = s,
               crtFile' = [crtFile EXCEPT ![s] = Issued(i)]
        PROVE  crtFile' \in [Slots -> Certificates \cup {None, Torn}] /\ CrtsOK
    <3>1. Issued(i) \in Certificates /\ Issued(i).pair.slot = s
      BY <2>3, IssuedCertificate
    <3> QED
      BY <1>1, <1>c, <2>3, <3>1
  <2>4. ASSUME NEW S \in SUBSET Slots,
               crtFile' = [s \in Slots |-> IF s \in S THEN Expired(crtFile[s]) ELSE crtFile[s]]
        PROVE  crtFile' \in [Slots -> Certificates \cup {None, Torn}] /\ CrtsOK
    <3>1. \A s \in Slots : /\ Expired(crtFile[s]) \in Certificates \cup {None, Torn}
                           /\ Readable(Expired(crtFile[s])) <=> Readable(crtFile[s])
                           /\ Readable(crtFile[s]) => Expired(crtFile[s]).pair = crtFile[s].pair
      BY <1>1, ExpiredFile
    <3> QED
      BY <1>1, <1>c, <2>4, <3>1
  <2> QED
    BY <2>1, <2>2, <2>3, <2>4 DEF CrtWritten
<1> QED
  BY <1>3, <1>4 DEF CertOfItsOrg

\* The steps of the token files.
TokenWritten ==
    \/ TokenUntouched
    \/ \E f \in TokenFiles : token' = [token EXCEPT ![f] = Torn]
    \/ \E f \in TokenFiles, t \in Token \cup {Torn} : token' = [token EXCEPT ![f] = t]
    \/ \E f \in TokenFiles : token' = [token EXCEPT ![f] = Expired(token[f])]

LEMMA TokenFilesWritten ==
    ASSUME TypeOK, ProcsOK, Action
    PROVE  TokenWritten
<1>0. "client" \in TokenFiles /\ "api" \in TokenFiles
  BY DEF TokenFiles
<1>1. ASSUME NEW p \in Procs, Step(p)
      PROVE  TokenWritten
  <2>1. CASE Launch(p) \/ PollForToken(p)
    BY <1>0, <2>1 DEF Launch, PollForToken, NewClientToken, TokenWritten, TokenUntouched
  <2>2. CASE SaveToken(p)
    <3>1. TokenFile(p) \in TokenFiles /\ proc[p].tok \in Token
      BY <1>0, <2>2, KeyInHand DEF TokenFile, SaveToken, At
    <3>2. \E v \in Token \cup {Torn} : token' = [token EXCEPT ![TokenFile(p)] = v]
      BY <2>2, <3>1 DEF SaveToken
    <3> QED
      BY <3>1, <3>2 DEF TokenWritten
  <2>3. CASE NewToken(p)
    BY <1>0, <2>3 DEF NewToken, TokenWritten
  <2>4. CASE TokenUntouched
    BY <2>4 DEF TokenWritten
  <2> QED
    BY <1>1, <2>1, <2>2, <2>3, <2>4, LoginWrites, CertWrites, CommandWrites, ApiWrites DEF Step
<1>2. ASSUME NEW p \in Procs, Kill(p)
      PROVE  TokenWritten
  BY <1>2, NoFileTouches DEF Kill, NothingTouched, TokenWritten
<1>3. ASSUME LongPause
      PROVE  TokenWritten
  BY <1>0, <1>3 DEF LongPause, TokenWritten
<1>4. ASSUME Expire
      PROVE  TokenWritten
  <2>1. CASE UNCHANGED token
    BY <2>1 DEF TokenWritten, TokenUntouched
  <2>2. CASE ~UNCHANGED token
    BY <1>4, <2>2 DEF Expire, TokenWritten
  <2> QED
    BY <2>1, <2>2
<1> QED
  BY <1>1, <1>2, <1>3, <1>4 DEF Action

LEMMA ExpiredToken ==
    ASSUME NEW t \in Token \cup {None, Torn}
    PROVE  /\ Expired(t) \in Token \cup {None, Torn}
           /\ t \in Token => Expired(t) \in Token /\ Expired(t).of = t.of
<1>1. CASE t \in Token
  BY <1>1, HomeAssumption DEF Expired, Token
<1>2. CASE t \notin Token
  BY <1>2, HomeAssumption DEF Expired, Readable
<1> QED
  BY <1>1, <1>2

LEMMA TokenTyped ==
    ASSUME TypeOK, TokenWritten
    PROVE  token' \in [TokenFiles -> Token \cup {None, Torn}]
<1>1. token \in [TokenFiles -> Token \cup {None, Torn}]
  BY DEF TypeOK
<1>2. \A f \in TokenFiles : Expired(token[f]) \in Token \cup {None, Torn}
  BY <1>1, ExpiredToken
<1> QED
  BY <1>1, <1>2 DEF TokenWritten, TokenUntouched

LEMMA PlanUnchanged ==
    ASSUME NEW p \in Procs, LoginStep(p) \/ CertStep(p) \/ CommandStep(p) \/ ApiStep(p)
    PROVE  plan' = plan
<1>1. NoFile => plan' = plan
  BY PlanKept
<1>2. CASE LoginStep(p)
  BY <1>1, <1>2 DEF LoginStep, PickHost, ReadToken, Launch, Authorize, PollForToken, SaveToken,
                    ReadPref, NewPref, FillPref
<1>3. CASE CertStep(p)
  BY <1>1, <1>3 DEF CertStep, FileOrg, ValidKey, ValidCrt, NewKey, FillKey, NewCrt, FillCrt,
                    ReadKey, ReadCrt, SshReadCrt, SshReadKey, SshNewKey, SshFillKey, SshNewCrt,
                    SshFillCrt
<1>4. CASE CommandStep(p)
  BY <1>1, <1>4 DEF CommandStep, StartClient, ChooseClient, DownloadCertificateChain,
                    WriteKeyStore, WriteConnections, HandOver, Dial, Signer, SessionEnds,
                    Interrupt, OnInterruptDo
<1>5. CASE ApiStep(p)
  BY <1>1, <1>5 DEF ApiStep, StartApi, ReadApi, Refresh, SwitchOrg, Password, Answered, Refused,
                    CreateDeviceAuthorization, DevicePoll, MFAChallenge, NewToken
<1> QED
  BY <1>2, <1>3, <1>4, <1>5

\* The preferences and what is handed to database clients.
LEMMA OthersTyped ==
    ASSUME TypeOK, ProcsOK, Action
    PROVE  /\ prefs' = Torn \/ prefs' \subseteq Procs
           /\ handed' \in [Handed -> Procs \cup {None, Torn}]
           /\ FaultCounted
           /\ plan' = plan
<1> DEFINE PrefsOK == prefs' = Torn \/ prefs' \subseteq Procs
           HandedOK == handed' \in [Handed -> Procs \cup {None, Torn}]
<1>0. /\ PrefsUntouched => PrefsOK
      /\ HandedUntouched => HandedOK
  BY DEF TypeOK, PrefsUntouched, HandedUntouched
<1>1. ASSUME NEW p \in Procs, Step(p)
      PROVE  PrefsOK /\ HandedOK /\ FaultCounted
  <2>1. proc[p].pref \subseteq Procs
    BY Fields DEF TypeOK
  <2>2. ASSUME NewPref(p) \/ FillPref(p) \/ OnInterruptDo(p)
        PROVE  PrefsOK
    BY <1>0, <2>1, <2>2 DEF NewPref, FillPref, OnInterruptDo, PrefsUntouched
  <2>3. ASSUME NEW f \in Handed, NEW new, NEW fill, HandOver(p, f, new, fill)
        PROVE  HandedOK
    BY <2>3 DEF HandOver, TypeOK
  <2>4. ASSUME DownloadCertificateChain(p) \/ WriteKeyStore(p) \/ WriteConnections(p)
        PROVE  HandedOK
    <3>1. HandOver(p, "chain", "newChain", "fillChain") => HandedOK
      BY <2>3 DEF Handed
    <3>2. HandOver(p, "jks", "newJks", "fillJks") => HandedOK
      BY <2>3 DEF Handed
    <3>3. HandOver(p, "xml", "newXml", "fillXml") => HandedOK
      BY <2>3 DEF Handed
    <3>4. NoFile => HandedOK
      BY <1>0, NoFileTouches DEF NothingTouched
    <3> QED
      BY <2>4, <3>1, <3>2, <3>3, <3>4
         DEF DownloadCertificateChain, WriteKeyStore, WriteConnections
  <2> QED
    BY <1>0, <1>1, <2>2, <2>4, LoginWrites, CertWrites, CommandWrites, ApiWrites DEF Step
<1>2. ASSUME NEW p \in Procs, Kill(p)
      PROVE  PrefsOK /\ HandedOK /\ FaultCounted
  BY <1>0, <1>2, NoFileTouches, OneFault DEF Kill, NothingTouched
<1>3. ASSUME LongPause
      PROVE  PrefsOK /\ HandedOK /\ FaultCounted
  BY <1>0, <1>3 DEF LongPause, PrefsUntouched, HandedUntouched, FaultCounted
<1>4. ASSUME Expire
      PROVE  PrefsOK /\ HandedOK /\ FaultCounted
  BY <1>0, <1>4, OneFault DEF Expire, PrefsUntouched, HandedUntouched
<1>5. plan' = plan
  <2>1. ASSUME NEW p \in Procs, Step(p)
        PROVE  plan' = plan
    BY <2>1, PlanUnchanged DEF Step
  <2> QED
    BY <2>1, PlanKept DEF Action, Kill, LongPause, Expire
<1> QED
  BY <1>1, <1>2, <1>3, <1>4, <1>5 DEF Action

-----------------------------------------------------------------------------
(* The history *)

\* Each kind of file has a name of its own.
LEMMA FileNames ==
    /\ <<"prefs">> \in Shared /\ <<"api">> \in Shared
    /\ \A f \in Handed : <<f>> \in Shared /\ <<f>> # <<"prefs">> /\ <<f>> # <<"api">>
    /\ \A s \in Slots : s \in Shared /\ s # <<"prefs">> /\ s # <<"api">>
                        /\ \A f \in Handed : s # <<f>>
    /\ <<"prefs">> # <<"api">>
<1>1. \A s \in Slots : s # <<"prefs">> /\ s # <<"api">> /\ \A f \in Handed : s # <<f>>
  BY DEF Slots
<1>2. \A f \in Handed : <<f>> # <<"prefs">> /\ <<f>> # <<"api">>
  BY DEF Handed
<1> QED
  BY <1>1, <1>2 DEF Shared

LEMMA WritingIsShared ==
    ASSUME NEW pl \in Plan, NEW r
    PROVE  WritingOf(pl, r) \subseteq Shared
<1>1. <<"tls", pl.org>> \in Slots /\ <<"ssh", pl.org>> \in Slots
  BY DEF Plan, Slots
<1>2. /\ <<"tls", pl.org>> \in Shared /\ <<"ssh", pl.org>> \in Shared
      /\ <<"prefs">> \in Shared /\ <<"api">> \in Shared
      /\ <<"chain">> \in Shared /\ <<"jks">> \in Shared /\ <<"xml">> \in Shared
  BY <1>1 DEF Shared, Handed
<1> QED
  BY <1>2 DEF WritingOf

LEMMA HistoryTyped ==
    ASSUME TypeOK, plan \in [Procs -> Plan], plan' = plan, History
    PROVE  hist.dirty \subseteq hist'.dirty /\ hist'.dirty \subseteq Shared /\ hist'.saved \subseteq Procs
<1>1. \A p \in Procs : Writing(p) \subseteq Shared /\ Writing(p)' \subseteq Shared
  BY WritingIsShared DEF Writing
<1>2. Overlaps' \subseteq Shared
  BY <1>1 DEF Overlaps
<1>3. UNION {IF Resting(p)' THEN Abandoned(p) ELSE {} : p \in Procs} \subseteq Shared
  BY <1>1 DEF Abandoned
<1>4. /\ hist'.dirty = hist.dirty \cup Overlaps'
                       \cup UNION {IF Resting(p)' THEN Abandoned(p) ELSE {} : p \in Procs}
      /\ hist'.saved \subseteq hist.saved \cup Procs
  BY DEF History
<1> QED
  BY <1>2, <1>3, <1>4 DEF TypeOK

-----------------------------------------------------------------------------
FilesInv == TypeOK /\ ProcsOK /\ CertOfItsOrg

LEMMA FilesInvInit ==
    ASSUME Init
    PROVE  FilesInv
<1>1. proc \in [Procs -> Process] /\ ProcsOK
  <2>1. plan \in [Procs -> Plan]
    BY HomeAssumption DEF Init
  <2>2. ASSUME NEW p \in Procs
        PROVE  ProcOK(p, plan[p], proc[p])
    <3>1. proc[p] = AtRest
      BY DEF Init
    <3>2. AtRest.pc = "idle"
      BY DEF AtRest
    <3> QED
      BY <2>1, <3>1, <3>2, Rests
  <2> QED
    BY <2>2 DEF Init, ProcsOK, ProcOK
<1>2. token \in [TokenFiles -> Token \cup {None, Torn}]
  BY HomeAssumption DEF Init
<1>3. TypeOK
  BY <1>1, <1>2, HomeAssumption DEF Init, TypeOK
<1>4. CertOfItsOrg
  BY DEF Init, CertOfItsOrg, Readable
<1> QED
  BY <1>1, <1>3, <1>4 DEF FilesInv

LEMMA FilesInvNext ==
    ASSUME FilesInv, [Next]_vars
    PROVE  FilesInv'
<1>0. TypeOK /\ ProcsOK /\ CertOfItsOrg /\ plan \in [Procs -> Plan]
  BY HomeAssumption DEF FilesInv, TypeOK
<1>1. CASE UNCHANGED vars
  BY <1>0, <1>1 DEF vars, files, FilesInv, TypeOK, ProcsOK, CertOfItsOrg
<1>2. CASE Action /\ History
  <2>1. ProcessesOK'
    BY <1>0, <1>2, ProcessesKept DEF Next
  <2>2. KeyWritten /\ CrtWritten /\ TokenWritten
    BY <1>0, <1>2, PairFilesWritten, TokenFilesWritten
  <2>3. /\ keyFile' \in [Slots -> Pairs \cup {None, Torn}]
        /\ crtFile' \in [Slots -> Certificates \cup {None, Torn}]
        /\ CertOfItsOrg'
        /\ token' \in [TokenFiles -> Token \cup {None, Torn}]
    BY <1>0, <2>2, PairFilesTyped, TokenTyped
  <2>4. /\ prefs' = Torn \/ prefs' \subseteq Procs
        /\ handed' \in [Handed -> Procs \cup {None, Torn}]
        /\ FaultCounted
        /\ plan' = plan
    BY <1>0, <1>2, OthersTyped
  <2>5. hist'.dirty \subseteq Shared /\ hist'.saved \subseteq Procs
    BY <1>0, <1>2, <2>4, HistoryTyped
  <2>6. faults' \in 0..MaxFaults
    BY <1>0, <2>4, HomeAssumption DEF TypeOK, FaultCounted, Fault
  <2>7. TypeOK'
    BY <1>0, <2>1, <2>3, <2>4, <2>5, <2>6 DEF TypeOK, ProcessesOK
  <2> QED
    BY <2>1, <2>3, <2>7 DEF FilesInv, ProcessesOK
<1> QED
  BY <1>1, <1>2 DEF Next

\* Every process goes through the steps of its command with in hand what each
\* of them uses, and the files hold what belongs into them, whatever commands
\* run at the same time, end half-way and are killed (cmd/client.go,
\* internal/client/client.go, internal/http/handler.go).
THEOREM FilesCorrect == Spec => [](TypeOK /\ ProcsOK)
<1>1. Spec => []FilesInv
  BY FilesInvInit, FilesInvNext, PTL DEF Spec
<1>2. FilesInv => TypeOK /\ ProcsOK
  BY DEF FilesInv
<1> QED
  BY <1>1, <1>2, PTL

\* A key or a certificate under an organization's name was made for that
\* organization, although logins to other organizations come between any two
\* of the steps that read a name and write a file (client.go:290-305).
THEOREM CertOfItsOrgHolds == Spec => []CertOfItsOrg
<1>1. Spec => []FilesInv
  BY FilesInvInit, FilesInvNext, PTL DEF Spec
<1>2. FilesInv => CertOfItsOrg
  BY DEF FilesInv
<1> QED
  BY <1>1, <1>2, PTL

-----------------------------------------------------------------------------
(* Which file a process is writing or going to write *)

LEMMA WritingIs ==
    ASSUME NEW pl \in Plan, NEW r
    PROVE  /\ \A s \in Slots : s \in WritingOf(pl, r) <=>
                 \/ r.pc \in TlsPC /\ s = <<"tls", pl.org>>
                 \/ r.pc \in SshPC /\ s = <<"ssh", pl.org>>
           /\ <<"prefs">> \in WritingOf(pl, r) <=> WritesPref(r)
           /\ <<"api">> \in WritingOf(pl, r) <=> r.pc = "fillToken" /\ pl.cmd \in ApiCmds
           /\ <<"chain">> \in WritingOf(pl, r) <=> r.pc = "fillChain"
           /\ <<"jks">> \in WritingOf(pl, r) <=> r.pc = "fillJks"
           /\ <<"xml">> \in WritingOf(pl, r) <=> r.pc = "fillXml"
<1>1. /\ <<"tls", pl.org>> # <<"ssh", pl.org>>
      /\ \A s \in Slots : s # <<"prefs">> /\ s # <<"api">> /\ s # <<"chain">> /\ s # <<"jks">>
                          /\ s # <<"xml">>
      /\ \A f \in {"prefs", "api", "chain", "jks", "xml"} :
            <<"tls", pl.org>> # <<f>> /\ <<"ssh", pl.org>> # <<f>>
  <2>1. <<"tls", pl.org>> \in Slots /\ <<"ssh", pl.org>> \in Slots
    BY DEF Plan, Slots
  <2> QED
    BY <2>1 DEF Slots
<1>2. /\ \A f, g \in {"prefs", "api", "chain", "jks", "xml"} : <<f>> = <<g>> => f = g
  OBVIOUS
<1> DEFINE Pc == CASE r.pc \in {"fillKey", "newCrt", "fillCrt"} -> {<<"tls", pl.org>>}
       [] r.pc \in {"sshFillKey", "sshNewCrt", "sshFillCrt"} -> {<<"ssh", pl.org>>}
       [] r.pc = "fillPref"  -> {<<"prefs">>}
       [] r.pc = "fillToken" -> IF pl.cmd \in ApiCmds THEN {<<"api">>} ELSE {}
       [] r.pc = "fillChain" -> {<<"chain">>}
       [] r.pc = "fillJks"   -> {<<"jks">>}
       [] r.pc = "fillXml"   -> {<<"xml">>}
       [] OTHER              -> {}
           Irq == IF r.irq = "fill" THEN {<<"prefs">>} ELSE {}
<1>3. WritingOf(pl, r) = Pc \cup Irq
  BY DEF WritingOf
<1>4. /\ r.pc \in TlsPC => Pc = {<<"tls", pl.org>>}
      /\ r.pc \in SshPC => Pc = {<<"ssh", pl.org>>}
      /\ r.pc = "fillPref" => Pc = {<<"prefs">>}
      /\ r.pc = "fillToken" => Pc = IF pl.cmd \in ApiCmds THEN {<<"api">>} ELSE {}
      /\ r.pc = "fillChain" => Pc = {<<"chain">>}
      /\ r.pc = "fillJks" => Pc = {<<"jks">>}
      /\ r.pc = "fillXml" => Pc = {<<"xml">>}
      /\ r.pc \notin TlsPC \cup SshPC \cup {"fillPref", "fillToken", "fillChain", "fillJks", "fillXml"}
            => Pc = {}
  BY DEF TlsPC, SshPC
<1> HIDE DEF Pc
<1>5. /\ \A x \in {"fillPref", "fillToken", "fillChain", "fillJks", "fillXml"} : x \notin TlsPC \cup SshPC
      /\ TlsPC \cap SshPC = {}
  BY DEF TlsPC, SshPC
<1>6. \A s \in Slots : s \notin Irq
  BY <1>1
<1>7. <<"prefs">> \in Irq <=> r.irq = "fill"
  OBVIOUS
<1>8. \A f \in {"api", "chain", "jks", "xml"} : <<f>> \notin Irq
  BY <1>2
<1> HIDE DEF Irq
<1>9. ASSUME NEW s \in Slots
      PROVE  s \in WritingOf(pl, r) <=>
                 \/ r.pc \in TlsPC /\ s = <<"tls", pl.org>>
                 \/ r.pc \in SshPC /\ s = <<"ssh", pl.org>>
  BY <1>1, <1>3, <1>4, <1>5, <1>6
<1>10. /\ <<"prefs">> \in WritingOf(pl, r) <=> WritesPref(r)
  BY <1>1, <1>2, <1>3, <1>4, <1>5, <1>7 DEF WritesPref
<1>11. <<"api">> \in WritingOf(pl, r) <=> r.pc = "fillToken" /\ pl.cmd \in ApiCmds
  BY <1>1, <1>2, <1>3, <1>4, <1>5, <1>8
<1>12. /\ <<"chain">> \in WritingOf(pl, r) <=> r.pc = "fillChain"
       /\ <<"jks">> \in WritingOf(pl, r) <=> r.pc = "fillJks"
       /\ <<"xml">> \in WritingOf(pl, r) <=> r.pc = "fillXml"
  BY <1>1, <1>2, <1>3, <1>4, <1>5, <1>8
<1> QED
  BY <1>9, <1>10, <1>11, <1>12

LEMMA HoldingIs ==
    ASSUME NEW pl \in Plan, NEW r
    PROVE  /\ <<"prefs">> \in HoldingOf(pl, r) <=> HoldsPref(r)
           /\ <<"api">> \in HoldingOf(pl, r) <=> Refreshes(pl) /\ r.pc \in {"refresh", "newToken"}
<1>1. <<"prefs">> # <<"api">>
  OBVIOUS
<1>2. "newPref" \in {r.pc} \cup {r.todo[n] : n \in DOMAIN r.todo}
        <=> r.pc = "newPref" \/ \E k \in DOMAIN r.todo : r.todo[k] = "newPref"
  OBVIOUS
<1> QED
  BY <1>1, <1>2 DEF HoldingOf, HoldsPref

LEMMA FilesAre ==
    /\ \A s \in Slots : FileOf(s) = <<keyFile[s], crtFile[s]>>
    /\ FileOf(<<"prefs">>) = prefs
    /\ FileOf(<<"api">>) = token["api"]
    /\ \A h \in Handed : FileOf(<<h>>) = handed[h]
    /\ \A s \in Slots : FileOf(s)' = <<keyFile'[s], crtFile'[s]>>
    /\ FileOf(<<"prefs">>)' = prefs'
    /\ FileOf(<<"api">>)' = token'["api"]
    /\ \A h \in Handed : FileOf(<<h>>)' = handed'[h]
<1>0. \A s \in Slots : s # <<"prefs">> /\ s # <<"api">>
  BY FileNames
<1>1. \A s \in Slots : /\ FileOf(s) = <<keyFile[s], crtFile[s]>>
                      /\ FileOf(s)' = <<keyFile'[s], crtFile'[s]>>
  BY <1>0 DEF FileOf
<1>2. <<"prefs">> \notin Slots /\ <<"api">> \notin Slots /\ <<"prefs">> # <<"api">>
  BY FileNames
<1>3. \A h \in Handed : <<h>> \notin Slots /\ <<h>> # <<"prefs">> /\ <<h>> # <<"api">>
                        /\ <<h>>[1] = h
  BY FileNames
<1> QED
  BY <1>1, <1>2, <1>3 DEF FileOf

\* What the history says of a file that is not disturbed by a step.
LEMMA StaysUndisturbed ==
    ASSUME History, NEW f \in Shared, f \notin hist'.dirty
    PROVE  /\ f \notin hist.dirty
           /\ \A p, q \in Procs : p # q /\ f \in Writing(p)' => f \notin Writing(q)' \cup Holding(q)'
           /\ \A p \in Procs : Resting(p)' /\ f \in Writing(p) => FileOf(f)' # FileOf(f)
<1>1. /\ f \notin hist.dirty /\ f \notin Overlaps'
      /\ f \notin UNION {IF Resting(p)' THEN Abandoned(p) ELSE {} : p \in Procs}
  BY DEF History
<1>2. ASSUME NEW p \in Procs, NEW q \in Procs, p # q, f \in Writing(p)'
      PROVE  f \notin Writing(q)' \cup Holding(q)'
  BY <1>1, <1>2 DEF Overlaps
<1>3. ASSUME NEW p \in Procs, Resting(p)', f \in Writing(p)
      PROVE  FileOf(f)' # FileOf(f)
  <2>1. f \notin Abandoned(p)
    BY <1>1, <1>3
  <2> QED
    BY <1>3, <2>1 DEF Abandoned
<1> QED
  BY <1>1, <1>2, <1>3

LEMMA AloneNext ==
    ASSUME History
    PROVE  AloneInv'
<1> SUFFICES ASSUME NEW f \in Shared, f \notin hist'.dirty
             PROVE  Alone(f)'
  BY DEF AloneInv, Undisturbed
<1> QED
  BY StaysUndisturbed DEF Alone

-----------------------------------------------------------------------------
(* Which step a process is taking *)

LEMMA LoginAt ==
    ASSUME NEW p \in Procs, LoginStep(p)
    PROVE  /\ proc[p].pc \in {"pickHost", "readToken", "launch", "authorize", "poll", "fillToken",
                              "readPref", "newPref", "fillPref"}
           /\ proc[p].pc = "fillToken" => SaveToken(p)
           /\ proc[p].pc = "readPref" => ReadPref(p)
           /\ proc[p].pc = "newPref" => NewPref(p)
           /\ proc[p].pc = "fillPref" => FillPref(p)
<1>1. /\ PickHost(p) => proc[p].pc = "pickHost"
      /\ ReadToken(p) => proc[p].pc = "readToken"
      /\ Launch(p) => proc[p].pc = "launch"
      /\ Authorize(p) => proc[p].pc = "authorize"
      /\ PollForToken(p) => proc[p].pc = "poll"
      /\ SaveToken(p) => proc[p].pc = "fillToken"
      /\ ReadPref(p) => proc[p].pc = "readPref"
      /\ NewPref(p) => proc[p].pc = "newPref"
      /\ FillPref(p) => proc[p].pc = "fillPref"
  BY DEF PickHost, ReadToken, Launch, Authorize, PollForToken, SaveToken, ReadPref, NewPref,
         FillPref, At
<1> QED
  BY <1>1 DEF LoginStep

LEMMA CertAt ==
    ASSUME NEW p \in Procs, CertStep(p)
    PROVE  /\ proc[p].pc \in {"fileOrg", "validKey", "validCrt", "newKey", "fillKey", "newCrt",
                              "fillCrt", "readKey", "readCrt", "sshReadCrt", "sshReadKey",
                              "sshNewKey", "sshFillKey", "sshNewCrt", "sshFillCrt"}
           /\ proc[p].pc = "newKey" => NewKey(p)
           /\ proc[p].pc = "fillKey" => FillKey(p)
           /\ proc[p].pc = "newCrt" => NewCrt(p)
           /\ proc[p].pc = "fillCrt" => FillCrt(p)
           /\ proc[p].pc = "sshNewKey" => SshNewKey(p)
           /\ proc[p].pc = "sshFillKey" => SshFillKey(p)
           /\ proc[p].pc = "sshNewCrt" => SshNewCrt(p)
           /\ proc[p].pc = "sshFillCrt" => SshFillCrt(p)
<1>1. /\ FileOrg(p) => proc[p].pc = "fileOrg"
      /\ ValidKey(p) => proc[p].pc = "validKey"
      /\ ValidCrt(p) => proc[p].pc = "validCrt"
      /\ NewKey(p) => proc[p].pc = "newKey"
      /\ FillKey(p) => proc[p].pc = "fillKey"
      /\ NewCrt(p) => proc[p].pc = "newCrt"
      /\ FillCrt(p) => proc[p].pc = "fillCrt"
      /\ ReadKey(p) => proc[p].pc = "readKey"
      /\ ReadCrt(p) => proc[p].pc = "readCrt"
      /\ SshReadCrt(p) => proc[p].pc = "sshReadCrt"
      /\ SshReadKey(p) => proc[p].pc = "sshReadKey"
      /\ SshNewKey(p) => proc[p].pc = "sshNewKey"
      /\ SshFillKey(p) => proc[p].pc = "sshFillKey"
      /\ SshNewCrt(p) => proc[p].pc = "sshNewCrt"
      /\ SshFillCrt(p) => proc[p].pc = "sshFillCrt"
  BY DEF FileOrg, ValidKey, ValidCrt, NewKey, FillKey, NewCrt, FillCrt, ReadKey, ReadCrt,
         SshReadCrt, SshReadKey, SshNewKey, SshFillKey, SshNewCrt, SshFillCrt, At
<1> QED
  BY <1>1 DEF CertStep

LEMMA CommandAt ==
    ASSUME NEW p \in Procs, CommandStep(p)
    PROVE  \/ Interrupt(p) \/ OnInterruptDo(p)
           \/ proc[p].pc \in {"idle", "chooseClient", "dial", "mysql", "psql", "dbeaver",
                              "workbench", "signer", "session"}
           \/ DownloadCertificateChain(p) /\ proc[p].pc \in {"newChain", "fillChain"}
           \/ WriteKeyStore(p) /\ proc[p].pc \in {"newJks", "fillJks"}
           \/ WriteConnections(p) /\ proc[p].pc \in {"newXml", "fillXml"}
<1>1. /\ StartClient(p) => proc[p].pc = "idle"
      /\ ChooseClient(p) => proc[p].pc = "chooseClient"
      /\ Dial(p) => proc[p].pc \in {"dial", "mysql", "psql", "dbeaver", "workbench"}
      /\ Signer(p) => proc[p].pc = "signer"
      /\ SessionEnds(p) => proc[p].pc = "session"
      /\ DownloadCertificateChain(p) => proc[p].pc \in {"newChain", "fillChain"}
      /\ WriteKeyStore(p) => proc[p].pc \in {"newJks", "fillJks"}
      /\ WriteConnections(p) => proc[p].pc \in {"newXml", "fillXml"}
  BY DEF StartClient, ChooseClient, Dial, Signer, SessionEnds, DownloadCertificateChain,
         WriteKeyStore, WriteConnections, HandOver, At
<1> QED
  BY <1>1 DEF CommandStep

LEMMA ApiStepAt ==
    ASSUME NEW p \in Procs, ApiStep(p)
    PROVE  /\ proc[p].pc \in {"idle", "readApi", "refresh", "switchOrg", "password", "deviceCode",
                              "devicePoll", "challenge", "newToken"}
           /\ proc[p].pc = "readApi" => ReadApi(p)
           /\ proc[p].pc = "refresh" => Refresh(p)
           /\ proc[p].pc = "newToken" => NewToken(p)
<1>1. /\ StartApi(p) => proc[p].pc = "idle"
      /\ ReadApi(p) => proc[p].pc = "readApi"
      /\ Refresh(p) => proc[p].pc = "refresh"
      /\ SwitchOrg(p) => proc[p].pc = "switchOrg"
      /\ Password(p) => proc[p].pc = "password"
      /\ CreateDeviceAuthorization(p) => proc[p].pc = "deviceCode"
      /\ DevicePoll(p) => proc[p].pc = "devicePoll"
      /\ MFAChallenge(p) => proc[p].pc = "challenge"
      /\ NewToken(p) => proc[p].pc = "newToken"
  BY DEF StartApi, ReadApi, Refresh, SwitchOrg, Password, CreateDeviceAuthorization, DevicePoll,
         MFAChallenge, NewToken, At
<1> QED
  BY <1>1 DEF ApiStep

LEMMA InterruptAt ==
    ASSUME ProcsOK, NEW p \in Procs, Interrupt(p) \/ OnInterruptDo(p)
    PROVE  /\ proc[p].pc \in {"mysql", "psql", "dbeaver", "workbench", "session", "newPref",
                              "fillPref"}
           /\ plan[p].cmd \in DbCommands
<1>1. CASE Interrupt(p)
  BY <1>1 DEF Interrupt
<1>2. CASE OnInterruptDo(p)
  <2>1. proc[p].irq # "off"
    BY <1>2 DEF OnInterruptDo
  <2> QED
    BY <2>1 DEF ProcsOK, ProcOK, Late
<1> QED
  BY <1>1, <1>2

\* The step at each of the places that matter for the files.
LEMMA StepAt ==
    ASSUME ProcsOK, NEW p \in Procs, Step(p)
    PROVE  /\ proc[p].pc = "newKey" => NewKey(p)
           /\ proc[p].pc = "fillKey" => FillKey(p)
           /\ proc[p].pc = "newCrt" => NewCrt(p)
           /\ proc[p].pc = "fillCrt" => FillCrt(p)
           /\ proc[p].pc = "sshNewKey" => SshNewKey(p)
           /\ proc[p].pc = "sshFillKey" => SshFillKey(p)
           /\ proc[p].pc = "sshNewCrt" => SshNewCrt(p)
           /\ proc[p].pc = "sshFillCrt" => SshFillCrt(p)
           /\ proc[p].pc = "readPref" => ReadPref(p)
           /\ proc[p].pc = "fillToken" => SaveToken(p)
           /\ proc[p].pc = "readApi" => ReadApi(p)
           /\ proc[p].pc = "refresh" => Refresh(p)
           /\ proc[p].pc = "newToken" => NewToken(p)
           /\ proc[p].pc = "newPref" => NewPref(p) \/ Interrupt(p) \/ OnInterruptDo(p)
           /\ proc[p].pc = "fillPref" => FillPref(p) \/ Interrupt(p) \/ OnInterruptDo(p)
           /\ proc[p].pc \in {"newChain", "fillChain"} => DownloadCertificateChain(p)
           /\ proc[p].pc \in {"newJks", "fillJks"} => WriteKeyStore(p)
           /\ proc[p].pc \in {"newXml", "fillXml"} => WriteConnections(p)
<1>1. CASE LoginStep(p)
  BY <1>1, LoginAt
<1>2. CASE CertStep(p)
  BY <1>2, CertAt
<1>3. CASE CommandStep(p)
  BY <1>3, CommandAt, InterruptAt
<1>4. CASE ApiStep(p)
  BY <1>4, ApiStepAt
<1> QED
  BY <1>1, <1>2, <1>3, <1>4 DEF Step

\* What a process has after it has gone on, and what a killed one has.
LEMMA EndedHas ==
    ASSUME TypeOK, NEW p \in Procs, End(p)
    PROVE  Ended(p) /\ Resting(p)'
<1>1. proc'[p] = [AtRest EXCEPT !.pc = IF plan[p].again THEN "idle" ELSE "done"]
  BY DEF End, Become, TypeOK
<1> QED
  BY <1>1 DEF AtRest, Ended, Resting

LEMMA GoneOn ==
    ASSUME TypeOK, NEW p \in Procs, NEW r \in Process, GoOn(p, r)
    PROVE  \/ Ended(p)
           \/ /\ proc'[p].tok = r.tok /\ proc'[p].pref = r.pref /\ proc'[p].irq = r.irq
              /\ proc'[p].key = r.key
<1>1. CASE r.todo = <<>>
  BY <1>1, EndedHas DEF GoOn
<1>2. CASE r.todo # <<>>
  <2>1. proc'[p] = [r EXCEPT !.pc = Head(r.todo), !.todo = Tail(r.todo)]
    BY <1>2 DEF GoOn, Become, TypeOK
  <2> QED
    BY <2>1 DEF Process
<1> QED
  BY <1>1, <1>2

LEMMA GoneTo ==
    ASSUME TypeOK, NEW p \in Procs, NEW pc, Goto(p, pc)
    PROVE  /\ proc'[p].pc = pc /\ proc'[p].tok = proc[p].tok /\ proc'[p].pref = proc[p].pref
           /\ proc'[p].irq = proc[p].irq /\ proc'[p].key = proc[p].key
<1>1. proc'[p] = [proc[p] EXCEPT !.pc = pc] /\ proc[p] \in Process
  BY DEF Goto, Become, TypeOK
<1> QED
  BY <1>1 DEF Process

-----------------------------------------------------------------------------
(* What a step does with a pair of files *)

LEMMA OnPairs ==
    ASSUME TypeOK, NEW p \in Procs, plan' = plan, NEW s \in Slots
    PROVE  /\ s \in Writing(p) <=> \/ proc[p].pc \in TlsPC /\ s = Mine(p, "tls")
                                   \/ proc[p].pc \in SshPC /\ s = Mine(p, "ssh")
           /\ s \in Writing(p)' <=> \/ proc'[p].pc \in TlsPC /\ s = Mine(p, "tls")
                                    \/ proc'[p].pc \in SshPC /\ s = Mine(p, "ssh")
<1>1. plan[p] \in Plan
  BY PlanOf
<1> QED
  BY <1>1, WritingIs DEF Writing, Mine

PairSame(s) == keyFile'[s] = keyFile[s] /\ crtFile'[s] = crtFile[s]

\* What becomes of the pair `s` with a step of `p`.
PairStays(p, s) == s \notin Writing(p) /\ s \notin Writing(p)' /\ PairSame(s)
PairBegun(p, s) == s \in Writing(p)' /\ proc'[p].pc \in {"fillKey", "sshFillKey"}
KeyDone(p, s) == s \in Writing(p)' /\ keyFile'[s] = proc'[p].key
CrtBegun(p, s) ==
    /\ s \in Writing(p)' /\ s \in Writing(p) /\ proc[p].pc \in {"newCrt", "sshNewCrt"}
    /\ keyFile'[s] = keyFile[s] /\ proc'[p].key = proc[p].key
PairDone(p, s) ==
    /\ s \in Writing(p) /\ proc[p].pc \in {"fillCrt", "sshFillCrt"}
    /\ keyFile'[s] = keyFile[s] /\ crtFile'[s] = Issued(proc[p].key) /\ proc[p].key \in Pairs
PairLeft(p, s) == s \in Writing(p) /\ Resting(p)' /\ PairSame(s)

LEMMA PairStep ==
    ASSUME TypeOK, ProcsOK, NEW p \in Procs, Step(p) \/ Kill(p), NEW s \in Slots
    PROVE  \/ PairStays(p, s) \/ PairBegun(p, s) \/ KeyDone(p, s) \/ CrtBegun(p, s)
           \/ PairDone(p, s) \/ PairLeft(p, s)
<1>0. plan' = plan
  BY PlanUnchanged, PlanKept DEF Step, Kill
<1>1. /\ s \in Writing(p) <=> \/ proc[p].pc \in TlsPC /\ s = Mine(p, "tls")
                              \/ proc[p].pc \in SshPC /\ s = Mine(p, "ssh")
      /\ s \in Writing(p)' <=> \/ proc'[p].pc \in TlsPC /\ s = Mine(p, "tls")
                               \/ proc'[p].pc \in SshPC /\ s = Mine(p, "ssh")
  BY <1>0, OnPairs
<1> DEFINE W == s \in Writing(p)
           W2 == s \in Writing(p)'
<1> HIDE DEF W, W2
<1>w. /\ W <=> \/ proc[p].pc \in TlsPC /\ s = Mine(p, "tls")
               \/ proc[p].pc \in SshPC /\ s = Mine(p, "ssh")
      /\ W2 <=> \/ proc'[p].pc \in TlsPC /\ s = Mine(p, "tls")
                \/ proc'[p].pc \in SshPC /\ s = Mine(p, "ssh")
      /\ W <=> s \in Writing(p)
      /\ W2 <=> s \in Writing(p)'
  BY <1>1 DEF W, W2
<1>2. /\ Mine(p, "tls") \in Slots /\ Mine(p, "ssh") \in Slots /\ Target(p) = Mine(p, "tls")
      /\ Mine(p, "tls") # Mine(p, "ssh")
      /\ proc[p].pc \in TlsPC \cup SshPC => proc[p].key \in Pairs
      /\ keyFile \in [Slots -> Pairs \cup {None, Torn}]
      /\ crtFile \in [Slots -> Certificates \cup {None, Torn}]
      /\ proc \in [Procs -> Process]
  BY MineIsASlot, KeyInHand DEF TypeOK, Mine
<1>3. ASSUME KeyUntouched, CrtUntouched
      PROVE  PairSame(s)
  BY <1>3 DEF KeyUntouched, CrtUntouched, PairSame
<1>4. ASSUME End(p), KeyUntouched, CrtUntouched
      PROVE  PairStays(p, s) \/ PairLeft(p, s)
  <2>1. proc'[p].pc \notin TlsPC \cup SshPC /\ Resting(p)'
    BY <1>4, EndedHas DEF Ended, TlsPC, SshPC
  <2> QED
    BY <1>3, <1>4, <1>w, <2>1 DEF PairStays, PairLeft
<1>5. CASE Kill(p)
  <2>1. KeyUntouched /\ CrtUntouched /\ End(p)
    BY <1>5, NoFileTouches DEF Kill, NothingTouched
  <2> QED
    BY <1>4, <2>1
<1>6. CASE Step(p)
  <2>1. CASE proc[p].pc \in {"newKey", "sshNewKey"}
    <3>1. proc[p].pc \notin TlsPC \cup SshPC
      BY <2>1 DEF TlsPC, SshPC
    <3>2. CASE End(p) /\ KeyUntouched /\ CrtUntouched
      BY <1>4, <3>2
    <3>3. CASE ~(End(p) /\ KeyUntouched /\ CrtUntouched)
      <4>1. \/ /\ keyFile' = [keyFile EXCEPT ![Mine(p, "tls")] = Torn] /\ crtFile' = crtFile
               /\ proc'[p].pc = "fillKey"
            \/ /\ keyFile' = [keyFile EXCEPT ![Mine(p, "ssh")] = Torn] /\ crtFile' = crtFile
               /\ proc'[p].pc = "sshFillKey"
        <5>1. CASE proc[p].pc = "newKey"
          <6>1. NewKey(p)
            BY <1>6, <5>1, StepAt
          <6>2. /\ keyFile' = [keyFile EXCEPT ![Mine(p, "tls")] = Torn] /\ crtFile' = crtFile
                /\ Become(p, [proc[p] EXCEPT !.pc = "fillKey", !.key = NewPair(Mine(p, "tls"))])
            BY <1>2, <3>3, <6>1 DEF NewKey, Truncates, KeyUntouched, CrtUntouched
          <6> QED
            BY <1>2, <6>2 DEF Become, Process
        <5>2. CASE proc[p].pc = "sshNewKey"
          <6>1. SshNewKey(p)
            BY <1>6, <5>2, StepAt
          <6>2. /\ keyFile' = [keyFile EXCEPT ![Mine(p, "ssh")] = Torn] /\ crtFile' = crtFile
                /\ Become(p, [proc[p] EXCEPT
                     !.pc = "sshFillKey", !.crt = None, !.key = NewPair(Mine(p, "ssh"))])
            BY <6>1 DEF SshNewKey, Truncates
          <6> QED
            BY <1>2, <6>2 DEF Become, Process
        <5> QED
          BY <2>1, <5>1, <5>2
      <4>2. CASE s = Mine(p, IF proc'[p].pc = "fillKey" THEN "tls" ELSE "ssh")
        <5>1. W2 /\ proc'[p].pc \in {"fillKey", "sshFillKey"}
          BY <1>w, <4>1, <4>2 DEF TlsPC, SshPC
        <5> QED
          BY <1>w, <5>1 DEF PairBegun
      <4>3. CASE s # Mine(p, IF proc'[p].pc = "fillKey" THEN "tls" ELSE "ssh")
        <5>1. ~W2 /\ ~W
          BY <1>w, <3>1, <4>1, <4>3 DEF TlsPC, SshPC
        <5>2. PairSame(s)
          BY <1>2, <4>1, <4>3 DEF PairSame
        <5> QED
          BY <1>w, <5>1, <5>2 DEF PairStays
      <4> QED
        BY <4>2, <4>3
    <3> QED
      BY <3>2, <3>3
  <2>2. CASE proc[p].pc \in {"fillKey", "sshFillKey"}
    <3>1. \/ /\ keyFile' = [keyFile EXCEPT ![Mine(p, "tls")] = proc[p].key] /\ crtFile' = crtFile
             /\ Goto(p, "newCrt") /\ proc[p].pc = "fillKey"
          \/ /\ keyFile' = [keyFile EXCEPT ![Mine(p, "ssh")] = proc[p].key] /\ crtFile' = crtFile
             /\ Goto(p, "sshNewCrt") /\ proc[p].pc = "sshFillKey"
      <4>1. (FillKey(p) /\ proc[p].pc = "fillKey") \/ (SshFillKey(p) /\ proc[p].pc = "sshFillKey")
        BY <1>6, <2>2, StepAt
      <4> QED
        BY <1>2, <4>1 DEF FillKey, SshFillKey, Writes
    <3>2. /\ proc'[p].key = proc[p].key
          /\ proc'[p].pc = IF proc[p].pc = "fillKey" THEN "newCrt" ELSE "sshNewCrt"
      BY <3>1, GoneTo
    <3>3. W <=> W2
      BY <1>w, <2>2, <3>2 DEF TlsPC, SshPC
    <3>4. CASE W
      <4>1. s = Mine(p, IF proc[p].pc = "fillKey" THEN "tls" ELSE "ssh")
        BY <1>w, <2>2, <3>4 DEF TlsPC, SshPC
      <4>2. keyFile'[s] = proc[p].key
        BY <1>2, <3>1, <4>1
      <4> QED
        BY <1>w, <3>2, <3>3, <3>4, <4>2 DEF KeyDone
    <3>5. CASE ~W
      <4>1. s # Mine(p, IF proc[p].pc = "fillKey" THEN "tls" ELSE "ssh")
        BY <1>w, <2>2, <3>5 DEF TlsPC, SshPC
      <4>2. PairSame(s)
        BY <1>2, <3>1, <4>1 DEF PairSame
      <4> QED
        BY <1>w, <3>3, <3>5, <4>2 DEF PairStays
    <3> QED
      BY <3>4, <3>5
  <2>3. CASE proc[p].pc \in {"newCrt", "sshNewCrt"}
    <3>1. CASE End(p) /\ KeyUntouched /\ CrtUntouched
      BY <1>4, <3>1
    <3>2. CASE ~(End(p) /\ KeyUntouched /\ CrtUntouched)
      <4>1. \/ /\ crtFile' = [crtFile EXCEPT ![Mine(p, "tls")] = Torn] /\ keyFile' = keyFile
               /\ Goto(p, "fillCrt") /\ proc[p].pc = "newCrt"
            \/ /\ crtFile' = [crtFile EXCEPT ![Mine(p, "ssh")] = Torn] /\ keyFile' = keyFile
               /\ Goto(p, "sshFillCrt") /\ proc[p].pc = "sshNewCrt"
        <5>1. (NewCrt(p) /\ proc[p].pc = "newCrt") \/ (SshNewCrt(p) /\ proc[p].pc = "sshNewCrt")
          BY <1>6, <2>3, StepAt
        <5> QED
          BY <1>2, <3>2, <5>1 DEF NewCrt, SshNewCrt, Truncates, KeyUntouched, CrtUntouched
      <4>2. /\ proc'[p].key = proc[p].key
            /\ proc'[p].pc = IF proc[p].pc = "newCrt" THEN "fillCrt" ELSE "sshFillCrt"
        BY <4>1, GoneTo
      <4>3. W <=> W2
        BY <1>w, <2>3, <4>2 DEF TlsPC, SshPC
      <4>4. CASE W
        BY <1>w, <2>3, <4>1, <4>2, <4>3, <4>4 DEF CrtBegun
      <4>5. CASE ~W
        <5>1. s # Mine(p, IF proc[p].pc = "newCrt" THEN "tls" ELSE "ssh")
          BY <1>w, <2>3, <4>5 DEF TlsPC, SshPC
        <5>2. PairSame(s)
          BY <1>2, <4>1, <5>1 DEF PairSame
        <5> QED
          BY <1>w, <4>3, <4>5, <5>2 DEF PairStays
      <4> QED
        BY <4>4, <4>5
    <3> QED
      BY <3>1, <3>2
  <2>4. CASE proc[p].pc \in {"fillCrt", "sshFillCrt"}
    <3>1. \/ /\ crtFile' = [crtFile EXCEPT ![Mine(p, "tls")] = Issued(proc[p].key)]
             /\ keyFile' = keyFile /\ proc[p].pc = "fillCrt"
          \/ /\ crtFile' = [crtFile EXCEPT ![Mine(p, "ssh")] = Issued(proc[p].key)]
             /\ keyFile' = keyFile /\ proc[p].pc = "sshFillCrt"
      <4>1. (FillCrt(p) /\ proc[p].pc = "fillCrt") \/ (SshFillCrt(p) /\ proc[p].pc = "sshFillCrt")
        BY <1>6, <2>4, StepAt
      <4> QED
        BY <1>2, <4>1 DEF FillCrt, SshFillCrt, Writes
    <3>2. proc[p].key \in Pairs
      BY <1>2, <2>4 DEF TlsPC, SshPC
    <3>3. CASE W
      <4>1. s = Mine(p, IF proc[p].pc = "fillCrt" THEN "tls" ELSE "ssh")
        BY <1>w, <2>4, <3>3 DEF TlsPC, SshPC
      <4>2. crtFile'[s] = Issued(proc[p].key) /\ keyFile'[s] = keyFile[s]
        BY <1>2, <3>1, <4>1
      <4> QED
        BY <1>w, <2>4, <3>2, <3>3, <4>2 DEF PairDone
    <3>4. CASE ~W
      <4>1. s # Mine(p, IF proc[p].pc = "fillCrt" THEN "tls" ELSE "ssh")
        BY <1>w, <2>4, <3>4 DEF TlsPC, SshPC
      <4>2. PairSame(s)
        BY <1>2, <3>1, <4>1 DEF PairSame
      <4>3. proc'[p].pc \notin TlsPC \cup SshPC
        <5>1. Shape(p) /\ ~Interrupted(p) /\ ~Opens(p)
          <6>1. Shape(p)
            BY <1>6, StepsKeep DEF Kept
          <6>2. ~Interrupted(p)
            BY <2>4 DEF Interrupted, Late
          <6>3. ~Opens(p)
            BY <2>4 DEF Opens, OpensAt
          <6> QED
            BY <6>1, <6>2, <6>3
        <5> QED
          BY <5>1 DEF Shape, Ended, Walks, Fills, TlsPC, SshPC
      <4>4. ~W2
        BY <1>w, <4>3
      <4> QED
        BY <1>w, <3>4, <4>2, <4>4 DEF PairStays
    <3> QED
      BY <3>3, <3>4
  <2>5. CASE proc[p].pc \notin {"newKey", "sshNewKey"} \cup TlsPC \cup SshPC
    <3>1. KeyUntouched /\ CrtUntouched
      <4>1. ASSUME CertStep(p)
            PROVE  KeyUntouched /\ CrtUntouched
        BY <2>5, <4>1, CertWrites
           DEF NewKey, FillKey, NewCrt, FillCrt, SshNewKey, SshFillKey, SshNewCrt, SshFillCrt, At,
               TlsPC, SshPC
      <4> QED
        BY <1>6, <4>1, LoginWrites, CommandWrites, ApiWrites DEF Step
    <3>2. proc'[p].pc \notin TlsPC \cup SshPC
      <4>1. Shape(p)
        BY <1>6, StepsKeep DEF Kept
      <4>2. Interrupted(p) => proc'[p].pc \notin TlsPC \cup SshPC
        BY <2>5 DEF Interrupted
      <4>3. Opens(p) => proc'[p].pc \notin TlsPC \cup SshPC
        BY <2>5 DEF Opens, OpensAt, TlsPC, SshPC
      <4> QED
        BY <4>1, <4>2, <4>3 DEF Shape, Ended, Walks, Fills, TlsPC, SshPC
    <3>3. ~W /\ ~W2
      BY <1>w, <2>5, <3>2
    <3> QED
      BY <1>3, <1>w, <3>1, <3>3 DEF PairStays
  <2> QED
    BY <2>1, <2>2, <2>3, <2>4, <2>5 DEF TlsPC, SshPC
<1> QED
  BY <1>5, <1>6

\* What a process does not see of another one's step.
LEMMA OthersStay ==
    ASSUME NEW p \in Procs, Bystanders(p), plan' = plan, NEW q \in Procs, q # p
    PROVE  proc'[q] = proc[q] /\ Writing(q)' = Writing(q) /\ Holding(q)' = Holding(q)
BY DEF Bystanders, Writing, Holding

LEMMA PairsNext ==
    ASSUME FilesInv, PairsRight, Action, History
    PROVE  PairsRight'
<1> SUFFICES ASSUME NEW s \in Slots, s \notin hist'.dirty
             PROVE  PairRight(s)'
  BY DEF PairsRight, Undisturbed
<1>0. /\ TypeOK /\ ProcsOK
      /\ keyFile \in [Slots -> Pairs \cup {None, Torn}]
      /\ crtFile \in [Slots -> Certificates \cup {None, Torn}]
  BY DEF FilesInv, TypeOK
<1>1. /\ s \in Shared /\ s \notin hist.dirty
      /\ \A p, q \in Procs : p # q /\ s \in Writing(p)' => s \notin Writing(q)'
      /\ \A p \in Procs : Resting(p)' /\ s \in Writing(p) => FileOf(s)' # FileOf(s)
  BY FileNames, StaysUndisturbed
<1>2. PairRight(s)
  BY <1>1 DEF PairsRight, Undisturbed
<1>3. ASSUME NEW p \in Procs, Step(p) \/ Kill(p)
      PROVE  PairRight(s)'
  <2>0. plan' = plan /\ Bystanders(p)
    BY <1>0, <1>3, PlanUnchanged, PlanKept, StepsKeep DEF Step, Kill, Kept, Shape
  <2>1. \A q \in Procs : q # p => proc'[q] = proc[q] /\ Writing(q)' = Writing(q)
    BY <2>0, OthersStay
  <2>2. CASE PairStays(p, s)
    <3>1. \A q \in Procs : s \in Writing(q)' => proc'[q] = proc[q] /\ s \in Writing(q)
      BY <2>1, <2>2 DEF PairStays
    <3>2. \A q \in Procs : s \in Writing(q) => s \in Writing(q)'
      BY <2>1, <2>2 DEF PairStays
    <3> QED
      BY <1>2, <2>2, <3>1, <3>2 DEF PairRight, PairStays, PairSame
  <2>3. CASE s \in Writing(p)'
    <3>1. \A q \in Procs : s \in Writing(q)' => q = p
      BY <1>1, <2>3
    <3>2. proc'[p].pc \in {"fillKey", "sshFillKey"} \/ keyFile'[s] = proc'[p].key
      <4>1. CASE CrtBegun(p, s)
        <5>1. keyFile[s] = proc[p].key
          BY <1>2, <4>1 DEF PairRight, CrtBegun
        <5> QED
          BY <4>1, <5>1 DEF CrtBegun
      <4>2. CASE PairBegun(p, s) \/ KeyDone(p, s)
        BY <4>2 DEF PairBegun, KeyDone
      <4>3. ~PairStays(p, s)
        BY <2>3 DEF PairStays
      <4>4. CASE PairLeft(p, s)
        BY <1>1, <4>4, FilesAre DEF PairLeft, PairSame
      <4>5. CASE PairDone(p, s)
        <5>1. keyFile[s] = proc[p].key
          BY <1>2, <4>5 DEF PairRight, PairDone
        <5>2. CASE proc'[p].key = proc[p].key
          BY <4>5, <5>1, <5>2 DEF PairDone
        <5>3. proc[p].pc \in {"fillCrt", "sshFillCrt"} => proc'[p].pc \notin TlsPC \cup SshPC
          <6>1. Shape(p)
            BY <1>0, <1>3, StepsKeep DEF Kept
          <6> QED
            BY <6>1 DEF Shape, Ended, Walks, Opens, OpensAt, Interrupted, Late, Fills, TlsPC, SshPC
        <5>4. s \notin Writing(p)'
          BY <1>0, <2>0, <4>5, <5>3, OnPairs DEF PairDone
        <5> QED
          BY <2>3, <5>4
      <4> QED
        BY <1>0, <1>3, <4>1, <4>2, <4>3, <4>4, <4>5, PairStep
    <3> QED
      BY <2>3, <3>1, <3>2 DEF PairRight
  <2>4. CASE PairDone(p, s) /\ s \notin Writing(p)'
    <3>1. keyFile[s] = proc[p].key
      BY <1>2, <2>4 DEF PairRight, PairDone
    <3>2. /\ crtFile'[s] = Issued(proc[p].key) /\ proc[p].key \in Pairs
          /\ keyFile'[s] = proc[p].key
      BY <2>4, <3>1 DEF PairDone
    <3>3. Match(keyFile'[s], crtFile'[s])
      <4>1. \A i \in Pairs : Readable(i) /\ Readable(Issued(i)) /\ Issued(i).pair = i
        BY IssuedCertificate, HomeAssumption DEF Readable
      <4> QED
        BY <3>2, <4>1 DEF Match
    <3>4. \A q \in Procs : s \in Writing(q)' => proc'[q] = proc[q] /\ s \in Writing(q)
      BY <2>1, <2>4
    <3>5. keyFile'[s] = keyFile[s]
      BY <2>4 DEF PairDone
    <3>6. \A q \in Procs : s \in Writing(q)' =>
             proc'[q].pc \in {"fillKey", "sshFillKey"} \/ keyFile'[s] = proc'[q].key
      BY <1>2, <3>4, <3>5 DEF PairRight
    <3> QED
      BY <3>3, <3>6 DEF PairRight
  <2>5. ~PairLeft(p, s)
    BY <1>1, FilesAre DEF PairLeft, PairSame
  <2> QED
    BY <1>0, <1>3, <2>2, <2>3, <2>4, <2>5, PairStep DEF PairBegun, KeyDone, CrtBegun
<1>4. ASSUME LongPause \/ Expire
      PROVE  PairRight(s)'
  <2>1. proc' = proc /\ plan' = plan /\ keyFile' = keyFile
    BY <1>4 DEF LongPause, Expire
  <2>2. crtFile'[s] = crtFile[s] \/ crtFile'[s] = Expired(crtFile[s])
    BY <1>0, <1>4 DEF LongPause, Expire
  <2>3. \A q \in Procs : Writing(q)' = Writing(q)
    BY <2>1 DEF Writing
  <2>4. Match(keyFile[s], crtFile[s]) => Match(keyFile'[s], crtFile'[s])
    <3>1. /\ Readable(Expired(crtFile[s])) <=> Readable(crtFile[s])
          /\ Readable(crtFile[s]) => Expired(crtFile[s]).pair = crtFile[s].pair
      BY <1>0, ExpiredFile
    <3> QED
      BY <2>1, <2>2, <3>1 DEF Match
  <2> QED
    BY <1>2, <2>1, <2>3, <2>4 DEF PairRight
<1> QED
  BY <1>3, <1>4 DEF Action

-----------------------------------------------------------------------------
(* What a step does with a file that is handed to a database client *)

ChainShared(p, f) ==
    f = "chain" /\ \E q \in Procs \ {p} : <<"chain">> \in Writing(p) /\ <<"chain">> \in Writing(q)

LEMMA HandedStep ==
    ASSUME TypeOK, ProcsOK, NEW p \in Procs, Step(p) \/ Kill(p), NEW f \in Handed
    PROVE  \/ <<f>> \notin Writing(p) /\ <<f>> \notin Writing(p)' /\ handed'[f] = handed[f]
           \/ <<f>> \in Writing(p)'
           \/ <<f>> \in Writing(p) /\ handed'[f] = p
           \/ <<f>> \in Writing(p) /\ Resting(p)' /\ handed'[f] = handed[f]
           \/ ChainShared(p, f)
<1> DEFINE new == CASE f = "chain" -> "newChain" [] f = "jks" -> "newJks" [] OTHER -> "newXml"
           fill == CASE f = "chain" -> "fillChain" [] f = "jks" -> "fillJks" [] OTHER -> "fillXml"
<1>0. plan' = plan /\ plan[p] \in Plan
  BY PlanUnchanged, PlanKept, PlanOf DEF Step, Kill
<1>1. f \in {"chain", "jks", "xml"}
  BY DEF Handed
<1>2. /\ <<f>> \in Writing(p) <=> proc[p].pc = fill
      /\ <<f>> \in Writing(p)' <=> proc'[p].pc = fill
  <2>1. /\ <<"chain">> \in Writing(p) <=> proc[p].pc = "fillChain"
        /\ <<"jks">> \in Writing(p) <=> proc[p].pc = "fillJks"
        /\ <<"xml">> \in Writing(p) <=> proc[p].pc = "fillXml"
        /\ <<"chain">> \in Writing(p)' <=> proc'[p].pc = "fillChain"
        /\ <<"jks">> \in Writing(p)' <=> proc'[p].pc = "fillJks"
        /\ <<"xml">> \in Writing(p)' <=> proc'[p].pc = "fillXml"
    BY <1>0, WritingIs DEF Writing
  <2> QED
    BY <1>1, <2>1
<1>3. /\ fill \in {"fillChain", "fillJks", "fillXml"} /\ new \in {"newChain", "newJks", "newXml"}
      /\ handed \in [Handed -> Procs \cup {None, Torn}]
  BY DEF TypeOK
<1>4. CASE Kill(p)
  <2>1. HandedUntouched /\ Resting(p)' /\ proc'[p].pc \in {"idle", "done"}
    BY <1>4, NoFileTouches, EndedHas DEF Kill, NothingTouched, Ended
  <2> QED
    BY <1>2, <1>3, <2>1 DEF HandedUntouched
<1>5. CASE Step(p) /\ proc[p].pc = fill
  <2>1. \/ HandOver(p, f, new, fill)
        \/ ChainShared(p, f)
        \/ NoFile /\ End(p)
    <3>1. CASE f = "chain"
      <4>1. DownloadCertificateChain(p)
        BY <1>5, <3>1, StepAt
      <4>2. CASE \E q \in Procs \ {p} : At(q, "fillChain")
        <5>1. PICK q \in Procs \ {p} : proc[q].pc = "fillChain"
          BY <4>2 DEF At
        <5>2. <<"chain">> \in Writing(q) /\ <<"chain">> \in Writing(p)
          BY <1>2, <1>5, <3>1, <5>1, PlanOf, WritingIs DEF Writing
        <5> QED
          BY <3>1, <5>2 DEF ChainShared
      <4> QED
        BY <3>1, <4>1, <4>2 DEF DownloadCertificateChain
    <3>2. CASE f = "jks"
      BY <1>5, <3>2, StepAt DEF WriteKeyStore
    <3>3. CASE f = "xml"
      BY <1>5, <3>3, StepAt DEF WriteConnections
    <3> QED
      BY <1>1, <3>1, <3>2, <3>3
  <2>2. CASE HandOver(p, f, new, fill)
    <3>1. new # fill
      BY <1>1
    <3>2. handed'[f] = p
      BY <1>3, <1>5, <2>2, <3>1 DEF HandOver, At
    <3> QED
      BY <1>2, <1>5, <3>2
  <2>3. CASE NoFile /\ End(p)
    <3>1. handed' = handed /\ Resting(p)'
      BY <2>3, PlanKept, EndedHas
    <3> QED
      BY <1>2, <1>5, <3>1
  <2> QED
    BY <2>1, <2>2, <2>3
<1>6. CASE Step(p) /\ proc[p].pc # fill
  <2>1. CASE proc'[p].pc = fill
    BY <1>2, <2>1
  <2>2. CASE proc'[p].pc # fill
    <3>1. ASSUME NEW g \in Handed, NEW n, NEW l, HandOver(p, g, n, l), f # g
          PROVE  handed'[f] = handed[f]
      BY <1>3, <3>1 DEF HandOver
    <3>2. ASSUME HandOver(p, f, new, fill)
          PROVE  FALSE
      <4>1. Goto(p, fill)
        BY <1>6, <3>2 DEF HandOver, At
      <4> QED
        BY <2>2, <4>1, GoneTo
    <3>3. CASE DownloadCertificateChain(p)
      BY <1>1, <1>2, <1>6, <2>2, <3>1, <3>2, <3>3, PlanKept DEF DownloadCertificateChain, Handed
    <3>4. CASE WriteKeyStore(p)
      BY <1>1, <1>2, <1>6, <2>2, <3>1, <3>2, <3>4 DEF WriteKeyStore, Handed
    <3>5. CASE WriteConnections(p)
      BY <1>1, <1>2, <1>6, <2>2, <3>1, <3>2, <3>5 DEF WriteConnections, Handed
    <3>6. CASE HandedUntouched
      BY <1>2, <1>6, <2>2, <3>6 DEF HandedUntouched
    <3> QED
      BY <1>6, <3>3, <3>4, <3>5, <3>6, LoginWrites, CertWrites, CommandWrites, ApiWrites DEF Step
  <2> QED
    BY <2>1, <2>2
<1> QED
  BY <1>4, <1>5, <1>6

LEMMA HandedNext ==
    ASSUME FilesInv, AloneInv, HandedRight, Action, History
    PROVE  HandedRight'
<1> SUFFICES ASSUME NEW f \in Handed, <<f>> \notin hist'.dirty
             PROVE  (\E p \in Procs : <<f>> \in Writing(p)') \/ handed'[f] # Torn
  BY DEF HandedRight, Undisturbed
<1>0. TypeOK /\ ProcsOK
  BY DEF FilesInv
<1>1. /\ <<f>> \in Shared /\ <<f>> \notin hist.dirty
      /\ \A p \in Procs : Resting(p)' /\ <<f>> \in Writing(p) => FileOf(<<f>>)' # FileOf(<<f>>)
  BY FileNames, StaysUndisturbed
<1>2. /\ \A p, q \in Procs : p # q /\ <<f>> \in Writing(p) => <<f>> \notin Writing(q)
      /\ (\E p \in Procs : <<f>> \in Writing(p)) \/ handed[f] # Torn
  BY <1>1 DEF AloneInv, Alone, Undisturbed, HandedRight
<1>3. ASSUME NEW p \in Procs, Step(p) \/ Kill(p)
      PROVE  (\E q \in Procs : <<f>> \in Writing(q)') \/ handed'[f] # Torn
  <2>0. plan' = plan /\ Bystanders(p)
    BY <1>0, <1>3, PlanUnchanged, PlanKept, StepsKeep DEF Step, Kill, Kept, Shape
  <2>1. \A q \in Procs : q # p => Writing(q)' = Writing(q)
    BY <2>0, OthersStay
  <2>2. CASE <<f>> \notin Writing(p) /\ <<f>> \notin Writing(p)' /\ handed'[f] = handed[f]
    BY <1>2, <2>1, <2>2
  <2>3. p # Torn
    BY HomeAssumption
  <2>4. ~ChainShared(p, f)
    BY <1>2 DEF ChainShared
  <2>5. ~(<<f>> \in Writing(p) /\ Resting(p)' /\ handed'[f] = handed[f])
    BY <1>1, FilesAre
  <2> QED
    BY <1>0, <1>3, <2>2, <2>3, <2>4, <2>5, HandedStep
<1>4. ASSUME LongPause \/ Expire
      PROVE  (\E q \in Procs : <<f>> \in Writing(q)') \/ handed'[f] # Torn
  <2>1. proc' = proc /\ plan' = plan /\ handed' = handed
    BY <1>4 DEF LongPause, Expire
  <2> QED
    BY <1>2, <2>1 DEF Writing
<1> QED
  BY <1>3, <1>4 DEF Action

-----------------------------------------------------------------------------
(* What a step does with the preferences *)

\* A database command that has read them is writing them or will.
LEMMA LateHolds ==
    ASSUME NEW p, NEW pl \in Plan, NEW r, ProcOK(p, pl, r), pl.cmd \in DbCommands,
           r.pc \in Late(pl) \cup {"fillPref"}
    PROVE  WritesPref(r) \/ HoldsPref(r)
<1>1. r.pref # {} /\ (r.pc \in Due(pl) => r.todo # <<>> /\ r.todo[Len(r.todo)] = "newPref")
  BY DEF ProcOK
<1>2. r.pc \in Due(pl) \cup {"newPref", "fillPref"}
  BY DEF Late, Due
<1>3. CASE r.pc \in Due(pl)
  <2>1. r.todo \in Seq(PC)
    BY Fields DEF ProcOK
  <2>2. Len(r.todo) \in DOMAIN r.todo
    BY <1>1, <1>3, <2>1
  <2> QED
    BY <1>1, <1>3, <2>2 DEF HoldsPref
<1> QED
  BY <1>1, <1>2, <1>3 DEF WritesPref, HoldsPref

\* With a step nothing happens to them, or they are being written, or they
\* have been, or the process has ended meanwhile.
LEMMA PrefsStep ==
    ASSUME TypeOK, ProcsOK, NEW p \in Procs, Step(p) \/ Kill(p)
    PROVE  \/ ~WritesPref(proc[p]) /\ prefs' = prefs
           \/ WritesPref(proc'[p])
           \/ WritesPref(proc[p]) /\ prefs' = proc[p].pref
           \/ WritesPref(proc[p]) /\ Resting(p)' /\ prefs' = prefs
<1>0. proc \in [Procs -> Process]
  BY DEF TypeOK
<1>1. ASSUME End(p), prefs' = prefs
      PROVE  \/ ~WritesPref(proc[p]) /\ prefs' = prefs
             \/ WritesPref(proc[p]) /\ Resting(p)' /\ prefs' = prefs
  BY <1>1, EndedHas
<1>2. CASE Kill(p)
  BY <1>1, <1>2, PlanKept DEF Kill
<1>3. CASE NewPref(p)
  <2>1. proc'[p].pc = "fillPref"
    BY <1>3, GoneTo DEF NewPref
  <2> QED
    BY <2>1 DEF WritesPref
<1>4. CASE FillPref(p)
  BY <1>4 DEF FillPref, At, WritesPref
<1>5. CASE OnInterruptDo(p)
  <2>1. CASE proc[p].irq = "new" /\ Become(p, [proc[p] EXCEPT !.irq = "fill"])
    <3>1. proc'[p].irq = "fill"
      BY <1>0, <2>1 DEF Become, Process
    <3> QED
      BY <3>1 DEF WritesPref
  <2>2. CASE proc[p].irq = "fill" /\ prefs' = proc[p].pref
    BY <2>2 DEF WritesPref
  <2>3. CASE End(p) /\ prefs' = prefs
    BY <1>1, <2>3
  <2> QED
    BY <1>5, <2>1, <2>2, <2>3 DEF OnInterruptDo
<1>6. CASE Interrupt(p)
  <2>1. /\ proc'[p] = [proc[p] EXCEPT !.irq = "new"] /\ proc[p].irq = "off" /\ prefs' = prefs
    BY <1>0, <1>6, PlanKept DEF Interrupt, Become
  <2>2. proc'[p].pc = proc[p].pc
    BY <1>0, <2>1 DEF Process
  <2> QED
    BY <2>1, <2>2 DEF WritesPref
<1>7. CASE Step(p) /\ ~NewPref(p) /\ ~FillPref(p) /\ ~OnInterruptDo(p) /\ ~Interrupt(p)
  <2>1. prefs' = prefs /\ proc[p].pc # "fillPref"
    BY <1>7, StepAt, LoginWrites, CertWrites, CommandWrites, ApiWrites DEF Step, PrefsUntouched
  <2>2. Shape(p) /\ ~Interrupted(p)
    BY <1>7, StepsKeep DEF Kept, Interrupted
  <2>3. CASE Ended(p)
    <3>1. Resting(p)'
      BY <2>3 DEF Ended, Resting
    <3> QED
      BY <2>1, <3>1
  <2>4. CASE Walks(p) \/ Opens(p)
    <3>1. proc'[p].irq = proc[p].irq
      BY <2>4 DEF Walks, Opens
    <3> QED
      BY <2>1, <3>1 DEF WritesPref
  <2> QED
    BY <2>2, <2>3, <2>4 DEF Shape
<1> QED
  BY <1>2, <1>3, <1>4, <1>5, <1>6, <1>7

\* Who holds the preferences after a step held them before, or has read them.
LEMMA PrefsHeld ==
    ASSUME TypeOK, ProcsOK, NEW p \in Procs, Step(p) \/ Kill(p),
           WritesPref(proc'[p]) \/ HoldsPref(proc'[p])
    PROVE  \/ /\ WritesPref(proc[p]) \/ HoldsPref(proc[p])
              /\ proc'[p].pref = proc[p].pref
           \/ /\ proc[p].pc = "readPref" /\ HoldsPref(proc'[p]) /\ ~WritesPref(proc[p])
              /\ proc'[p].pref = SetSocket(IF prefs = Torn THEN {} ELSE prefs, p)
<1>0. /\ plan' = plan /\ plan[p] \in Plan /\ ProcOK(p, plan[p], proc[p]) /\ ProcOK(p, plan[p], proc'[p])
      /\ Shape(p)
  <2>1. plan' = plan /\ plan[p] \in Plan
    BY PlanUnchanged, PlanKept, PlanOf DEF Step, Kill
  <2>2. ProcessesOK' /\ Shape(p)
    BY StepsKeep DEF Kept
  <2> QED
    BY <2>1, <2>2 DEF ProcessesOK, ProcsOK
<1>1. ~Ended(p)
  BY DEF Ended, WritesPref, HoldsPref
<1>2. CASE Opens(p)
  <2>1. /\ proc'[p].irq = proc[p].irq /\ proc'[p].pref = proc[p].pref /\ proc'[p].todo = proc[p].todo
        /\ proc'[p].pc # "newPref"
        /\ proc'[p].pc = "fillPref" => proc[p].pc = "newPref"
    BY <1>2 DEF Opens, OpensAt
  <2>2. proc[p].pc = "newPref" => HoldsPref(proc[p])
    BY <1>0 DEF ProcOK, Late, HoldsPref
  <2> QED
    BY <2>1, <2>2 DEF WritesPref, HoldsPref
<1>3. CASE Interrupted(p)
  BY <1>0, <1>3, LateHolds DEF Interrupted
<1>4. CASE Walks(p)
  <2>1. HoldsPref(proc'[p])
    <3>1. CASE WritesPref(proc'[p])
      <4>1. proc'[p].irq = "fill" /\ proc'[p].pc # "fillPref"
        BY <1>4, <3>1 DEF Walks, WritesPref, Fills
      <4>2. plan[p].cmd \in DbCommands /\ proc'[p].pc \in Late(plan[p])
        BY <1>0, <4>1 DEF ProcOK
      <4>3. proc'[p].pref # {} /\ (proc'[p].pc = "newPref"
                \/ (proc'[p].todo # <<>> /\ proc'[p].todo[Len(proc'[p].todo)] = "newPref"))
        BY <1>0, <4>2 DEF ProcOK, Late, Due
      <4>4. proc'[p].todo \in Seq(PC)
        BY <1>0, Fields DEF ProcOK
      <4>5. proc'[p].todo # <<>> => Len(proc'[p].todo) \in DOMAIN proc'[p].todo
        BY <4>4
      <4> QED
        BY <4>3, <4>5 DEF HoldsPref
    <3> QED
      BY <3>1
  <2>2. CASE HoldsPref(proc[p]) /\ proc'[p].pref = proc[p].pref
    BY <2>2
  <2>3. CASE proc[p].pc = "readPref"
    <3>1. Step(p)
      <4>1. ~Kill(p)
        BY <1>1, EndedHas DEF Kill
      <4> QED
        BY <4>1
    <3>2. ReadPref(p)
      BY <2>3, <3>1, StepAt
    <3> DEFINE set == SetSocket(IF prefs = Torn THEN {} ELSE prefs, p)
               r == [proc[p] EXCEPT !.pref = set]
    <3>3. GoOn(p, r)
      BY <1>1, <3>2, EndedHas DEF ReadPref
    <3>4. set \in SUBSET Procs
      BY DEF SetSocket, TypeOK
    <3> HIDE DEF set
    <3>p. proc[p] \in Process
      BY DEF TypeOK
    <3>5. r \in Process /\ r.pref = set
      BY <3>4, <3>p DEF Process
    <3> HIDE DEF r
    <3>6. proc'[p].pref = set
      BY <1>1, <3>3, <3>5, GoneOn
    <3>7. ~WritesPref(proc[p])
      BY <1>0, <2>3 DEF ProcOK, Late, WritesPref
    <3> QED
      BY <2>1, <2>3, <3>6, <3>7 DEF set
  <2> QED
    BY <1>4, <2>1, <2>2, <2>3 DEF Walks
<1> QED
  BY <1>0, <1>1, <1>2, <1>3, <1>4 DEF Shape

\* What has been saved with a step.
LEMMA SavedStep ==
    ASSUME FilesInv, History, NEW p \in Procs, Bystanders(p)
    PROVE  \/ hist'.saved = hist.saved
           \/ /\ hist'.saved = hist.saved \cup {p}
              /\ proc[p].pc = "fillPref" /\ prefs' = proc[p].pref /\ p \in proc[p].pref
<1> DEFINE new == {q \in Procs : At(q, "fillPref") /\ ~At(q, "fillPref")' /\ prefs' = proc[q].pref}
<1>1. hist'.saved = hist.saved \cup new
  BY DEF History
<1>2. \A q \in new : q = p
  BY DEF Bystanders, At
<1>3. ProcOK(p, plan[p], proc[p])
  BY DEF FilesInv, ProcsOK
<1>4. p \in new => proc[p].pc = "fillPref" /\ prefs' = proc[p].pref /\ p \in proc[p].pref
  BY <1>3 DEF At, ProcOK
<1> HIDE DEF new
<1>5. new = {} \/ new = {p}
  BY <1>2
<1> QED
  BY <1>1, <1>4, <1>5

LEMMA PrefsNext ==
    ASSUME FilesInv, AloneInv, PrefsRight, Action, History
    PROVE  PrefsRight'
<1> SUFFICES ASSUME <<"prefs">> \notin hist'.dirty
             PROVE  PrefsRightly'
  BY DEF PrefsRight, Undisturbed
<1>0. TypeOK /\ ProcsOK /\ plan' = plan /\ \A p \in Procs : plan[p] \in Plan
  BY OthersTyped, PlanOf DEF FilesInv
<1>1. \A p \in Procs :
         /\ <<"prefs">> \in Writing(p) <=> WritesPref(proc[p])
         /\ <<"prefs">> \in Writing(p)' <=> WritesPref(proc'[p])
         /\ <<"prefs">> \in Holding(p) <=> HoldsPref(proc[p])
         /\ <<"prefs">> \in Holding(p)' <=> HoldsPref(proc'[p])
  BY <1>0, WritingIs, HoldingIs DEF Writing, Holding
<1>2. /\ <<"prefs">> \in Shared /\ <<"prefs">> \notin hist.dirty
      /\ \A p, q \in Procs : p # q /\ WritesPref(proc'[p]) => ~WritesPref(proc'[q]) /\ ~HoldsPref(proc'[q])
      /\ \A p \in Procs : Resting(p)' /\ WritesPref(proc[p]) => prefs' # prefs
  BY <1>1, FileNames, FilesAre, StaysUndisturbed
<1>3. /\ \A p, q \in Procs : p # q /\ WritesPref(proc[p]) => ~WritesPref(proc[q]) /\ ~HoldsPref(proc[q])
      /\ \A p \in Procs : WritesPref(proc[p]) \/ HoldsPref(proc[p]) => hist.saved \subseteq proc[p].pref
      /\ (\E p \in Procs : WritesPref(proc[p])) \/ (prefs # Torn /\ hist.saved \subseteq prefs)
  BY <1>1, <1>2 DEF AloneInv, Alone, Undisturbed, PrefsRight, PrefsRightly
<1>4. ASSUME NEW p \in Procs, Step(p) \/ Kill(p)
      PROVE  PrefsRightly'
  <2>0. Bystanders(p)
    BY <1>0, <1>4, StepsKeep DEF Kept, Shape
  <2>1. \A q \in Procs : q # p => proc'[q] = proc[q]
    BY <2>0 DEF Bystanders
  <2>2. /\ proc[p].pref # {} => p \in proc[p].pref
        /\ proc[p].pref \subseteq Procs
    BY <1>0, Fields DEF ProcsOK, ProcOK
  <2>3. /\ hist'.saved \subseteq hist.saved \cup {p}
        /\ hist'.saved = hist.saved \/ (WritesPref(proc[p]) /\ prefs' = proc[p].pref)
    BY <2>0, SavedStep DEF WritesPref
  <2>s. WritesPref(proc[p]) => hist'.saved \subseteq proc[p].pref
    <3>1. ASSUME WritesPref(proc[p])
          PROVE  hist'.saved \subseteq proc[p].pref
      <4>1. hist.saved \subseteq proc[p].pref
        BY <1>3, <3>1
      <4>2. hist'.saved = hist.saved \/ p \in proc[p].pref
        BY <2>0, SavedStep
      <4> QED
        BY <2>3, <4>1, <4>2
    <3> QED
      BY <3>1
  <2>4. ASSUME NEW q \in Procs, WritesPref(proc'[q]) \/ HoldsPref(proc'[q])
        PROVE  hist'.saved \subseteq proc'[q].pref
    <3>1. CASE q # p
      <4>1. WritesPref(proc[q]) \/ HoldsPref(proc[q])
        BY <2>1, <2>4, <3>1
      <4>2. ~WritesPref(proc[p])
        BY <1>3, <3>1, <4>1
      <4> QED
        BY <1>3, <2>1, <2>3, <3>1, <4>1, <4>2
    <3>2. CASE q = p /\ (WritesPref(proc[p]) \/ HoldsPref(proc[p])) /\ proc'[p].pref = proc[p].pref
      <4>1. hist.saved \subseteq proc[p].pref
        BY <1>3, <3>2
      <4> QED
        BY <2>3, <2>s, <3>2, <4>1
    <3>3. CASE /\ q = p /\ proc[p].pc = "readPref" /\ HoldsPref(proc'[p]) /\ ~WritesPref(proc[p])
               /\ proc'[p].pref = SetSocket(IF prefs = Torn THEN {} ELSE prefs, p)
      <4>1. ASSUME NEW x \in Procs, WritesPref(proc[x])
            PROVE  FALSE
        <5>1. x # p /\ WritesPref(proc'[x])
          BY <2>1, <3>3, <4>1
        <5> QED
          BY <1>2, <3>3, <5>1
      <4>2. prefs # Torn /\ hist.saved \subseteq prefs
        BY <1>3, <4>1
      <4>3. hist'.saved = hist.saved
        BY <2>3, <3>3
      <4> QED
        BY <3>3, <4>2, <4>3 DEF SetSocket
    <3> QED
      BY <1>0, <1>4, <2>4, <3>1, <3>2, <3>3, PrefsHeld
  <2>5. ASSUME \A q \in Procs : ~WritesPref(proc'[q])
        PROVE  prefs' # Torn /\ hist'.saved \subseteq prefs'
    <3>1. CASE WritesPref(proc[p]) /\ prefs' = proc[p].pref
      <4>1. prefs' # Torn
        BY <2>2, <3>1, HomeAssumption
      <4> QED
        BY <2>s, <3>1, <4>1
    <3>2. CASE ~WritesPref(proc[p]) /\ prefs' = prefs
      <4>1. \A q \in Procs : ~WritesPref(proc[q])
        BY <2>1, <2>5, <3>2
      <4> QED
        BY <1>3, <2>3, <3>2, <4>1
    <3> QED
      BY <1>0, <1>2, <1>4, <2>5, <3>1, <3>2, PrefsStep
  <2> QED
    BY <2>4, <2>5 DEF PrefsRightly
<1>5. ASSUME LongPause \/ Expire
      PROVE  PrefsRightly'
  <2>1. proc' = proc /\ prefs' = prefs
    BY <1>5 DEF LongPause, Expire
  <2>2. hist'.saved = hist.saved
    BY <2>1 DEF History, At
  <2> QED
    BY <1>3, <2>1, <2>2 DEF PrefsRightly
<1> QED
  BY <1>4, <1>5 DEF Action

-----------------------------------------------------------------------------
(* What a step does with the token of the API commands *)

LEMMA OnApi ==
    ASSUME TypeOK, NEW p \in Procs, plan' = plan
    PROVE  /\ <<"api">> \in Writing(p) <=> proc[p].pc = "fillToken" /\ plan[p].cmd \in ApiCmds
           /\ <<"api">> \in Writing(p)' <=> proc'[p].pc = "fillToken" /\ plan[p].cmd \in ApiCmds
           /\ <<"api">> \in Holding(p) <=>
                 Refreshes(plan[p]) /\ proc[p].pc \in {"refresh", "newToken"}
           /\ <<"api">> \in Holding(p)' <=>
                 Refreshes(plan[p]) /\ proc'[p].pc \in {"refresh", "newToken"}
BY PlanOf, WritingIs, HoldingIs DEF Writing, Holding

ApiSame == token'["api"] = token["api"]

\* Nothing happens to it; it is truncated; it is written; or the process has
\* ended meanwhile.
LEMMA ApiFileStep ==
    ASSUME TypeOK, ProcsOK, NEW p \in Procs, Step(p) \/ Kill(p)
    PROVE  \/ <<"api">> \notin Writing(p) /\ <<"api">> \notin Writing(p)' /\ ApiSame
           \/ /\ <<"api">> \notin Writing(p) /\ <<"api">> \in Writing(p)'
              /\ NewToken(p) /\ token'["api"] = Torn /\ proc'[p].tok = proc[p].tok
           \/ <<"api">> \in Writing(p) /\ <<"api">> \notin Writing(p)' /\ SaveToken(p)
           \/ <<"api">> \in Writing(p) /\ Resting(p)' /\ ApiSame
<1>0. /\ plan' = plan /\ plan[p] \in Plan
      /\ "api" \in TokenFiles /\ token \in [TokenFiles -> Token \cup {None, Torn}]
  BY PlanUnchanged, PlanKept, PlanOf DEF Step, Kill, TypeOK, TokenFiles
<1>1. /\ <<"api">> \in Writing(p) <=> proc[p].pc = "fillToken" /\ plan[p].cmd \in ApiCmds
      /\ <<"api">> \in Writing(p)' <=> proc'[p].pc = "fillToken" /\ plan[p].cmd \in ApiCmds
  BY <1>0, OnApi
<1>2. CASE Kill(p)
  <2>1. token' = token /\ Resting(p)' /\ proc'[p].pc # "fillToken"
    BY <1>2, PlanKept, EndedHas DEF Kill, Ended
  <2> QED
    BY <1>1, <2>1 DEF ApiSame
<1>3. CASE Step(p) /\ proc[p].pc = "newToken"
  <2>1. NewToken(p)
    BY <1>3, StepAt
  <2>2. proc'[p].pc = "fillToken" /\ proc'[p].tok = proc[p].tok
    BY <2>1, GoneTo DEF NewToken
  <2>3. token'["api"] = Torn
    BY <1>0, <2>1 DEF NewToken
  <2>4. plan[p].cmd \in ApiCmds
    BY <1>3, ApiAt DEF ApiEntries
  <2> QED
    BY <1>1, <1>3, <2>1, <2>2, <2>3, <2>4
<1>4. CASE Step(p) /\ proc[p].pc = "fillToken"
  <2>1. SaveToken(p)
    BY <1>4, StepAt
  <2>2. proc'[p].pc # "fillToken"
    <3>1. Shape(p)
      BY <1>4, StepsKeep DEF Kept
    <3> QED
      BY <1>4, <3>1 DEF Shape, Ended, Walks, Fills, Opens, OpensAt, Interrupted, Late
  <2>3. CASE plan[p].cmd \in ApiCmds
    BY <1>1, <1>4, <2>1, <2>2, <2>3
  <2>4. CASE plan[p].cmd \notin ApiCmds
    <3>1. \E v : token' = [token EXCEPT !["client"] = v]
      BY <2>1, <2>4 DEF SaveToken, TokenFile
    <3>2. ApiSame
      BY <1>0, <3>1 DEF ApiSame
    <3> QED
      BY <1>1, <2>4, <3>2
  <2> QED
    BY <2>3, <2>4
<1>5. CASE Step(p) /\ proc[p].pc \notin {"newToken", "fillToken"}
  <2>1. ApiSame
    <3>1. CASE Launch(p) \/ PollForToken(p)
      BY <1>0, <3>1 DEF Launch, PollForToken, NewClientToken, ApiSame
    <3>2. CASE TokenUntouched
      BY <3>2 DEF TokenUntouched, ApiSame
    <3>3. ~SaveToken(p) /\ ~NewToken(p)
      BY <1>5 DEF SaveToken, NewToken, At
    <3> QED
      BY <1>5, <3>1, <3>2, <3>3, LoginWrites, CertWrites, CommandWrites, ApiWrites DEF Step
  <2>2. proc'[p].pc = "fillToken" => plan[p].cmd \notin ApiCmds
    <3>1. Shape(p)
      BY <1>5, StepsKeep DEF Kept
    <3>2. proc'[p].pc = "fillToken" => proc[p].pc \in {"launch", "poll"}
      BY <1>5, <3>1 DEF Shape, Ended, Walks, Fills, Opens, OpensAt, Interrupted
    <3>3. proc[p].pc \in {"launch", "poll"} => plan[p].cmd \notin ApiCmds
      BY ClientAt DEF ApiEntries
    <3> QED
      BY <3>2, <3>3
  <2> QED
    BY <1>1, <1>5, <2>1, <2>2
<1> QED
  BY <1>2, <1>3, <1>4, <1>5

\* Who refreshes a token after a step did before, or has read the file.
LEMMA ApiHeld ==
    ASSUME TypeOK, ProcsOK, NEW p \in Procs, Step(p) \/ Kill(p),
           Refreshing(plan[p], proc'[p]), proc'[p].pc # "fillToken"
    PROVE  \/ proc[p].pc = "refresh" /\ proc[p].tok \in Token
              /\ proc'[p].tok \in Token /\ proc'[p].tok.of = proc[p].tok.of
           \/ proc[p].pc = "readApi" /\ token["api"] \in Token /\ proc'[p].tok = token["api"]
<1>0. /\ plan' = plan /\ plan[p] \in Plan /\ proc[p] \in Process /\ Shape(p)
      /\ plan[p].cmd = "refresh" /\ plan[p].env = None
      /\ proc[p].pc \in WithToken => proc[p].tok \in Token
  BY PlanUnchanged, PlanKept, PlanOf, StepsKeep
     DEF Step, Kill, TypeOK, ProcsOK, ProcOK, Kept, Refreshing, Refreshes
<1>1. ~Ended(p)
  BY DEF Ended, Refreshing
<1>2. ~Interrupted(p)
  BY <1>0 DEF Interrupted, DbCommands
<1>3. ~Opens(p)
  BY DEF Opens, OpensAt, Refreshing
<1>4. proc[p].pc \in {"readApi", "refresh"}
  BY <1>0, <1>1, <1>2, <1>3 DEF Shape, Walks
<1>5. Step(p)
  <2>1. ~Kill(p)
    BY <1>1, EndedHas DEF Kill
  <2> QED
    BY <2>1
<1>6. CASE proc[p].pc = "readApi"
  <2>1. ReadApi(p)
    BY <1>5, <1>6, StepAt
  <2> DEFINE r == [proc[p] EXCEPT !.tok = token["api"]]
  <2>2. token["api"] \in Token /\ GoOn(p, r)
    BY <1>0, <1>1, <2>1, EndedHas DEF ReadApi
  <2>3. r \in Process /\ r.tok = token["api"]
    BY <1>0, <2>2 DEF Process
  <2> HIDE DEF r
  <2> QED
    BY <1>1, <1>6, <2>2, <2>3, GoneOn
<1>7. CASE proc[p].pc = "refresh"
  <2>1. Refresh(p)
    BY <1>5, <1>7, StepAt
  <2> DEFINE t == [of |-> proc[p].tok.of, live |-> TRUE]
             r == [proc[p] EXCEPT !.tok = t]
  <2>2. GoOn(p, r)
    BY <1>1, <2>1, EndedHas DEF Refresh, Answered, Refused
  <2>3. proc[p].tok \in Token
    BY <1>0, <1>7 DEF WithToken
  <2>4. t \in Token /\ t.of = proc[p].tok.of
    BY <2>3 DEF Token
  <2> HIDE DEF t
  <2>5. r \in Process /\ r.tok = t
    BY <1>0, <2>4 DEF Process
  <2> HIDE DEF r
  <2> QED
    BY <1>1, <1>7, <2>2, <2>3, <2>4, <2>5, GoneOn
<1> QED
  BY <1>4, <1>6, <1>7

LEMMA ApiNext ==
    ASSUME FilesInv, AloneInv, ApiRight, Action, History
    PROVE  ApiRight'
<1> SUFFICES ASSUME <<"api">> \notin hist'.dirty
             PROVE  ApiRightly'
  BY DEF ApiRight, Undisturbed
<1>0. TypeOK /\ ProcsOK /\ plan' = plan
  BY OthersTyped DEF FilesInv
<1>1. \A p \in Procs :
         /\ <<"api">> \in Writing(p) <=> proc[p].pc = "fillToken" /\ plan[p].cmd \in ApiCmds
         /\ <<"api">> \in Writing(p)' <=> proc'[p].pc = "fillToken" /\ plan[p].cmd \in ApiCmds
         /\ <<"api">> \in Holding(p) <=>
               Refreshes(plan[p]) /\ proc[p].pc \in {"refresh", "newToken"}
         /\ <<"api">> \in Holding(p)' <=>
               Refreshes(plan[p]) /\ proc'[p].pc \in {"refresh", "newToken"}
  BY <1>0, OnApi
<1> DEFINE W(p) == <<"api">> \in Writing(p)
           W2(p) == <<"api">> \in Writing(p)'
           R(p) == Refreshing(plan[p], proc[p])
           R2(p) == Refreshing(plan[p], proc'[p])
<1>2. \A p \in Procs : /\ Refreshes(plan[p]) => plan[p].cmd \in ApiCmds
                       /\ R(p) <=> <<"api">> \in Holding(p) \/ (Refreshes(plan[p]) /\ W(p))
                       /\ R2(p) <=> <<"api">> \in Holding(p)' \/ (Refreshes(plan[p]) /\ W2(p))
  BY <1>1 DEF Refreshing, Refreshes, ApiCmds
<1>3. /\ <<"api">> \in Shared /\ <<"api">> \notin hist.dirty
      /\ \A p, q \in Procs : p # q /\ W2(p) => ~W2(q) /\ ~R2(q)
      /\ \A p \in Procs : Resting(p)' /\ W(p) => ~ApiSame
  BY <1>2, FileNames, FilesAre, StaysUndisturbed DEF ApiSame
<1>4. /\ \A p, q \in Procs : p # q /\ W(p) => ~W(q) /\ ~R(q)
      /\ ApiRightly
  BY <1>2, <1>3 DEF AloneInv, Alone, Undisturbed, ApiRight
<1>5. /\ \A p \in Procs : R(p) => OfAccount(proc[p].tok)
      /\ hist.account \in Token \cup {None}
      /\ (\E p \in Procs : W(p)) => token["api"] = Torn
      /\ (\A p \in Procs : ~W(p)) =>
            IF hist.account = None THEN token["api"] = None ELSE OfAccount(token["api"])
  BY <1>4 DEF ApiRightly, Refreshing
<1>6. hist'.account = IF \E p \in Procs : /\ plan[p].cmd \in ApiCmds /\ ~Refreshes(plan[p])
                                          /\ W(p) /\ ~ApiSame
                      THEN token'["api"] ELSE hist.account
  BY DEF History, ApiSame
<1> DEFINE Right2 ==
      /\ hist'.account \in Token \cup {None}
      /\ \A p \in Procs : R2(p) => OfAccount(proc[p].tok)'
      /\ (\E p \in Procs : W2(p)) => token'["api"] = Torn
      /\ (\A p \in Procs : ~W2(p)) =>
            IF hist'.account = None THEN token'["api"] = None ELSE OfAccount(token["api"])'
<1>7. Right2 => ApiRightly'
  BY <1>0 DEF ApiRightly, Refreshing
<1>8. ASSUME hist'.account = hist.account
      PROVE  \A t : OfAccount(t) <=> /\ hist'.account # None /\ t \in Token /\ t.of = hist'.account.of
  BY <1>8 DEF OfAccount
<1>w. \A p \in Procs : W(p) => plan[p].cmd \in ApiCmds
  BY <1>1
<1>9. ASSUME NEW p \in Procs, Step(p) \/ Kill(p)
      PROVE  ApiRightly'
  <2>0. Bystanders(p)
    BY <1>0, <1>9, StepsKeep DEF Kept, Shape
  <2>1. /\ \A q \in Procs : q # p => proc'[q] = proc[q]
        /\ \A q \in Procs : q # p => (W2(q) <=> W(q)) /\ (R2(q) <=> R(q))
    BY <1>0, <2>0, OthersStay DEF Bystanders
  <2>2. ~(W(p) /\ Resting(p)' /\ ApiSame)
    BY <1>3
  <2>3. CASE ~W(p) /\ ~W2(p) /\ ApiSame
    <3>1. hist'.account = hist.account
      BY <1>6, <2>3
    <3>2. ASSUME NEW q \in Procs, R2(q)
          PROVE  OfAccount(proc'[q].tok)
      <4>1. CASE q # p
        BY <1>5, <2>1, <3>2, <4>1
      <4>2. CASE q = p
        <5>1. Refreshing(plan[p], proc'[p]) /\ proc'[p].pc # "fillToken"
          BY <1>1, <1>2, <2>3, <3>2, <4>2
        <5>2. CASE /\ proc[p].pc = "refresh" /\ proc[p].tok \in Token
                   /\ proc'[p].tok \in Token /\ proc'[p].tok.of = proc[p].tok.of
          <6>1. R(p)
            BY <5>1, <5>2 DEF Refreshing
          <6> QED
            BY <1>5, <4>2, <5>2, <6>1 DEF OfAccount
        <5>3. CASE token["api"] \in Token /\ proc'[p].tok = token["api"]
          <6>1. \A x \in Procs : ~W(x)
            BY <1>5, <5>3, HomeAssumption
          <6>2. OfAccount(token["api"])
            BY <1>5, <5>3, <6>1, HomeAssumption
          <6> QED
            BY <4>2, <5>3, <6>2
        <5> QED
          BY <1>0, <1>9, <5>1, <5>2, <5>3, ApiHeld
      <4> QED
        BY <4>1, <4>2
    <3>3. \A q \in Procs : W2(q) <=> W(q)
      BY <2>1, <2>3
    <3>4. token'["api"] = token["api"]
      BY <2>3 DEF ApiSame
    <3>5. /\ \A q \in Procs : R2(q) => OfAccount(proc[q].tok)'
          /\ OfAccount(token["api"]) => OfAccount(token["api"])'
      BY <3>1, <3>2, <3>4, <1>8 DEF OfAccount
    <3>6. Right2
      BY <1>5, <3>1, <3>3, <3>4, <3>5
    <3> QED
      BY <1>7, <3>6
  <2>4. CASE /\ ~W(p) /\ W2(p) /\ NewToken(p) /\ token'["api"] = Torn
             /\ proc'[p].tok = proc[p].tok
    <3>1. \A q \in Procs : ~W(q)
      BY <1>3, <2>1, <2>4
    <3>2. hist'.account = hist.account
      BY <1>6, <3>1
    <3>3. ASSUME NEW q \in Procs, R2(q)
          PROVE  OfAccount(proc'[q].tok)
      <4>1. q = p
        BY <1>3, <2>4, <3>3
      <4>2. R(p)
        <5>1. proc[p].pc = "newToken" /\ Refreshes(plan[p])
          BY <2>4, <3>3, <4>1 DEF NewToken, At, Refreshing
        <5> QED
          BY <5>1 DEF Refreshing
      <4> QED
        BY <1>5, <2>4, <4>1, <4>2
    <3>4. \A q \in Procs : R2(q) => OfAccount(proc[q].tok)'
      BY <3>2, <3>3 DEF OfAccount
    <3>5. Right2
      BY <1>5, <2>4, <3>2, <3>4
    <3> QED
      BY <1>7, <3>5
  <2>5. CASE W(p) /\ ~W2(p) /\ SaveToken(p)
    <3>1. \A q \in Procs : q # p => ~W(q) /\ ~R(q) /\ ~W2(q) /\ ~R2(q)
      BY <1>4, <2>1, <2>5
    <3>2. proc[p].tok \in Token /\ plan[p].cmd \in ApiCmds
      BY <1>0, <1>1, <2>5, KeyInHand
    <3>3. token'["api"] = proc[p].tok /\ ~ApiSame
      <4>1. token["api"] = Torn
        BY <1>5, <2>5
      <4>2. token' = [token EXCEPT !["api"] = proc[p].tok]
        BY <2>5, <3>2, <4>1 DEF SaveToken, TokenFile
      <4>3. token'["api"] = proc[p].tok
        BY <1>0, <4>2 DEF TypeOK, TokenFiles
      <4> QED
        BY <3>2, <4>1, <4>3, HomeAssumption DEF ApiSame
    <3>4. ~R2(p)
      <4>1. Shape(p) /\ proc[p].pc = "fillToken"
        BY <1>0, <1>1, <1>9, <2>5, StepsKeep DEF Kept
      <4> QED
        BY <4>1 DEF Shape, Ended, Walks, Opens, OpensAt, Interrupted, Late, Refreshing
    <3>5. \A q \in Procs : ~R2(q) /\ ~W2(q)
      BY <2>5, <3>1, <3>4
    <3>6. IF Refreshes(plan[p]) THEN hist'.account = hist.account /\ OfAccount(proc[p].tok)
          ELSE hist'.account = proc[p].tok
      <4>1. CASE Refreshes(plan[p])
        <5>1. R(p)
          BY <1>2, <2>5, <4>1
        <5>2. hist'.account = hist.account
          BY <1>6, <3>1, <4>1
        <5> QED
          BY <1>5, <4>1, <5>1, <5>2
      <4>2. CASE ~Refreshes(plan[p])
        BY <1>6, <2>5, <3>2, <3>3, <4>2
      <4> QED
        BY <4>1, <4>2
    <3>7. /\ hist'.account \in Token
          /\ hist'.account # None /\ token'["api"] \in Token /\ token'["api"].of = hist'.account.of
      BY <1>5, <3>2, <3>3, <3>6, HomeAssumption DEF OfAccount
    <3>8. Right2
      BY <3>5, <3>7 DEF OfAccount
    <3> QED
      BY <1>7, <3>8
  <2> QED
    BY <1>0, <1>9, <2>2, <2>3, <2>4, <2>5, ApiFileStep
<1>10. ASSUME LongPause \/ Expire
       PROVE  ApiRightly'
  <2>1. proc' = proc
    BY <1>10 DEF LongPause, Expire
  <2>2. /\ "api" \in TokenFiles /\ token \in [TokenFiles -> Token \cup {None, Torn}]
    BY <1>0 DEF TypeOK, TokenFiles
  <2>3. ApiSame \/ (token["api"] \in Token /\ token'["api"] = Expired(token["api"]))
    BY <1>10, <2>2 DEF LongPause, Expire, Valid, ApiSame
  <2>4. \A q \in Procs : (W2(q) <=> W(q)) /\ (R2(q) <=> R(q))
    BY <1>0, <2>1 DEF Writing
  <2>5. CASE ApiSame
    <3>1. hist'.account = hist.account /\ token'["api"] = token["api"]
      BY <1>6, <2>5 DEF ApiSame
    <3>2. /\ \A q \in Procs : R2(q) => OfAccount(proc[q].tok)'
          /\ OfAccount(token["api"]) => OfAccount(token["api"])'
      BY <1>5, <2>1, <2>4, <3>1 DEF OfAccount
    <3>3. Right2
      BY <1>5, <2>4, <3>1, <3>2
    <3> QED
      BY <1>7, <3>3
  <2>6. CASE token["api"] \in Token /\ token'["api"] = Expired(token["api"])
    <3>1. \A q \in Procs : ~W(q)
      BY <1>5, <2>6, HomeAssumption
    <3>2. hist'.account = hist.account
      BY <1>6, <3>1
    <3>3. OfAccount(token["api"])
      BY <1>5, <2>6, <3>1, HomeAssumption
    <3>4. token'["api"] \in Token /\ token'["api"].of = token["api"].of
      BY <2>6, ExpiredToken
    <3>5. /\ \A q \in Procs : R2(q) => OfAccount(proc[q].tok)'
          /\ OfAccount(token["api"])'
          /\ hist'.account # None
      BY <1>5, <2>1, <2>4, <3>2, <3>3, <3>4 DEF OfAccount
    <3>6. Right2
      BY <1>5, <2>4, <3>1, <3>2, <3>5
    <3> QED
      BY <1>7, <3>6
  <2> QED
    BY <2>3, <2>5, <2>6
<1> QED
  BY <1>9, <1>10 DEF Action

-----------------------------------------------------------------------------
RightInv == /\ FilesInv /\ AloneInv
            /\ PairsRight /\ PrefsRight /\ HandedRight /\ ApiRight

LEMMA RightInvInit ==
    ASSUME Init
    PROVE  RightInv
<1>1. FilesInv
  BY FilesInvInit
<1>2. \A p \in Procs :
         /\ proc[p].pc = "idle" /\ proc[p].irq = "off" /\ proc[p].pref = {}
         /\ Writing(p) = {}
  BY DEF Init, AtRest, Writing, WritingOf
<1>3. AloneInv
  BY <1>2 DEF AloneInv, Alone
<1>4. PairsRight
  BY <1>2 DEF Init, PairsRight, PairRight
<1>5. PrefsRight
  <2>1. \A p \in Procs : ~WritesPref(proc[p]) /\ ~HoldsPref(proc[p])
    BY <1>2 DEF WritesPref, HoldsPref
  <2>2. prefs # Torn /\ hist.saved = {}
    BY HomeAssumption DEF Init
  <2> QED
    BY <2>1, <2>2 DEF PrefsRight, PrefsRightly
<1>6. HandedRight
  BY HomeAssumption DEF Init, HandedRight
<1>7. ApiRight
  <2>1. hist.account = token["api"] /\ token["api"] \in Token \cup {None}
    BY HomeAssumption DEF Init, TokenFiles
  <2> QED
    BY <1>2, <2>1 DEF ApiRight, ApiRightly, OfAccount
<1> QED
  BY <1>1, <1>3, <1>4, <1>5, <1>6, <1>7 DEF RightInv

LEMMA RightInvNext ==
    ASSUME RightInv, [Next]_vars
    PROVE  RightInv'
<1>1. FilesInv'
  BY FilesInvNext DEF RightInv
<1>2. CASE UNCHANGED vars
  BY <1>1, <1>2
     DEF RightInv, vars, files, AloneInv, Alone, Undisturbed, Writing, Holding, PairsRight,
         PairRight, PrefsRight, PrefsRightly, HandedRight, ApiRight, ApiRightly, OfAccount
<1>3. CASE Action /\ History
  BY <1>1, <1>3, AloneNext, PairsNext, PrefsNext, HandedNext, ApiNext DEF RightInv
<1> QED
  BY <1>2, <1>3 DEF Next

LEMMA RightOfInv ==
    ASSUME RightInv
    PROVE  UndisturbedFilesRight
<1> SUFFICES ASSUME NEW f \in Shared, f \notin hist.dirty, \A p \in Procs : f \notin Writing(p)
             PROVE  \/ f \in Slots /\ (Match(keyFile[f], crtFile[f]) \/ keyFile[f] = None)
                    \/ f = <<"prefs">> /\ prefs # Torn /\ hist.saved \subseteq prefs
                    \/ f[1] \in Handed /\ handed[f[1]] # Torn
                    \/ /\ f = <<"api">>
                       /\ IF hist.account = None THEN token["api"] = None
                          ELSE token["api"] \in Token /\ token["api"].of = hist.account.of
  BY DEF UndisturbedFilesRight
<1>1. TypeOK
  BY DEF RightInv, FilesInv
<1>2. CASE f \in Slots
  BY <1>2 DEF RightInv, PairsRight, PairRight, Undisturbed
<1>3. CASE f = <<"prefs">>
  <2>1. \A p \in Procs : ~WritesPref(proc[p])
    BY <1>1, <1>3, PlanOf, WritingIs DEF Writing
  <2> QED
    BY <1>3, <2>1 DEF RightInv, PrefsRight, PrefsRightly, Undisturbed
<1>4. CASE f = <<"api">>
  BY <1>4 DEF RightInv, ApiRight, ApiRightly, OfAccount, Undisturbed
<1>5. ASSUME NEW h \in Handed, f = <<h>>
      PROVE  f[1] \in Handed /\ handed[f[1]] # Torn
  <2>1. f[1] = h
    BY <1>5
  <2> QED
    BY <1>5, <2>1 DEF RightInv, HandedRight, Undisturbed
<1> QED
  BY <1>2, <1>3, <1>4, <1>5 DEF Shared

\* A file on which no two commands overlapped, and that none left half-way, is
\* right: the key and the certificate of an organization are a pair; every
\* preference that was saved is there; what a database client is started with
\* is whole; the API token is the one of the last sign-in or switch, or a
\* refreshed one of the same organization (client.go:226-231,
\* preference.go:73-91, handler.go:155-191).
THEOREM FilesRight == Spec => []UndisturbedFilesRight
<1>1. Spec => []RightInv
  BY RightInvInit, RightInvNext, PTL DEF Spec
<1> QED
  BY <1>1, RightOfInv, PTL
=============================================================================
