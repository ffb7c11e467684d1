---------------------------- MODULE PartsProofs ----------------------------
(***************************************************************************)
(* What ApplyPolicies and the policy commands never do, for any number of  *)
(* policies, users and faults.  FindProofs has the finds of the plugins,   *)
(* which share no variable with them but the count of faults.              *)
(***************************************************************************)
EXTENDS Parts, TLAPS

Policy == [id : Ids, text : Document]

\* The types of the variables of Policies.
PoliciesOK ==
    /\ policy \in [Names -> Policy \cup {None}]
    /\ attached \subseteq {i \in Ids : Live(i)}
    /\ wish \in Seq(Names)
    /\ manager \in Manager
    /\ file \in [Names -> Seq(Document) \cup {None}]
    /\ cmd \in [Users -> Command]

Running == CmdPC \ {"idle", "ok", "failed"}

WithDocument == {"create", "fill", "open", "save", "read", "send"}

\* Documents of one name.
Holds(text, n) == text \in Seq(Document) /\ \A k \in DOMAIN text : text[k].of = n

\* What a command has found and read is of the name it was given, and is there
\* when it is needed.
CmdNamed(c) ==
    /\ c.pc \in Running => c.name \in Names
    /\ c.got # None => c.got[1] = c.name
    /\ c.seen # None => c.seen.of = c.name
    /\ Holds(c.text, c.name)
    /\ c.pc \in WithDocument => c.seen # None
    /\ c.pc = "request" \/ (c.pc \in WithDocument /\ c.op = "edit") => c.got # None

\* Every document is where its policy's name says: the policies, the temporary
\* files, and what the commands have read.
OfItsName ==
    /\ \A n \in Names : Named(n) => policy[n].id[1] = n /\ policy[n].text.of = n
    /\ \A n \in Names : file[n] # None => Holds(file[n], n)
    /\ \A u \in Users : CmdNamed(cmd[u])

-----------------------------------------------------------------------------
(* The temporary file *)

Editing == {"fill", "open", "save", "read"}

UsesFile(c) ==
    /\ c.pc \in Editing => c.temp
    /\ c.temp => c.pc \in Editing \cup {"send"}

\* What `u` may make of the document of a command `c`.
Edits(u, c) == {<<c.seen>>, <<[by |-> u, of |-> c.name]>>}

\* What a file with contents `f` holds, step by step, of a command that has it
\* to itself.
FileIsMine(u, c, f) ==
    c.temp /\ c.mine =>
        /\ c.pc = "fill" => f = <<>>
        /\ c.pc \in {"open", "save"} => f = <<c.seen>>
        /\ c.pc = "save" => c.text = <<c.seen>>
        /\ c.pc = "read" => f \in Edits(u, c)
        /\ c.pc = "send" => c.text \in Edits(u, c)

\* A command that has the file to itself is not joined by another one.
AloneWith(c, d) == c.temp /\ d.temp /\ c.name = d.name => ~c.mine

FilesInv ==
    /\ \A u \in Users : /\ UsesFile(cmd[u])
                        /\ FileIsMine(u, cmd[u], file[cmd[u].name])
    /\ \A u, v \in Users : u # v => AloneWith(cmd[u], cmd[v])

-----------------------------------------------------------------------------
(* A call of ApplyPolicies *)

Wished == ToSet(wish)

\* Whoever else is at work: what it listed, looked up and has still to look up.
CallInv ==
    /\ manager.held = NamesOf(manager.listed)
    /\ NamesOf(manager.take) \subseteq Wished
    /\ ToSet(manager.todo) \subseteq Wished
    /\ manager.alone \/ manager.pc # "rest" => wish # <<>>
    /\ manager.pc \in {"attach", "detach"} => manager.todo = <<>>
    /\ manager.pc # "rest" /\ ~manager.missed =>
          Wished = NamesOf(manager.take) \cup ToSet(manager.todo)

\* With the socket to itself: what it read still is, and what it did shows.
AloneInv ==
    manager.alone =>
        /\ \A i \in manager.listed \cup manager.take : Live(i)
        /\ manager.pc \in {"lookup", "attach"} => attached = manager.listed
        /\ manager.pc = "detach" => attached = manager.listed \cup manager.take
        /\ manager.pc = "rest" =>
              attached \in {manager.listed, manager.listed \cup manager.take,
                            (manager.listed \cup manager.take) \ Stale}

PoliciesInv == PoliciesOK /\ OfItsName /\ FilesInv /\ CallInv /\ AloneInv

-----------------------------------------------------------------------------
(* Sequences *)

LEMMA SetOfTail ==
    ASSUME NEW S, NEW s \in Seq(S), s # <<>>
    PROVE  /\ Head(s) \in S /\ Tail(s) \in Seq(S)
           /\ ToSet(s) = {Head(s)} \cup ToSet(Tail(s))
<1>1. /\ Head(s) = s[1] /\ 1 \in DOMAIN s /\ Head(s) \in S
      /\ Tail(s) \in Seq(S) /\ Len(Tail(s)) = Len(s) - 1
      /\ DOMAIN Tail(s) = 1..Len(Tail(s))
      /\ \A k \in 1..Len(Tail(s)) : Tail(s)[k] = s[k + 1]
    OBVIOUS
<1>2. ASSUME NEW e \in ToSet(s) PROVE e = Head(s) \/ e \in ToSet(Tail(s))
    <2>1. PICK k \in 1..Len(s) : e = s[k]
        BY <1>2 DEF ToSet
    <2>2. CASE k = 1
        <3>1. e = Head(s)
            BY <2>1, <2>2, <1>1
        <3>2. QED
            BY <3>1
    <2>3. CASE k # 1
        <3>1. k - 1 \in DOMAIN Tail(s) /\ e = Tail(s)[k - 1]
            BY <2>1, <2>3, <1>1
        <3>2. QED
            BY <3>1 DEF ToSet
    <2>4. QED
        BY <2>2, <2>3
<1>3. ASSUME NEW e \in ToSet(Tail(s)) PROVE e \in ToSet(s)
    <2>1. PICK k \in 1..Len(Tail(s)) : e = Tail(s)[k]
        BY <1>3, <1>1 DEF ToSet
    <2>2. k + 1 \in 1..Len(s) /\ s[k + 1] = e
        BY <2>1, <1>1
    <2>3. QED
        BY <2>2 DEF ToSet
<1>4. Head(s) \in ToSet(s)
    BY <1>1 DEF ToSet
<1>5. QED
    BY <1>1, <1>2, <1>3, <1>4

LEMMA SetOfEmpty == ToSet(<<>>) = {}
BY DEF ToSet

LEMMA SetOfSome ==
    ASSUME NEW S, NEW s \in Seq(S), s # <<>>
    PROVE  ToSet(s) # {}
<1>1. ToSet(s) = {Head(s)} \cup ToSet(Tail(s))
    BY SetOfTail
<1>2. QED
    BY <1>1

LEMMA NoneIsNone ==
    None \notin Names \cup Ids \cup Document \cup Policy \cup Seq(Document)
BY PartsAssumption DEF Policy

-----------------------------------------------------------------------------
(* What a step of one leaves of the other *)

\* No step changes what is configured; of the manager a command changes no more
\* than that it has company.
LEMMA CommandOnManager ==
    ASSUME PoliciesOK, OfItsName, NEW u \in Users, CmdStep(u)
    PROVE  /\ wish' = wish
           /\ \/ manager' = manager /\ attached' = attached
                 /\ \A i \in Ids : Live(i)' = Live(i)
              \/ manager' = [manager EXCEPT !.alone = FALSE]
<1>1. CASE RunCommand(u)
    BY <1>1 DEF RunCommand, OnlyCmd, Live
<1>2. CASE FindPolicyByName(u)
    BY <1>2 DEF FindPolicyByName, OnlyCmd, Live
<1>3. CASE SetSocket(u)
    BY <1>3 DEF SetSocket, Refused, OnlyCmd, Disturb, Live
<1>4. CASE DeletePolicy(u)
    BY <1>4 DEF DeletePolicy, Refused, OnlyCmd, Disturb, Live
<1>5. CASE ReadPolicyFile(u)
    BY <1>5 DEF ReadPolicyFile, OnlyCmd, Live
<1>6. CASE CreateFile(u)
    BY <1>6 DEF CreateFile, Live
<1>7. CASE FillFile(u)
    BY <1>7 DEF FillFile, Live
<1>8. CASE EditorOpens(u)
    BY <1>8 DEF EditorOpens, Live
<1>9. CASE EditorSaves(u)
    BY <1>9 DEF EditorSaves, Live
<1>10. CASE ReadFile(u)
    BY <1>10 DEF ReadFile, OnlyCmd, Live
<1>11. CASE BadJson(u)
    BY <1>11 DEF BadJson, OnlyCmd, Live
<1>12. CASE UpdatePolicy(u)
    <2>1. CASE Refused(u, Live(cmd[u].got))
        BY <2>1 DEF Refused, OnlyCmd, Live
    <2>2. CASE ~Refused(u, Live(cmd[u].got))
        <3>1. /\ policy' = [policy EXCEPT ![cmd[u].name].text = Head(cmd[u].text)]
              /\ Live(cmd[u].got)
              /\ UNCHANGED <<attached, wish, manager>>
            BY <1>12, <2>2 DEF UpdatePolicy
        <3>2. cmd[u].got[1] = cmd[u].name /\ cmd[u].name \in Names
            <4>1. cmd[u].pc = "send" /\ cmd[u].op = "edit"
                BY <1>12 DEF UpdatePolicy, CmdAt
            <4>2. QED
                BY <4>1 DEF OfItsName, CmdNamed, WithDocument, Running, CmdPC
        <3>3. policy[cmd[u].name] \in Policy
            BY <3>1, <3>2 DEF PoliciesOK, Live
        <3>4. policy'[cmd[u].name] =
                 [id |-> policy[cmd[u].name].id, text |-> Head(cmd[u].text)]
            BY <3>1, <3>2, <3>3 DEF PoliciesOK, Policy
        <3>5. policy'[cmd[u].name] \in Policy
            <4>1. cmd[u].text \in Seq(Document) /\ Len(cmd[u].text) = 1
                BY <1>12 DEF UpdatePolicy, PoliciesOK, Command
            <4>2. Head(cmd[u].text) \in Document
                BY <4>1
            <4>3. QED
                BY <4>2, <3>3, <3>4 DEF Policy
        <3>6. \A i \in Ids : Live(i)' = Live(i)
            <4> SUFFICES ASSUME NEW i \in Ids PROVE Live(i)' = Live(i)
                OBVIOUS
            <4>1. CASE i[1] = cmd[u].name
                BY <4>1, <3>3, <3>4, <3>5, NoneIsNone DEF Live, Policy
            <4>2. CASE i[1] # cmd[u].name
                BY <4>2, <3>1 DEF Live, PoliciesOK, Ids
            <4>3. QED
                BY <4>1, <4>2
        <3>7. QED
            BY <3>1, <3>6, <1>12 DEF UpdatePolicy
    <2>3. QED
        BY <2>1, <2>2
<1>13. CASE AddPolicy(u)
    BY <1>13 DEF AddPolicy, Refused, OnlyCmd, Disturb, Live
<1>14. CASE Kill(u)
    BY <1>14 DEF Kill, OnlyCmd, Live
<1>15. QED
    BY <1>1, <1>2, <1>3, <1>4, <1>5, <1>6, <1>7, <1>8, <1>9, <1>10, <1>11,
       <1>12, <1>13, <1>14 DEF CmdStep

LEMMA ManagerOnCommands ==
    ASSUME ManagerStep
    PROVE  UNCHANGED <<policy, wish, file, cmd>>
BY DEF ManagerStep, List, LookUp, LookedUp, AttachPolicies, DetachPolicies, OnlyManager

-----------------------------------------------------------------------------
(* The manager, step by step *)

\* An answered PUT, or one whose answer was lost, leaves what is alive; one that
\* failed nothing.
LEMMA Puts ==
    ASSUME NEW S, NEW after, NEW next, Put(S, after, next)
    PROVE  \/ attached' = {i \in after : Live(i)} /\ manager' \in {next, ManagerDone}
           \/ attached' = attached /\ manager' = ManagerDone
BY DEF Put

\* One name is looked up, and taken if it is there and the request succeeds.
LEMMA LooksUp ==
    ASSUME PoliciesOK, OfItsName, LookUp,
           NEW n, n = Head(manager.todo)
    PROVE  /\ manager.pc = "lookup" /\ manager.todo # <<>> /\ attached' = attached
           /\ n \in Names /\ ToSet(manager.todo) = {n} \cup ToSet(Tail(manager.todo))
           /\ manager'.pc = "lookup" /\ manager'.todo = Tail(manager.todo)
           /\ manager'.listed = manager.listed /\ manager'.held = manager.held
           /\ manager'.alone = manager.alone /\ manager' \in Manager
           /\ \/ /\ Named(n) /\ IdOf(n) \in Ids /\ Live(IdOf(n)) /\ IdOf(n)[1] = n
                 /\ manager'.take = manager.take \cup {IdOf(n)}
                 /\ manager'.missed = manager.missed
              \/ manager'.take = manager.take /\ manager'.missed
<1>1. /\ manager \in Manager /\ manager.todo \in Seq(Names)
      /\ manager.pc = "lookup" /\ manager.todo # <<>> /\ attached' = attached
    BY DEF PoliciesOK, Manager, LookUp
<1>2. /\ n \in Names /\ Tail(manager.todo) \in Seq(Names)
      /\ ToSet(manager.todo) = {n} \cup ToSet(Tail(manager.todo))
    BY <1>1, SetOfTail
<1>3. CASE Named(n) /\ manager' = [manager EXCEPT !.todo = Tail(manager.todo),
                                      !.take = manager.take \cup {IdOf(n)}]
    <2>1. IdOf(n) \in Ids /\ Live(IdOf(n)) /\ IdOf(n)[1] = n
        BY <1>2, <1>3 DEF PoliciesOK, OfItsName, Named, IdOf, Live, Policy
    <2>2. /\ manager'.pc = "lookup" /\ manager'.todo = Tail(manager.todo)
          /\ manager'.listed = manager.listed /\ manager'.held = manager.held
          /\ manager'.alone = manager.alone /\ manager' \in Manager
          /\ manager'.take = manager.take \cup {IdOf(n)}
          /\ manager'.missed = manager.missed
        BY <1>1, <1>2, <1>3, <2>1 DEF Manager
    <2>3. QED
        BY <1>1, <1>2, <1>3, <2>1, <2>2
<1>4. CASE manager' = [manager EXCEPT !.todo = Tail(manager.todo), !.missed = TRUE]
    <2>1. /\ manager'.pc = "lookup" /\ manager'.todo = Tail(manager.todo)
          /\ manager'.listed = manager.listed /\ manager'.held = manager.held
          /\ manager'.alone = manager.alone /\ manager' \in Manager
          /\ manager'.take = manager.take /\ manager'.missed
        BY <1>1, <1>2, <1>4 DEF Manager
    <2>2. QED
        BY <1>1, <1>2, <2>1
<1>5. QED
    BY <1>1, <1>3, <1>4 DEF LookUp, Manager

LEMMA ManagerOK ==
    ASSUME PoliciesOK, OfItsName, CallInv, ManagerStep
    PROVE  PoliciesOK'
<1>1. UNCHANGED <<policy, wish, file, cmd>>
    BY ManagerOnCommands
<1>2. /\ policy \in [Names -> Policy \cup {None}]
      /\ attached \subseteq {i \in Ids : Live(i)}
      /\ wish \in Seq(Names) /\ manager \in Manager
    BY DEF PoliciesOK
<1>3. /\ manager.todo \in Seq(Names) /\ manager.listed \subseteq Ids
      /\ manager.take \subseteq Ids /\ manager.held \subseteq Names
      /\ manager.missed \in BOOLEAN /\ manager.alone \in BOOLEAN
    BY <1>2 DEF Manager
<1>4. ManagerDone \in Manager
    <2>1. <<>> \in Seq(Names)
        OBVIOUS
    <2>2. QED
        BY <1>2, <1>3, <2>1 DEF ManagerDone, Manager
<1>5. Stale \subseteq Ids
    BY <1>3 DEF Stale
<1>6. manager' \in Manager /\ attached' \subseteq {i \in Ids : Live(i)}
    <2>1. CASE List
        <3>1. NamesOf(attached) \subseteq Names
            BY <1>2 DEF NamesOf, Ids
        <3>2. QED
            BY <2>1, <1>2, <3>1 DEF List, Manager
    <2>2. CASE LookUp
        BY <2>2, <1>2, LooksUp
    <2>3. CASE LookedUp
        BY <2>3, <1>2 DEF LookedUp, Manager
    <2>4. CASE AttachPolicies
        <3>1. [manager EXCEPT !.pc = "detach"] \in Manager
            BY <1>2 DEF Manager
        <3>2. QED
            BY <2>4, <1>2, <1>3, <1>4, <3>1, Puts DEF AttachPolicies
    <2>5. CASE DetachPolicies
        BY <2>5, <1>2, <1>4, <1>5, Puts DEF DetachPolicies
    <2>6. QED
        BY <2>1, <2>2, <2>3, <2>4, <2>5 DEF ManagerStep
<1>7. QED
    BY <1>1, <1>2, <1>6 DEF PoliciesOK, Live

LEMMA ManagerCall ==
    ASSUME PoliciesOK, OfItsName, CallInv, ManagerStep
    PROVE  CallInv'
<1>1. wish' = wish /\ wish \in Seq(Names) /\ manager \in Manager
    BY ManagerOnCommands DEF PoliciesOK
<1>2. manager.todo \in Seq(Names)
    BY <1>1 DEF Manager
<1>3. CASE List
    <2>1. /\ manager' = [pc |-> "lookup", todo |-> wish, listed |-> attached, take |-> {},
                         held |-> NamesOf(attached), missed |-> FALSE, alone |-> TRUE]
          /\ wish # <<>>
        BY <1>3 DEF List
    <2>2. NamesOf({}) = {}
        BY DEF NamesOf
    <2>3. QED
        BY <2>1, <2>2, <1>1 DEF CallInv, Wished, NamesOf
<1>4. CASE LookUp
    <2>1. PICK n : n = Head(manager.todo)
        OBVIOUS
    <2>2. /\ manager.pc = "lookup" /\ manager'.pc = "lookup"
          /\ ToSet(manager.todo) = {n} \cup ToSet(manager'.todo)
          /\ manager'.listed = manager.listed /\ manager'.held = manager.held
          /\ manager'.alone = manager.alone
        BY <1>4, <2>1, LooksUp
    <2>3. CASE /\ IdOf(n)[1] = n /\ manager'.take = manager.take \cup {IdOf(n)}
               /\ manager'.missed = manager.missed
        <3>1. NamesOf(manager'.take) = NamesOf(manager.take) \cup {n}
            BY <2>3 DEF NamesOf
        <3>2. QED
            BY <2>2, <2>3, <3>1, <1>1 DEF CallInv, Wished
    <2>4. CASE manager'.take = manager.take /\ manager'.missed
        BY <2>2, <2>4, <1>1 DEF CallInv, Wished
    <2>5. QED
        BY <1>4, <2>1, <2>3, <2>4, LooksUp
<1>5. ASSUME NEW pc \in {"attach", "detach"}, manager.pc # "rest", manager.todo = <<>>,
             manager' = [manager EXCEPT !.pc = pc]
      PROVE  CallInv'
    <2>1. /\ manager'.pc = pc /\ manager'.held = manager.held
          /\ manager'.listed = manager.listed /\ manager'.missed = manager.missed
          /\ manager'.take = manager.take /\ manager'.todo = manager.todo
          /\ manager'.alone = manager.alone
        BY <1>5, <1>1 DEF Manager
    <2>2. QED
        BY <2>1, <1>5, <1>1 DEF CallInv, Wished
<1>6. ASSUME manager.pc # "rest", manager' = ManagerDone
      PROVE  CallInv'
    <2>1. /\ manager'.pc = "rest" /\ manager'.held = manager.held
          /\ manager'.listed = manager.listed /\ manager'.take = manager.take
          /\ manager'.todo = <<>>
        BY <1>6, <1>1 DEF Manager, ManagerDone
    <2>2. QED
        BY <2>1, <1>6, <1>1, SetOfEmpty DEF CallInv, Wished
<1>7. CASE LookedUp
    BY <1>7, <1>5 DEF LookedUp
<1>8. CASE AttachPolicies
    <2>1. manager.pc = "attach" /\ manager.todo = <<>>
        BY <1>8 DEF AttachPolicies, CallInv
    <2>2. manager' \in {[manager EXCEPT !.pc = "detach"], ManagerDone}
        BY <1>8, Puts DEF AttachPolicies
    <2>3. QED
        BY <2>1, <2>2, <1>5, <1>6
<1>9. CASE DetachPolicies
    <2>1. manager.pc = "detach" /\ manager' = ManagerDone
        BY <1>9, Puts DEF DetachPolicies
    <2>2. QED
        BY <2>1, <1>6
<1>10. QED
    BY <1>3, <1>4, <1>7, <1>8, <1>9 DEF ManagerStep

LEMMA ManagerAlone ==
    ASSUME PoliciesOK, OfItsName, CallInv, AloneInv, ManagerStep
    PROVE  AloneInv'
<1>1. /\ policy' = policy /\ wish' = wish /\ manager \in Manager
      /\ attached \subseteq {i \in Ids : Live(i)}
    BY ManagerOnCommands DEF PoliciesOK
<1>2. /\ manager.todo \in Seq(Names) /\ manager.alone \in BOOLEAN
      /\ manager.listed \subseteq Ids /\ manager.take \subseteq Ids
    BY <1>1 DEF Manager
<1>3. CASE List
    <2>1. /\ manager' = [pc |-> "lookup", todo |-> wish, listed |-> attached, take |-> {},
                         held |-> NamesOf(attached), missed |-> FALSE, alone |-> TRUE]
          /\ attached' = attached
        BY <1>3 DEF List
    <2>2. QED
        BY <2>1, <1>1 DEF AloneInv, Live
<1>4. CASE LookUp
    <2>1. PICK n : n = Head(manager.todo)
        OBVIOUS
    <2>2. /\ manager.pc = "lookup" /\ manager'.pc = "lookup" /\ attached' = attached
          /\ manager'.listed = manager.listed /\ manager'.alone = manager.alone
          /\ \A i \in manager'.take \ manager.take : Live(i)
        BY <1>4, <2>1, LooksUp
    <2>3. QED
        BY <2>2, <1>1 DEF AloneInv, Live
<1>5. CASE LookedUp
    <2>1. PICK pc \in {"attach", "detach"} :
             /\ manager.pc = "lookup" /\ attached' = attached
             /\ manager' = [manager EXCEPT !.pc = pc]
             /\ pc = "detach" => manager.take = {}
        <3>1. CASE manager.take = {}
            BY <1>5, <3>1 DEF LookedUp
        <3>2. CASE manager.take # {}
            BY <1>5, <3>2 DEF LookedUp
        <3>3. QED
            BY <3>1, <3>2
    <2>2. /\ manager'.pc = pc /\ manager'.listed = manager.listed
          /\ manager'.alone = manager.alone /\ manager'.take = manager.take
        BY <2>1, <1>1 DEF Manager
    <2>3. QED
        BY <2>1, <2>2, <1>1 DEF AloneInv, Live
<1>6. ASSUME manager' = ManagerDone, Stale' = Stale,
             manager.alone =>
                attached' \in {manager.listed, manager.listed \cup manager.take,
                               (manager.listed \cup manager.take) \ Stale}
      PROVE  AloneInv'
    <2>1. /\ manager'.pc = "rest" /\ manager'.listed = manager.listed
          /\ manager'.alone = manager.alone /\ manager'.take = manager.take
        BY <1>6, <1>1 DEF ManagerDone, Manager
    <2>2. QED
        BY <2>1, <1>6, <1>1 DEF AloneInv, Live
<1>7. manager'.listed = manager.listed => Stale' = Stale
    BY <1>1 DEF Stale
<1>8. ManagerDone.listed = manager.listed
    BY <1>1 DEF ManagerDone, Manager
<1>9. CASE AttachPolicies
    <2> DEFINE both == attached \cup manager.take
    <2>1. /\ manager.pc = "attach"
          /\ \/ /\ attached' = {i \in both : Live(i)}
                /\ manager' \in {[manager EXCEPT !.pc = "detach"], ManagerDone}
             \/ attached' = attached /\ manager' = ManagerDone
        BY <1>9, Puts DEF AttachPolicies
    <2>2. manager.alone => attached = manager.listed /\ both = {i \in both : Live(i)}
        BY <2>1, <1>1 DEF AloneInv
    <2>3. CASE manager' = ManagerDone
        BY <2>1, <2>2, <2>3, <1>6, <1>7, <1>8
    <2>4. CASE attached' = {i \in both : Live(i)} /\ manager' = [manager EXCEPT !.pc = "detach"]
        <3>1. /\ manager'.pc = "detach" /\ manager'.listed = manager.listed
              /\ manager'.alone = manager.alone /\ manager'.take = manager.take
            BY <2>4, <1>1 DEF Manager
        <3>2. QED
            BY <2>2, <2>4, <3>1, <1>1 DEF AloneInv, Live
    <2>5. QED
        BY <2>1, <2>3, <2>4
<1>10. CASE DetachPolicies
    <2>1. /\ manager.pc = "detach" /\ manager' = ManagerDone
          /\ attached' \in {attached, {i \in attached \ Stale : Live(i)}}
        BY <1>10, Puts DEF DetachPolicies
    <2>2. manager.alone => /\ attached = manager.listed \cup manager.take
                           /\ {i \in attached \ Stale : Live(i)} = attached \ Stale
        BY <2>1, <1>1 DEF AloneInv
    <2>3. QED
        BY <2>1, <2>2, <1>6, <1>7, <1>8
<1>11. QED
    BY <1>3, <1>4, <1>5, <1>9, <1>10 DEF ManagerStep

-----------------------------------------------------------------------------
(* What a call leaves *)

LEMMA OutcomesOfCall ==
    ASSUME PoliciesOK, CallInv, AloneInv
    PROVE  OutcomesHold
<1> SUFFICES ASSUME manager.alone, manager.pc \in {"detach", "rest"}
             PROVE  NamesOf(attached) \in PolicyOutcomes(manager.held,
                                             NamesOf(manager.listed), Wished)
    BY DEF OutcomesHold, Wished
<1> DEFINE held == NamesOf(manager.listed)
           took == NamesOf(manager.take)
<1>1. /\ attached \in {manager.listed, manager.listed \cup manager.take,
                       (manager.listed \cup manager.take) \ Stale}
      /\ manager.held = held /\ took \in SUBSET Wished
      /\ wish # <<>> /\ wish \in Seq(Names)
    BY DEF AloneInv, CallInv, PoliciesOK
<1>2. Wished # {}
    BY <1>1, SetOfSome DEF Wished
<1>3. NamesOf(manager.listed \cup manager.take) = held \cup took
    BY DEF NamesOf
<1>4. NamesOf((manager.listed \cup manager.take) \ Stale)
         = (held \cup took) \ (held \ Wished)
    BY <1>1 DEF NamesOf, Stale, Wished
<1>5. NamesOf(attached) \in {held, (held \cup took) \ {},
                             (held \cup took) \ (held \ Wished)}
    BY <1>1, <1>3, <1>4
<1>6. QED
    BY <1>1, <1>2, <1>5 DEF PolicyOutcomes

\* Only a detach takes policies away, and it leaves what was taken.
LEMMA SocketKeepsSome ==
    ASSUME PoliciesOK, CallInv, AloneInv, ManagerStep,
           attached # {}, attached' = {}, manager.alone, ~manager.missed
    PROVE  FALSE
<1>1. attached \subseteq {i \in Ids : Live(i)} /\ wish \in Seq(Names)
    BY DEF PoliciesOK
<1>2. CASE List \/ LookUp \/ LookedUp
    BY <1>2 DEF List, LookUp, LookedUp
<1>3. CASE AttachPolicies
    <2>1. attached' \in {attached, {i \in attached \cup manager.take : Live(i)}}
        BY <1>3, Puts DEF AttachPolicies
    <2>2. QED
        BY <2>1, <1>1
<1>4. CASE DetachPolicies
    <2>1. /\ manager.pc = "detach"
          /\ attached' \in {attached, {i \in attached \ Stale : Live(i)}}
        BY <1>4, Puts DEF DetachPolicies
    <2>2. NamesOf(manager.take) = Wished /\ wish # <<>>
        BY <2>1, SetOfEmpty DEF CallInv
    <2>3. PICK i \in manager.take : i[1] \in Wished
        BY <2>2, <1>1, SetOfSome DEF Wished, NamesOf
    <2>4. i \in attached \ Stale /\ Live(i)
        BY <2>1, <2>3 DEF AloneInv, Stale, Wished
    <2>5. QED
        BY <2>1, <2>4
<1>5. QED
    BY <1>2, <1>3, <1>4 DEF ManagerStep

-----------------------------------------------------------------------------
(* The commands, and what the manager may rely on *)

LEMMA CommandCall ==
    ASSUME PoliciesOK, OfItsName, CallInv, AloneInv, NEW u \in Users, CmdStep(u)
    PROVE  CallInv' /\ AloneInv'
<1>1. /\ manager \in Manager /\ wish' = wish
      /\ manager.listed \subseteq Ids /\ manager.take \subseteq Ids
      /\ manager.alone \in BOOLEAN
    BY CommandOnManager DEF PoliciesOK, Manager
<1>2. CASE /\ manager' = manager /\ attached' = attached
           /\ \A i \in Ids : Live(i)' = Live(i)
    <2>1. CallInv'
        BY <1>1, <1>2 DEF CallInv, Wished
    <2>2. Stale' = Stale
        BY <1>1, <1>2 DEF Stale
    <2>3. \A i \in manager.listed \cup manager.take : Live(i)' = Live(i)
        BY <1>1, <1>2
    <2>4. AloneInv'
        BY <1>2, <2>2, <2>3 DEF AloneInv
    <2>5. QED
        BY <2>1, <2>4
<1>3. CASE manager' = [manager EXCEPT !.alone = FALSE]
    <2>1. /\ manager'.pc = manager.pc /\ manager'.held = manager.held
          /\ manager'.listed = manager.listed /\ manager'.missed = manager.missed
          /\ manager'.take = manager.take /\ manager'.todo = manager.todo
          /\ manager'.alone = FALSE
        BY <1>3, <1>1 DEF Manager
    <2>2. QED
        BY <2>1, <1>1 DEF CallInv, AloneInv, Wished
<1>4. QED
    BY <1>2, <1>3, CommandOnManager

-----------------------------------------------------------------------------
(* The commands: what they are and what they have read *)

LEMMA EndsOK ==
    ASSUME NEW how \in {"ok", "failed"}
    PROVE  /\ [NoCommand EXCEPT !.pc = how] \in Command
           /\ CmdNamed([NoCommand EXCEPT !.pc = how])
<1>1. <<>> \in Seq(Document) /\ DOMAIN <<>> = {}
    OBVIOUS
<1>2. QED
    BY <1>1 DEF NoCommand, Command, CmdPC, CmdNamed, WithDocument, Running, Holds

LEMMA StartsOK ==
    ASSUME NEW op \in Ops, NEW n \in Names, NEW pc \in {"create", "find"},
           NEW seen \in Document \cup {None}, seen # None => seen.of = n,
           pc = "create" => seen # None /\ op # "edit"
    PROVE  LET next == [NoCommand EXCEPT !.op = op, !.name = n, !.pc = pc, !.seen = seen]
           IN  next \in Command /\ CmdNamed(next)
<1> DEFINE next == [NoCommand EXCEPT !.op = op, !.name = n, !.pc = pc, !.seen = seen]
<1>1. <<>> \in Seq(Document) /\ DOMAIN <<>> = {}
    OBVIOUS
<1>2. NoCommand \in Command
    BY <1>1 DEF NoCommand, Command, CmdPC
<1>3. next \in Command
    BY <1>2 DEF Command, CmdPC
<1>4. /\ next.pc = pc /\ next.op = op /\ next.name = n /\ next.got = None
      /\ next.seen = seen /\ next.text = <<>>
    BY DEF NoCommand
<1> HIDE DEF next
<1>5. CmdNamed(next)
    BY <1>1, <1>4 DEF CmdNamed, WithDocument, Running, Holds
<1>6. QED
    BY <1>3, <1>5 DEF next

LEMMA CommandsOK ==
    ASSUME PoliciesOK, OfItsName, NEW u \in Users, NEW next \in Command,
           CmdNamed(next), Becomes(u, next)
    PROVE  /\ cmd' \in [Users -> Command]
           /\ \A v \in Users : CmdNamed(cmd'[v])
<1>1. \A v \in Users : cmd'[v] = IF v = u THEN next ELSE cmd[v]
    BY DEF Becomes, PoliciesOK
<1>2. cmd' \in [Users -> Command]
    BY DEF Becomes, PoliciesOK
<1>3. QED
    BY <1>1, <1>2 DEF OfItsName

LEMMA OnlyCmdOK ==
    ASSUME PoliciesOK, OfItsName, NEW u \in Users, NEW next \in Command,
           CmdNamed(next), Becomes(u, next), OnlyCmd
    PROVE  PoliciesOK' /\ OfItsName'
<1>1. UNCHANGED <<policy, attached, wish, manager, file>>
    BY DEF OnlyCmd
<1>2. cmd' \in [Users -> Command] /\ \A v \in Users : CmdNamed(cmd'[v])
    BY CommandsOK
<1>3. QED
    BY <1>1, <1>2 DEF PoliciesOK, OfItsName, Live, Named

LEMMA RefusedOK ==
    ASSUME PoliciesOK, OfItsName, NEW u \in Users, NEW possible, Refused(u, possible)
    PROVE  PoliciesOK' /\ OfItsName'
BY EndsOK, OnlyCmdOK DEF Refused, Ends

LEMMA AnsweredOK ==
    ASSUME PoliciesOK, OfItsName, NEW u \in Users, Answered(u)
    PROVE  /\ cmd' \in [Users -> Command]
           /\ \A v \in Users : CmdNamed(cmd'[v])
BY EndsOK, CommandsOK DEF Answered, Ends

\* Fields of a command.
LEMMA Fields ==
    ASSUME NEW c \in Command
    PROVE  /\ c.op \in Ops \cup {None} /\ c.name \in Names \cup {None} /\ c.pc \in CmdPC
           /\ c.got \in Ids \cup {None} /\ c.seen \in Document \cup {None}
           /\ c.text \in Seq(Document) /\ c.temp \in BOOLEAN /\ c.mine \in BOOLEAN
BY DEF Command

LEMMA DisturbOK ==
    ASSUME PoliciesOK, Disturb
    PROVE  manager' \in Manager
BY DEF PoliciesOK, Disturb, Manager

LEMMA FilesOK ==
    ASSUME PoliciesOK, OfItsName, UNCHANGED <<policy, attached, wish, manager>>,
           NEW n \in Names, NEW t, t = None \/ Holds(t, n),
           file' \in {file, [file EXCEPT ![n] = t]},
           cmd' \in [Users -> Command], \A v \in Users : CmdNamed(cmd'[v])
    PROVE  PoliciesOK' /\ OfItsName'
<1>1. /\ file \in [Names -> Seq(Document) \cup {None}]
      /\ \A m \in Names : file[m] # None => Holds(file[m], m)
    BY DEF PoliciesOK, OfItsName
<1>2. t \in Seq(Document) \cup {None}
    BY DEF Holds
<1>3. /\ file' \in [Names -> Seq(Document) \cup {None}]
      /\ \A m \in Names : file'[m] # None => Holds(file'[m], m)
    BY <1>1, <1>2
<1>4. QED
    BY <1>3 DEF PoliciesOK, OfItsName, Live, Named

\* What removing the temporary file leaves.
LEMMA RemovedOK ==
    ASSUME PoliciesOK, OfItsName, UNCHANGED <<policy, attached, wish, manager>>,
           NEW u \in Users, cmd[u].name \in Names, file' = Removed(u),
           cmd' \in [Users -> Command], \A v \in Users : CmdNamed(cmd'[v])
    PROVE  PoliciesOK' /\ OfItsName'
BY FilesOK DEF Removed

LEMMA CommandOK ==
    ASSUME PoliciesOK, OfItsName, NEW u \in Users, CmdStep(u)
    PROVE  PoliciesOK' /\ OfItsName'
<1> DEFINE c == cmd[u]
<1>1. /\ c \in Command /\ CmdNamed(c)
      /\ policy \in [Names -> Policy \cup {None}]
      /\ attached \subseteq {i \in Ids : Live(i)}
      /\ wish \in Seq(Names) /\ manager \in Manager
      /\ file \in [Names -> Seq(Document) \cup {None}]
    BY DEF PoliciesOK, OfItsName
<1>2. /\ c.op \in Ops \cup {None} /\ c.name \in Names \cup {None}
      /\ c.got \in Ids \cup {None} /\ c.seen \in Document \cup {None}
      /\ c.text \in Seq(Document) /\ c.temp \in BOOLEAN /\ c.mine \in BOOLEAN
    BY <1>1, Fields
<1>3. c.pc \in Running => c.name \in Names
    BY <1>1 DEF CmdNamed
<1>4. CASE RunCommand(u)
    <2>1. PICK op \in Ops, n \in Names :
             Becomes(u, [NoCommand EXCEPT !.op = op, !.name = n,
                           !.pc = IF op = "add" THEN "create" ELSE "find",
                           !.seen = IF op = "add" THEN Original(n) ELSE None])
        BY <1>4 DEF RunCommand
    <2>2. Original(n) \in Document /\ Original(n).of = n /\ <<>> \in Seq(Document)
        BY DEF Original, Document
    <2>3. CASE op = "add"
        <3> DEFINE next == [NoCommand EXCEPT !.op = op, !.name = n, !.pc = "create",
                                             !.seen = Original(n)]
        <3>1. next \in Command /\ CmdNamed(next)
            BY <2>2, <2>3, NoneIsNone, StartsOK
        <3>2. QED
            BY <1>4, <2>1, <2>3, <3>1, OnlyCmdOK DEF RunCommand
    <2>4. CASE op # "add"
        <3> DEFINE next == [NoCommand EXCEPT !.op = op, !.name = n, !.pc = "find",
                                             !.seen = None]
        <3>1. next \in Command /\ CmdNamed(next)
            BY StartsOK
        <3>2. QED
            BY <1>4, <2>1, <2>4, <3>1, OnlyCmdOK DEF RunCommand
    <2>5. QED
        BY <2>3, <2>4
<1>5. CASE FindPolicyByName(u)
    <2>1. c.pc = "find" /\ c.name \in Names /\ OnlyCmd
        BY <1>3, <1>5 DEF FindPolicyByName, CmdAt, Running, CmdPC
    <2>2. CASE Ends(u, "failed")
        BY <2>1, <2>2, EndsOK, OnlyCmdOK DEF Ends
    <2>3. CASE ~Ends(u, "failed")
        <3> DEFINE p == policy[c.name]
                   next == [c EXCEPT !.got = p.id, !.seen = p.text,
                              !.pc = IF c.op = "edit" THEN "create" ELSE "request"]
        <3>1. Named(c.name) /\ Becomes(u, next)
            BY <1>5, <2>3 DEF FindPolicyByName, IdOf
        <3>2. /\ p.id \in Ids /\ p.text \in Document /\ p.id[1] = c.name
              /\ p.text.of = c.name /\ p.id # None /\ p.text # None
            BY <1>1, <2>1, <3>1, NoneIsNone DEF Named, Policy, OfItsName
        <3>3. next \in Command /\ CmdNamed(next)
            BY <1>1, <2>1, <3>2 DEF Command, CmdPC, CmdNamed, WithDocument, Running
        <3>4. QED
            BY <2>1, <3>1, <3>3, OnlyCmdOK
    <2>4. QED
        BY <2>2, <2>3
<1>6. CASE SetSocket(u)
    <2>1. CASE Refused(u, Live(c.got))
        BY <2>1, RefusedOK
    <2>2. CASE ~Refused(u, Live(c.got))
        <3>1. /\ Live(c.got) /\ attached' \in {attached \cup {c.got}, attached \ {c.got}}
              /\ Answered(u) /\ Disturb /\ UNCHANGED <<policy, wish, file>>
              /\ c.pc = "request"
            BY <1>6, <2>2 DEF SetSocket, CmdAt
        <3>2. c.got \in Ids
            BY <1>1, <1>2, <3>1 DEF CmdNamed
        <3>3. attached' \subseteq {i \in Ids : Live(i)}
            BY <1>1, <3>1, <3>2
        <3>4. QED
            BY <1>1, <3>1, <3>3, AnsweredOK, DisturbOK DEF PoliciesOK, OfItsName, Live, Named
    <2>3. QED
        BY <2>1, <2>2
<1>7. CASE DeletePolicy(u)
    <2>1. CASE Refused(u, Live(c.got))
        BY <2>1, RefusedOK
    <2>2. CASE ~Refused(u, Live(c.got))
        <3>1. /\ Live(c.got) /\ attached' = attached \ {c.got}
              /\ policy' = [policy EXCEPT ![c.name] = None]
              /\ Answered(u) /\ Disturb /\ UNCHANGED <<wish, file>>
              /\ c.pc = "request"
            BY <1>7, <2>2 DEF DeletePolicy, CmdAt
        <3>2. c.name \in Names /\ c.got[1] = c.name
            BY <1>1, <1>3, <3>1 DEF CmdNamed, WithDocument, Running, CmdPC
        <3>3. policy' \in [Names -> Policy \cup {None}]
            BY <1>1, <3>1
        <3>4. \A n \in Names : policy'[n] = IF n = c.name THEN None ELSE policy[n]
            BY <1>1, <3>1
        <3>5. ASSUME NEW i \in attached' PROVE i \in Ids /\ Live(i)'
            <4>1. i \in Ids /\ Live(i) /\ i # c.got
                BY <1>1, <3>1, <3>5
            <4>2. i[1] # c.name
                BY <3>1, <3>2, <4>1 DEF Live
            <4>3. QED
                BY <3>4, <4>1, <4>2 DEF Live, Ids
        <3>6. QED
            BY <1>1, <3>1, <3>3, <3>4, <3>5, AnsweredOK, DisturbOK
               DEF PoliciesOK, OfItsName, Named
    <2>3. QED
        BY <2>1, <2>2
<1>8. CASE ReadPolicyFile(u)
    <2> DEFINE d == [by |-> u, of |-> c.name]
               next == [c EXCEPT !.pc = "send", !.text = <<d>>]
    <2>1. c.pc = "create" /\ c.name \in Names /\ Becomes(u, next) /\ OnlyCmd
        BY <1>3, <1>8 DEF ReadPolicyFile, CmdAt, Running, CmdPC
    <2>2. d \in Document /\ d.of = c.name
        BY <2>1 DEF Document
    <2>3. <<d>> \in Seq(Document) /\ \A k \in DOMAIN <<d>> : <<d>>[k] = d
        BY <2>2
    <2> HIDE DEF d
    <2>4. next \in Command /\ CmdNamed(next)
        BY <1>1, <2>1, <2>2, <2>3 DEF Command, CmdPC, CmdNamed, WithDocument, Running, Holds
    <2>5. QED
        BY <2>1, <2>4, OnlyCmdOK
<1>9. CASE CreateFile(u)
    <2>1. /\ c.pc = "create" /\ c.name \in Names /\ c.seen # None
          /\ file' = [file EXCEPT ![c.name] = <<>>]
          /\ UNCHANGED <<policy, attached, wish, manager>>
          /\ cmd' = [v \in Users |->
                  IF v = u THEN [cmd[u] EXCEPT !.pc = "fill", !.temp = TRUE,
                                               !.mine = Sharing(c.name) = {}]
                  ELSE IF v \in Sharing(c.name) THEN [cmd[v] EXCEPT !.mine = FALSE]
                  ELSE cmd[v]]
        BY <1>1, <1>3, <1>9
           DEF CreateFile, CmdAt, Truncated, Running, CmdPC, CmdNamed, WithDocument
    <2>2. ASSUME NEW v \in Users PROVE cmd'[v] \in Command /\ CmdNamed(cmd'[v])
        <3>1. cmd[v] \in Command /\ CmdNamed(cmd[v])
            BY DEF PoliciesOK, OfItsName
        <3>2. CASE v = u
            <4>1. PICK mine \in BOOLEAN :
                     cmd'[u] = [c EXCEPT !.pc = "fill", !.temp = TRUE, !.mine = mine]
                BY <2>1
            <4>2. QED
                BY <1>1, <2>1, <3>2, <4>1
                   DEF Command, CmdPC, CmdNamed, WithDocument, Running
        <3>3. CASE v # u /\ v \in Sharing(c.name)
            <4>1. cmd'[v] = [cmd[v] EXCEPT !.mine = FALSE]
                BY <2>1, <3>3
            <4>2. QED
                BY <3>1, <4>1 DEF Command, CmdNamed
        <3>4. CASE v # u /\ v \notin Sharing(c.name)
            BY <2>1, <3>1, <3>4
        <3>5. QED
            BY <3>2, <3>3, <3>4
    <2>3. cmd' \in [Users -> Command]
        BY <2>1, <2>2
    <2>4. Holds(<<>>, c.name)
        BY DEF Holds
    <2>5. QED
        BY <2>1, <2>2, <2>3, <2>4, FilesOK
<1>10. CASE FillFile(u)
    <2>1. /\ c.pc = "fill" /\ c.name \in Names /\ c.seen # None /\ c.seen.of = c.name
          /\ UNCHANGED <<policy, attached, wish, manager>>
        BY <1>1, <1>3, <1>10
           DEF FillFile, CmdAt, Running, CmdPC, CmdNamed, WithDocument
    <2>2. CASE file[c.name] = None
        <3>1. Ends(u, "failed") /\ file' = file
            BY <1>10, <2>2 DEF FillFile
        <3>2. QED
            BY <2>1, <3>1, EndsOK, CommandsOK, FilesOK DEF Ends
    <2>3. CASE file[c.name] # None
        <3> DEFINE t == Append(file[c.name], c.seen)
                   next == [c EXCEPT !.pc = "open"]
        <3>1. file' = [file EXCEPT ![c.name] = t] /\ Becomes(u, next)
            BY <1>10, <2>3 DEF FillFile, Goes
        <3>2. Holds(file[c.name], c.name) /\ c.seen \in Document
            BY <1>2, <2>1, <2>3 DEF OfItsName
        <3>3. Holds(t, c.name)
            BY <2>1, <3>2 DEF Holds
        <3> HIDE DEF t
        <3>4. next \in Command /\ CmdNamed(next)
            BY <1>1, <2>1 DEF Command, CmdPC, CmdNamed, WithDocument, Running
        <3>5. QED
            BY <2>1, <3>1, <3>3, <3>4, CommandsOK, FilesOK
    <2>4. QED
        BY <2>2, <2>3
<1>11. CASE EditorOpens(u)
    <2>1. /\ c.pc = "open" /\ c.name \in Names
          /\ UNCHANGED <<policy, attached, wish, manager>>
        BY <1>3, <1>11 DEF EditorOpens, CmdAt, Running, CmdPC
    <2>2. CASE Ends(u, "failed") /\ file' = Removed(u)
        BY <2>1, <2>2, EndsOK, CommandsOK, RemovedOK DEF Ends
    <2>3. CASE ~(Ends(u, "failed") /\ file' = Removed(u))
        <3>1. PICK t : /\ t = IF file[c.name] = None THEN <<>> ELSE file[c.name]
                       /\ Becomes(u, [c EXCEPT !.pc = "save", !.text = t])
                       /\ file' = file
            BY <1>11, <2>3 DEF EditorOpens
        <3> DEFINE next == [c EXCEPT !.pc = "save", !.text = t]
        <3>2. Holds(t, c.name)
            BY <2>1, <3>1 DEF OfItsName, Holds
        <3>3. t \in Seq(Document)
            BY <3>2 DEF Holds
        <3>4. next \in Command /\ CmdNamed(next)
            BY <1>1, <2>1, <3>2, <3>3 DEF Command, CmdPC, CmdNamed, WithDocument, Running
        <3>5. QED
            BY <2>1, <3>1, <3>2, <3>4, CommandsOK, FilesOK
    <2>4. QED
        BY <2>2, <2>3
<1>12. CASE EditorSaves(u)
    <2> DEFINE next == [c EXCEPT !.pc = "read"]
               d == [by |-> u, of |-> Head(c.text).of]
    <2>1. /\ c.pc = "save" /\ c.name \in Names /\ Becomes(u, next)
          /\ UNCHANGED <<policy, attached, wish, manager>>
          /\ \/ Len(c.text) = 1 /\ file' = [file EXCEPT ![c.name] = <<d>>]
             \/ file' = file
        BY <1>3, <1>12 DEF EditorSaves, CmdAt, Goes, Running, CmdPC
    <2>2. next \in Command /\ CmdNamed(next)
        BY <1>1, <2>1 DEF Command, CmdPC, CmdNamed, WithDocument, Running
    <2>3. CASE file' = file
        BY <2>1, <2>2, <2>3, CommandsOK, FilesOK
    <2>4. CASE Len(c.text) = 1 /\ file' = [file EXCEPT ![c.name] = <<d>>]
        <3>1. Head(c.text).of = c.name
            BY <1>1, <1>2, <2>4 DEF CmdNamed, Holds
        <3>2. d \in Document /\ d.of = c.name
            BY <2>1, <3>1 DEF Document
        <3> HIDE DEF d
        <3>3. Holds(<<d>>, c.name)
            BY <3>2 DEF Holds
        <3>4. QED
            BY <2>1, <2>2, <2>4, <3>3, CommandsOK, FilesOK
    <2>5. QED
        BY <2>1, <2>3, <2>4
<1>13. CASE ReadFile(u)
    <2>1. c.pc = "read" /\ c.name \in Names /\ OnlyCmd
        BY <1>3, <1>13 DEF ReadFile, CmdAt, Running, CmdPC
    <2>2. CASE file[c.name] = None
        BY <1>13, <2>1, <2>2, EndsOK, OnlyCmdOK DEF ReadFile, Ends
    <2>3. CASE file[c.name] # None
        <3> DEFINE next == [c EXCEPT !.pc = "send", !.text = file[c.name]]
        <3>1. Becomes(u, next)
            BY <1>13, <2>3 DEF ReadFile
        <3>2. Holds(file[c.name], c.name) /\ file[c.name] \in Seq(Document)
            BY <2>1, <2>3 DEF OfItsName, Holds
        <3>3. next \in Command /\ CmdNamed(next)
            BY <1>1, <2>1, <3>2 DEF Command, CmdPC, CmdNamed, WithDocument, Running
        <3>4. QED
            BY <2>1, <3>1, <3>3, OnlyCmdOK
    <2>4. QED
        BY <2>2, <2>3
<1>14. CASE BadJson(u)
    BY <1>14, EndsOK, OnlyCmdOK DEF BadJson, Ends
<1>15. CASE Kill(u)
    BY <1>15, EndsOK, OnlyCmdOK DEF Kill, Ends
<1>16. CASE UpdatePolicy(u)
    <2>1. CASE Refused(u, Live(c.got))
        BY <2>1, RefusedOK
    <2>2. CASE ~Refused(u, Live(c.got))
        <3> DEFINE d == Head(c.text)
        <3>1. /\ Live(c.got) /\ policy' = [policy EXCEPT ![c.name].text = d]
              /\ Answered(u) /\ file' \in {file, Removed(u)}
              /\ UNCHANGED <<attached, wish, manager>>
              /\ c.pc = "send" /\ c.op = "edit" /\ Len(c.text) = 1
            BY <1>16, <2>2 DEF UpdatePolicy, CmdAt
        <3>2. c.name \in Names /\ c.got # None /\ c.got[1] = c.name
            BY <1>1, <1>3, <3>1 DEF CmdNamed, WithDocument, Running, CmdPC
        <3>3. d \in Document /\ d.of = c.name
            BY <1>1, <1>2, <3>1 DEF CmdNamed, Holds
        <3>4. policy[c.name] \in Policy
            BY <1>1, <3>1, <3>2 DEF Live
        <3> HIDE DEF d
        <3>5. /\ policy' = [policy EXCEPT ![c.name] = policy'[c.name]]
              /\ policy'[c.name] \in Policy /\ policy'[c.name].text = d
              /\ policy'[c.name].id = policy[c.name].id
            BY <1>1, <3>1, <3>2, <3>3, <3>4 DEF Policy
        <3>6. policy' \in [Names -> Policy \cup {None}]
            BY <1>1, <3>5
        <3>7. \A n \in Names : n # c.name => policy'[n] = policy[n]
            BY <1>1, <3>5
        <3>8. ASSUME NEW i \in attached PROVE i \in Ids /\ Live(i)'
            <4>1. i \in Ids /\ Live(i) /\ i[1] \in Names
                BY <1>1 DEF Ids
            <4>2. CASE i[1] = c.name
                BY <3>5, <4>1, <4>2, NoneIsNone DEF Live
            <4>3. CASE i[1] # c.name
                BY <3>7, <4>1, <4>3 DEF Live
            <4>4. QED
                BY <4>2, <4>3
        <3>9. file' \in [Names -> Seq(Document) \cup {None}]
              /\ \A n \in Names : file'[n] # None => Holds(file'[n], n)
            BY <1>1, <3>1 DEF OfItsName, Removed
        <3>10. ASSUME NEW n \in Names, policy'[n] # None
               PROVE  policy'[n].id[1] = n /\ policy'[n].text.of = n
            <4>1. CASE n = c.name
                <5>1. policy[n] # None
                    BY <3>4, <4>1, NoneIsNone
                <5>2. QED
                    BY <3>3, <3>5, <4>1, <5>1 DEF OfItsName, Named
            <4>2. CASE n # c.name
                BY <3>7, <3>10, <4>2 DEF OfItsName, Named
            <4>3. QED
                BY <4>1, <4>2
        <3>11. QED
            BY <1>1, <3>1, <3>6, <3>8, <3>9, <3>10, AnsweredOK
               DEF PoliciesOK, OfItsName, Named
    <2>3. QED
        BY <2>1, <2>2
<1>17. CASE AddPolicy(u)
    <2>1. CASE Refused(u, ~Named(c.name))
        BY <2>1, RefusedOK
    <2>2. CASE ~Refused(u, ~Named(c.name))
        <3> DEFINE d == Head(c.text)
        <3>1. /\ ~Named(c.name) /\ Answered(u) /\ Disturb
              /\ UNCHANGED <<attached, wish, file>>
              /\ c.pc = "send" /\ Len(c.text) = 1
            BY <1>17, <2>2 DEF AddPolicy, CmdAt
        <3>2. PICK i \in Ids : /\ i[1] = c.name
                               /\ policy' = [policy EXCEPT ![c.name] = [id |-> i, text |-> d]]
            BY <1>17, <2>2 DEF AddPolicy
        <3>3. c.name \in Names
            BY <1>3, <3>1 DEF Running, CmdPC
        <3>4. d \in Document /\ d.of = c.name
            BY <1>1, <1>2, <3>1 DEF CmdNamed, Holds
        <3> HIDE DEF d
        <3>5. /\ policy' \in [Names -> Policy \cup {None}]
              /\ policy'[c.name].id[1] = c.name /\ policy'[c.name].text.of = c.name
              /\ \A n \in Names : n # c.name => policy'[n] = policy[n]
            BY <1>1, <3>2, <3>3, <3>4 DEF Policy
        <3>6. ASSUME NEW j \in attached PROVE j \in Ids /\ Live(j)'
            <4>1. j \in Ids /\ Live(j) /\ j[1] # c.name
                BY <1>1, <3>1 DEF Live, Named
            <4>2. QED
                BY <3>5, <4>1 DEF Live, Ids
        <3>7. \A n \in Names : Named(n)' =>
                 policy'[n].id[1] = n /\ policy'[n].text.of = n
            BY <3>5 DEF OfItsName, Named
        <3>8. QED
            BY <1>1, <3>1, <3>5, <3>6, <3>7, AnsweredOK, DisturbOK
               DEF PoliciesOK, OfItsName
    <2>3. QED
        BY <2>1, <2>2
<1>18. QED
    BY <1>4, <1>5, <1>6, <1>7, <1>8, <1>9, <1>10, <1>11, <1>12, <1>13, <1>14,
       <1>15, <1>16, <1>17 DEF CmdStep

\* A call of the manager does not touch what the commands have.
LEMMA ManagerNames ==
    ASSUME PoliciesOK, OfItsName, ManagerStep
    PROVE  OfItsName'
BY ManagerOnCommands DEF OfItsName, Named

-----------------------------------------------------------------------------
(* The temporary file, step by step *)

\* A step of a command that goes on with its file, or gives it up, and that
\* writes no other file.
LEMMA OwnFile ==
    ASSUME PoliciesOK, OfItsName, FilesInv, NEW u \in Users, NEW next,
           Becomes(u, next), UsesFile(next),
           next.temp => /\ cmd[u].temp /\ next.name = cmd[u].name
                        /\ next.mine = cmd[u].mine
                        /\ FileIsMine(u, next, file'[next.name]),
           \/ file' = file
           \/ cmd[u].temp /\ \E t : file' = [file EXCEPT ![cmd[u].name] = t]
    PROVE  FilesInv'
<1>1. \A v \in Users : cmd'[v] = IF v = u THEN next ELSE cmd[v]
    BY DEF Becomes, PoliciesOK
<1>2. ASSUME NEW v \in Users, v # u, cmd[v].temp, cmd[v].mine
      PROVE  file'[cmd[v].name] = file[cmd[v].name]
    <2>1. CASE file' = file
        BY <2>1
    <2>2. CASE cmd[u].temp /\ \E t : file' = [file EXCEPT ![cmd[u].name] = t]
        <3>1. cmd[v].name # cmd[u].name
            BY <1>2, <2>2 DEF FilesInv, AloneWith
        <3>2. cmd[v].name \in Names
            <4>1. cmd[v].pc \in Running
                BY <1>2 DEF FilesInv, UsesFile, Editing, Running, CmdPC
            <4>2. QED
                BY <4>1 DEF OfItsName, CmdNamed
        <3>3. QED
            BY <2>2, <3>1, <3>2 DEF PoliciesOK
    <2>3. QED
        BY <2>1, <2>2
<1>3. ASSUME NEW v \in Users
      PROVE  UsesFile(cmd'[v]) /\ FileIsMine(v, cmd'[v], file'[cmd'[v].name])
    <2>1. CASE v = u
        BY <1>1, <2>1 DEF FileIsMine
    <2>2. CASE v # u
        <3>1. UsesFile(cmd[v]) /\ FileIsMine(v, cmd[v], file[cmd[v].name])
            BY DEF FilesInv
        <3>2. QED
            BY <1>1, <1>2, <2>2, <3>1 DEF FileIsMine
    <2>3. QED
        BY <2>1, <2>2
<1>4. ASSUME NEW v \in Users, NEW w \in Users, v # w
      PROVE  AloneWith(cmd'[v], cmd'[w])
    <2>1. AloneWith(cmd[v], cmd[w])
        BY <1>4 DEF FilesInv
    <2>2. QED
        BY <1>1, <1>4, <2>1 DEF AloneWith
<1>5. QED
    BY <1>3, <1>4 DEF FilesInv

\* A command that ends, or goes on without the file.
LEMMA WithoutFile ==
    ASSUME PoliciesOK, OfItsName, FilesInv, NEW u \in Users, NEW next,
           Becomes(u, next), ~next.temp, next.pc \notin Editing,
           file' \in {file, Removed(u)}
    PROVE  FilesInv'
<1>1. UsesFile(next)
    BY DEF UsesFile
<1>2. \/ file' = file
      \/ cmd[u].temp /\ \E t : file' = [file EXCEPT ![cmd[u].name] = t]
    BY DEF Removed
<1>3. QED
    BY <1>1, <1>2, OwnFile

LEMMA EndsFiles ==
    ASSUME PoliciesOK, OfItsName, FilesInv, NEW u \in Users,
           NEW how \in {"ok", "failed"}, Ends(u, how), file' \in {file, Removed(u)}
    PROVE  FilesInv'
<1> DEFINE next == [NoCommand EXCEPT !.pc = how]
<1>1. ~next.temp /\ next.pc \notin Editing
    BY DEF NoCommand, Editing
<1>2. QED
    BY <1>1, WithoutFile DEF Ends

LEMMA CommandFiles ==
    ASSUME PoliciesOK, OfItsName, FilesInv, NEW u \in Users, CmdStep(u)
    PROVE  FilesInv'
<1> DEFINE c == cmd[u]
           f == file[c.name]
<1>1. /\ c \in Command /\ CmdNamed(c) /\ UsesFile(c) /\ FileIsMine(u, c, f)
      /\ file \in [Names -> Seq(Document) \cup {None}]
    BY DEF PoliciesOK, OfItsName, FilesInv
<1>2. c.pc \in Running => c.name \in Names
    BY <1>1 DEF CmdNamed
<1>3. CASE RunCommand(u)
    <2>1. PICK op, n, next :
             /\ op \in Ops /\ n \in Names
             /\ Becomes(u, next) /\ file' = file
             /\ next = [NoCommand EXCEPT !.op = op, !.name = n,
                           !.pc = IF op = "add" THEN "create" ELSE "find",
                           !.seen = IF op = "add" THEN Original(n) ELSE None]
        BY <1>3 DEF RunCommand, OnlyCmd
    <2>2. ~next.temp /\ next.pc \notin Editing
        BY <2>1 DEF NoCommand, Editing
    <2>3. QED
        BY <2>1, <2>2, WithoutFile
<1>4. CASE FindPolicyByName(u)
    <2>1. c.pc = "find" /\ file' = file
        BY <1>4 DEF FindPolicyByName, CmdAt, OnlyCmd
    <2>2. ~c.temp
        BY <1>1, <2>1 DEF UsesFile, Editing
    <2>3. CASE Ends(u, "failed")
        BY <2>1, <2>3, EndsFiles
    <2>4. CASE ~Ends(u, "failed")
        <3>1. PICK next :
                 /\ Becomes(u, next)
                 /\ next = [c EXCEPT !.got = IdOf(c.name), !.seen = policy[c.name].text,
                              !.pc = IF c.op = "edit" THEN "create" ELSE "request"]
            BY <1>4, <2>4 DEF FindPolicyByName
        <3>2. ~next.temp /\ next.pc \notin Editing
            BY <1>1, <2>2, <3>1 DEF Command, Editing
        <3>3. QED
            BY <2>1, <3>1, <3>2, WithoutFile
    <2>5. QED
        BY <2>3, <2>4
<1>5. ASSUME Answered(u) \/ Refused(u, Live(c.got)) \/ Refused(u, ~Named(c.name)),
             file' \in {file, Removed(u)}
      PROVE  FilesInv'
    BY <1>5, EndsFiles DEF Answered, Refused
<1>6. CASE SetSocket(u)
    BY <1>6, <1>5 DEF SetSocket, Refused, OnlyCmd
<1>7. CASE DeletePolicy(u)
    BY <1>7, <1>5 DEF DeletePolicy, Refused, OnlyCmd
<1>8. CASE UpdatePolicy(u)
    BY <1>8, <1>5 DEF UpdatePolicy, Refused, OnlyCmd
<1>9. CASE AddPolicy(u)
    BY <1>9, <1>5 DEF AddPolicy, Refused, OnlyCmd
<1>10. CASE BadJson(u) \/ Kill(u)
    BY <1>10, EndsFiles DEF BadJson, Kill, OnlyCmd
<1>11. CASE ReadPolicyFile(u)
    <2>1. PICK next : /\ Becomes(u, next) /\ file' = file /\ c.pc = "create"
                      /\ next = [c EXCEPT !.pc = "send",
                                   !.text = <<[by |-> u, of |-> c.name]>>]
        BY <1>11 DEF ReadPolicyFile, CmdAt, OnlyCmd
    <2>2. ~next.temp /\ next.pc \notin Editing
        BY <1>1, <2>1 DEF Command, UsesFile, Editing
    <2>3. QED
        BY <2>1, <2>2, WithoutFile
<1>12. CASE FillFile(u)
    <2>1. c.pc = "fill" /\ c.name \in Names
        BY <1>2, <1>12 DEF FillFile, CmdAt, Running, CmdPC
    <2>2. CASE f = None
        BY <1>12, <2>2, EndsFiles DEF FillFile
    <2>3. CASE f # None
        <3>1. PICK next : /\ Becomes(u, next) /\ next = [c EXCEPT !.pc = "open"]
                          /\ file' = [file EXCEPT ![c.name] = Append(f, c.seen)]
            BY <1>12, <2>3 DEF FillFile, Goes
        <3>2. /\ next.pc = "open" /\ next.temp = c.temp /\ next.name = c.name
              /\ next.mine = c.mine /\ next.seen = c.seen
            BY <1>1, <3>1 DEF Command
        <3>3. file'[c.name] = Append(f, c.seen) /\ c.temp
            BY <1>1, <2>1, <3>1 DEF UsesFile, Editing
        <3>4. c.mine => f = <<>>
            BY <1>1, <2>1, <3>3 DEF FileIsMine
        <3>5. c.mine => file'[c.name] = <<c.seen>>
            <4>1. c.seen \in Document \cup {None}
                BY <1>1, Fields
            <4>2. Append(<<>>, c.seen) = <<c.seen>>
                BY <4>1
            <4>3. QED
                BY <3>3, <3>4, <4>2
        <3>6. UsesFile(next) /\ FileIsMine(u, next, file'[next.name])
            BY <3>2, <3>3, <3>5 DEF UsesFile, FileIsMine, Editing
        <3>7. QED
            BY <3>1, <3>2, <3>3, <3>6, OwnFile
    <2>4. QED
        BY <2>2, <2>3
<1>13. CASE EditorOpens(u)
    <2>1. c.pc = "open" /\ c.name \in Names
        BY <1>2, <1>13 DEF EditorOpens, CmdAt, Running, CmdPC
    <2>2. CASE Ends(u, "failed") /\ file' = Removed(u)
        BY <2>2, EndsFiles
    <2>3. CASE ~(Ends(u, "failed") /\ file' = Removed(u))
        <3>1. PICK t, next : /\ t = IF f = None THEN <<>> ELSE f
                             /\ Becomes(u, next) /\ file' = file
                             /\ next = [c EXCEPT !.pc = "save", !.text = t]
            BY <1>13, <2>3 DEF EditorOpens
        <3>2. /\ next.pc = "save" /\ next.temp = c.temp /\ next.name = c.name
              /\ next.mine = c.mine /\ next.seen = c.seen /\ next.text = t
            BY <1>1, <3>1 DEF Command
        <3>3. c.temp /\ c.seen # None /\ c.seen \in Document
            BY <1>1, <2>1, Fields DEF UsesFile, Editing, CmdNamed, WithDocument
        <3>4. c.mine => f = <<c.seen>> /\ t = f
            <4>1. c.mine => f = <<c.seen>>
                BY <1>1, <2>1, <3>3 DEF FileIsMine
            <4>2. <<c.seen>> \in Seq(Document)
                BY <3>3
            <4>3. <<c.seen>> # None
                BY <4>2, NoneIsNone
            <4>4. QED
                BY <3>1, <4>1, <4>3
        <3>5. UsesFile(next) /\ FileIsMine(u, next, file'[next.name])
            BY <3>1, <3>2, <3>3, <3>4 DEF UsesFile, FileIsMine, Editing
        <3>6. QED
            BY <3>1, <3>2, <3>3, <3>5, OwnFile
    <2>4. QED
        BY <2>2, <2>3
<1>14. CASE EditorSaves(u)
    <2> DEFINE d == [by |-> u, of |-> Head(c.text).of]
    <2>1. PICK next :
             /\ c.pc = "save" /\ c.name \in Names
             /\ Becomes(u, next) /\ next = [c EXCEPT !.pc = "read"]
             /\ \/ file' = [file EXCEPT ![c.name] = <<d>>]
                \/ file' = file
        BY <1>2, <1>14 DEF EditorSaves, CmdAt, Goes, Running, CmdPC
    <2>2. /\ next.pc = "read" /\ next.temp = c.temp /\ next.name = c.name
          /\ next.mine = c.mine /\ next.seen = c.seen
        BY <1>1, <2>1 DEF Command
    <2>3. c.temp /\ c.seen # None /\ c.seen.of = c.name
        BY <1>1, <2>1 DEF UsesFile, Editing, CmdNamed, WithDocument
    <2>4. c.mine => c.text = <<c.seen>> /\ f = <<c.seen>>
        BY <1>1, <2>1, <2>3 DEF FileIsMine
    <2>5. c.mine => Head(c.text) = c.seen
        BY <2>4
    <2>6. file'[c.name] \in {f, <<d>>}
        BY <1>1, <2>1
    <2>7. c.mine => file'[c.name] \in Edits(u, next)
        BY <2>2, <2>3, <2>4, <2>5, <2>6 DEF Edits
    <2>8. UsesFile(next) /\ FileIsMine(u, next, file'[next.name])
        BY <2>2, <2>3, <2>7 DEF UsesFile, FileIsMine, Editing
    <2>9. QED
        BY <2>1, <2>2, <2>3, <2>8, OwnFile
<1>15. CASE ReadFile(u)
    <2>1. c.pc = "read" /\ file' = file
        BY <1>15 DEF ReadFile, CmdAt, OnlyCmd
    <2>2. CASE Ends(u, "failed")
        BY <2>1, <2>2, EndsFiles
    <2>3. CASE ~Ends(u, "failed")
        <3>1. PICK next : /\ Becomes(u, next)
                          /\ next = [c EXCEPT !.pc = "send", !.text = f]
            BY <1>15, <2>3 DEF ReadFile
        <3>2. /\ next.pc = "send" /\ next.temp = c.temp /\ next.name = c.name
              /\ next.mine = c.mine /\ next.seen = c.seen /\ next.text = f
            BY <1>1, <3>1 DEF Command
        <3>3. c.temp
            BY <1>1, <2>1 DEF UsesFile, Editing
        <3>4. c.mine => f \in Edits(u, next)
            BY <1>1, <2>1, <3>2, <3>3 DEF FileIsMine, Edits
        <3>5. UsesFile(next) /\ FileIsMine(u, next, file'[next.name])
            BY <3>2, <3>3, <3>4 DEF UsesFile, FileIsMine, Editing
        <3>6. QED
            BY <2>1, <3>1, <3>2, <3>3, <3>5, OwnFile
    <2>4. QED
        BY <2>2, <2>3
<1>16. CASE CreateFile(u)
    <2> DEFINE n == c.name
               next == [c EXCEPT !.pc = "fill", !.temp = TRUE, !.mine = Sharing(n) = {}]
    <2>1. /\ c.pc = "create" /\ n \in Names /\ file' = [file EXCEPT ![n] = <<>>]
          /\ cmd' = [v \in Users |->
                  IF v = u THEN next
                  ELSE IF v \in Sharing(n) THEN [cmd[v] EXCEPT !.mine = FALSE]
                  ELSE cmd[v]]
        BY <1>2, <1>16 DEF CreateFile, CmdAt, Truncated, Running, CmdPC
    <2>2. /\ next.pc = "fill" /\ next.temp /\ next.name = n
          /\ next.mine => Sharing(n) = {}
        BY <1>1 DEF Command
    <2>3. cmd'[u] = next /\ file'[n] = <<>>
        BY <1>1, <2>1
    <2> HIDE DEF next
    <2>4. ASSUME NEW v \in Users, v # u
          PROVE  /\ cmd'[v].pc = cmd[v].pc /\ cmd'[v].temp = cmd[v].temp
                 /\ cmd'[v].name = cmd[v].name /\ cmd'[v].seen = cmd[v].seen
                 /\ cmd'[v].text = cmd[v].text
                 /\ cmd'[v].mine => cmd[v].mine /\ v \notin Sharing(n)
        <3>1. cmd[v] \in Command
            BY DEF PoliciesOK
        <3>2. CASE v \in Sharing(n)
            <4>1. cmd'[v] = [cmd[v] EXCEPT !.mine = FALSE]
                BY <2>1, <2>4, <3>2
            <4>2. QED
                BY <3>1, <4>1 DEF Command
        <3>3. CASE v \notin Sharing(n)
            BY <2>1, <2>4, <3>3
        <3>4. QED
            BY <3>2, <3>3
    <2>5. ASSUME NEW v \in Users, v # u, cmd[v].temp, cmd[v].name = n
          PROVE  v \in Sharing(n)
        BY <2>5 DEF FilesInv, UsesFile, Sharing, Editing
    <2>6. UsesFile(cmd'[u]) /\ FileIsMine(u, cmd'[u], file'[cmd'[u].name])
        BY <2>2, <2>3 DEF UsesFile, FileIsMine, Editing
    <2>7. ASSUME NEW v \in Users, v # u
          PROVE  UsesFile(cmd'[v]) /\ FileIsMine(v, cmd'[v], file'[cmd'[v].name])
        <3>1. UsesFile(cmd[v]) /\ FileIsMine(v, cmd[v], file[cmd[v].name])
            BY DEF FilesInv
        <3>2. UsesFile(cmd'[v])
            BY <2>4, <2>7, <3>1 DEF UsesFile
        <3>3. CASE cmd[v].temp /\ cmd[v].name # n
            <4>1. file'[cmd[v].name] = file[cmd[v].name]
                <5>1. cmd[v].pc \in Running
                    BY <3>1, <3>3 DEF UsesFile, Editing, Running, CmdPC
                <5>2. cmd[v].name \in Names
                    BY <5>1 DEF OfItsName, CmdNamed
                <5>3. QED
                    BY <1>1, <2>1, <3>3, <5>2
            <4>2. QED
                BY <2>4, <2>7, <3>1, <3>2, <4>1 DEF FileIsMine, Edits
        <3>4. CASE ~(cmd[v].temp /\ cmd[v].name # n)
            BY <2>4, <2>5, <2>7, <3>2, <3>4 DEF FileIsMine
        <3>5. QED
            BY <3>3, <3>4
    <2>8. ASSUME NEW v \in Users, NEW w \in Users, v # w
          PROVE  AloneWith(cmd'[v], cmd'[w])
        <3>1. CASE v = u
            BY <2>2, <2>3, <2>4, <2>5, <2>8, <3>1 DEF AloneWith
        <3>2. CASE w = u
            BY <2>2, <2>3, <2>4, <2>5, <2>8, <3>2 DEF AloneWith
        <3>3. CASE v # u /\ w # u
            <4>1. AloneWith(cmd[v], cmd[w])
                BY <2>8 DEF FilesInv
            <4>2. QED
                BY <2>4, <3>3, <4>1 DEF AloneWith
        <3>4. QED
            BY <3>1, <3>2, <3>3
    <2>9. QED
        BY <2>6, <2>7, <2>8 DEF FilesInv
<1>17. QED
    BY <1>3, <1>4, <1>6, <1>7, <1>8, <1>9, <1>10, <1>11, <1>12, <1>13, <1>14,
       <1>15, <1>16 DEF CmdStep

LEMMA ManagerFiles ==
    ASSUME FilesInv, ManagerStep
    PROVE  FilesInv'
BY ManagerOnCommands DEF FilesInv

-----------------------------------------------------------------------------
LEMMA PoliciesInitially ==
    ASSUME Init
    PROVE  PoliciesInv
<1>1. /\ manager = NoManager /\ file = [n \in Names |-> None]
      /\ cmd = [u \in Users |-> NoCommand]
    BY DEF Init
<1>2. <<>> \in Seq(Document) /\ <<>> \in Seq(Names) /\ DOMAIN <<>> = {}
    OBVIOUS
<1>3. NoManager \in Manager
    BY <1>2 DEF NoManager, Manager
<1>4. NoCommand \in Command /\ CmdNamed(NoCommand)
    BY <1>2 DEF NoCommand, Command, CmdPC, CmdNamed, WithDocument, Running, Holds
<1>5. /\ policy \in [Names -> Policy \cup {None}]
      /\ attached \subseteq {i \in Ids : Live(i)} /\ wish \in Seq(Names)
      /\ \A n \in Names : Named(n) => policy[n].id[1] = n /\ policy[n].text.of = n
    <2>1. CASE InitFind
        BY <1>2, <2>1 DEF InitFind, Named
    <2>2. CASE InitPolicies
        <3>1. PICK s \in Starts :
                 /\ policy = [n \in Names |-> IF n \in s.exist
                                              THEN [id |-> <<n, 1>>, text |-> Original(n)]
                                              ELSE None]
                 /\ attached = {<<n, 1>> : n \in s.attached}
            BY <2>2 DEF InitPolicies
        <3>2. s.exist \subseteq Names /\ s.attached \subseteq s.exist /\ wish \in Seq(Names)
            BY <2>2, PartsAssumption DEF InitPolicies
        <3>3. ASSUME NEW n \in Names
              PROVE  /\ <<n, 1>> \in Ids /\ Original(n) \in Document
                     /\ Original(n).of = n
            BY PartsAssumption DEF Ids, Original, Document
        <3>4. policy \in [Names -> Policy \cup {None}]
            BY <3>1, <3>3 DEF Policy
        <3>5. \A n \in Names : Named(n) => policy[n].id[1] = n /\ policy[n].text.of = n
            BY <3>1, <3>3 DEF Named
        <3>6. ASSUME NEW n \in s.attached
              PROVE  <<n, 1>> \in Ids /\ Live(<<n, 1>>)
            <4>1. n \in Names /\ policy[n] = [id |-> <<n, 1>>, text |-> Original(n)]
                BY <3>1, <3>2
            <4>2. policy[n] \in Policy
                BY <3>3, <4>1 DEF Policy
            <4>3. QED
                BY <3>3, <4>1, <4>2, NoneIsNone DEF Live
        <3>7. QED
            BY <3>1, <3>2, <3>4, <3>5, <3>6
    <2>3. QED
        BY <2>1, <2>2 DEF Init
<1>6. PoliciesOK /\ OfItsName
    BY <1>1, <1>3, <1>4, <1>5 DEF PoliciesOK, OfItsName
<1>7. FilesInv
    BY <1>1 DEF FilesInv, NoCommand, UsesFile, FileIsMine, AloneWith, Editing
<1>8. CallInv /\ AloneInv
    BY <1>1, SetOfEmpty DEF NoManager, CallInv, AloneInv, NamesOf
<1>9. QED
    BY <1>6, <1>7, <1>8 DEF PoliciesInv

LEMMA PoliciesStep ==
    ASSUME PoliciesInv, [Next]_vars
    PROVE  PoliciesInv'
<1>1. CASE UNCHANGED policyVars
    BY <1>1
       DEF PoliciesInv, PoliciesOK, OfItsName, FilesInv, CallInv, AloneInv,
           policyVars, Live, Named, Stale, Wished
<1>2. CASE ManagerStep
    BY <1>2, ManagerOK, ManagerNames, ManagerFiles, ManagerCall, ManagerAlone
       DEF PoliciesInv
<1>3. ASSUME NEW u \in Users, CmdStep(u) PROVE PoliciesInv'
    BY <1>3, CommandOK, CommandFiles, CommandCall DEF PoliciesInv
<1>4. QED
    BY <1>1, <1>2, <1>3 DEF Next, PoliciesNext, vars, policyVars

-----------------------------------------------------------------------------
(* What the runs check, for every value of the constants *)

\* Everything above is so in every state.
THEOREM PoliciesInvariant == Spec => []PoliciesInv
<1>1. Init => PoliciesInv
    BY PoliciesInitially
<1>2. PoliciesInv /\ [Next]_vars => PoliciesInv'
    BY PoliciesStep
<1>3. QED
    BY <1>1, <1>2, PTL DEF Spec

\* As long as nobody else changes a policy or the socket, a call of ApplyPolicies
\* leaves what Reconcile takes the whole of it to leave, whatever is refused,
\* fails or is lost on the way (policy_manager.go:24-69).
THEOREM OutcomesCorrect == Spec => []OutcomesHold
<1>1. PoliciesInv => OutcomesHold
    BY OutcomesOfCall DEF PoliciesInv
<1>2. QED
    BY <1>1, PoliciesInvariant, PTL

\* A command that had its temporary file to itself sends its own user's edit of
\* what it was about, whatever was left in that file (policy.go:292-349).
THEOREM EditsCorrect == Spec => []UndisturbedEdit
<1>1. PoliciesInv => UndisturbedEdit
    BY DEF PoliciesInv, FilesInv, FileIsMine, Edits, UndisturbedEdit
<1>2. QED
    BY <1>1, PoliciesInvariant, PTL

\* A socket is never left without any policy by a call that found all it was to
\* attach and that nobody disturbed (policy_manager.go:46-66).
THEOREM NeverBareCorrect == Spec => NeverBare
<1>1. PoliciesInv /\ [Next]_vars
         => [ManagerStep /\ attached # {} /\ attached' = {}
             => manager.missed \/ ~manager.alone]_vars
    BY SocketKeepsSome DEF PoliciesInv
<1>2. QED
    BY <1>1, PoliciesInvariant, PTL DEF Spec, NeverBare
=============================================================================
