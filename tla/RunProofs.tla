------------------------------ MODULE RunProofs ------------------------------
(***************************************************************************)
(* `border0 run`: the types, and what a finished clean-up leaves behind.   *)
(***************************************************************************)
EXTENDS RunCommand, TLAPS

\* A fault stays in the budget.
LEMMA FaultCounted ==
    ASSUME faults \in 0..MaxFaults, NEW kind, Fault(kind)
    PROVE  faults' \in 0..MaxFaults
BY RunAssumption DEF Fault

-----------------------------------------------------------------------------
\* A loop that only moves, and a process that only ends, keep the types.
LEMMA MovesTypes ==
    ASSUME TypeOK, NEW l \in Loops, NEW pc \in LoopPC, Moves(l, pc),
           faults' \in 0..MaxFaults
    PROVE  TypeOK'
BY DEF TypeOK, Moves, Goto, cleanVars, apiVars

LEMMA DiesTypes ==
    ASSUME TypeOK, Dies, faults' \in 0..MaxFaults
    PROVE  TypeOK'
BY DEF TypeOK, Dies, loopVars, cleanVars, apiVars, MainPC

\* The steps of the two loops.
LEMMA LoopTypes ==
    ASSUME TypeOK, NEW l \in Loops, LoopStep(l) \/ SessionEnds(l)
    PROVE  TypeOK'
<1>1. faults \in 0..MaxFaults /\ keyFile \in {"missing", "empty", "written"}
  BY DEF TypeOK
<1>2. LoopPC = {"post", "answered", "storing", "policies", "prepare", "tunnel",
                "key", "create", "fill", "sign", "session"}
  BY DEF LoopPC
<1>3. CASE Connect(l)
  <2>1. faults' \in 0..MaxFaults
    BY <1>1, <1>3, FaultCounted DEF Connect
  <2>2. issued + 1 \in Ids /\ issued' \in 0..MaxIds
    BY <1>3, RunAssumption DEF Connect, TypeOK, Ids
  <2>3. loop' \in [Loops -> [pc : LoopPC, id : Ids \cup {None}]]
    BY <1>2, <1>3, <2>2 DEF Connect, TypeOK
  <2>. QED
    BY <1>3, <2>1, <2>2, <2>3 DEF Connect, TypeOK, cleanVars
<1>4. CASE ConnectFails(l)
  BY <1>1, <1>2, <1>4, FaultCounted, MovesTypes DEF ConnectFails
<1>5. CASE BeginStore(l)
  BY <1>1, <1>2, <1>5, MovesTypes DEF BeginStore
<1>6. CASE EndStore(l)
  BY <1>2, <1>6 DEF EndStore, Goto, TypeOK, cleanVars, apiVars
<1>7. CASE GetPolicies(l)
  BY <1>1, <1>2, <1>7, MovesTypes DEF GetPolicies
<1>8. CASE GetPoliciesFails(l)
  <2>1. faults' \in 0..MaxFaults
    BY <1>1, <1>8, FaultCounted DEF GetPoliciesFails
  <2>2. Dies \/ Moves(l, "post")
    BY <1>8 DEF GetPoliciesFails
  <2>. QED
    BY <1>2, <2>1, <2>2, MovesTypes, DiesTypes
<1>9. CASE Prepare(l)
  <2>1. faults' \in 0..MaxFaults
    BY <1>1, <1>9, FaultCounted DEF Prepare
  <2>2. Moves(l, "tunnel") \/ Moves(l, "post")
    BY <1>9 DEF Prepare
  <2>. QED
    BY <1>2, <2>1, <2>2, MovesTypes
<1>10. CASE GetTunnel(l)
  <2>1. faults' \in 0..MaxFaults
    BY <1>1, <1>10, FaultCounted DEF GetTunnel
  <2>2. Moves(l, "key") \/ Moves(l, "post")
    BY <1>10 DEF GetTunnel
  <2>. QED
    BY <1>2, <2>1, <2>2, MovesTypes
<1>11. CASE FatalConfig(l)
  BY <1>1, <1>11, FaultCounted, DiesTypes DEF FatalConfig
<1>12. CASE FindKey(l)
  <2>1. Moves(l, "create") \/ Moves(l, "sign")
    BY <1>12 DEF FindKey
  <2>. QED
    BY <1>1, <1>2, <1>12, <2>1, MovesTypes DEF FindKey
<1>13. CASE CreateKey(l)
  BY <1>2, <1>13 DEF CreateKey, Goto, TypeOK, cleanVars, apiVars
<1>14. CASE FillKey(l)
  BY <1>2, <1>14 DEF FillKey, Goto, TypeOK, cleanVars, apiVars
<1>15. CASE Sign(l)
  BY <1>1, <1>2, <1>15, MovesTypes DEF Sign
<1>16. CASE SignFails(l)
  <2>1. faults' \in 0..MaxFaults
    BY <1>1, <1>16, FaultCounted DEF SignFails
  <2>. QED
    BY <1>2, <1>16, <2>1, MovesTypes DEF SignFails
<1>17. CASE SessionEnds(l)
  <2>1. faults' \in 0..MaxFaults
    BY <1>1, <1>17, FaultCounted DEF SessionEnds
  <2>. QED
    BY <1>2, <1>17, <2>1, MovesTypes DEF SessionEnds
<1>. QED
  BY <1>3, <1>4, <1>5, <1>6, <1>7, <1>8, <1>9, <1>10, <1>11, <1>12, <1>13,
     <1>14, <1>15, <1>16, <1>17 DEF LoopStep

\* The steps of a clean-up goroutine.  Only an untorn string is kept.
LEMMA CleanerTypes ==
    ASSUME TypeOK, NEW l \in Loops, CleanerStep(l)
    PROVE  TypeOK'
<1>1. CleanerPC = {"wait", "test", "use", "delete", "report", "done"}
  BY DEF CleanerPC
<1>2. faults \in 0..MaxFaults
  BY DEF TypeOK
<1>3. CASE Test(l)
  BY <1>1, <1>3 DEF Test, TypeOK, loopVars, apiVars
<1>4. CASE Use(l)
  <2>1. PICK v \in Reads(l) :
           \/ v = Torn /\ Dies
           \/ /\ v # Torn
              /\ target' = [target EXCEPT ![l] = v]
              /\ cleaner' = [cleaner EXCEPT ![l] = "delete"]
              /\ UNCHANGED <<child, main, loopVars, atQuit, apiVars>>
    BY <1>4 DEF Use
  <2>2. CASE v = Torn /\ Dies
    BY <1>2, <1>4, <2>2, DiesTypes DEF Use
  <2>3. CASE v # Torn
    <3>1. v \in Ids \cup {None}
      BY <2>3 DEF Reads, TypeOK
    <3>. QED
      BY <1>1, <1>4, <2>1, <2>3, <3>1 DEF Use, TypeOK, loopVars, apiVars
  <2>. QED
    BY <2>1, <2>2, <2>3
<1>5. CASE NilClient(l)
  BY <1>2, <1>5, FaultCounted, DiesTypes DEF NilClient
<1>6. CASE Delete(l)
  <2>1. faults' \in 0..MaxFaults
    BY <1>2, <1>6, FaultCounted DEF Delete
  <2>2. api' \in [Ids -> Loops \cup {"none"}]
    BY <1>6 DEF Delete, TypeOK
  <2>. QED
    BY <1>1, <1>6, <2>1, <2>2 DEF Delete, TypeOK, loopVars
<1>. QED
  BY <1>3, <1>4, <1>5, <1>6 DEF CleanerStep

\* The steps of the main goroutine and of the environment.
LEMMA MainTypes ==
    ASSUME TypeOK, MainStep \/ ChildEnds \/ \E i \in Ids : UserDeletes(i)
    PROVE  TypeOK'
<1>1. /\ CleanerPC = {"wait", "test", "use", "delete", "report", "done"}
      /\ MainPC = {"wait", "quitSsh", "quitHttp", "select", "linger", "exited"}
      /\ Loops = {"ssh", "http"}
  BY DEF CleanerPC, MainPC, Loops
<1>2. faults \in 0..MaxFaults
  BY DEF TypeOK
<1>3. CASE ChildEnds
  BY <1>3 DEF ChildEnds, TypeOK, loopVars, cleanVars, apiVars
<1>4. CASE Waited
  BY <1>1, <1>4 DEF Waited, TypeOK, loopVars, cleanVars, apiVars
<1>5. CASE QuitSsh
  BY <1>1, <1>5 DEF QuitSsh, Quit, TypeOK, loopVars, apiVars
<1>6. CASE QuitHttp
  BY <1>1, <1>6 DEF QuitHttp, Quit, TypeOK, loopVars, apiVars
<1>7. ASSUME NEW l \in Loops, CleanupDone(l) PROVE TypeOK'
  BY <1>1, <1>7 DEF CleanupDone, TypeOK, loopVars, apiVars
<1>8. CASE Exit \/ Timeout
  BY <1>2, <1>8, DiesTypes DEF Exit, Timeout
<1>9. ASSUME NEW i \in Ids, UserDeletes(i) PROVE TypeOK'
  <2>1. faults' \in 0..MaxFaults
    BY <1>2, <1>9, FaultCounted DEF UserDeletes
  <2>. QED
    BY <1>9, <2>1 DEF UserDeletes, TypeOK, loopVars, cleanVars
<1>. QED
  BY <1>3, <1>4, <1>5, <1>6, <1>7, <1>8, <1>9 DEF MainStep

LEMMA TypeStep == TypeOK /\ [Next]_vars => TypeOK'
<1>1. ASSUME TypeOK, UNCHANGED vars PROVE TypeOK'
  BY <1>1 DEF TypeOK, vars
<1>. QED
  BY <1>1, LoopTypes, CleanerTypes, MainTypes DEF Next

\* The state of `border0 run` keeps its types: in particular the clean-up never
\* sends a torn string to the API, and a goroutine is where its code says.
THEOREM RunTypeCorrect == Spec => []TypeOK
<1>1. Init => TypeOK
  BY RunAssumption DEF Init, TypeOK, Ids, Loops, None, LoopPC, MainPC, CleanerPC
<1>. QED
  BY <1>1, TypeStep, PTL DEF Spec

-----------------------------------------------------------------------------
(* What a clean-up leaves.  From here on sessions only drop and sockets only *)
(* get deleted: a request that reaches the API is answered.                  *)

\* The faults there are.
LEMMA QuietFaults ==
    ASSUME OnlyDropsAndDeletes, NEW kind, Fault(kind)
    PROVE  kind = "drop" \/ kind = "userDelete"
BY DEF OnlyDropsAndDeletes, Fault

\* The loop moves on, and posts again only if it has no socket.
LEMMA MovesClean ==
    ASSUME CleanupInv, TypeOK', NEW l \in Loops, NEW pc \in LoopPC \ {"create", "fill"},
           Moves(l, pc),
           pc = "post" => \A i \in Ids : api[i] # l,
           loop[l].pc \in {"answered", "storing"} => pc \in {"answered", "storing"}
    PROVE  CleanupInv'
<1>1. /\ \A m \in Loops : loop'[m].id = loop[m].id
      /\ \A m \in Loops : loop'[m].pc = IF m = l THEN pc ELSE loop[m].pc
  BY DEF Moves, Goto, CleanupInv, TypeOK
<1>2. UNCHANGED <<child, main, socketId, keyFile, cleaner, target, atQuit, api, issued>>
  BY DEF Moves, cleanVars, apiVars
<1>3. KeyIsThere'
  BY <1>1, <1>2 DEF CleanupInv, KeyIsThere
<1>4. OneSocketPerLoop'
  BY <1>1, <1>2 DEF CleanupInv, OneSocketPerLoop
<1>5. InOrder'
  BY <1>1, <1>2 DEF CleanupInv, InOrder
<1>6. CleanupLeavesOnlyLater'
  BY <1>2 DEF CleanupInv, CleanupLeavesOnlyLater
<1>. QED
  BY <1>3, <1>4, <1>5, <1>6 DEF CleanupInv

\* No socket of the loop is left once the one it works for is gone.
LEMMA GoneIsNone ==
    ASSUME OneSocketPerLoop, NEW l \in Loops, ~Exists(loop[l].id)
    PROVE  \A i \in Ids : api[i] # l
BY DEF OneSocketPerLoop, Exists, Loops

LEMMA LoopClean ==
    ASSUME OnlyDropsAndDeletes, CleanupInv, NEW l \in Loops,
           LoopStep(l) \/ SessionEnds(l)
    PROVE  CleanupInv'
<1>. USE DEF CleanupInv
<1>1. TypeOK'
  BY LoopTypes
<1>2. LoopPC = {"post", "answered", "storing", "policies", "prepare", "tunnel",
                "key", "create", "fill", "sign", "session"}
  BY DEF LoopPC
<1>3. ~Fault("api") /\ ~Fault("lost") /\ ~Fault("token") /\ ~Fault("config")
      /\ ~Fault("torn")
  BY QuietFaults
<1>4. \A m \in Loops : /\ loop[m].id \in Nat /\ socketId[m] \in Nat
                       /\ atQuit[m] \in Nat /\ target[m] \in Nat
  BY RunAssumption DEF TypeOK, Ids, None
<1>5. issued \in Nat
  BY RunAssumption DEF TypeOK
<1>6. CASE Connect(l)
  <2>1. /\ \A i \in Ids : api'[i] = IF i = issued + 1 THEN l ELSE api[i]
        /\ issued' = issued + 1
        /\ loop[l].pc = "post"
        /\ UNCHANGED <<socketId, keyFile, cleaner, target, atQuit>>
        /\ loop' = [loop EXCEPT ![l] = [pc |-> "answered", id |-> issued + 1]]
    BY <1>3, <1>6 DEF Connect, TypeOK, cleanVars, At
  <2>2. \A m \in Loops : loop'[m] = IF m = l THEN [pc |-> "answered", id |-> issued + 1]
                         ELSE loop[m]
    BY <2>1 DEF TypeOK
  <2>3. KeyIsThere'
    BY <2>1, <2>2 DEF KeyIsThere
  <2>4. OneSocketPerLoop'
    BY <2>1, <2>2 DEF OneSocketPerLoop
  <2>5. InOrder'
    BY <1>4, <1>5, <2>1, <2>2 DEF InOrder
  <2>6. CleanupLeavesOnlyLater'
    <3>1. atQuit[l] < issued + 1
      BY <1>4, <1>5 DEF InOrder
    <3>. QED
      BY <2>1, <3>1 DEF CleanupLeavesOnlyLater
  <2>. QED
    BY <1>1, <2>3, <2>4, <2>5, <2>6
<1>7. CASE ConnectFails(l)
  BY <1>3, <1>7 DEF ConnectFails
<1>8. CASE BeginStore(l)
  BY <1>1, <1>2, <1>8, MovesClean DEF BeginStore
<1>9. CASE EndStore(l)
  <2>1. /\ loop[l].pc = "storing"
        /\ \A m \in Loops : socketId'[m] = IF m = l THEN loop[l].id ELSE socketId[m]
        /\ \A m \in Loops : loop'[m].id = loop[m].id
        /\ \A m \in Loops : loop'[m].pc = IF m = l THEN "policies" ELSE loop[m].pc
        /\ UNCHANGED <<keyFile, cleaner, target, atQuit, api, issued>>
    BY <1>9 DEF EndStore, At, Goto, TypeOK, cleanVars, apiVars
  <2>2. KeyIsThere'
    BY <2>1 DEF KeyIsThere
  <2>3. OneSocketPerLoop'
    BY <2>1 DEF OneSocketPerLoop
  <2>4. InOrder'
    BY <1>4, <1>5, <2>1 DEF InOrder
  <2>5. CleanupLeavesOnlyLater'
    BY <2>1 DEF CleanupLeavesOnlyLater
  <2>. QED
    BY <1>1, <2>2, <2>3, <2>4, <2>5
<1>10. CASE GetPolicies(l)
  BY <1>1, <1>2, <1>10, MovesClean DEF GetPolicies, At
<1>11. CASE GetPoliciesFails(l)
  BY <1>3, <1>11 DEF GetPoliciesFails
<1>12. CASE Prepare(l)
  <2>1. Moves(l, "tunnel") /\ loop[l].pc = "prepare"
    BY <1>3, <1>12 DEF Prepare, At
  <2>. QED
    BY <1>1, <1>2, <2>1, MovesClean
<1>13. CASE GetTunnel(l)
  <2>1. /\ loop[l].pc = "tunnel"
        /\ Moves(l, "key") \/ (Moves(l, "post") /\ ~Exists(loop[l].id))
    BY <1>3, <1>13 DEF GetTunnel, At
  <2>. QED
    BY <1>1, <1>2, <2>1, GoneIsNone, MovesClean
<1>14. CASE FatalConfig(l)
  BY <1>3, <1>14 DEF FatalConfig
<1>15. CASE FindKey(l)
  <2>1. Moves(l, "sign") /\ loop[l].pc = "key"
    BY <1>15 DEF FindKey, At, KeyIsThere
  <2>. QED
    BY <1>1, <1>2, <2>1, MovesClean
<1>16. CASE CreateKey(l) \/ FillKey(l)
  BY <1>16 DEF CreateKey, FillKey, At, KeyIsThere
<1>17. CASE Sign(l)
  BY <1>1, <1>2, <1>17, MovesClean DEF Sign, At
<1>18. CASE SignFails(l)
  <2>1. Moves(l, "post") /\ loop[l].pc = "sign" /\ ~Exists(loop[l].id)
    BY <1>3, <1>18 DEF SignFails, At
  <2>. QED
    BY <1>1, <1>2, <2>1, GoneIsNone, MovesClean
<1>19. CASE SessionEnds(l)
  <2>1. Moves(l, "key") /\ loop[l].pc = "session"
    BY <1>19 DEF SessionEnds, At
  <2>. QED
    BY <1>1, <1>2, <2>1, MovesClean
<1>. QED
  BY <1>6, <1>7, <1>8, <1>9, <1>10, <1>11, <1>12, <1>13, <1>14, <1>15, <1>16,
     <1>17, <1>18, <1>19 DEF LoopStep

\* The clean-up goroutine deletes a socket that is at least as new as what it
\* was asked for, and there is at most one.
LEMMA CleanerClean ==
    ASSUME OnlyDropsAndDeletes, CleanupInv, NEW l \in Loops, CleanerStep(l)
    PROVE  CleanupInv'
<1>. USE DEF CleanupInv
<1>1. TypeOK'
  BY CleanerTypes
<1>2. \A m \in Loops : /\ loop[m].id \in Nat /\ socketId[m] \in Nat
                       /\ atQuit[m] \in Nat /\ target[m] \in Nat
  BY RunAssumption DEF TypeOK, Ids, None
<1>3. \A v \in Reads(l) : v # Torn => v = socketId[l] \/ v = loop[l].id
  BY DEF Reads
<1>4. Ids \subseteq Nat
  BY RunAssumption DEF Ids
<1>5. CASE Test(l)
  <2>1. PICK v \in Reads(l) :
           cleaner' = [cleaner EXCEPT ![l] = IF v = None THEN "report" ELSE "use"]
    BY <1>5 DEF Test
  <2>2. /\ cleaner[l] = "test"
        /\ UNCHANGED <<loop, socketId, keyFile, target, atQuit, api, issued>>
    BY <1>5 DEF Test, Cleans, loopVars, apiVars
  <2>3. \A m \in Loops :
          cleaner'[m] = IF m # l THEN cleaner[m]
                        ELSE IF v = None THEN "report" ELSE "use"
    BY <2>1 DEF TypeOK
  <2>4. v = None => atQuit[l] = None
    <3>1. None # Torn
      BY RunAssumption DEF None, Torn
    <3>. QED
      BY <1>2, <1>3, <3>1 DEF InOrder, None
  <2>5. KeyIsThere' /\ OneSocketPerLoop'
    BY <2>2 DEF KeyIsThere, OneSocketPerLoop
  <2>6. InOrder'
    BY <2>2, <2>3 DEF InOrder
  <2>7. CleanupLeavesOnlyLater'
    BY <2>2, <2>3, <2>4 DEF CleanupLeavesOnlyLater
  <2>. QED
    BY <1>1, <2>5, <2>6, <2>7
<1>6. CASE Use(l) /\ Dies
  <2>1. UNCHANGED <<loop, socketId, keyFile, cleaner, target, atQuit, api, issued>>
    BY <1>6 DEF Dies, loopVars, cleanVars, apiVars
  <2>. QED
    BY <1>1, <2>1 DEF KeyIsThere, OneSocketPerLoop, InOrder, CleanupLeavesOnlyLater
<1>7. CASE Use(l) /\ ~Dies
  <2>1. PICK v \in Reads(l) :
           /\ v # Torn
           /\ target' = [target EXCEPT ![l] = v]
           /\ cleaner' = [cleaner EXCEPT ![l] = "delete"]
           /\ UNCHANGED <<child, main, loopVars, atQuit, apiVars>>
    BY <1>7 DEF Use
  <2>2. UNCHANGED <<loop, socketId, keyFile, atQuit, api, issued>>
    BY <2>1 DEF loopVars, apiVars
  <2>3. \A m \in Loops : /\ cleaner'[m] = IF m = l THEN "delete" ELSE cleaner[m]
                         /\ target'[m] = IF m = l THEN v ELSE target[m]
    BY <2>1 DEF TypeOK
  <2>4. atQuit[l] <= v /\ v <= loop[l].id
    BY <1>2, <1>3, <2>1 DEF InOrder
  <2>5. KeyIsThere' /\ OneSocketPerLoop'
    BY <2>2 DEF KeyIsThere, OneSocketPerLoop
  <2>6. InOrder'
    BY <2>2, <2>3, <2>4 DEF InOrder
  <2>7. CleanupLeavesOnlyLater'
    BY <2>2, <2>3 DEF CleanupLeavesOnlyLater
  <2>. QED
    BY <1>1, <2>5, <2>6, <2>7
<1>8. CASE NilClient(l)
  BY <1>8, QuietFaults DEF NilClient
<1>9. CASE Delete(l)
  <2>1. /\ cleaner[l] = "delete"
        /\ \A i \in Ids : api'[i] = IF i = target[l] THEN "none" ELSE api[i]
        /\ \A m \in Loops : cleaner'[m] = IF m = l THEN "report" ELSE cleaner[m]
        /\ UNCHANGED <<loop, socketId, keyFile, target, atQuit, issued>>
    BY <1>9, QuietFaults DEF Delete, Cleans, TypeOK, loopVars
  <2>2. "none" \notin Loops
    BY DEF Loops
  <2>3. KeyIsThere' /\ OneSocketPerLoop'
    BY <2>1, <2>2 DEF KeyIsThere, OneSocketPerLoop
  <2>4. InOrder'
    BY <2>1 DEF InOrder
  <2>5. CleanupLeavesOnlyLater'
    <3>1. SUFFICES ASSUME NEW m \in Loops, cleaner'[m] \in {"report", "done"},
                          atQuit[m] # None, NEW i \in Ids, api'[i] = m
                   PROVE  i > atQuit[m]
      BY <2>1 DEF CleanupLeavesOnlyLater
    <3>2. CASE m = l
      <4>1. i # target[l] /\ i = loop[l].id
        BY <2>1, <2>2, <3>1, <3>2 DEF OneSocketPerLoop
      <4>. QED
        BY <1>2, <1>4, <2>1, <3>2, <4>1 DEF InOrder
    <3>3. CASE m # l
      BY <2>1, <2>2, <3>1, <3>3 DEF CleanupLeavesOnlyLater
    <3>. QED
      BY <3>2, <3>3
  <2>. QED
    BY <1>1, <2>3, <2>4, <2>5
<1>. QED
  BY <1>5, <1>6, <1>7, <1>8, <1>9 DEF CleanerStep

LEMMA MainClean ==
    ASSUME CleanupInv, MainStep \/ ChildEnds \/ \E i \in Ids : UserDeletes(i)
    PROVE  CleanupInv'
<1>. USE DEF CleanupInv
<1>1. TypeOK'
  BY MainTypes
<1>2. CASE UNCHANGED <<loop, socketId, keyFile, cleaner, target, atQuit, api, issued>>
  BY <1>1, <1>2 DEF KeyIsThere, OneSocketPerLoop, InOrder, CleanupLeavesOnlyLater
<1>3. CASE ChildEnds \/ Waited \/ Exit \/ Timeout
  BY <1>2, <1>3 DEF ChildEnds, Waited, Exit, Timeout, Dies, loopVars, cleanVars, apiVars
<1>4. ASSUME NEW l \in Loops, NEW next, Quit(l, next)
      PROVE  CleanupInv'
  <2>1. /\ cleaner[l] = "wait"
        /\ \A m \in Loops : /\ cleaner'[m] = IF m = l THEN "test" ELSE cleaner[m]
                            /\ atQuit'[m] = IF m = l THEN socketId[l] ELSE atQuit[m]
        /\ UNCHANGED <<loop, socketId, keyFile, target, api, issued>>
    BY <1>4 DEF Quit, TypeOK, loopVars, apiVars
  <2>2. socketId[l] <= socketId[l]
    BY RunAssumption DEF TypeOK, Ids, None
  <2>3. KeyIsThere' /\ OneSocketPerLoop'
    BY <2>1 DEF KeyIsThere, OneSocketPerLoop
  <2>4. InOrder'
    BY <2>1, <2>2 DEF InOrder
  <2>5. CleanupLeavesOnlyLater'
    BY <2>1 DEF CleanupLeavesOnlyLater
  <2>. QED
    BY <1>1, <2>3, <2>4, <2>5
<1>5. CASE QuitSsh \/ QuitHttp
  BY <1>4, <1>5 DEF QuitSsh, QuitHttp, Loops
<1>6. ASSUME NEW l \in Loops, CleanupDone(l)
      PROVE  CleanupInv'
  <2>1. /\ cleaner[l] = "report"
        /\ \A m \in Loops : cleaner'[m] = IF m = l THEN "done" ELSE cleaner[m]
        /\ UNCHANGED <<loop, socketId, keyFile, target, atQuit, api, issued>>
    BY <1>6 DEF CleanupDone, TypeOK, loopVars, apiVars
  <2>2. KeyIsThere' /\ OneSocketPerLoop'
    BY <2>1 DEF KeyIsThere, OneSocketPerLoop
  <2>3. InOrder' /\ CleanupLeavesOnlyLater'
    BY <2>1 DEF InOrder, CleanupLeavesOnlyLater
  <2>. QED
    BY <1>1, <2>2, <2>3
<1>7. ASSUME NEW i \in Ids, UserDeletes(i)
      PROVE  CleanupInv'
  <2>1. /\ \A j \in Ids : api'[j] = IF j = i THEN "none" ELSE api[j]
        /\ UNCHANGED <<loop, socketId, keyFile, cleaner, target, atQuit, issued>>
    BY <1>7 DEF UserDeletes, TypeOK, loopVars, cleanVars
  <2>2. "none" \notin Loops
    BY DEF Loops
  <2>3. KeyIsThere' /\ OneSocketPerLoop'
    BY <2>1, <2>2 DEF KeyIsThere, OneSocketPerLoop
  <2>4. InOrder' /\ CleanupLeavesOnlyLater'
    BY <2>1, <2>2 DEF InOrder, CleanupLeavesOnlyLater
  <2>. QED
    BY <1>1, <2>3, <2>4
<1>. QED
  BY <1>3, <1>5, <1>6, <1>7 DEF MainStep

LEMMA CleanupStep ==
    ASSUME OnlyDropsAndDeletes
    PROVE  CleanupInv /\ [Next]_vars => CleanupInv'
<1>1. ASSUME CleanupInv, UNCHANGED vars PROVE CleanupInv'
  BY <1>1 DEF CleanupInv, TypeOK, KeyIsThere, OneSocketPerLoop, InOrder,
              CleanupLeavesOnlyLater, vars
<1>. QED
  BY <1>1, LoopClean, CleanerClean, MainClean DEF Next

\* While sessions only drop and sockets only get deleted, a clean-up that has
\* finished leaves no socket that existed when it was asked for, although it
\* reads socketId twice and without a lock while the loop may write it.
THEOREM CleanupCorrect ==
    ASSUME OnlyDropsAndDeletes
    PROVE  Spec => []CleanupLeavesOnlyLater
<1>1. Init => CleanupInv
  <2>1. Init => TypeOK
    BY RunAssumption DEF Init, TypeOK, Ids, Loops, None, LoopPC, MainPC, CleanerPC
  <2>2. Init => KeyIsThere
    BY DEF Init, KeyIsThere, OnlyDropsAndDeletes
  <2>3. Init => OneSocketPerLoop /\ CleanupLeavesOnlyLater
    BY DEF Init, OneSocketPerLoop, CleanupLeavesOnlyLater, Loops
  <2>4. Init => InOrder
    BY DEF Init, InOrder, None
  <2>. QED
    BY <2>1, <2>2, <2>3, <2>4 DEF CleanupInv
<1>2. CleanupInv /\ [Next]_vars => CleanupInv'
  BY CleanupStep
<1>3. CleanupInv => CleanupLeavesOnlyLater
  BY DEF CleanupInv
<1>. QED
  BY <1>1, <1>2, <1>3, PTL DEF Spec
=============================================================================
