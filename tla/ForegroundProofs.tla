-------------------------- MODULE ForegroundProofs --------------------------
(***************************************************************************)
(* The foreground commands: what their goroutines and the copiers of a     *)
(* relay hold at every step, that what the far end said is not cut off but *)
(* for a tls client's last read, and that `connect` does not say that its  *)
(* socket is gone when it is not.                                          *)
(***************************************************************************)
EXTENDS Foreground, TLAPS

-----------------------------------------------------------------------------
(* The relay *)

\* Chunks are neither doubled nor made up; only a pty has a third goroutine
\* and copies its output later.
RelayShape ==
    /\ relay.toNear + relay.got <= relay.said
    /\ Kind # "pty" => relay.waiter = "gone" /\ relay.out # "later"

\* Everything the far end is ever going to say has been read.
Drained == relay.far \in {"ended", "closed"} /\ relay.toNear = 0

\* No copier is done, and nobody has been told that one is.
Copying ==
    /\ relay.pc \notin {"got", "over"} /\ relay.chan = 0
    /\ relay.in = "copy" /\ relay.out = "copy"
    /\ relay.near = "open" /\ relay.far # "closed"

\* What was said is delivered or still to be read; a tls client that is done
\* may have lost its last read.
Accounted ==
    \/ relay.got + relay.toNear = relay.said
    \/ /\ Kind \in Tls /\ relay.out # "copy"
       /\ relay.got + relay.toNear + 1 = relay.said

\* With a near end that stays, everything is accounted for, and the first thing
\* to end, of all that can end, is the output.
QuietInv ==
    relay.quiet /\ Kind # "pty" =>
        /\ relay.near \in {"open", "closed"}
        /\ Accounted
        /\ Drained \/ Copying

RelayInv == relay \in Relay /\ RelayShape /\ QuietInv

LEMMA NoRelayInv ==
    ASSUME NEW kind \in RelayKinds, relay' = NoRelay(kind)
    PROVE  RelayInv'
<1>1. relay' \in Relay
    BY ForegroundAssumption DEF NoRelay, Relay
<1>2. RelayShape' /\ QuietInv'
    BY ForegroundAssumption DEF NoRelay, RelayShape, QuietInv, Accounted, Copying, Kind
<1>3. QED
    BY <1>1, <1>2 DEF RelayInv

\* A step of the two ends, a visitor who is let in.
LEMMA EndsKeep ==
    ASSUME RelayInv,
           \/ Ends
           \/ /\ relay.pc \in {"none", "accepted"}
              /\ \E pc \in {"accepted", "wait"} : relay' = [relay EXCEPT !.pc = pc]
    PROVE  RelayInv'
<1>0. relay \in Relay /\ RelayShape /\ QuietInv /\ MaxSaid \in Nat
    BY ForegroundAssumption DEF RelayInv
<1>1. relay.near \in {"open", "finished", "gone", "closed"} /\ Kind \in RelayKinds
    BY <1>0 DEF Relay, Kind
<1>2. CASE FarSays
    <2>1. relay' \in Relay
        <3>1. relay.said + 1 \in 0..MaxSaid /\ relay.toNear + 1 \in 0..MaxSaid
            BY <1>0, <1>2 DEF FarSays, Relay, RelayShape
        <3>2. QED
            BY <1>0, <1>2, <3>1 DEF FarSays, Relay
    <2>2. RelayShape'
        BY <1>0, <1>2 DEF FarSays, Relay, RelayShape, Kind
    <2>3. QuietInv'
        BY <1>0, <1>2 DEF FarSays, Relay, QuietInv, Accounted, Drained, Copying, Kind
    <2>4. QED
        BY <2>1, <2>2, <2>3 DEF RelayInv
<1>3. CASE FarEnds
    <2>1. relay' \in Relay
        BY <1>0, <1>3 DEF FarEnds, Relay, RelayShape
    <2>2. RelayShape'
        BY <1>0, <1>3 DEF FarEnds, Relay, RelayShape, Kind
    <2>3. QuietInv'
        BY <1>0, <1>3 DEF FarEnds, Relay, QuietInv, Accounted, Drained, Copying, Kind
    <2>4. QED
        BY <2>1, <2>2, <2>3 DEF RelayInv
<1>4. CASE NearSays
    <2>1. relay' \in Relay
        <3>1. 1 \in 0..1 /\ TRUE \in BOOLEAN
            OBVIOUS
        <3>2. QED
            BY <1>0, <1>4, <3>1 DEF NearSays, Relay
    <2>2. RelayShape'
        BY <1>0, <1>4 DEF NearSays, Relay, RelayShape, Kind
    <2>3. QuietInv'
        BY <1>0, <1>4 DEF NearSays, Relay, QuietInv, Accounted, Drained, Copying, Kind
    <2>4. QED
        BY <2>1, <2>2, <2>3 DEF RelayInv
<1>5. CASE NearFinishes
    <2>1. relay' \in Relay
        BY <1>0, <1>5 DEF NearFinishes, Relay, RelayShape
    <2>2. RelayShape'
        BY <1>0, <1>5 DEF NearFinishes, Relay, RelayShape, Kind
    <2>3. QuietInv'
        BY <1>0, <1>5 DEF NearFinishes, Relay, QuietInv, Accounted, Drained, Copying, Kind
    <2>4. QED
        BY <2>1, <2>2, <2>3 DEF RelayInv
<1>6. CASE NearVanishes
    <2>1. relay' \in Relay
        BY <1>0, <1>6 DEF NearVanishes, Relay, RelayShape
    <2>2. RelayShape'
        BY <1>0, <1>6 DEF NearVanishes, Relay, RelayShape, Kind
    <2>3. QuietInv'
        BY <1>0, <1>6 DEF NearVanishes, Relay, QuietInv, Accounted, Drained, Copying, Kind
    <2>4. QED
        BY <2>1, <2>2, <2>3 DEF RelayInv
<1>7. ASSUME NEW pc \in {"accepted", "wait"}, relay.pc \in {"none", "accepted"},
             relay' = [relay EXCEPT !.pc = pc]
      PROVE  RelayInv'
    BY <1>0, <1>7 DEF RelayInv, Relay, RelayShape, QuietInv, Accounted, Drained, Copying, Kind
<1>8. QED
    BY <1>2, <1>3, <1>4, <1>5, <1>6, <1>7 DEF Ends

\* A copier that is done.
LEMMA DoneKeeps ==
    ASSUME RelayInv, NEW c \in {"in", "out"}, relay[c] = "copy",
           \/ relay' = [Done(c) EXCEPT !.quiet = FALSE]
           \/ /\ relay' = Done(c)
              /\ \/ c = "in" /\ relay.near # "open"
                 \/ /\ c = "out"
                    /\ \/ relay.far = "closed"
                       \/ relay.far = "ended" /\ relay.toNear = 0
    PROVE  RelayInv'
<1>0. relay \in Relay /\ RelayShape /\ QuietInv
    BY DEF RelayInv
<1>1. CASE c = "in"
    <2> DEFINE r == Done(c)
    <2>0. relay.in = "copy"
        BY <1>1
    <2>1. /\ r \in Relay
          /\ r.in \in {"report", "gone"} /\ r.far \in {relay.far, "closed"}
          /\ r.kind = relay.kind /\ r.pc = relay.pc /\ r.out = relay.out
          /\ r.waiter = relay.waiter /\ r.chan = relay.chan /\ r.near = relay.near
          /\ r.said = relay.said /\ r.toNear = relay.toNear /\ r.got = relay.got
          /\ r.quiet = relay.quiet
        <3>1. CASE Kind = "exec"
            BY <1>0, <1>1, <3>1 DEF Done, Relay, Tls
        <3>2. CASE Kind \in Tls
            BY <1>0, <1>1, <3>2 DEF Done, Relay, Tls
        <3>3. CASE Kind \notin Tls \cup {"exec"}
            BY <1>0, <1>1, <3>3 DEF Done, Relay
        <3>4. QED
            BY <3>1, <3>2, <3>3
    <2>2. relay' = r \/ relay' = [r EXCEPT !.quiet = FALSE]
        OBVIOUS
    <2> HIDE DEF r
    <2>4. relay' \in Relay
        BY <2>1, <2>2 DEF Relay
    <2>5. RelayShape'
        BY <1>0, <2>0, <2>1, <2>2 DEF Relay, RelayShape, Kind
    <2>6. QuietInv'
        BY <1>0, <1>1, <2>0, <2>1, <2>2 DEF Relay, QuietInv, Accounted, Drained, Copying, Kind
    <2>7. QED
        BY <2>4, <2>5, <2>6 DEF RelayInv
<1>2. CASE c = "out"
    <2> DEFINE r == Done(c)
    <2>0. relay.out = "copy"
        BY <1>2
    <2>1. /\ r \in Relay
          /\ r.out \in {"report", "gone"} /\ r.near \in {relay.near, "closed"}
          /\ r.kind = relay.kind /\ r.pc = relay.pc /\ r.in = relay.in
          /\ r.waiter = relay.waiter /\ r.chan = relay.chan /\ r.far = relay.far
          /\ r.said = relay.said /\ r.toNear = relay.toNear /\ r.got = relay.got
          /\ r.quiet = relay.quiet
        <3>1. CASE Kind = "exec"
            BY <1>0, <1>2, <3>1 DEF Done, Relay, Tls
        <3>2. CASE Kind \in Tls
            BY <1>0, <1>2, <3>2 DEF Done, Relay, Tls
        <3>3. CASE Kind \notin Tls \cup {"exec"}
            BY <1>0, <1>2, <3>3 DEF Done, Relay
        <3>4. QED
            BY <3>1, <3>2, <3>3
    <2>2. relay' = r \/ relay' = [r EXCEPT !.quiet = FALSE]
        OBVIOUS
    <2> HIDE DEF r
    <2>4. relay' \in Relay
        BY <2>1, <2>2 DEF Relay
    <2>5. RelayShape'
        BY <1>0, <2>0, <2>1, <2>2 DEF Relay, RelayShape, Kind
    <2>6. QuietInv'
        BY <1>0, <1>2, <2>0, <2>1, <2>2 DEF Relay, QuietInv, Accounted, Drained, Copying, Kind
    <2>7. QED
        BY <2>4, <2>5, <2>6 DEF RelayInv
<1>3. QED
    BY <1>1, <1>2

\* The tls client's output is done, and its last read with it.
LEMMA LastReadKeeps ==
    ASSUME RelayInv, LastReadLost
    PROVE  RelayInv'
<1>0. relay \in Relay /\ RelayShape /\ QuietInv /\ MaxSaid \in Nat
    BY ForegroundAssumption DEF RelayInv
<1>1. /\ relay.kind \in Tls /\ relay.out = "copy" /\ relay.far = "ended"
      /\ relay.toNear = 1
    BY DEF LastReadLost, Kind
<1> DEFINE r == Done("out")
<1>2. /\ r \in Relay
      /\ r.out = "report" /\ r.near \in {relay.near, "closed"}
      /\ r.kind = relay.kind /\ r.pc = relay.pc /\ r.in = relay.in
      /\ r.waiter = relay.waiter /\ r.chan = relay.chan /\ r.far = relay.far
      /\ r.said = relay.said /\ r.got = relay.got /\ r.quiet = relay.quiet
    BY <1>0, <1>1 DEF Done, Relay, Tls, Kind
<1>3. relay' = [r EXCEPT !.toNear = 0]
    BY DEF LastReadLost
<1> HIDE DEF r
<1>4. relay' \in Relay
    BY <1>0, <1>2, <1>3 DEF Relay
<1>5. RelayShape'
    BY <1>0, <1>1, <1>2, <1>3 DEF Relay, RelayShape, Kind, Tls
<1>6. QuietInv'
    BY <1>0, <1>1, <1>2, <1>3 DEF Relay, QuietInv, Accounted, Drained, Copying, Kind, Tls
<1>7. QED
    BY <1>4, <1>5, <1>6 DEF RelayInv

LEMMA CopiesKeep ==
    ASSUME RelayInv, Copies
    PROVE  RelayInv'
<1>0. relay \in Relay /\ RelayShape /\ QuietInv /\ MaxSaid \in Nat
    BY ForegroundAssumption DEF RelayInv
<1>1. /\ relay.near \in {"open", "finished", "gone", "closed"} /\ Kind \in RelayKinds
      /\ relay.chan \in 0..2 /\ relay.toNear \in Nat
    BY <1>0 DEF Relay, Kind
<1>2. CASE CopyOut
    <2>1. relay' \in Relay
        <3>1. relay.toNear - 1 \in 0..MaxSaid /\ relay.got + 1 \in 0..MaxSaid
            BY <1>0, <1>2 DEF CopyOut, Relay, RelayShape
        <3>2. QED
            BY <1>0, <1>2, <3>1 DEF CopyOut, Relay
    <2>2. RelayShape'
        BY <1>0, <1>2 DEF CopyOut, Relay, RelayShape, Kind
    <2>3. QuietInv'
        BY <1>0, <1>2 DEF CopyOut, Relay, QuietInv, Accounted, Drained, Copying, Kind
    <2>4. QED
        BY <2>1, <2>2, <2>3 DEF RelayInv
<1>3. CASE OutEnds
    BY <1>3, DoneKeeps DEF OutEnds
<1>13. CASE LastReadLost
    BY <1>13, LastReadKeeps
<1>4. CASE CopyIn
    <2>1. relay' \in Relay
        <3>1. 0 \in 0..1
            OBVIOUS
        <3>2. QED
            BY <1>0, <1>4, <3>1 DEF CopyIn, Relay
    <2>2. RelayShape'
        BY <1>0, <1>4 DEF CopyIn, Relay, RelayShape, Kind
    <2>3. QuietInv'
        BY <1>0, <1>4 DEF CopyIn, Relay, QuietInv, Accounted, Drained, Copying, Kind
    <2>4. QED
        BY <2>1, <2>2, <2>3 DEF RelayInv
<1>5. CASE CopyInLate
    <2>1. PICK n \in {0, relay.toNear} :
             relay' = [relay EXCEPT !.toFar = 0, !.quiet = FALSE, !.toNear = n]
        BY <1>5 DEF CopyInLate
    <2>2. n \in 0..MaxSaid /\ n <= relay.toNear /\ 0 \in 0..1
        BY <1>0 DEF Relay
    <2>3. relay' \in Relay
        BY <1>0, <2>1, <2>2 DEF Relay
    <2>4. RelayShape'
        BY <1>0, <2>1, <2>2 DEF Relay, RelayShape, Kind
    <2>5. QuietInv'
        BY <1>0, <2>1 DEF Relay, QuietInv, Accounted
    <2>6. QED
        BY <2>3, <2>4, <2>5 DEF RelayInv
<1>6. CASE InEnds
    BY <1>6, DoneKeeps DEF InEnds
<1>7. CASE OutStarts \/ CommandReaped
    <2>1. relay' \in Relay
        BY <1>0, <1>7 DEF OutStarts, CommandReaped, Relay
    <2>2. RelayShape'
        BY <1>0, <1>7 DEF OutStarts, CommandReaped, Relay, RelayShape, Kind
    <2>3. QuietInv'
        BY <1>0, <1>7 DEF OutStarts, CommandReaped, Relay, RelayShape, QuietInv, Accounted, Kind
    <2>4. QED
        BY <2>1, <2>2, <2>3 DEF RelayInv
<1>8. ASSUME NEW c \in {"in", "out"}, CopyFails(c)
      PROVE  RelayInv'
    BY <1>8, DoneKeeps DEF CopyFails, WriteFails
<1>9. ASSUME NEW g \in {"in", "out", "waiter"}, Report(g)
      PROVE  RelayInv'
    <2>1. ChanCap \in 0..2
        BY DEF ChanCap
    <2>2. relay.chan < ChanCap => relay.chan + 1 \in 0..2
        BY <1>1, <2>1
    <2>3. CASE g = "in"
        <3>0. relay.in = "report"
            BY <1>9, <2>3 DEF Report
        <3>1. CASE relay.chan < ChanCap /\ relay' = [relay EXCEPT !.in = "gone", !.chan = @ + 1]
            <4>1. relay' \in Relay
                BY <1>0, <2>2, <3>0, <3>1 DEF Relay
            <4>2. RelayShape'
                BY <1>0, <3>0, <3>1 DEF Relay, RelayShape, Kind
            <4>3. QuietInv'
                BY <1>0, <3>0, <3>1 DEF Relay, RelayShape, QuietInv, Accounted, Drained, Copying, Kind
            <4>4. QED
                BY <4>1, <4>2, <4>3 DEF RelayInv
        <3>2. CASE relay' = [relay EXCEPT !.in = "gone", !.pc = "got"]
            <4>1. relay' \in Relay
                BY <1>0, <3>2 DEF Relay
            <4>2. RelayShape'
                BY <1>0, <3>0, <3>2 DEF Relay, RelayShape, Kind
            <4>3. QuietInv'
                BY <1>0, <3>0, <3>2 DEF Relay, RelayShape, QuietInv, Accounted, Drained, Copying, Kind
            <4>4. QED
                BY <4>1, <4>2, <4>3 DEF RelayInv
        <3>3. QED
            BY <1>9, <2>3, <3>1, <3>2 DEF Report
    <2>4. CASE g = "out"
        <3>0. relay.out = "report"
            BY <1>9, <2>4 DEF Report
        <3>1. CASE relay.chan < ChanCap /\ relay' = [relay EXCEPT !.out = "gone", !.chan = @ + 1]
            <4>1. relay' \in Relay
                BY <1>0, <2>2, <3>0, <3>1 DEF Relay
            <4>2. RelayShape'
                BY <1>0, <3>0, <3>1 DEF Relay, RelayShape, Kind
            <4>3. QuietInv'
                BY <1>0, <3>0, <3>1 DEF Relay, RelayShape, QuietInv, Accounted, Drained, Copying, Kind
            <4>4. QED
                BY <4>1, <4>2, <4>3 DEF RelayInv
        <3>2. CASE relay' = [relay EXCEPT !.out = "gone", !.pc = "got"]
            <4>1. relay' \in Relay
                BY <1>0, <3>2 DEF Relay
            <4>2. RelayShape'
                BY <1>0, <3>0, <3>2 DEF Relay, RelayShape, Kind
            <4>3. QuietInv'
                BY <1>0, <3>0, <3>2 DEF Relay, RelayShape, QuietInv, Accounted, Drained, Copying, Kind
            <4>4. QED
                BY <4>1, <4>2, <4>3 DEF RelayInv
        <3>3. QED
            BY <1>9, <2>4, <3>1, <3>2 DEF Report
    <2>5. CASE g = "waiter"
        <3>0. relay.waiter = "report"
            BY <1>9, <2>5 DEF Report
        <3>1. CASE relay.chan < ChanCap /\ relay' = [relay EXCEPT !.waiter = "gone", !.chan = @ + 1]
            <4>1. relay' \in Relay
                BY <1>0, <2>2, <3>0, <3>1 DEF Relay
            <4>2. RelayShape'
                BY <1>0, <3>0, <3>1 DEF Relay, RelayShape, Kind
            <4>3. QuietInv'
                BY <1>0, <3>0, <3>1 DEF Relay, RelayShape, QuietInv, Accounted, Drained, Copying, Kind
            <4>4. QED
                BY <4>1, <4>2, <4>3 DEF RelayInv
        <3>2. CASE relay' = [relay EXCEPT !.waiter = "gone", !.pc = "got"]
            <4>1. relay' \in Relay
                BY <1>0, <3>2 DEF Relay
            <4>2. RelayShape'
                BY <1>0, <3>0, <3>2 DEF Relay, RelayShape, Kind
            <4>3. QuietInv'
                BY <1>0, <3>0, <3>2 DEF Relay, RelayShape, QuietInv, Accounted, Drained, Copying, Kind
            <4>4. QED
                BY <4>1, <4>2, <4>3 DEF RelayInv
        <3>3. QED
            BY <1>9, <2>5, <3>1, <3>2 DEF Report
    <2>6. QED
        BY <2>3, <2>4, <2>5
<1>10. CASE Receive
    <2>1. relay.pc = "wait" /\ relay.chan > 0 /\ relay.chan - 1 \in 0..2
          /\ relay' = [relay EXCEPT !.pc = "got", !.chan = relay.chan - 1]
        BY <1>0, <1>1, <1>10 DEF Receive, Relay
    <2>2. relay' \in Relay
        BY <1>0, <2>1 DEF Relay
    <2>3. RelayShape'
        BY <1>0, <2>1 DEF Relay, RelayShape, Kind
    <2>4. QuietInv'
        BY <1>0, <2>1 DEF Relay, QuietInv, Accounted, Drained, Copying, Kind
    <2>5. QED
        BY <2>2, <2>3, <2>4 DEF RelayInv
<1>11. CASE ContextDone \/ CommandDone
    <2>1. relay' \in Relay
        BY <1>0, <1>11 DEF ContextDone, CommandDone, Relay
    <2>2. RelayShape'
        BY <1>0, <1>11 DEF ContextDone, CommandDone, Relay, RelayShape, Kind
    <2>3. QuietInv'
        BY <1>0, <1>11 DEF ContextDone, CommandDone, OutputCopied, Relay, QuietInv, Accounted, Drained, Copying, Kind
    <2>4. QED
        BY <2>1, <2>2, <2>3 DEF RelayInv
<1>12. CASE GiveUp
    <2>1. relay.pc = "got"
        BY <1>12 DEF GiveUp
    <2>2. PICK near \in {relay.near, "closed"}, far \in {relay.far, "closed", "hungUp"} :
             /\ relay' = [relay EXCEPT !.pc = "over", !.near = near, !.far = far]
             /\ far = "hungUp" => Kind = "pty" \/ relay.far = "hungUp"
        <3>1. CASE Kind = "forward"
            BY <1>0, <1>12, <3>1 DEF GiveUp, Relay
        <3>2. CASE Kind \in Shells
            BY <1>0, <1>12, <3>2 DEF GiveUp, Relay, Shells
        <3>3. CASE Kind \notin Shells /\ Kind # "forward"
            BY <1>0, <1>12, <3>3 DEF GiveUp, Relay
        <3>4. QED
            BY <3>1, <3>2, <3>3
    <2>3. relay' \in Relay
        BY <1>0, <2>2 DEF Relay
    <2>4. RelayShape'
        BY <1>0, <2>2 DEF Relay, RelayShape, Kind
    <2>5. QuietInv'
        BY <1>0, <2>1, <2>2 DEF Relay, QuietInv, Accounted, Drained, Copying, Kind
    <2>6. QED
        BY <2>3, <2>4, <2>5 DEF RelayInv
<1>14. QED
    BY <1>2, <1>3, <1>4, <1>5, <1>6, <1>7, <1>8, <1>9, <1>10, <1>11, <1>12, <1>13 DEF Copies

\* What a step can do to the relay.
LEMMA RelayEffect ==
    ASSUME [Next]_vars
    PROVE  \/ relay' = relay
           \/ relay' = NoRelay(Kind)
           \/ /\ relay.pc \in {"none", "accepted"}
              /\ \E pc \in {"accepted", "wait"} : relay' = [relay EXCEPT !.pc = pc]
           \/ Ends
           \/ Copies
<1>0. USE DEF Exit, Fatal, MainGoes, HandlerGoes, InSsh, OnlyRelay, sshVars
<1>1. CASE UNCHANGED vars
    BY <1>1 DEF vars
<1>2. CASE MainStep
    <2>1. CASE Post \/ Gets \/ Register \/ Organization
        BY <2>1 DEF Post, Gets, Register, Organization
    <2>2. CASE Return \/ CleanUp \/ MainChecks
        BY <2>2 DEF Return, CleanUp, MainChecks
    <2>3. CASE MainDeletes
        BY <2>3 DEF MainDeletes, Delete
    <2>4. QED
        BY <1>2, <2>1, <2>2, <2>3 DEF MainStep
<1>3. CASE HandlerStep
    BY <1>3 DEF HandlerStep, Waits, HandlerDeletes, HandlerChecks, Delete
<1>4. CASE Accept \/ ConnectFails \/ Connected
    BY <1>4 DEF Accept, ConnectFails, Connected
<1>5. CASE RelayGoes \/ WriteIsFatal \/ TlsReturns
    BY <1>5 DEF RelayGoes, WriteIsFatal, TlsReturns
<1>6. CASE Interrupt \/ UserDeletes
    BY <1>6 DEF Interrupt, UserDeletes
<1>7. QED
    BY <1>1, <1>2, <1>3, <1>4, <1>5, <1>6 DEF Next

LEMMA RelayKept == RelayInv /\ Kind \in RelayKinds /\ [Next]_vars => RelayInv'
    BY RelayEffect, NoRelayInv, EndsKeep, CopiesKeep DEF RelayInv, RelayShape, QuietInv,
       Accounted, Drained, Copying, Kind

-----------------------------------------------------------------------------
(* The goroutines and the connections *)

\* A KeepAlive that has counted to MaxMisses is gone.
Probed == \A c \in Clients : client[c].probes # "none" => client[c].missed < MaxMisses

ControlOK ==
    /\ command \in Commands /\ main \in MainPC
    /\ socket \in BOOLEAN /\ err \in BOOLEAN
    /\ client \in [Clients -> Client]
    /\ cur \in Clients \cup {None} /\ owner \in Clients \cup {None}
    /\ main \in SshPC \ {"tunnelInfo", "sign", "dial", "returned"} => cur # None
    /\ handler \in HandlerPC
    /\ exit \in {"running", "ok", "failed"}
    /\ faults \in 0..MaxFaults

ControlInv == ControlOK /\ Probed

LEMMA FaultCounts ==
    ASSUME faults \in 0..MaxFaults, NEW kind, Fault(kind)
    PROVE  faults' \in 0..MaxFaults
BY ForegroundAssumption DEF Fault

LEMMA NoClientOK == NoClient \in Client /\ NoClient.probes = "none"
BY ForegroundAssumption DEF NoClient, Client

\* The process ends.
LEMMA ExitOK ==
    ASSUME ControlInv, NEW how \in {"ok", "failed"}, Exit(how),
           socket' \in BOOLEAN, err' \in BOOLEAN, faults' \in 0..MaxFaults
    PROVE  ControlInv'
<1>1. main' \in MainPC /\ main' \notin SshPC
    BY DEF Exit, MainPC, SshPC
<1>2. client' \in [Clients -> Client] /\ Probed'
    BY NoClientOK DEF Exit, Probed
<1>3. QED
    BY <1>1, <1>2 DEF ControlInv, ControlOK, Exit, HandlerPC

\* Steps that leave the connections alone.
LEMMA MainGoesOK ==
    ASSUME ControlInv, UNCHANGED <<command, sshVars, exit>>,
           socket' \in BOOLEAN, err' \in BOOLEAN, faults' \in 0..MaxFaults,
           main' \in MainPC, handler' \in HandlerPC,
           \/ main' \in {main} \cup (MainPC \ SshPC) \cup {"tunnelInfo", "sign", "dial", "returned"}
           \/ cur # None
    PROVE  ControlInv'
BY DEF ControlInv, ControlOK, Probed, sshVars

\* Steps of one connection.
LEMMA ClientOK ==
    ASSUME ControlInv, NEW c \in Clients, NEW r \in Client,
           client' = [client EXCEPT ![c] = r],
           r.probes # "none" => r.missed < MaxMisses,
           UNCHANGED <<command, socket, handler, err, exit>>,
           cur' \in Clients \cup {None}, owner' \in Clients \cup {None},
           faults' \in 0..MaxFaults, main' \in MainPC,
           main' \in SshPC \ {"tunnelInfo", "sign", "dial", "returned"} => cur' # None
    PROVE  ControlInv'
<1>1. client' \in [Clients -> Client] /\ Probed'
    BY DEF ControlInv, ControlOK, Probed
<1>2. QED
    BY <1>1 DEF ControlInv, ControlOK

\* DELETE, of either goroutine.
LEMMA DeleteOK ==
    ASSUME ControlInv, MainDeletes \/ (handler = "delete" /\ Delete(HandlerGoes))
    PROVE  ControlInv'
<1>1. faults' \in 0..MaxFaults
    BY FaultCounts DEF MainDeletes, Delete, ControlInv, ControlOK
<1>2. socket' \in BOOLEAN /\ err' \in BOOLEAN
    BY DEF MainDeletes, Delete, ControlInv, ControlOK
<1>3. CASE MainDeletes
    <2>1. main' = "check" /\ "check" \in MainPC \ SshPC
          /\ UNCHANGED <<command, sshVars, handler, exit>>
        BY <1>3 DEF MainDeletes, Delete, MainGoes, MainPC, SshPC
    <2>2. QED
        BY <1>1, <1>2, <2>1, MainGoesOK DEF ControlInv, ControlOK
<1>4. CASE Delete(HandlerGoes)
    <2>1. handler' = "check" /\ "check" \in HandlerPC
          /\ UNCHANGED <<command, main, sshVars, exit>>
        BY <1>4 DEF Delete, HandlerGoes, HandlerPC
    <2>2. QED
        BY <1>1, <1>2, <2>1, MainGoesOK DEF ControlInv, ControlOK
<1>5. QED
    BY <1>3, <1>4

LEMMA HandlerDeletesOK ==
    ASSUME ControlInv, HandlerDeletes
    PROVE  ControlInv'
<1>1. CASE handler = "delete" /\ Delete(HandlerGoes)
    BY <1>1, DeleteOK
<1>2. CASE Fault("token") /\ Fatal /\ UNCHANGED <<socket, err>>
    <2>1. socket' \in BOOLEAN /\ err' \in BOOLEAN /\ faults' \in 0..MaxFaults
        BY <1>2, FaultCounts DEF ControlInv, ControlOK
    <2>2. QED
        BY <1>2, <2>1, ExitOK DEF Fatal
<1>3. QED
    BY <1>1, <1>2 DEF HandlerDeletes

\* What comes before SshConnect and after it.
LEMMA AroundSshOK ==
    ASSUME ControlInv,
           Post \/ Gets \/ Register \/ Organization \/ Return \/ CleanUp \/ MainChecks
    PROVE  ControlInv'
<1>0. socket \in BOOLEAN /\ err \in BOOLEAN /\ faults \in 0..MaxFaults /\ handler \in HandlerPC
    BY DEF ControlInv, ControlOK
<1>1. /\ {"gets", "register", "organization", "delete"} \subseteq MainPC \ SshPC
      /\ "tunnelInfo" \in MainPC /\ "started" \in HandlerPC
    BY DEF MainPC, SshPC, HandlerPC
<1>2. socket' \in BOOLEAN /\ err' \in BOOLEAN
    BY <1>0 DEF Post, Gets, Register, Organization, Return, CleanUp, MainChecks
<1>3. faults' \in 0..MaxFaults
    BY <1>0, FaultCounts DEF Post, Gets, Register, Organization, Return, CleanUp, MainChecks
<1>4. \/ \E how \in {"ok", "failed"} : Exit(how)
      \/ /\ UNCHANGED <<command, sshVars, exit>>
         /\ main' \in {"gets", "register", "organization", "delete", "tunnelInfo"}
         /\ handler' \in {handler, "started"}
    BY DEF Post, Gets, Register, Organization, Return, CleanUp, MainChecks, Fatal, MainGoes
<1>5. QED
    BY <1>0, <1>1, <1>2, <1>3, <1>4, ExitOK, MainGoesOK

\* SshConnect.
LEMMA SshOK ==
    ASSUME ControlInv, SshStep \/ SessionEnds \/ ServerFrees, InSsh
    PROVE  ControlInv'
<1>0. /\ socket \in BOOLEAN /\ err \in BOOLEAN /\ faults \in 0..MaxFaults
      /\ handler \in HandlerPC /\ handler' = handler /\ err' = err /\ exit' = exit
      /\ cur \in Clients \cup {None} /\ owner \in Clients \cup {None}
      /\ client \in [Clients -> Client]
    BY DEF ControlInv, ControlOK, InSsh
<1>1. SshPC \subseteq MainPC
    BY DEF MainPC
<1>2. CASE TunnelInfo \/ Sign
    <2>1. /\ UNCHANGED <<command, socket, sshVars, exit>>
          /\ main' \in {"sign", "dial", "returned"} /\ main' \in SshPC
        BY <1>0, <1>2 DEF TunnelInfo, Sign, OnlyMain, SshPC
    <2>2. faults' \in 0..MaxFaults
        BY <1>0, <1>2, FaultCounts DEF TunnelInfo, Sign
    <2>3. QED
        BY <1>0, <1>1, <2>1, <2>2, MainGoesOK
<1>3. CASE Setup \/ SessionEnds \/ ConnectionLost
    <2>1. /\ UNCHANGED <<command, socket, sshVars, exit>>
          /\ main' \in {"wait", "closeListener", "stopKeepAlive"} /\ main' \in SshPC
          /\ main \in {"listen", "setup", "wait"}
        BY <1>0, <1>3 DEF Setup, SessionEnds, ConnectionLost, OnlyMain, SshPC, At
    <2>2. cur # None
        BY <2>1 DEF ControlInv, ControlOK, SshPC
    <2>3. faults' \in 0..MaxFaults
        BY <1>0, <1>3, FaultCounts DEF Setup, SessionEnds, ConnectionLost
    <2>4. QED
        BY <1>0, <1>1, <2>1, <2>2, <2>3, MainGoesOK
<1>4. CASE Dial
    <2>1. CASE main' = "handshake"
        <3>1. PICK c \in Clients :
                 /\ Free(c)
                 /\ client' = [client EXCEPT ![c].link = "up"]
                 /\ cur' = c
            BY <1>4, <2>1 DEF Dial
        <3> DEFINE r == [client[c] EXCEPT !.link = "up"]
        <3>2. client' = [client EXCEPT ![c] = r]
            BY <1>0, <3>1
        <3>3. r \in Client /\ r.missed < MaxMisses
            <4>1. client[c] = NoClient /\ 0 < MaxMisses
                BY <3>1, ForegroundAssumption DEF Free
            <4>2. r = [NoClient EXCEPT !.link = "up"]
                BY <4>1
            <4>3. r \in Client
                BY <4>2, NoClientOK DEF Client
            <4>4. r.missed = 0
                BY <4>2 DEF NoClient
            <4>5. QED
                BY <4>1, <4>3, <4>4
        <3>4. /\ UNCHANGED <<command, socket, owner>> /\ main' \in MainPC
              /\ cur' \in Clients /\ cur' # None
            BY <1>1, <1>4, <2>1, <3>1, ForegroundAssumption DEF Dial, SshPC
        <3>5. faults' \in 0..MaxFaults
            BY <1>0, <1>4, FaultCounts DEF Dial
        <3> HIDE DEF r
        <3>6. QED
            BY <1>0, <3>2, <3>3, <3>4, <3>5, ClientOK
    <2>2. CASE main' # "handshake"
        <3>1. Fault("dial") /\ main' = "sign" /\ UNCHANGED <<client, cur>>
              /\ UNCHANGED <<command, socket, owner>> /\ "sign" \in SshPC
            BY <1>4, <2>2 DEF Dial, SshPC
        <3>2. faults' \in 0..MaxFaults
            BY <1>0, <3>1, FaultCounts
        <3>3. QED
            BY <1>0, <1>1, <3>1, <3>2, MainGoesOK DEF sshVars
    <2>3. QED
        BY <2>1, <2>2
<1>10. CASE Handshake
    <2>1. cur \in Clients /\ cur # None
        BY <1>10 DEF Handshake, ControlInv, ControlOK, SshPC, At
    <2>2. client[cur] \in Client
        BY <1>0, <2>1
    <2>3. faults' \in 0..MaxFaults
        BY <1>0, <1>10, FaultCounts DEF Handshake
    <2>4. {"listen", "sign"} \subseteq SshPC /\ UNCHANGED <<command, socket, owner>>
        BY <1>10 DEF Handshake, SshPC
    <2>5. CASE /\ client' = [client EXCEPT ![cur].probes = Probing, ![cur].missed = 0]
               /\ main' = "listen" /\ cur' = cur
        <3> DEFINE r == [client[cur] EXCEPT !.probes = Probing, !.missed = 0]
        <3>1. client' = [client EXCEPT ![cur] = r]
            BY <1>0, <2>5
        <3>2. 0 \in 0..MaxMisses /\ 0 < MaxMisses
            BY ForegroundAssumption
        <3>3. r \in Client /\ r.missed < MaxMisses
            BY <2>2, <3>2 DEF Probing, Client
        <3> HIDE DEF r
        <3>4. QED
            BY <1>0, <1>1, <2>1, <2>3, <2>4, <2>5, <3>1, <3>3, ClientOK
    <2>6. CASE /\ client' = [client EXCEPT ![cur].link = "closed"]
               /\ main' = "sign" /\ cur' = None
        <3> DEFINE r == [client[cur] EXCEPT !.link = "closed"]
        <3>1. client' = [client EXCEPT ![cur] = r]
            BY <1>0, <2>6
        <3>2. r \in Client /\ (r.probes # "none" => r.missed < MaxMisses)
            BY <2>1, <2>2 DEF Client, ControlInv, Probed
        <3> HIDE DEF r
        <3>3. QED
            BY <1>0, <1>1, <2>1, <2>3, <2>4, <2>6, <3>1, <3>2, ClientOK
    <2>7. QED
        BY <1>10, <2>5, <2>6 DEF Handshake
<1>5. CASE Listen \/ CloseListener
    <2>4. faults' \in 0..MaxFaults
        BY <1>0, <1>5, FaultCounts DEF Listen, CloseListener
    <2>1. /\ UNCHANGED <<command, socket, client, cur>>
          /\ main' \in {"setup", "stopKeepAlive"} /\ main' \in SshPC
          /\ main \in {"listen", "closeListener"}
          /\ owner' \in {owner, cur, None}
        BY <1>5 DEF Listen, CloseListener, SshPC, At
    <2>2. cur # None
        BY <2>1 DEF ControlInv, ControlOK, SshPC
    <2>3. QED
        BY <1>0, <1>1, <2>1, <2>2, <2>4 DEF ControlInv, ControlOK, Probed
<1>6. CASE StopKeepAlive
    <2>1. cur \in Clients
        BY <1>6 DEF StopKeepAlive, ControlInv, ControlOK, SshPC, At
    <2> DEFINE r == [client[cur] EXCEPT !.done = 1]
    <2>2. client[cur] \in Client /\ client[cur].done = 0
        <3>1. client[cur] \in Client
            BY <1>0, <2>1
        <3>2. QED
            BY <1>6, <3>1 DEF StopKeepAlive, Client
    <2>3. client' = [client EXCEPT ![cur] = r]
        BY <1>0, <1>6, <2>2 DEF StopKeepAlive
    <2>4. r \in Client /\ (r.probes # "none" => r.missed < MaxMisses)
        <3>1. 1 \in 0..1
            OBVIOUS
        <3>2. QED
            BY <2>1, <2>2, <3>1 DEF Client, ControlInv, Probed
    <2>5. UNCHANGED <<command, socket, cur, owner, faults>> /\ main' \in MainPC
        BY <1>1, <1>6 DEF StopKeepAlive, SshPC
    <2> HIDE DEF r
    <2>6. QED
        BY <1>0, <2>1, <2>3, <2>4, <2>5, ClientOK, ForegroundAssumption
<1>7. CASE CloseClient
    <2>1. cur \in Clients
        BY <1>7 DEF CloseClient, ControlInv, ControlOK, SshPC, At
    <2> DEFINE r == [client[cur] EXCEPT !.link = "closed"]
    <2>2. client[cur] \in Client
        BY <1>0, <2>1
    <2>3. client' = [client EXCEPT ![cur] = r]
        BY <1>0, <1>7 DEF CloseClient
    <2>4. r \in Client /\ (r.probes # "none" => r.missed < MaxMisses)
        BY <2>1, <2>2 DEF Client, ControlInv, Probed
    <2>5. UNCHANGED <<command, socket, owner, faults>> /\ main' = "sign" /\ cur' = None
          /\ main' \in MainPC
        BY <1>1, <1>7 DEF CloseClient, SshPC
    <2> HIDE DEF r
    <2>6. QED
        BY <1>0, <2>1, <2>3, <2>4, <2>5, ClientOK
<1>8. CASE ServerFrees
    BY <1>0, <1>8 DEF ServerFrees, ControlInv, ControlOK, Probed
<1>9. QED
    BY <1>2, <1>3, <1>4, <1>5, <1>6, <1>7, <1>8, <1>10 DEF SshStep

\* The connections and their KeepAlive.
LEMMA KeepAliveOK ==
    ASSUME ControlInv, NEW c \in Clients,
           KeepAliveStep(c) \/ GoesSilent(c) \/ Forgotten(c), InSsh
    PROVE  ControlInv'
<1>0. /\ client \in [Clients -> Client] /\ client[c] \in Client
      /\ faults \in 0..MaxFaults /\ MaxMisses \in Nat \ {0}
      /\ client[c].probes # "none" => client[c].missed < MaxMisses
    BY ForegroundAssumption DEF ControlInv, ControlOK, Probed
<1>1. ASSUME NEW r \in Client, client' = [client EXCEPT ![c] = r],
             r.probes # "none" => r.missed < MaxMisses,
             faults' \in 0..MaxFaults, OnlyClient
      PROVE  ControlInv'
    <2>1. /\ cur' \in Clients \cup {None} /\ owner' \in Clients \cup {None} /\ main' \in MainPC
          /\ main' \in SshPC \ {"tunnelInfo", "sign", "dial", "returned"} => cur' # None
          /\ UNCHANGED <<command, socket, handler, err, exit>>
        BY <1>1 DEF OnlyClient, InSsh, ControlInv, ControlOK
    <2>2. QED
        BY <1>1, <2>1, ClientOK
<1>2. CASE Stopped(c)
    <2> DEFINE r == [client[c] EXCEPT !.probes = "none", !.done = 0]
    <2>1. client' = [client EXCEPT ![c] = r] /\ OnlyClient /\ faults' = faults
        BY <1>0, <1>2 DEF Stopped
    <2>2. r \in Client /\ r.probes = "none"
        <3>1. 0 \in 0..1
            OBVIOUS
        <3>2. QED
            BY <1>0, <3>1 DEF Client
    <2> HIDE DEF r
    <2>3. QED
        BY <1>0, <1>1, <2>1, <2>2
<1>3. CASE Tick(c)
    <2> DEFINE r == [client[c] EXCEPT !.probes = "probe"]
    <2>1. client' = [client EXCEPT ![c] = r] /\ OnlyClient /\ faults' = faults
          /\ client[c].probes = "tick"
        BY <1>0, <1>3 DEF Tick
    <2>2. r \in Client /\ r.missed = client[c].missed
        BY <1>0 DEF Client
    <2> HIDE DEF r
    <2>3. QED
        BY <1>0, <1>1, <2>1, <2>2
<1>4. CASE Answered(c)
    <2> DEFINE r == [client[c] EXCEPT !.probes = "tick", !.missed = 0]
    <2>1. client' = [client EXCEPT ![c] = r] /\ OnlyClient /\ faults' = faults
        BY <1>0, <1>4 DEF Answered
    <2>2. r \in Client /\ r.missed = 0
        <3>1. 0 \in 0..MaxMisses
            BY <1>0
        <3>2. QED
            BY <1>0, <3>1 DEF Client
    <2> HIDE DEF r
    <2>3. r.missed < MaxMisses
        BY <1>0, <2>2
    <2>4. QED
        BY <1>0, <1>1, <2>1, <2>2, <2>3
<1>5. CASE Missed(c)
    <2>0. /\ client[c].probes = "probe" /\ OnlyClient
          /\ client[c].missed < MaxMisses /\ client[c].missed \in Nat
        <3>1. client[c].missed \in Nat
            BY <1>0 DEF Client
        <3>2. QED
            BY <1>0, <1>5, <3>1 DEF Missed
    <2>1. faults' \in 0..MaxFaults
        BY <1>0, <1>5, FaultCounts DEF Missed
    <2>2. PICK n \in 0..MaxMisses : n = client[c].missed + 1
        BY <1>0, <2>0
    <2> DEFINE r == [client[c] EXCEPT
                       !.missed = n,
                       !.link = IF n >= MaxMisses THEN "closed" ELSE @,
                       !.probes = IF n >= MaxMisses THEN "none" ELSE "tick"]
    <2>3. client' = [client EXCEPT ![c] = r]
        BY <1>0, <1>5, <2>2 DEF Missed
    <2>4. r \in Client /\ r.missed = n
        BY <1>0, <2>2 DEF Client
    <2>5. r.probes # "none" => ~(n >= MaxMisses)
        BY <1>0 DEF Client
    <2>6. ~(n >= MaxMisses) => n < MaxMisses
        BY <1>0, <2>2
    <2> HIDE DEF r
    <2>7. QED
        BY <1>1, <2>0, <2>1, <2>3, <2>4, <2>5, <2>6
<1>6. CASE GoesSilent(c)
    <2> DEFINE r == [client[c] EXCEPT !.link = "silent"]
    <2>1. client' = [client EXCEPT ![c] = r] /\ OnlyClient
        BY <1>0, <1>6 DEF GoesSilent
    <2>2. r \in Client /\ r.missed = client[c].missed /\ r.probes = client[c].probes
        BY <1>0 DEF Client
    <2>3. faults' \in 0..MaxFaults
        BY <1>0, <1>6, FaultCounts DEF GoesSilent
    <2> HIDE DEF r
    <2>4. QED
        BY <1>0, <1>1, <2>1, <2>2, <2>3
<1>7. CASE Forgotten(c)
    BY <1>0, <1>1, <1>7, NoClientOK DEF Forgotten
<1>8. QED
    BY <1>2, <1>3, <1>4, <1>5, <1>6, <1>7 DEF KeepAliveStep

\* The signal, the relay, a deletion.
LEMMA OthersOK ==
    ASSUME ControlInv,
           \/ Waits \/ HandlerChecks \/ Interrupt \/ UserDeletes
           \/ Accept \/ ConnectFails \/ Connected \/ RelayGoes \/ WriteIsFatal \/ TlsReturns
    PROVE  ControlInv'
<1>0. socket \in BOOLEAN /\ err \in BOOLEAN /\ faults \in 0..MaxFaults /\ handler \in HandlerPC
      /\ main \in MainPC
    BY DEF ControlInv, ControlOK
<1>1. socket' \in BOOLEAN /\ err' \in BOOLEAN
    BY <1>0 DEF Waits, HandlerChecks, Interrupt, UserDeletes, Accept, ConnectFails,
       Connected, RelayGoes, WriteIsFatal, TlsReturns, OnlyRelay
<1>2. faults' \in 0..MaxFaults
    BY <1>0, FaultCounts DEF Waits, HandlerChecks, Interrupt, UserDeletes, Accept, ConnectFails,
       Connected, RelayGoes, WriteIsFatal, TlsReturns, OnlyRelay
<1>3. CASE TlsReturns
    <2>1. main' = "exited" /\ exit' = "ok" /\ UNCHANGED <<command, client, cur, owner, handler>>
          /\ "exited" \in MainPC \ SshPC
        BY <1>3 DEF TlsReturns, sshVars, MainPC, SshPC
    <2>2. QED
        BY <1>0, <1>1, <1>2, <2>1 DEF ControlInv, ControlOK, Probed
<1>4. CASE ~TlsReturns
    <2>1. \/ \E how \in {"ok", "failed"} : Exit(how)
          \/ /\ UNCHANGED <<command, main, sshVars, exit>>
             /\ handler' \in {handler, "waits", "delete"}
        BY <1>4 DEF Waits, HandlerChecks, Interrupt, UserDeletes, Accept, ConnectFails,
           Connected, RelayGoes, WriteIsFatal, Fatal, HandlerGoes, OnlyRelay
    <2>2. handler' \in {handler, "waits", "delete"} => handler' \in HandlerPC
        BY <1>0 DEF HandlerPC
    <2>3. QED
        BY <1>0, <1>1, <1>2, <2>1, <2>2, ExitOK, MainGoesOK
<1>5. QED
    BY <1>3, <1>4

LEMMA ControlKept == ControlInv /\ [Next]_vars => ControlInv'
<1> SUFFICES ASSUME ControlInv, [Next]_vars PROVE ControlInv'
    OBVIOUS
<1>1. CASE UNCHANGED vars
    BY <1>1 DEF vars, sshVars, ControlInv, ControlOK, Probed
<1>2. CASE Next
    BY <1>2, DeleteOK, HandlerDeletesOK, AroundSshOK, SshOK, KeepAliveOK, OthersOK DEF Next, MainStep, HandlerStep
<1>3. QED
    BY <1>1, <1>2

-----------------------------------------------------------------------------
(* The two goroutines of connect that delete its socket *)

\* Whoever has come back from its DELETE knows that the socket is gone or has
\* an error in err, unless main has cleared it and has its own DELETE to do.
\* The commands with a handler have no relay.
ErrInv ==
    /\ main = "post" \/ command \in {"tls", "visitor"} => handler = "none"
    /\ command \in {"tls", "visitor"} => main \in {"relay", "exited"}
    /\ main = "relay" \/ relay.pc # "none" => command \in {"tls", "visitor"}
    /\ main = "check" => err \/ ~socket
    /\ handler = "check" => err \/ ~socket \/ main = "delete"

LEMMA ExitErr ==
    ASSUME NEW how, Exit(how)
    PROVE  ErrInv'
BY DEF Exit, ErrInv, NoRelay

\* The relay comes into being at "relay" only, and no step changes its command.
LEMMA RelayIsAlone ==
    ASSUME RelayInv, ErrInv, command' = command, [Next]_vars,
           main' # "relay" \/ main = "relay"
    PROVE  main' = "relay" \/ relay'.pc # "none" => command' \in {"tls", "visitor"}
<1>1. relay.pc # "none" \/ relay'.pc = "none" \/ main = "relay"
    <2>0. relay \in Relay
        BY DEF RelayInv
    <2>1. CASE Accept \/ ConnectFails \/ Connected
        BY <2>0, <2>1 DEF Accept, ConnectFails, Connected, At, NoRelay, Fatal, Exit
    <2>2. CASE RelayGoes
        <3>1. relay.pc # "none"
            BY <2>2 DEF RelayGoes, Ends, FarSays, FarEnds, NearSays, NearFinishes, NearVanishes,
               Copies, CopyOut, OutEnds, LastReadLost, CopyIn, CopyInLate, InEnds, OutStarts, CommandReaped,
               CopyFails, WriteFails, Report, Receive, ContextDone, CommandDone, GiveUp, Runs
        <3>2. QED
            BY <3>1
    <2>3. CASE ~(Accept \/ ConnectFails \/ Connected \/ RelayGoes)
        <3>1. relay' = relay \/ relay' = NoRelay(Kind)
            BY <2>3 DEF Next, vars, MainStep, HandlerStep, Post, Gets, Register, Organization,
               InSsh, Return, CleanUp, MainDeletes, Delete, MainGoes, MainChecks, Waits,
               HandlerDeletes, HandlerGoes, HandlerChecks, WriteIsFatal, TlsReturns,
               Interrupt, UserDeletes, Fatal, Exit
        <3>2. QED
            BY <3>1 DEF NoRelay
    <2>4. QED
        BY <2>1, <2>2, <2>3
<1>2. QED
    BY <1>1 DEF ErrInv

LEMMA ErrKept ==
    ASSUME RelayInv, ControlInv, ErrInv, [Next]_vars
    PROVE  ErrInv'
<1>0. socket \in BOOLEAN /\ err \in BOOLEAN
    BY DEF ControlInv, ControlOK
<1>1. CASE \E how \in {"ok", "failed"} : Exit(how)
    BY <1>1, ExitErr
<1>2. CASE ~\E how \in {"ok", "failed"} : Exit(how)
    <2> DEFINE Others ==
                /\ main' = "post" \/ command' \in {"tls", "visitor"} => handler' = "none"
                /\ command' \in {"tls", "visitor"} => main' \in {"relay", "exited"}
                /\ main' = "check" => err' \/ ~socket'
                /\ handler' = "check" => err' \/ ~socket' \/ main' = "delete"
    <2>1. /\ command' = command
          /\ main' # "relay" \/ main = "relay"
          /\ Others
        <3>1. CASE UNCHANGED vars
            BY <3>1 DEF vars, ErrInv
        <3>2. CASE Post \/ Gets \/ Register \/ Organization
            BY <1>2, <3>2 DEF Post, Gets, Register, Organization, ErrInv, MainGoes, Fatal, At
        <3>3. CASE Return \/ CleanUp \/ MainChecks
            BY <1>2, <3>3 DEF Return, CleanUp, MainChecks, ErrInv, MainGoes, Fatal, At
        <3>4. CASE MainDeletes
            BY <1>0, <3>4 DEF MainDeletes, Delete, ErrInv, MainGoes, At
        <3>5. CASE Waits \/ HandlerChecks
            BY <1>2, <3>5 DEF Waits, HandlerChecks, ErrInv, HandlerGoes, Fatal
        <3>6. CASE HandlerDeletes
            BY <1>0, <1>2, <3>6 DEF HandlerDeletes, Delete, ErrInv, HandlerGoes, Fatal
        <3>7. CASE Interrupt \/ UserDeletes
            BY <1>0, <1>2, <3>7 DEF Interrupt, UserDeletes, ErrInv, HandlerGoes, Fatal
        <3>8. CASE Accept \/ ConnectFails \/ Connected \/ RelayGoes \/ WriteIsFatal \/ TlsReturns
            <4>1. CASE TlsReturns
                BY <4>1 DEF TlsReturns, ErrInv
            <4>2. CASE ~TlsReturns
                BY <1>2, <3>8, <4>2 DEF Accept, ConnectFails, Connected, RelayGoes,
                   WriteIsFatal, OnlyRelay, ErrInv, Fatal
            <4>3. QED
                BY <4>1, <4>2
        <3>9. CASE (SshStep \/ SessionEnds \/ ServerFrees
                      \/ \E c \in Clients : KeepAliveStep(c) \/ GoesSilent(c) \/ Forgotten(c))
                   /\ InSsh
            <4>1. UNCHANGED <<command, socket, relay, handler, err>>
                BY <3>9 DEF InSsh, SshStep, TunnelInfo, Sign, Dial, Handshake, Listen, Setup, SessionEnds,
                   ConnectionLost, CloseListener, StopKeepAlive, CloseClient, ServerFrees,
                   OnlyMain, KeepAliveStep, Stopped, Tick, Answered, Missed, GoesSilent,
                   Forgotten, OnlyClient
            <4>2. main' = main \/ (main \in SshPC /\ main' \in SshPC)
                BY <3>9 DEF SshStep, TunnelInfo, Sign, Dial, Handshake, Listen, Setup, SessionEnds,
                   ConnectionLost, CloseListener, StopKeepAlive, CloseClient, ServerFrees,
                   KeepAliveStep, Stopped, Tick, Answered, Missed, GoesSilent,
                   Forgotten, OnlyClient, SshPC, At
            <4>3. QED
                BY <4>1, <4>2 DEF ErrInv, SshPC
        <3>10. QED
            BY <3>1, <3>2, <3>3, <3>4, <3>5, <3>6, <3>7, <3>8, <3>9
               DEF Next, MainStep, HandlerStep
    <2>2. QED
        BY <2>1, RelayIsAlone DEF ErrInv
<1>3. QED
    BY <1>1, <1>2

-----------------------------------------------------------------------------
ForegroundInv == ControlInv /\ RelayInv /\ ErrInv

LEMMA InitForeground == Init => ForegroundInv
<1> SUFFICES ASSUME Init PROVE ForegroundInv
    OBVIOUS
<1>1. PICK job \in Jobs : command = job.command /\ relay = NoRelay(job.relay)
    BY DEF Init
<1>2. job.command \in Commands /\ job.relay \in RelayKinds
    BY ForegroundAssumption
<1>3. RelayInv
    <2>1. relay \in Relay
        BY <1>1, <1>2, ForegroundAssumption DEF NoRelay, Relay
    <2>2. RelayShape /\ QuietInv
        BY <1>1, <1>2, ForegroundAssumption DEF NoRelay, RelayShape, QuietInv, Accounted, Copying, Kind
    <2>3. QED
        BY <2>1, <2>2 DEF RelayInv
<1>4. ControlInv
    <2>1. main \in {"post", "relay", "gets"} /\ {"post", "relay", "gets"} \subseteq MainPC \ SshPC
        BY DEF Init, MainPC, SshPC
    <2>2. client \in [Clients -> Client] /\ Probed
        BY NoClientOK DEF Init, Probed
    <2>3. QED
        <3>1. /\ command \in Commands /\ socket \in BOOLEAN /\ err \in BOOLEAN
              /\ cur = None /\ owner = None /\ exit = "running" /\ faults \in 0..MaxFaults
            <4>1. 0 \in 0..MaxFaults
                BY ForegroundAssumption
            <4>2. command \in Commands
                BY <1>1, <1>2
            <4>3. socket \in BOOLEAN
                BY DEF Init
            <4>4. QED
                BY <4>1, <4>2, <4>3 DEF Init
        <3>2. handler \in HandlerPC /\ main \in MainPC /\ main \notin SshPC
            BY <2>1 DEF Init, HandlerPC
        <3>3. QED
            BY <2>2, <3>1, <3>2 DEF ControlInv, ControlOK
<1>5. ErrInv
    BY <1>1, <1>2 DEF Init, ErrInv, NoRelay, Relays, Commands
<1>6. QED
    BY <1>3, <1>4, <1>5 DEF ForegroundInv

LEMMA ForegroundInvariant == Spec => []ForegroundInv
<1>1. ForegroundInv /\ [Next]_vars => ForegroundInv'
    <2>1. RelayInv => Kind \in RelayKinds
        BY DEF RelayInv, Relay, Kind
    <2>2. QED
        BY <2>1, RelayKept, ControlKept, ErrKept DEF ForegroundInv
<1>2. QED
    BY <1>1, InitForeground, PTL DEF Spec

\* Whatever drops, fails or goes silent, sshConnect has a connection wherever it
\* uses one, a KeepAlive stops at its last miss, the channel done never holds
\* more than its one value, and a relay never delivers what was not said
\* (handler.go:267-473).
THEOREM ForegroundCorrect == Spec => []TypeOK
<1>1. ForegroundInv => TypeOK
    BY DEF ForegroundInv, ControlInv, ControlOK, RelayInv, TypeOK
<1>2. QED
    BY <1>1, ForegroundInvariant, PTL

\* What the far end has said is delivered before the relay gives up, if the
\* near end stays and sends nothing late: the first copier that is done is the
\* one of the output, and is done only when everything has been read; what can
\* be missing is the last read of a tls client (handler.go:475-494, tls.go:114-152, server_unix.go:106-147).
THEOREM DeliveredCorrect == Spec => []DeliveredToQuiet
<1>1. ForegroundInv => DeliveredToQuiet
    BY DEF ForegroundInv, RelayInv, Relay, QuietInv, Accounted, Drained, Copying, DeliveredToQuiet, Kind
<1>2. QED
    BY <1>1, ForegroundInvariant, PTL

\* If `connect` ends well and its socket is there, it was its signal goroutine
\* that ended it, while main, having cleared err, was about to delete the socket
\* (connect.go:181-209).
THEOREM ExitZeroCorrect == Spec => ExitZeroMeansGone
<1> DEFINE Lies == /\ exit = "running" /\ exit' = "ok" /\ command = "connect" /\ socket
                   /\ ~(handler = "check" /\ main = "delete")
<1>1. ForegroundInv /\ [Next]_vars => ~Lies
    <2> SUFFICES ASSUME ForegroundInv, [Next]_vars, Lies PROVE FALSE
        OBVIOUS
    <2>1. exit' # exit /\ exit' # "failed" /\ ErrInv /\ RelayInv
        BY DEF ForegroundInv
    <2>2. MainChecks \/ HandlerChecks
        BY <2>1 DEF Next, vars, MainStep, HandlerStep, Post, Gets, Register, Organization,
           InSsh, Return, CleanUp, MainDeletes, Delete, MainGoes, Waits, HandlerDeletes,
           HandlerGoes, Interrupt, UserDeletes, Fatal, Exit, Accept, ConnectFails, Connected,
           RelayGoes, OnlyRelay, WriteIsFatal, TlsReturns, ErrInv
    <2>3. ~err
        BY <2>1, <2>2 DEF MainChecks, HandlerChecks, Fatal, Exit
    <2>4. QED
        BY <2>1, <2>2, <2>3 DEF MainChecks, HandlerChecks, ErrInv, At
<1>2. ForegroundInv /\ [Next]_vars
      => [exit = "running" /\ exit' = "ok" /\ command = "connect" /\ socket
            => handler = "check" /\ main = "delete"]_vars
    BY <1>1
<1>3. QED
    BY <1>2, ForegroundInvariant, PTL DEF Spec, ExitZeroMeansGone
=============================================================================
