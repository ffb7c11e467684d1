-------------------------------- MODULE Relay --------------------------------
(***************************************************************************)
(* The code that copies bytes between two ends and gives up both: what     *)
(* `border0 client tls` does with its terminal or with a connection to its *)
(* listener (cmd/client/tls), what a tunnel does with a visitor            *)
(* (handleClient, and handleConnection in the connector-auth listener),    *)
(* and what the built-in SSH server does with a shell or a command         *)
(* (execCmd).  They differ in how the copiers report that they are done.   *)
(*                                                                         *)
(* One relay: "near" is the visitor, the terminal or the SSH channel,      *)
(* "far" the service, the TLS connection or the command.  Bytes are chunks *)
(* that are counted; standard error is copied as standard output is.       *)
(***************************************************************************)
EXTENDS Naturals

CONSTANT MaxSaid   \* chunks the far end sends at most (a bound of the model)

RelayKinds == {"forward", "tlsListener", "tlsStdio", "pty", "exec"}
Tls == {"tlsListener", "tlsStdio"}
Shells == {"pty", "exec"}

VARIABLE relay

\* "later": the pty's output is copied after 200 ms.  "report": a copier that
\* is done has to say so.  "got": the one that waits has been told.
Relay ==
    [kind : RelayKinds,
     pc : {"none", "accepted", "wait", "got", "over"},
     in : {"copy", "report", "gone"},           \* copies from near to far
     out : {"later", "copy", "report", "gone"}, \* copies from far to near
     waiter : {"wait", "report", "gone"},       \* pty: the goroutine in cmd.Wait
     chan : 0..2,                               \* what the channel holds
     near : {"open", "finished", "gone", "closed"},
     far : {"open", "hungUp", "ended", "closed"},
     asked : BOOLEAN, toFar : 0..1,             \* the chunk near sends, not yet read
     said : 0..MaxSaid, toNear : 0..MaxSaid,    \* chunks from far, not yet read
     got : 0..MaxSaid,                          \* chunks written to near
     left : BOOLEAN,                            \* pty: nobody received from the channel
     quiet : BOOLEAN]                           \* history: near stayed and far was not written to late

NoRelay(kind) ==
    [kind |-> kind, pc |-> "none", in |-> "copy",
     out |-> IF kind = "pty" THEN "later" ELSE "copy",
     waiter |-> IF kind = "pty" THEN "wait" ELSE "gone",
     chan |-> 0, near |-> "open", far |-> "open", asked |-> FALSE, toFar |-> 0,
     said |-> 0, toNear |-> 0, got |-> 0, left |-> FALSE, quiet |-> TRUE]

Kind == relay.kind
Runs == relay.pc \notin {"none", "accepted"}

\* Mutant of ChanCap: room for the one that is received only.
ChanCapOne == CASE Kind \in {"forward", "pty"} -> 1 [] OTHER -> 0

\* chDone, syncChannel, done.
ChanCap == CASE Kind = "forward" -> 1 [] Kind = "pty" -> 2 [] OTHER -> 0

-----------------------------------------------------------------------------
(* The two ends *)

FarSays ==
    /\ Runs /\ relay.far = "open" /\ relay.said < MaxSaid
    /\ relay' = [relay EXCEPT !.said = @ + 1, !.toNear = @ + 1]

\* The service closes the connection; the command exits.
FarEnds ==
    /\ Runs /\ relay.far \in {"open", "hungUp"}
    /\ relay' = [relay EXCEPT !.far = "ended"]

NearSays ==
    /\ Runs /\ relay.near = "open" /\ ~relay.asked
    /\ relay' = [relay EXCEPT !.asked = TRUE, !.toFar = 1]

\* Near has no more to say but still listens: a half-closed connection, the
\* end of standard input.
NearFinishes ==
    /\ Runs /\ relay.near = "open"
    /\ relay' = [relay EXCEPT !.near = "finished", !.quiet = FALSE]

NearVanishes ==
    /\ Runs /\ relay.near \in {"open", "finished"}
    /\ relay' = [relay EXCEPT !.near = "gone", !.quiet = FALSE]

-----------------------------------------------------------------------------
(* The copiers *)

\* A copier is done.  The tls client closes the end it writes to, if that is
\* a connection; execCmd's copiers end with a wg.Done.
Done(c) ==
    LET r == [relay EXCEPT ![c] = IF Kind = "exec" THEN "gone" ELSE "report"]
    IN  IF Kind \notin Tls THEN r
        ELSE IF c = "in" THEN [r EXCEPT !.far = "closed"]
        ELSE IF Kind = "tlsListener" THEN [r EXCEPT !.near = "closed"]
        ELSE r

CopyOut ==
    /\ Runs /\ relay.out = "copy" /\ relay.far # "closed" /\ relay.toNear > 0
    /\ relay.near \in {"open", "finished"}
    /\ relay' = [relay EXCEPT !.toNear = @ - 1, !.got = @ + 1]

\* End of file, or the far end was closed under the reader.
OutEnds ==
    /\ Runs /\ relay.out = "copy"
    /\ relay.far = "closed" \/ (relay.far = "ended" /\ relay.toNear = 0)
    /\ relay' = Done("out")

\* copyStream's last Read returns what was left together with io.EOF, as a TLS
\* 1.2 connection does whose close_notify is there already; it stops without
\* writing it.  io.Copy, which the other kinds use, does write it.
LastReadLost ==
    /\ Runs /\ relay.out = "copy" /\ Kind \in Tls
    /\ relay.far = "ended" /\ relay.toNear = 1
    /\ relay' = [Done("out") EXCEPT !.toNear = 0]

CopyIn ==
    /\ Runs /\ relay.in = "copy" /\ relay.near # "closed" /\ relay.toFar > 0
    /\ relay.far \in {"open", "hungUp"}
    /\ relay' = [relay EXCEPT !.toFar = 0]

\* The far end is gone and its system takes the chunk, or answers with a reset
\* that discards what was not read yet.
CopyInLate ==
    /\ Runs /\ relay.in = "copy" /\ relay.near # "closed" /\ relay.toFar > 0
    /\ relay.far = "ended"
    /\ \E n \in {0, relay.toNear} :
         relay' = [relay EXCEPT !.toFar = 0, !.quiet = FALSE, !.toNear = n]

InEnds ==
    /\ Runs /\ relay.in = "copy"
    /\ \/ relay.near \in {"gone", "closed"}
       \/ relay.near = "finished" /\ relay.toFar = 0
    /\ relay' = Done("in")

\* A write to an end that is gone or was closed.
WriteFails(c) ==
    /\ Runs /\ relay[c] = "copy"
    /\ \/ c = "out" /\ relay.far # "closed" /\ relay.toNear > 0
                    /\ relay.near \in {"gone", "closed"}
       \/ c = "in" /\ relay.near # "closed" /\ relay.toFar > 0
                   /\ relay.far \in {"ended", "closed"}

\* io.Copy returns; the tls client calls log.Fatalf (see Foreground).
CopyFails(c) ==
    /\ WriteFails(c)
    /\ Kind \notin Tls
    /\ relay' = [Done(c) EXCEPT !.quiet = FALSE]

\* Into the channel if it has room, else into the hands of the one that waits.
Report(g) ==
    /\ Runs /\ relay[g] = "report"
    /\ \/ relay.chan < ChanCap
          /\ relay' = [relay EXCEPT ![g] = "gone", !.chan = @ + 1]
       \/ /\ ChanCap = 0 /\ relay.pc = "wait"
          /\ relay' = [relay EXCEPT ![g] = "gone", !.pc = "got"]

\* execCmd with a pty: the output is copied from now on.
OutStarts ==
    /\ Runs /\ relay.out = "later"
    /\ relay' = [relay EXCEPT !.out = "copy"]

\* execCmd with a pty: cmd.Wait returns.
CommandReaped ==
    /\ Runs /\ relay.waiter = "wait" /\ relay.far = "ended"
    /\ relay' = [relay EXCEPT !.waiter = "report"]

-----------------------------------------------------------------------------
(* The one that waits *)

Receive ==
    /\ relay.pc = "wait" /\ relay.chan > 0
    /\ relay' = [relay EXCEPT !.pc = "got", !.chan = @ - 1]

\* s.Context().Done()
ContextDone ==
    /\ relay.pc = "wait" /\ Kind = "pty" /\ relay.near = "gone"
    /\ relay' = [relay EXCEPT !.pc = "got", !.left = TRUE]

\* Mutant of OutputCopied: the output of a command that has exited is not waited for.
ExitIsEnough == relay.far = "ended"

\* wg.Wait, then cmd.Wait.
OutputCopied == relay.out = "gone" /\ relay.far = "ended"

CommandDone ==
    /\ relay.pc = "wait" /\ Kind = "exec"
    /\ OutputCopied
    /\ relay' = [relay EXCEPT !.pc = "got"]

\* handleClient closes both ends; execCmd hangs the shell up if it was not
\* reaped and its session is closed when it returns; copy just returns.
GiveUp ==
    /\ relay.pc = "got"
    /\ relay' =
         CASE Kind = "forward" ->
                [relay EXCEPT !.pc = "over", !.near = "closed", !.far = "closed"]
           [] Kind \in Shells ->
                [relay EXCEPT !.pc = "over", !.near = "closed",
                   !.far = IF Kind = "pty" /\ relay.waiter = "wait" /\ @ = "open"
                           THEN "hungUp" ELSE @]
           [] OTHER -> [relay EXCEPT !.pc = "over"]

-----------------------------------------------------------------------------
Ends == FarSays \/ FarEnds \/ NearSays \/ NearFinishes \/ NearVanishes

Copies ==
    \/ CopyOut \/ OutEnds \/ LastReadLost \/ CopyIn \/ CopyInLate \/ InEnds
    \/ OutStarts \/ CommandReaped
    \/ \E c \in {"in", "out"} : CopyFails(c)
    \/ \E g \in {"in", "out", "waiter"} : Report(g)
    \/ Receive \/ ContextDone \/ CommandDone \/ GiveUp

-----------------------------------------------------------------------------
\* If the far end says its say and ends while the near end stays and sends
\* nothing late, near gets all of it before the relay gives up, but for the last
\* chunk of a tls client, which may be lost with the end of file: the first
\* copier that is done does not cut the other one short, and a command's
\* output is copied to the end (handler.go:475-494, tls.go:114-152,
\* server_unix.go:106-147).  Not so for a pty, whose output nobody waits for.
DeliveredToQuiet ==
    relay.pc = "over" /\ relay.quiet /\ Kind # "pty" =>
        \/ relay.got = relay.said
        \/ Kind \in Tls /\ relay.got + 1 = relay.said

\* Goroutines a relay keeps for ever: none, but for the copier of the tls
\* client whose channel nobody listens to any more, and for a pty session
\* whose client vanished before anything was done, with three goroutines to
\* report into a channel of two.
MayStay == IF Kind \in Tls \/ (Kind = "pty" /\ relay.left) THEN 1 ELSE 0
Left == (IF relay.in = "gone" THEN 0 ELSE 1) + (IF relay.out = "gone" THEN 0 ELSE 1)
        + (IF relay.waiter = "gone" THEN 0 ELSE 1)
=============================================================================
