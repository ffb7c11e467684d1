------------------------------- MODULE Mirror -------------------------------
(***************************************************************************)
(* What one connector core promises about the sockets of its plugin,       *)
(* whatever the API's ids, listings, requests and tunnels are: per key the *)
(* organization holds at most one socket; a round takes one discovery      *)
(* result, first clears what contradicts it, then adds what is missing,    *)
(* and may be broken off anywhere.  As long as nothing has ever been       *)
(* disturbed, a round with nothing to replace leaves exactly what was      *)
(* discovered; one that replaces a socket may itself break off before it   *)
(* has added the rest, and leaves that to the next one.                    *)
(***************************************************************************)
EXTENDS Naturals

CONSTANTS
    Keys,   \* keys of the plugin's sockets
    Data,   \* what a socket is beside its key
    None,   \* no socket
    Wishes  \* what can be discovered: functions from Keys to Data or None

VARIABLES
    entry,        \* the socket of each key
    wanted,       \* the result the round works on
    phase,        \* "rest", "clearing" or "adding"
    replaced,     \* has the round replaced a socket?
    disturbances  \* failed calls, restarts, deletions by users, ... so far

mirrorVars == <<entry, wanted, phase, replaced, disturbances>>

Nothing == [k \in Keys |-> None]

\* A key whose socket contradicts the round's discovery result.
Contradicts(k) == entry[k] # None /\ entry[k] # wanted[k]

\* The round is over; it goes on; or what was just done was the last of it.
Over == wanted' = Nothing /\ phase' = "rest" /\ replaced' = FALSE
GoOn == UNCHANGED <<wanted, phase, disturbances>>
BrokenOff == Over /\ disturbances' = disturbances + 1

MirrorInit ==
    /\ entry \in [Keys -> Data \cup {None}]
    /\ wanted = Nothing /\ phase = "rest" /\ replaced = FALSE
    /\ disturbances = 0

Begin == /\ phase = "rest"
         /\ wanted' \in Wishes
         /\ phase' = "clearing"
         /\ UNCHANGED <<entry, replaced, disturbances>>

Clear(k) == /\ phase = "clearing"
            /\ Contradicts(k)
            /\ entry' = [entry EXCEPT ![k] = None]
            /\ (GoOn /\ UNCHANGED replaced) \/ BrokenOff

\* A missing socket: the replacement of one that was just cleared, or one of
\* a key that has none.
Add(k) == /\ phase # "rest"
          /\ entry[k] = None /\ wanted[k] # None
          /\ entry' = [entry EXCEPT ![k] = wanted[k]]
          /\ \/ GoOn /\ replaced' = (replaced \/ phase = "clearing")
             \/ BrokenOff

Cleared == /\ phase = "clearing"
           /\ \A k \in Keys : ~Contradicts(k)
           /\ phase' = "adding"
           /\ UNCHANGED <<entry, wanted, replaced, disturbances>>

Finish == /\ phase = "adding"
          /\ disturbances = 0 => entry = wanted
          /\ Over
          /\ UNCHANGED <<entry, disturbances>>

\* A call fails, the process restarts: nothing changes at the API.  A call on
\* a socket that somebody deleted, or that the round itself has replaced, is
\* refused without a new disturbance.
Break == /\ UNCHANGED entry
         /\ Over
         /\ disturbances' \in {disturbances, disturbances + 1}
         /\ disturbances' > 0 \/ (phase = "adding" /\ replaced)

\* Somebody deletes a socket of the plugin; or does what does not show here.
Disturb == /\ \/ UNCHANGED entry
              \/ \E k \in Keys : entry' = [entry EXCEPT ![k] = None]
           /\ disturbances' = disturbances + 1
           /\ UNCHANGED <<wanted, phase, replaced>>

MirrorNext ==
    \/ Begin \/ Cleared \/ Finish \/ Break \/ Disturb
    \/ \E k \in Keys : Clear(k) \/ Add(k)

MirrorSpec == MirrorInit /\ [][MirrorNext]_mirrorVars
=============================================================================
