-------------------------------- MODULE Watchdog --------------------------------
(***************************************************************************)
(* What partner supervision promises, without its threads, mutex, maps and   *)
(* ports: each second adds one to every partner's silence, a heartbeat ends   *)
(* the silence of the partner that sent it and of no other, and once one      *)
(* partner was silent for too long, or there is none, all of them are killed  *)
(* and as many are started anew, none of whom is forgotten.                   *)
(***************************************************************************)
EXTENDS Integers

CONSTANTS
  Processes,    \* all there can be
  Foreign,      \* those that run already
  NumPartners,  \* how many partners there should be
  MaxMiss,      \* how many seconds a partner may be silent
  Nobody        \* stands in for the partners that could not be started

VARIABLES
  silence,  \* per partner, for how long it has been silent
  running,  \* the processes that run
  missing,  \* how many partners are still to be started
  due,      \* whether it is decided that the partners are to be replaced
  heard     \* the processes with a heartbeat on its way

wvars == <<silence, running, missing, due, heard>>

Partners == DOMAIN silence
Overdue == \E p \in Partners : silence[p] > MaxMiss

Init ==
  /\ silence = [p \in {} |-> 0]
  /\ running = Foreign
  /\ missing = 0
  /\ due = FALSE
  /\ heard = {}

\* A second passes for a full set of partners, none of whom is overdue.
Second ==
  /\ ~due /\ missing = 0 /\ ~Overdue
  /\ silence' = [p \in Partners |-> silence[p] + 1]
  /\ UNCHANGED <<running, missing, due, heard>>

Decide ==
  /\ ~due /\ missing = 0
  /\ Overdue \/ Partners = {}
  /\ due' = TRUE
  /\ UNCHANGED <<silence, running, missing, heard>>

\* Nobody's place in kill() means everybody.
KillAll ==
  /\ due
  /\ running' = running \ (IF Nobody \in Partners THEN Processes ELSE Partners)
  /\ silence' = [p \in {} |-> 0]
  /\ missing' = NumPartners
  /\ due' = FALSE
  /\ UNCHANGED heard

StartOne ==
  /\ missing > 0
  /\ \/ \E p \in Processes \ (running \cup Partners) :
          /\ running' = running \cup {p}
          /\ silence' = [q \in Partners \cup {p} |-> IF q = p THEN 0 ELSE silence[q]]
     \/ /\ UNCHANGED running
        /\ silence' = [q \in Partners \cup {Nobody} |->
                          IF q \in Partners THEN silence[q] ELSE 0]
  /\ missing' = missing - 1
  /\ UNCHANGED <<due, heard>>

SendHeartbeat(p) ==
  /\ p \in running \ heard
  /\ heard' = heard \cup {p}
  /\ UNCHANGED <<silence, running, missing, due>>

\* The heartbeat counts for its sender ...
Count(p) ==
  /\ p \in heard \cap Partners
  /\ silence' = [silence EXCEPT ![p] = 0]
  /\ heard' = heard \ {p}
  /\ UNCHANGED <<running, missing, due>>

\* ... or for nobody: the sender is no partner, or connected too late to be known.
Ignore(p) ==
  /\ p \in heard
  /\ heard' = heard \ {p}
  /\ UNCHANGED <<silence, running, missing, due>>

Die(p) ==
  /\ p \in running
  /\ running' = running \ {p}
  /\ UNCHANGED <<silence, missing, due, heard>>

Next ==
  \/ Second \/ Decide \/ KillAll \/ StartOne
  \/ \E p \in Processes : SendHeartbeat(p) \/ Count(p) \/ Ignore(p) \/ Die(p)

Spec == Init /\ [][Next]_wvars
=============================================================================
