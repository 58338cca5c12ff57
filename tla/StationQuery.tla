---------------------------- MODULE StationQuery ----------------------------
(***************************************************************************)
(* What the system promises a program that asks for all active stations:   *)
(* an exception, or the stations that were active at one moment between    *)
(* the question and the answer; a mishap on the way may make them fewer.   *)
(***************************************************************************)
CONSTANTS Thread, Station,
          Unset,     \* no answer yet
          Exception  \* the answer that is none

VARIABLES active,    \* the stations that are active
          waiting,   \* the threads that have asked
          basis,     \* basis[t]: the stations t's answer will be taken from
          returned   \* returned[t]: the answer to its last question

queryVars == <<active, waiting, basis, returned>>

QueryInit ==
    /\ active \in SUBSET Station
    /\ waiting = {}
    /\ basis = [t \in Thread |-> {}]
    /\ returned = [t \in Thread |-> Unset]

Change ==
    /\ active' \in SUBSET Station
    /\ UNCHANGED <<waiting, basis, returned>>

Ask(t) ==
    /\ t \notin waiting
    /\ waiting' = waiting \cup {t}
    /\ returned' = [returned EXCEPT ![t] = Unset]
    /\ UNCHANGED <<active, basis>>

Look(t) ==
    /\ t \in waiting /\ basis[t] = {}
    /\ basis' = [basis EXCEPT ![t] = active]
    /\ UNCHANGED <<active, waiting, returned>>

(***************************************************************************)
(* A mishap: the file is busy, the scan breaks off, the handler throws or  *)
(* the server dies, and some of what it has looked at is lost.             *)
(***************************************************************************)
Lose ==
    /\ basis' \in [Thread -> SUBSET Station]
    /\ \A t \in Thread : basis'[t] \subseteq basis[t]
    /\ UNCHANGED <<active, waiting, returned>>

(***************************************************************************)
(* All that was looked at and not lost, or an exception.                   *)
(***************************************************************************)
Return(t) ==
    /\ t \in waiting
    /\ waiting' = waiting \ {t}
    /\ \E answer \in {basis[t], Exception} : returned' = [returned EXCEPT ![t] = answer]
    /\ basis' = [basis EXCEPT ![t] = {}]
    /\ UNCHANGED active

QueryNext == Change \/ Lose \/ \E t \in Thread : Ask(t) \/ Look(t) \/ Return(t)

QuerySpec == QueryInit /\ [][QueryNext]_queryVars
=============================================================================
