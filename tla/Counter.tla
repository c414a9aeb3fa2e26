------------------------------ MODULE Counter ------------------------------
(***************************************************************************)
(* What a counter promises the threads that add to it: each addition moves *)
(* the total by exactly one, and a thread may stop before it has made all  *)
(* of its own.                                                             *)
(***************************************************************************)
EXTENDS Naturals

CONSTANTS
  Threads,
  BUMPS     \* additions each thread sets out to make

VARIABLES
  total,
  owed      \* additions each thread has still to make

counterVars == <<total, owed>>

CInit ==
  /\ total = 0
  /\ owed = [t \in Threads |-> BUMPS]

Add(t) ==
  /\ owed[t] > 0
  /\ total' = total + 1
  /\ owed' = [owed EXCEPT ![t] = @ - 1]

Quit(t) ==
  /\ owed' = [owed EXCEPT ![t] = 0]
  /\ UNCHANGED total

CNext == \E t \in Threads : Add(t) \/ Quit(t)

CSpec == CInit /\ [][CNext]_counterVars
=============================================================================
