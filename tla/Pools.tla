-------------------------------- MODULE Pools --------------------------------
(***************************************************************************)
(* One instance of the API and its connection pool.  It is either program, *)
(* main.py or server.ts, and stays so; what it does with its requests is   *)
(* PoolPy or PoolTs, and the other pool is not there.                      *)
(***************************************************************************)
EXTENDS PoolPy, PoolTs

VARIABLE program   \* "py" or "ts"

poolsVars == <<pyVars, tsVars, program>>

TypesOK ==
  /\ program \in {"py", "ts"}
  /\ PyTypeOK
  /\ TsTypeOK

PoolsInit ==
  /\ program \in {"py", "ts"}
  /\ PyInit
  /\ TsInit

PyInstance ==
  /\ program = "py"
  /\ PyNext
  /\ UNCHANGED <<tsVars, program>>

TsInstance ==
  /\ program = "ts"
  /\ TsNext
  /\ UNCHANGED <<pyVars, program>>

PoolsNext == PyInstance \/ TsInstance

PoolsSpec == PoolsInit /\ [][PoolsNext]_poolsVars

\* As in PoolPy and PoolTs: nothing is asked of a timer.
PoolsFairSpec == PoolsSpec /\ PyFairness /\ TsFairness
=============================================================================
