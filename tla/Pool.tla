-------------------------------- MODULE Pool --------------------------------
(***************************************************************************)
(* What the connection pools of the two APIs have in common: a number of   *)
(* connections that never changes, and requests that each ask for one      *)
(* connection after the other.  PoolPy and PoolTs say what each API makes of *)
(* it; Pools is an instance of the API, which runs one of them.            *)
(***************************************************************************)
EXTENDS Naturals, Sequences, FiniteSets

CONSTANTS
  Requests,   \* requests in flight at once
  Size        \* pool_max_size (config.py), poolMaxSize (config.ts)

ASSUME PoolAssumption == Size \in Nat \ {0} /\ IsFiniteSet(Requests)
=============================================================================
