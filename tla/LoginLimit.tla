----------------------------- MODULE LoginLimit -----------------------------
(***************************************************************************)
(* The limiter in front of POST /auth/login (main.py, login; server.ts).   *)
(* RATE_LIMIT_BACKEND is read once, when the instances start, and decides  *)
(* which of the two limiters they all use.                                 *)
(***************************************************************************)
EXTENDS RedisLimiter, LocalLimiter

VARIABLE backend   \* settings.rate_limit_backend

loginVars == <<vars, localVars, backend>>

TypesOK ==
  /\ backend \in {"local", "redis"}
  /\ TypeOK
  /\ LocalTypeOK

LoginInit ==
  /\ backend \in {"local", "redis"}
  /\ Init
  /\ LocalInit

RedisStep ==
  /\ backend = "redis"
  /\ Next
  /\ UNCHANGED <<localVars, backend>>

LocalStep ==
  /\ backend = "local"
  /\ LocalNext
  /\ UNCHANGED <<vars, backend>>

LoginNext == RedisStep \/ LocalStep

LoginSpec == LoginInit /\ [][LoginNext]_loginVars

\* As in RedisLimiter: its clock runs, and its requests send their EXPIRE.
LoginFairSpec == LoginSpec /\ WF_vars(Tick) /\ \A p \in Requests : WF_vars(Expire(p))
=============================================================================
