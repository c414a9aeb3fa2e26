---------------------------- MODULE LoginPolicy ----------------------------
(***************************************************************************)
(* What both login limiters of rate_limit.py are given: the limit and the  *)
(* window, the bound TLC needs on a count of attempts, and counts over the  *)
(* last ticks.                                                             *)
(***************************************************************************)
EXTENDS Naturals

CONSTANTS
  ATTEMPT_LIMIT,  \* LOGIN_ATTEMPT_LIMIT
  WINDOW,         \* LOGIN_ATTEMPT_WINDOW_SECONDS, in ticks
  MaxCount        \* bound: a count goes no higher, and it is above ATTEMPT_LIMIT

\* Mutant of Allows: the comparison is off by one.
AllowsOneMore(n) == n <= ATTEMPT_LIMIT + 1

\* The verdict on the n-th attempt a limiter counts in its window.
Allows(n) == n <= ATTEMPT_LIMIT

\* How many events fell into this tick and the a ticks before it, for each a of
\* Ages: what an event and a tick make of such a count.
Ages == 0 .. WINDOW - 1
OneMore(f) == [a \in Ages |-> f[a] + 1]
Aged(f) == [a \in Ages |-> IF a = 0 THEN 0 ELSE f[a - 1]]
=============================================================================
