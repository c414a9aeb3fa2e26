---------------------------- MODULE FixedWindow ----------------------------
(***************************************************************************)
(* What the shared login limiter promises one client: attempts are counted *)
(* in windows that last at least WINDOW ticks, and a window grants at most *)
(* ATTEMPT_LIMIT of them.                                                  *)
(***************************************************************************)
EXTENDS Naturals

CONSTANTS
  ATTEMPT_LIMIT,  \* attempts a window grants
  WINDOW          \* ticks a window lasts at least

VARIABLES
  open,     \* is a window running?
  age,      \* ticks since it opened, saturating at WINDOW
  granted   \* attempts the running window has granted

fwVars == <<open, age, granted>>

FWInit ==
  /\ open = FALSE
  /\ age = 0
  /\ granted = 0

\* The attempt that opens a window is the first one it grants.
Open ==
  /\ ~open
  /\ open' = TRUE
  /\ age' = 0
  /\ granted' = 1

Grant ==
  /\ open
  /\ granted < ATTEMPT_LIMIT
  /\ granted' = granted + 1
  /\ UNCHANGED <<open, age>>

Age ==
  /\ open
  /\ age < WINDOW
  /\ age' = age + 1
  /\ UNCHANGED <<open, granted>>

\* A window may outlive WINDOW ticks; it may not end before them.
Close ==
  /\ open
  /\ age + 1 >= WINDOW
  /\ open' = FALSE
  /\ age' = 0
  /\ granted' = 0

FWNext == Open \/ Grant \/ Age \/ Close

FWSpec == FWInit /\ [][FWNext]_fwVars
=============================================================================
