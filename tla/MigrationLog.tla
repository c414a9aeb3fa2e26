---------------------------- MODULE MigrationLog ----------------------------
(***************************************************************************)
(* What a release step promises the schema: migrations take effect in the  *)
(* order of their numbers, each once, none is ever taken back.             *)
(***************************************************************************)
EXTENDS Naturals

CONSTANT Last   \* the number of the newest migration

VARIABLE inEffect   \* the migrations in effect

LogInit == inEffect = {}

Extend == \E v \in 1 .. Last :
  /\ v \notin inEffect
  /\ inEffect' = 1 .. v

LogSpec == LogInit /\ [][Extend]_inEffect
=============================================================================
