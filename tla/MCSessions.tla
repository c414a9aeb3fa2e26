----------------------------- MODULE MCSessions -----------------------------
(***************************************************************************)
(* Sessions for TLC: people, accounts, requests and session ids are        *)
(* interchangeable, and no property is a temporal one.                     *)
(***************************************************************************)
EXTENDS Sessions, TLC

Symmetry ==
  Permutations(People) \cup Permutations(Emails)
    \cup Permutations(Requests) \cup Permutations(Ids)
=============================================================================
