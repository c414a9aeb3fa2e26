-------------------------- MODULE MCBookmarkWrites --------------------------
(***************************************************************************)
(* The tag lists that matter: none, one tag twice, and two tags in either  *)
(* order, which is what makes two transactions wait for each other.        *)
(***************************************************************************)
EXTENDS BookmarkWrites

CONSTANTS t1, t2

MCTagLists == {<<>>, <<t1, t1>>, <<t1, t2>>, <<t2, t1>>}
=============================================================================
