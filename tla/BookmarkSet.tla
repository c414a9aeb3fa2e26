---------------------------- MODULE BookmarkSet ----------------------------
(***************************************************************************)
(* What the API promises of bookmarks: one appears whole, with its owner   *)
(* and all of its tags, under a URL nobody else has; it never changes; and *)
(* only its owner makes it disappear.                                      *)
(***************************************************************************)
EXTENDS Naturals

CONSTANTS Urls, Users, Tags, MaxId

Bookmarks == [id : 1 .. MaxId, url : Urls, owner : Users, tags : SUBSET Tags]

VARIABLE stored   \* the bookmarks there are

SetInit == stored = {}

Add == \E b \in Bookmarks :
  /\ \A c \in stored : b.id # c.id /\ b.url # c.url
  /\ stored' = stored \cup {b}

Remove == \E b \in stored : stored' = stored \ {b}

SetSpec == SetInit /\ [][Add \/ Remove]_stored
=============================================================================
