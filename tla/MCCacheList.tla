----------------------------- MODULE MCCacheList -----------------------------
(***************************************************************************)
(* Small instances of CacheList.tla.                                       *)
(***************************************************************************)
EXTENDS CacheList

\* glyr_db_make_dummy() rates -1, applications rate upwards.
Ratings == {-1, 0, 5}
Times == 1..3
=============================================================================
