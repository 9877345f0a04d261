------------------------------- MODULE Client -------------------------------
(***************************************************************************)
(* How a program has to use libglyr (src/lib/glyr.h): glyr_init() before   *)
(* anything else and glyr_cleanup() as the last call, a query set up       *)
(* before it is used or cancelled, the list of each search freed once and  *)
(* before the next search.  A process may end at any time.                 *)
(***************************************************************************)
EXTENDS Naturals

VARIABLES
  library,   \* "down", "up" or "gone"
  query,     \* "raw" or "ready"
  cancel,    \* the query was cancelled
  list       \* the caches that the program has to free

clientVars == <<library, query, cancel, list>>

ClientInit ==
  /\ library = "down"
  /\ query = "raw" /\ cancel = FALSE
  /\ list = 0

InitLibrary ==
  /\ library = "down"
  /\ library' = "up"
  /\ UNCHANGED <<query, cancel, list>>

InitQuery ==
  /\ library = "up" /\ query = "raw"
  /\ query' = "ready"
  /\ UNCHANGED <<library, cancel, list>>

Signal ==
  /\ query = "ready"
  /\ cancel' = TRUE
  /\ UNCHANGED <<library, query, list>>

\* What comes back from a search that was cancelled is nothing.
Get ==
  /\ library = "up" /\ query = "ready" /\ list = 0
  /\ list' \in Nat
  /\ cancel => list' = 0
  /\ cancel' = FALSE
  /\ UNCHANGED <<library, query>>

\* All that is on the list, or all but the one cache made out of it.
Free ==
  /\ library = "up" /\ list # 0
  /\ list' \in {0, 1}
  /\ list' # list
  /\ UNCHANGED <<library, query, cancel>>

DestroyQuery ==
  /\ library = "up" /\ query = "ready" /\ list = 0
  /\ query' = "raw"
  /\ cancel' = FALSE
  /\ UNCHANGED <<library, list>>

Cleanup ==
  /\ library = "up" /\ list = 0
  /\ library' = "gone"
  /\ UNCHANGED <<query, cancel, list>>

ClientNext ==
  \/ InitLibrary \/ InitQuery \/ Signal \/ Get \/ Free \/ DestroyQuery
  \/ Cleanup

ClientSpec == ClientInit /\ [][ClientNext]_clientVars
=============================================================================
