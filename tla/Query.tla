------------------------------- MODULE Query -------------------------------
(***************************************************************************)
(* What glyr_get() promises to the program that calls it (src/lib/glyr.h). *)
(*                                                                         *)
(* During a call items are offered one by one to the program's download    *)
(* callback, which accepts or refuses them.  The call answers with at most *)
(* as many items as were asked for, all of them accepted ones; a call that *)
(* was cancelled answers with nothing.                                     *)
(***************************************************************************)
EXTENDS FiniteSets, Naturals

CONSTANTS
  Candidate,   \* the items that exist in the world
  Limit        \* glyr_opt_number(): the maximum number of items

VARIABLES
  phase,       \* "idle", "searching" or "answered"
  accepted,    \* the items that the callback accepted in this call
  answer,      \* what the last call returned
  cancel       \* glyr_signal_exit() was called and did not take effect yet

queryVars == <<phase, accepted, answer, cancel>>

QueryInit ==
  /\ phase = "idle"
  /\ accepted = {}
  /\ answer = {}
  /\ cancel = FALSE

Call ==
  /\ phase = "idle"
  /\ phase' = "searching"
  /\ accepted' = {}
  /\ answer' = {}
  /\ UNCHANGED cancel

Accept(i) ==
  /\ phase = "searching"
  /\ accepted' = accepted \cup {i}
  /\ UNCHANGED <<phase, answer, cancel>>

Cancel ==
  /\ cancel' = TRUE
  /\ UNCHANGED <<phase, accepted, answer>>

\* Being cancelled and having something to say exclude each other.
Return(items) ==
  /\ phase = "searching"
  /\ phase' = "answered"
  /\ items \subseteq accepted
  /\ Cardinality(items) <= Limit
  /\ items # {} => ~cancel
  /\ answer' = items
  /\ UNCHANGED <<accepted, cancel>>

\* The query can be used again: a cancellation does not outlive the call.
Rearm ==
  /\ phase = "answered"
  /\ phase' = "idle"
  /\ cancel' = FALSE
  /\ UNCHANGED <<accepted, answer>>

QueryNext ==
  \/ Call
  \/ \E i \in Candidate : Accept(i)
  \/ Cancel
  \/ \E items \in SUBSET Candidate : Return(items)
  \/ Rearm

QuerySpec == QueryInit /\ [][QueryNext]_queryVars
=============================================================================
