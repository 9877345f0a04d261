------------------------------- MODULE Fetch -------------------------------
(***************************************************************************)
(* What a download job promises to the code that starts it.                *)
(*                                                                         *)
(* A job is opened on a set of addresses, answers each of them at most     *)
(* once, collects what the answers contribute, and is closed with the      *)
(* collection, or fails with nothing.  It is closed before every address   *)
(* was answered only when somebody asked for it: the owner of the query    *)
(* (the exit signal, from any thread) or the receiver of an answer.        *)
(*                                                                         *)
(* Downloader.tla implements this contract with curl handles, callback     *)
(* objects and memory caches.                                              *)
(***************************************************************************)
CONSTANTS
  Address,     \* everything that can be asked for
  Thing,       \* everything an answer can contribute
  Of           \* Of[a]: what an answer from a can contribute

VARIABLES
  job,         \* "idle", "open", "closed" or "failed"
  todo,        \* the addresses that are not answered yet
  got,         \* what the answers contributed so far
  halted,      \* the receiver of an answer asked to stop
  stop         \* the owner of the query asked to stop

fetchVars == <<job, todo, got, halted, stop>>

FetchInit ==
  /\ job = "idle"
  /\ todo = {}
  /\ got = {}
  /\ halted = FALSE
  /\ stop \in BOOLEAN

\* The owner may ask at any time, before the job is opened too.
AskStop ==
  /\ stop' = TRUE
  /\ UNCHANGED <<job, todo, got, halted>>

Open(addresses) ==
  /\ job = "idle"
  /\ job' = "open"
  /\ todo' = addresses
  /\ UNCHANGED <<got, halted, stop>>

\* Nothing is delivered to a receiver that asked to stop.
Answer(a, things, halt) ==
  /\ job = "open"
  /\ ~halted
  /\ a \in todo
  /\ todo' = todo \ {a}
  /\ got' = got \cup things
  /\ halted' = halt
  /\ UNCHANGED <<job, stop>>

Close ==
  /\ job = "open"
  /\ todo = {} \/ halted \/ stop
  /\ job' = "closed"
  /\ UNCHANGED <<todo, got, halted, stop>>

Fail ==
  /\ job = "open"
  /\ job' = "failed"
  /\ got' = {}
  /\ UNCHANGED <<todo, halted, stop>>

FetchNext ==
  \/ AskStop
  \/ \E addresses \in SUBSET Address : Open(addresses)
  \/ \E a \in Address :
       \E things \in SUBSET Of[a], halt \in BOOLEAN : Answer(a, things, halt)
  \/ Close
  \/ Fail

FetchSpec == FetchInit /\ [][FetchNext]_fetchVars
=============================================================================
