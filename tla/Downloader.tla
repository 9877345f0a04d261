----------------------------- MODULE Downloader -----------------------------
(***************************************************************************)
(* One call of async_download() (src/lib/core.c): the parallel downloader  *)
(* under both of its callers, the page download of execute_query() and     *)
(* the picture download of generic_img_finalizer().                        *)
(*                                                                         *)
(* The thread that called it drives libcurl's multi interface; the network *)
(* finishes transfers in any order; any thread may set the exit signal.    *)
(* What is at stake is ownership: every address has a callback object with *)
(* two pointers (easy handle, memory cache), the receiver of an answer may *)
(* free the cache, keep it, or replace it with parsed items, and the       *)
(* cleanup at the end must tell these cases apart.                         *)
(*                                                                         *)
(* Lists are modelled as sets: their order is not used here.               *)
(***************************************************************************)
EXTENDS Naturals, FiniteSets

CONSTANTS
  Url,          \* the entries of url_list
  Blacklisted,  \* the ones is_blacklisted() refuses
  Marked,       \* the ones whose page contains the endmarker of its provider
  Item,         \* the items that parsers can make
  Page,         \* Page[u]: the items on the page at u
  Receiver,     \* "provider": call_provider_callback, "image": async_dl_callback
  Timeout,      \* s->timeout, in seconds
  Parallel,     \* s->parallel
  Number        \* s->number

ASSUME WorldAssumption ==
  /\ Blacklisted \subseteq Url
  /\ Marked \subseteq Url
  /\ Page \in [Url -> SUBSET Item]
  /\ Url \cap Item = {}
  /\ Receiver \in {"provider", "image"}
  /\ Timeout \in Nat
  /\ Parallel \in Nat \ {0}
  /\ Number \in Nat \ {0}

\* A parser makes new objects: two pages never share one.
ASSUME PageAssumption ==
  \A u, v \in Url : u # v => Page[u] \cap Page[v] = {}

VARIABLES
  pc,         \* where the calling thread is
  exit,       \* s->signal_exit
  running,    \* running_handles # 0
  terminate,  \* the local flag of the same name
  transfer,   \* [Url -> state of the transfer], inside libcurl
  outcome,    \* [Url -> how it ended]
  handle,     \* capo->handle: is the pointer set
  pointer,    \* capo->cache: is the pointer set
  consumed,   \* capo->consumed
  buffered,   \* capo->was_buffered
  easyMem,    \* the easy handle itself: its allocation state
  cacheMem,   \* the memory cache made for the address: its allocation state
  itemMem,    \* the parsed items: their allocation state
  rawList,    \* the addresses whose own cache is in item_list
  itemList    \* the parsed items in item_list

curl == <<transfer, outcome>>
capo == <<handle, pointer, consumed, buffered>>
memory == <<easyMem, cacheMem, itemMem>>
lists == <<rawList, itemList>>
vars == <<pc, exit, running, terminate, curl, capo, memory, lists>>

-----------------------------------------------------------------------------
\* An allocation is unborn, live, freed, or broken: freed twice.
Status == {"none", "live", "freed", "broken"}

Freed(s) == IF s = "live" THEN "freed" ELSE "broken"

\* A transfer as libcurl sees it.  "ended": the network is done with it, the
\* next curl_multi_perform() will notice; "message": its CURLMSG_DONE waits in
\* the queue; "read": curl_multi_info_read() returned it.
TransferState == {"absent", "active", "ended", "message", "read"}

\* How it ended.  CURLE_OK: "page", or "empty" without a byte of data.  An error:
\* "refused" before the first byte, "partial" after it, and "cut" when DL_buffer()
\* found the endmarker and returned 0, which is CURLE_WRITE_ERROR to libcurl.
Outcome == {"page", "empty", "refused", "partial", "cut"}

\* A page with the endmarker in it cannot be received to its end.
OutcomesOf(u) == Outcome \ {IF u \in Marked THEN "page" ELSE "cut"}

\* Only the page download passes free_caches = TRUE.
FreeCaches == Receiver = "provider"

\* timeout_fac, as each of the two callers computes it.
TimeoutFactor ==
  IF Receiver = "image" THEN Cardinality(Url) \div 2
  ELSE LET spread == Cardinality(Url) \div Parallel + 3
       IN  IF spread < Number + 2 THEN spread ELSE Number + 2

\* libcurl takes a timeout of 0 seconds for no timeout at all.
HasTimeout == TimeoutFactor * Timeout # 0

Wanted == Url \ Blacklisted

-----------------------------------------------------------------------------
Init ==
  /\ pc = "start"
  /\ exit \in BOOLEAN
  /\ running = TRUE
  /\ terminate = FALSE
  /\ transfer = [u \in Url |-> "absent"]
  /\ outcome = [u \in Url |-> "none"]
  /\ handle = [u \in Url |-> FALSE]
  /\ pointer = [u \in Url |-> FALSE]
  /\ consumed = [u \in Url |-> FALSE]
  /\ buffered = [u \in Url |-> FALSE]
  /\ easyMem = [u \in Url |-> "none"]
  /\ cacheMem = [u \in Url |-> "none"]
  /\ itemMem = [i \in Item |-> "none"]
  /\ rawList = {}
  /\ itemList = {}

\* Variants: the loop forgets to look at one of its three conditions.
GoesOnDrained == ~exit /\ ~terminate
GoesOnSignalled == running /\ ~terminate

\* The condition of the outer loop.
GoesOn == ~exit /\ running /\ ~terminate

\* init_async_download(): a callback object, an easy handle and an empty cache
\* for every address that is not blacklisted.
Setup ==
  /\ pc = "start"
  /\ pc' = "perform"
  /\ transfer' = [u \in Url |-> IF u \in Wanted THEN "active" ELSE "absent"]
  /\ handle' = [u \in Url |-> u \in Wanted]
  /\ pointer' = [u \in Url |-> u \in Wanted]
  /\ easyMem' = [u \in Url |-> IF u \in Wanted THEN "live" ELSE "none"]
  /\ cacheMem' = [u \in Url |-> IF u \in Wanted THEN "live" ELSE "none"]
  /\ UNCHANGED <<exit, running, terminate, outcome, consumed, buffered,
                 itemMem, lists>>

\* The loop condition holds: curl_multi_perform() turns what the network has
\* finished into messages and counts what is left; then select() returns.
Perform ==
  /\ pc = "perform"
  /\ GoesOn
  /\ transfer' = [u \in Url |-> IF transfer[u] = "ended" THEN "message"
                                                         ELSE transfer[u]]
  /\ running' = (\E u \in Url : transfer[u] = "active")
  /\ pc' = "read"
  /\ UNCHANGED <<exit, terminate, outcome, capo, memory, lists>>

\* curl_multi_perform(), curl_multi_fdset(), curl_multi_timeout() or select()
\* fails (select() with EINTR when a signal arrives): NULL is returned at once.
PerformFails ==
  /\ pc = "perform"
  /\ GoesOn
  /\ pc' = "failed"
  /\ UNCHANGED <<exit, running, terminate, curl, capo, memory, lists>>

\* Variant: one message is read for every curl_multi_perform().
ReadOne == \A u \in Url : transfer[u] = "message" => \E v \in Url : transfer[v] = "read"

\* The inner loop ends: exit, terminate, or no message left.
ReadAll == \A u \in Url : transfer[u] # "message"

NoMessage ==
  /\ pc = "read"
  /\ exit \/ terminate \/ ReadAll
  /\ pc' = "perform"
  /\ UNCHANGED <<exit, running, terminate, curl, capo, memory, lists>>

-----------------------------------------------------------------------------
\* Variants: the inner loop ignores a stop; the handle pointer is not reset.
TakeMessageAfterStop(u) ==
  /\ pc = "read"
  /\ ~exit
  /\ transfer[u] = "message"
  /\ transfer' = [transfer EXCEPT ![u] = "read"]
  /\ buffered' = [buffered EXCEPT ![u] = TRUE]
  /\ handle' = [handle EXCEPT ![u] = FALSE]
  /\ easyMem' = [easyMem EXCEPT ![u] = Freed(@)]
  /\ UNCHANGED <<pc, exit, running, outcome>>

TakeMessageKeepsHandle(u) ==
  /\ pc = "read"
  /\ ~exit /\ ~terminate
  /\ transfer[u] = "message"
  /\ transfer' = [transfer EXCEPT ![u] = "read"]
  /\ buffered' = [buffered EXCEPT ![u] = TRUE]
  /\ easyMem' = [easyMem EXCEPT ![u] = Freed(@)]
  /\ UNCHANGED <<pc, exit, running, outcome, handle>>

\* A message is read: what every one of its branches does.  The easy handle is
\* removed and cleaned up, and the object counts as buffered.
TakeMessage(u) ==
  /\ pc = "read"
  /\ ~exit /\ ~terminate
  /\ transfer[u] = "message"
  /\ transfer' = [transfer EXCEPT ![u] = "read"]
  /\ buffered' = [buffered EXCEPT ![u] = TRUE]
  /\ handle' = [handle EXCEPT ![u] = FALSE]
  /\ easyMem' = [easyMem EXCEPT ![u] = Freed(@)]
  /\ UNCHANGED <<pc, exit, running, outcome>>

\* The callback gets capo only after CURLE_OK and with something in the cache.
Presentable(u) == outcome[u] = "page" /\ pointer[u]

\* Variant: freed, but neither reset nor marked.
DropCacheUnmarked(u) ==
  /\ cacheMem' = [cacheMem EXCEPT ![u] = Freed(@)]
  /\ UNCHANGED <<pointer, consumed>>

\* DL_free (capo->cache); capo->cache = NULL; capo->consumed = TRUE;
DropCache(u) ==
  /\ pointer' = [pointer EXCEPT ![u] = FALSE]
  /\ consumed' = [consumed EXCEPT ![u] = TRUE]
  /\ cacheMem' = [cacheMem EXCEPT ![u] = Freed(@)]

\* An empty or failed download.
Discard(u) ==
  /\ TakeMessage(u)
  /\ ~Presentable(u)
  /\ DropCache(u)
  /\ UNCHANGED <<terminate, itemMem, lists>>

\* Variant: a page with too many items is freed with all of them.
AfterParsingNone(parsed, kept) ==
  [i \in Item |-> IF i \in kept /\ kept = parsed THEN "live"
                  ELSE IF i \in parsed THEN "freed" ELSE itemMem[i]]

AfterParsing(parsed, kept) ==
  [i \in Item |-> IF i \in kept THEN "live"
                  ELSE IF i \in parsed THEN "freed" ELSE itemMem[i]]

\* call_provider_callback(): the parser makes some items, those beyond
\* query->number are freed and ask to stop (one at least was kept then); the
\* page is freed and its pointer reset, and never handed back raw.
Parse(u, parsed, kept) ==
  /\ Receiver = "provider"
  /\ TakeMessage(u)
  /\ Presentable(u)
  /\ kept \subseteq parsed
  /\ parsed # {} => kept # {}
  /\ itemMem' = AfterParsing(parsed, kept)
  /\ pointer' = [pointer EXCEPT ![u] = FALSE]
  /\ cacheMem' = [cacheMem EXCEPT ![u] = Freed(@)]
  /\ itemList' = itemList \cup kept
  /\ consumed' = [consumed EXCEPT ![u] = (kept = {})]
  /\ terminate' = (kept # parsed)
  /\ UNCHANGED rawList

\* async_dl_callback() took the picture: the cache itself goes on the list.
KeepPicture(u, halt) ==
  /\ Receiver = "image"
  /\ TakeMessage(u)
  /\ Presentable(u)
  /\ rawList' = rawList \cup {u}
  /\ terminate' = halt
  /\ UNCHANGED <<pointer, consumed, cacheMem, itemMem, itemList>>

\* async_dl_callback() refused it: known already, skipped or STOP_PRE.
RefusePicture(u, halt) ==
  /\ Receiver = "image"
  /\ TakeMessage(u)
  /\ Presentable(u)
  /\ DropCache(u)
  /\ terminate' = halt
  /\ UNCHANGED <<itemMem, lists>>

ReadMessage(u) ==
  \/ Discard(u)
  \/ \E parsed \in SUBSET Page[u] :
       \E kept \in SUBSET parsed : Parse(u, parsed, kept)
  \/ \E halt \in BOOLEAN : KeepPicture(u, halt)
  \/ \E halt \in BOOLEAN : RefusePicture(u, halt)

\* Variants: only what a message was read for is freed, or only the caches of
\* a caller that asked for it.
MustFreeRead(u) ==
  /\ FreeCaches
  /\ buffered[u]
  /\ ~consumed[u]
  /\ pointer[u]

MustFreeOwn(u) ==
  /\ FreeCaches
  /\ ~consumed[u]
  /\ pointer[u]

\* destroy_async_download(): caches nobody took over, among them those that are
\* "unbuffered [...] even if free_caches was set to FALSE".
MustFree(u) ==
  /\ FreeCaches \/ ~buffered[u]
  /\ ~consumed[u]
  /\ pointer[u]

\* The loop ends, everything is cleaned up and item_list is returned.
Destroy ==
  /\ pc = "perform"
  /\ ~GoesOn
  /\ pc' = "done"
  /\ easyMem' = [u \in Url |-> IF handle[u] THEN Freed(easyMem[u])
                                            ELSE easyMem[u]]
  /\ cacheMem' = [u \in Url |-> IF MustFree(u) THEN Freed(cacheMem[u])
                                               ELSE cacheMem[u]]
  /\ pointer' = [u \in Url |-> pointer[u] /\ ~MustFree(u)]
  /\ UNCHANGED <<exit, running, terminate, curl, handle, consumed, buffered,
                 itemMem, lists>>

-----------------------------------------------------------------------------
\* The network ends a transfer: the server answered or hung up, or the
\* CURLOPT_TIMEOUT of the easy handle ran out.
TransferEnds(u, o) ==
  /\ transfer[u] = "active"
  /\ transfer' = [transfer EXCEPT ![u] = "ended"]
  /\ outcome' = [outcome EXCEPT ![u] = o]
  /\ pc \notin {"done", "failed"}
  /\ UNCHANGED <<pc, exit, running, terminate, capo, memory, lists>>

\* glyr_signal_exit(), from any thread.
SignalExit ==
  /\ ~exit
  /\ pc \notin {"done", "failed"}
  /\ exit' = TRUE
  /\ UNCHANGED <<pc, running, terminate, curl, capo, memory, lists>>

Step ==
  \/ Setup
  \/ Perform
  \/ PerformFails
  \/ NoMessage
  \/ \E u \in Url : ReadMessage(u)
  \/ Destroy

Network(u) == \E o \in OutcomesOf(u) : TransferEnds(u, o)

Returned == pc \in {"done", "failed"}

Next ==
  \/ Step
  \/ \E u \in Url : Network(u)
  \/ SignalExit
  \/ Returned /\ UNCHANGED vars

\* The caller's thread keeps running: select() is always given a finite time
\* to wait.  A transfer is sure to end only when libcurl was given a timeout.
Fairness ==
  /\ WF_vars(Step)
  /\ HasTimeout => \A u \in Url : WF_vars(Network(u))

Spec == Init /\ [][Next]_vars /\ Fairness

\* The same with servers that may stall for as long as they like, which is how
\* the time before libcurl's timeout looks to somebody who wants to quit.
StalledSpec == Init /\ [][Next]_vars /\ WF_vars(Step)

-----------------------------------------------------------------------------
\* Every variable has its type.
TypeOK ==
  /\ pc \in {"start", "perform", "read", "done", "failed"}
  /\ exit \in BOOLEAN
  /\ running \in BOOLEAN
  /\ terminate \in BOOLEAN
  /\ transfer \in [Url -> TransferState]
  /\ outcome \in [Url -> Outcome \cup {"none"}]
  /\ handle \in [Url -> BOOLEAN]
  /\ pointer \in [Url -> BOOLEAN]
  /\ consumed \in [Url -> BOOLEAN]
  /\ buffered \in [Url -> BOOLEAN]
  /\ easyMem \in [Url -> Status]
  /\ cacheMem \in [Url -> Status]
  /\ itemMem \in [Item -> Status]
  /\ rawList \subseteq Url
  /\ itemList \subseteq Item

\* No easy handle, cache or item is freed twice, whatever the receiver did with
\* the cache and wherever the download was cut off: the reading branches and
\* destroy_async_download() never both think an object is theirs.
FreedAtMostOnce ==
  /\ \A u \in Url : easyMem[u] # "broken" /\ cacheMem[u] # "broken"
  /\ \A i \in Item : itemMem[i] # "broken"

\* What is on item_list is never freed: the cleanup does not take a picture away
\* that async_dl_callback() accepted, nor a parsed item.
ListedIsLive ==
  /\ \A u \in rawList : cacheMem[u] = "live"
  /\ \A i \in itemList : itemMem[i] = "live"

\* A download that returns normally leaks nothing: every handle is cleaned up
\* and what is still allocated is on the list that the caller gets.
NothingLeaks ==
  pc = "done" =>
    /\ \A u \in Url : easyMem[u] # "live"
    /\ \A u \in Url : cacheMem[u] = "live" => u \in rawList
    /\ \A i \in Item : itemMem[i] = "live" => i \in itemList

\* The loop does not end early: when nobody asked to stop, the answer of every
\* address was looked at, the last ones that arrived included.
EveryAnswerRead ==
  pc = "done" /\ ~exit /\ ~terminate => \A u \in Wanted : transfer[u] = "read"

\* The contract of Fetch.tla: an address is open until its message is read, a
\* failed call returns NULL and forgets its list.
Job == INSTANCE Fetch WITH
  Address <- Url,
  Thing <- Url \cup Item,
  Of <- [u \in Url |-> Page[u] \cup {u}],
  job <- CASE pc = "start" -> "idle"
           [] pc = "done" -> "closed"
           [] pc = "failed" -> "failed"
           [] OTHER -> "open",
  todo <- {u \in Wanted : pc # "start" /\ transfer[u] # "read"},
  got <- IF pc = "failed" THEN {} ELSE rawList \cup itemList,
  halted <- terminate,
  stop <- exit

\* async_download() implements the download contract.
ImplementsFetch == Job!FetchSpec

\* "Maximum number of seconds to wait before canceling a download"
\* (glyr.h:470): every download ends, whatever the servers do.
Terminates == <>Returned

\* Once the exit signal is set the download ends, even when the servers never
\* answer and no timeout is set.
ExitEndsIt == exit ~> Returned
=============================================================================
