------------------------------- MODULE Engine -------------------------------
(***************************************************************************)
(* One query of libglyr from glyr_get() (src/lib/glyr.c) to its result:    *)
(* start_engine() and execute_query() (src/lib/core.c) fire the providers  *)
(* in batches, best rating first; call_provider_callback() takes the items *)
(* of every page that arrives; the finalizers of src/lib/intern/generic.c  *)
(* show the items to the user's callback, and download the pictures when   *)
(* the items are their addresses.                                          *)
(*                                                                         *)
(* Everything hangs on one counter, itemctr, that these functions raise    *)
(* and lower, and on several local stop flags.  The exit signal comes from *)
(* any thread at any time.  Downloads follow the contract of Fetch.tla.    *)
(* Lists are modelled as sets: where the code keeps the first of several   *)
(* items, any of them may be kept here.                                    *)
(***************************************************************************)
EXTENDS Naturals, FiniteSets

CONSTANTS
  Provider,         \* fetcher->provider
  Enabled,          \* those that provider_is_enabled() accepts
  Offline,          \* those whose get_url() says OFFLINE_PROVIDER
  Silent,           \* those whose get_url() has no address for this query
  Rating,           \* calc_rating() of every provider
  Item,             \* what providers can find
  From,             \* From[p]: what provider p can find
  PageSum,          \* the checksum of an item as the parser made it
  PictureSum,       \* the checksum of the picture at the item's address
  Number,           \* query->number
  DefaultParallel,  \* fetcher->default_parallel
  QsRatio,          \* query->qsratio, in percent
  Pictures,         \* an image job with query->download set
  Response,         \* what the user's callback answers: {"ok"} without one
  MaxCalls          \* bound: how often the query is used

ASSUME EngineAssumption ==
  /\ IsFiniteSet(Item)
  /\ IsFiniteSet(Provider)
  /\ Enabled \subseteq Provider
  /\ Offline \subseteq Provider
  /\ Silent \subseteq Provider
  /\ Rating \in [Provider -> Nat]
  /\ From \in [Provider -> SUBSET Item]
  /\ Number \in Nat \ {0}
  /\ DefaultParallel \in Nat
  /\ QsRatio \in 0..100
  /\ Pictures \in BOOLEAN
  /\ Response \subseteq {"ok", "skip", "stop_pre", "stop_post"}
  /\ MaxCalls \in Nat

\* A parser makes new items: two providers never share one.
ASSUME FromAssumption ==
  \A p, q \in Provider : p # q => From[p] \cap From[q] = {}

VARIABLES
  pc,        \* where the thread in glyr_get() is
  exit,      \* query->signal_exit
  calls,     \* how many calls were made
  parallel,  \* query->parallel
  itemctr,   \* query->itemctr
  fired,     \* the providers marked in fired[]
  offline,   \* offline providers of the batch that are still to be asked
  offItems,  \* what is left of the list of the offline provider just asked
  todo,      \* addresses of the running download that have no answer yet
  halted,    \* its callback set *stop_download
  raw,       \* raw_parsed; in the finalizers: what they did not look at yet
  cached,    \* cached_items: accepted items of offline providers
  ready,     \* almost_copied or dl_raw_images: accepted items of the finalizer
  stopNow,   \* stop_now of start_engine(), *stop_me of the finalizers
  results,   \* result_list
  errno,     \* query->q_errno
  ret,       \* what the last call returned
  accepted,  \* history: the items accepted in this call
  asked      \* history: the callback answered with a stop in this call

callerVars == <<calls, parallel, errno, ret>>
batchVars == <<offline, offItems, todo, halted, raw, cached, ready>>
history == <<accepted, asked>>
vars == <<pc, exit, itemctr, fired, stopNow, results, callerVars, batchVars,
          history>>

-----------------------------------------------------------------------------
\* auto_detect_parallel(): (int) (1.0 / (CLAMP (qsratio,0.01,0.99) * 2)).
AutoParallel ==
  LET percent == IF QsRatio < 1 THEN 1 ELSE IF QsRatio > 99 THEN 99 ELSE QsRatio
      div == 50 \div percent
  IN  IF DefaultParallel > 0 THEN DefaultParallel
      ELSE IF div = 0 THEN 3
      ELSE Cardinality(Provider) \div div

\* Variant: fired[] is not looked at.
UnfiredForgets == Enabled

Unfired == Enabled \ fired

\* Variant: any batch of the right size.
BatchesUnrated ==
  {B \in SUBSET Unfired :
     Cardinality(B) = IF Cardinality(Unfired) < parallel
                      THEN Cardinality(Unfired) ELSE parallel}

\* get_queued(): up to `parallel` enabled providers that were not fired yet,
\* none of them rated lower than one that is left.
Batches ==
  {B \in SUBSET Unfired :
     /\ Cardinality(B) = IF Cardinality(Unfired) < parallel
                         THEN Cardinality(Unfired) ELSE parallel
     /\ \A p \in B, q \in Unfired \ B : Rating[p] >= Rating[q]}

\* The checksum an item has in result_list.
FinalSum(i) ==
  IF Pictures /\ \E p \in Provider \ Offline : i \in From[p]
  THEN PictureSum[i] ELSE PageSum[i]

\* is_in_result_list()
InResults(sum) == \E r \in results : FinalSum(r) = sum

\* How many parsed items are still welcome.
Room == Number - itemctr

\* Variant: nothing is compared.
DeduplicatedNot(S) == {S}

\* delete_dupes(): one item stays for every checksum.
Deduplicated(S) ==
  {D \in SUBSET S :
     /\ \A i, j \in D : PageSum[i] = PageSum[j] => i = j
     /\ \A i \in S : \E j \in D : PageSum[i] = PageSum[j]}

\* pre_less, given back to the counter; variant: counted as if none was left.
DuplicatesAll(S, D) == Cardinality(S)
Duplicates(S, D) == Cardinality(S) - Cardinality(D)

Adds(response) == response \in {"ok", "stop_post"}
Stops(response) == response \in {"stop_pre", "stop_post"}

\* callback.download (item,query) answers with response.
Offered(i, response) ==
  /\ response \in Response
  /\ accepted' = IF Adds(response) THEN accepted \cup {i} ELSE accepted
  /\ asked' = (asked \/ Stops(response))

-----------------------------------------------------------------------------
Init ==
  /\ pc = "idle"
  /\ exit = FALSE
  /\ calls = 0
  /\ parallel = 0
  /\ itemctr = 0
  /\ fired = {} /\ results = {}
  /\ offline = {} /\ offItems = {} /\ todo = {} /\ halted = FALSE
  /\ raw = {} /\ cached = {} /\ ready = {}
  /\ stopNow = FALSE
  /\ errno = "ok"
  /\ ret = {}
  /\ accepted = {} /\ asked = FALSE

\* glyr_get() is entered with a valid query; parallel is set once and stays.
Start ==
  /\ pc = "idle"
  /\ calls < MaxCalls
  /\ calls' = calls + 1
  /\ pc' = "select"
  /\ parallel' = IF parallel = 0 THEN AutoParallel ELSE parallel
  /\ errno' = "ok"
  /\ fired' = {} /\ results' = {} /\ stopNow' = FALSE
  /\ ret' = {}
  /\ accepted' = {} /\ asked' = FALSE
  /\ UNCHANGED <<exit, itemctr, batchVars>>

\* ... or with one that lacks a required field: check_if_valid() fails.
Reject ==
  /\ pc = "idle"
  /\ calls < MaxCalls
  /\ calls' = calls + 1
  /\ pc' = "answer"
  /\ errno' = "insuff_data"
  /\ fired' = {} /\ results' = {} /\ stopNow' = FALSE
  /\ ret' = {}
  /\ accepted' = {} /\ asked' = FALSE
  /\ UNCHANGED <<exit, itemctr, parallel, batchVars>>

-----------------------------------------------------------------------------
\* start_engine(): the loop condition holds, the next batch is fired.
Searching ==
  /\ ~stopNow
  /\ Cardinality(results) < Number
  /\ Unfired # {} /\ parallel > 0

Fire ==
  /\ pc = "select"
  /\ Searching
  /\ \E B \in Batches :
       /\ fired' = fired \cup B
       /\ offline' = (B \ Silent) \cap Offline
       /\ todo' = (B \ Silent) \ Offline
  /\ offItems' = {} /\ halted' = FALSE
  /\ raw' = {} /\ cached' = {} /\ ready' = {}
  /\ pc' = "offline"
  /\ UNCHANGED <<exit, itemctr, stopNow, results, callerVars, history>>

\* something_was_searched is FALSE.
NothingSearched == fired = {}

SearchEnds ==
  /\ pc = "select"
  /\ ~Searching
  /\ errno' = IF NothingSearched THEN "no_provider" ELSE errno
  /\ pc' = "answer"
  /\ UNCHANGED <<exit, itemctr, fired, stopNow, results, calls, parallel, ret,
                 batchVars, history>>

-----------------------------------------------------------------------------
\* execute_query(): an offline provider is parsed without a download ...
AskOffline(p) ==
  /\ pc = "offline"
  /\ offItems = {} /\ ~halted
  /\ p \in offline
  /\ itemctr < Number
  /\ offline' = offline \ {p}
  /\ offItems' \in SUBSET From[p]
  /\ UNCHANGED <<pc, exit, itemctr, fired, stopNow, results, callerVars, todo,
                 halted, raw, cached, ready, history>>

\* ... and its items are offered one by one.  A stop ends both loops and skips
\* the downloads (proceed = FALSE); halted stands for the negation of proceed.
OfferOffline(i, response) ==
  /\ pc = "offline"
  /\ i \in offItems
  /\ itemctr < Number
  /\ Offered(i, response)
  /\ IF Adds(response)
     THEN cached' = cached \cup {i} /\ itemctr' = itemctr + 1
     ELSE UNCHANGED <<cached, itemctr>>
  /\ offItems' = IF Stops(response) THEN {} ELSE offItems \ {i}
  /\ halted' = Stops(response)
  /\ UNCHANGED <<pc, exit, fired, stopNow, results, callerVars, offline, todo,
                 raw, ready>>

\* async_download() is called only if it may still contribute.
OfflineEnds ==
  /\ pc = "offline"
  /\ \/ itemctr >= Number
     \/ offItems = {} /\ (offline = {} \/ halted)
  /\ pc' = IF ~halted /\ todo # {} /\ itemctr < Number
           THEN "pages" ELSE "commit"
  /\ offItems' = {}
  /\ UNCHANGED <<exit, itemctr, fired, stopNow, results, callerVars, offline,
                 todo, halted, raw, cached, ready, history>>

-----------------------------------------------------------------------------
\* A page arrives and call_provider_callback() parses it, unless there are
\* enough items already.  Those beyond query->number are freed, and then the
\* download is stopped.
PageArrives(p, parsed, kept) ==
  /\ pc = "pages"
  /\ ~exit /\ ~halted
  /\ p \in todo
  /\ parsed \in (IF itemctr < Number THEN SUBSET From[p] ELSE {{}})
  /\ \A i, j \in parsed : PageSum[i] = PageSum[j] => i = j
  /\ kept \subseteq parsed
  /\ Cardinality(kept) = IF Cardinality(parsed) < Room
                         THEN Cardinality(parsed) ELSE Room
  /\ todo' = todo \ {p}
  /\ raw' = raw \cup kept
  /\ itemctr' = itemctr + Cardinality(kept)
  /\ halted' = (kept # parsed)
  /\ UNCHANGED <<pc, exit, fired, stopNow, results, callerVars, offline,
                 offItems, cached, ready, history>>

\* The page is empty or its download failed.
PageFails(p) ==
  /\ pc = "pages"
  /\ ~exit /\ ~halted
  /\ p \in todo
  /\ todo' = todo \ {p}
  /\ UNCHANGED <<pc, exit, itemctr, fired, stopNow, results, callerVars,
                 offline, offItems, halted, raw, cached, ready, history>>

\* The download is over: duplicates among the pages are dropped and given back
\* to the counter, then the finalizer of the fetcher runs.
PagesEnd ==
  /\ pc = "pages"
  /\ todo = {} \/ halted \/ exit
  /\ \E D \in Deduplicated(raw) :
       /\ raw' = D
       /\ itemctr' = itemctr - Duplicates(raw, D)
       /\ todo' = IF Pictures THEN D ELSE {}
  /\ halted' = FALSE
  /\ pc' = IF raw = {} THEN "commit" ELSE IF Pictures THEN "pictures" ELSE "text"
  /\ UNCHANGED <<exit, fired, stopNow, results, callerVars, offline, offItems,
                 cached, ready, history>>

\* async_download() gives up with NULL: the parsed items are lost, the counter
\* still counts them.
PagesFail ==
  /\ pc = "pages"
  /\ ~exit /\ ~halted /\ todo # {}
  /\ raw' = {}
  /\ pc' = "commit"
  /\ UNCHANGED <<exit, itemctr, fired, stopNow, results, callerVars, offline,
                 offItems, todo, halted, cached, ready, history>>

-----------------------------------------------------------------------------
\* generic_txt_finalizer(): an item that is in result_list already, or comes
\* after a stop, is freed and given back to the counter ...
DropText(i) ==
  /\ pc = "text"
  /\ i \in raw
  /\ InResults(PageSum[i]) \/ stopNow
  /\ raw' = raw \ {i}
  /\ itemctr' = itemctr - 1
  /\ UNCHANGED <<pc, exit, fired, stopNow, results, callerVars, offline,
                 offItems, todo, halted, cached, ready, history>>

\* ... any other one is offered.  A refused item stays in the counter.
OfferText(i, response) ==
  /\ pc = "text"
  /\ i \in raw
  /\ ~InResults(PageSum[i]) /\ ~stopNow
  /\ Offered(i, response)
  /\ raw' = raw \ {i}
  /\ ready' = IF Adds(response) THEN ready \cup {i} ELSE ready
  /\ stopNow' = Stops(response)
  /\ UNCHANGED <<pc, exit, itemctr, fired, results, callerVars, offline,
                 offItems, todo, halted, cached>>

TextEnds ==
  /\ pc = "text"
  /\ raw = {}
  /\ pc' = "commit"
  /\ UNCHANGED <<exit, itemctr, fired, stopNow, results, callerVars, batchVars,
                 history>>

-----------------------------------------------------------------------------
\* generic_img_finalizer(): a picture arrives at async_dl_callback().  One that
\* is in result_list already is given back to the counter ...
DropPicture(i) ==
  /\ pc = "pictures"
  /\ ~exit /\ ~halted
  /\ i \in todo
  /\ InResults(PictureSum[i])
  /\ todo' = todo \ {i}
  /\ itemctr' = itemctr - 1
  /\ UNCHANGED <<pc, exit, fired, stopNow, results, callerVars, offline,
                 offItems, halted, raw, cached, ready, history>>

\* ... any other one is offered.  A stop ends this download, and only this.
OfferPicture(i, response) ==
  /\ pc = "pictures"
  /\ ~exit /\ ~halted
  /\ i \in todo
  /\ ~InResults(PictureSum[i])
  /\ Offered(i, response)
  /\ todo' = todo \ {i}
  /\ ready' = IF Adds(response) THEN ready \cup {i} ELSE ready
  /\ halted' = Stops(response)
  /\ UNCHANGED <<pc, exit, itemctr, fired, stopNow, results, callerVars,
                 offline, offItems, raw, cached>>

\* The address is blacklisted or its download failed: the counter is not told.
PictureFails(i) ==
  /\ pc = "pictures"
  /\ ~exit /\ ~halted
  /\ i \in todo
  /\ todo' = todo \ {i}
  /\ UNCHANGED <<pc, exit, itemctr, fired, stopNow, results, callerVars,
                 offline, offItems, halted, raw, cached, ready, history>>

PicturesEnd ==
  /\ pc = "pictures"
  /\ todo = {} \/ halted \/ exit
  /\ raw' = {} /\ todo' = {}
  /\ pc' = "commit"
  /\ UNCHANGED <<exit, itemctr, fired, stopNow, results, callerVars, offline,
                 offItems, halted, cached, ready, history>>

PicturesFail ==
  /\ pc = "pictures"
  /\ ~exit /\ ~halted /\ todo # {}
  /\ raw' = {} /\ ready' = {} /\ todo' = {}
  /\ pc' = "commit"
  /\ UNCHANGED <<exit, itemctr, fired, stopNow, results, callerVars, offline,
                 offItems, halted, cached, history>>

-----------------------------------------------------------------------------
\* stop_now after a batch; variant: a stop of the finalizer is overwritten.
StopOnSignal == exit
StopAfterBatch == exit \/ stopNow

\* The batch joins result_list; start_engine() looks at the exit signal.
Commit ==
  /\ pc = "commit"
  /\ results' = results \cup cached \cup ready
  /\ cached' = {} /\ ready' = {}
  /\ stopNow' = StopAfterBatch
  /\ pc' = "select"
  /\ UNCHANGED <<exit, itemctr, fired, callerVars, offline, offItems, todo,
                 halted, raw, history>>

\* The results are thrown away; variant: only when there were none.
ThrownAwayNever == results = {} /\ exit
ThrownAway == results # {} /\ exit

\* The end of glyr_get(): "Make this query reusable", then the results are
\* thrown away if the exit signal is set.
Answer ==
  /\ pc = "answer"
  /\ itemctr' = 0
  /\ IF ThrownAway
     THEN ret' = {} /\ errno' = "was_stopped"
     ELSE ret' = results /\ UNCHANGED errno
  /\ results' = {}
  /\ pc' = "reset"
  /\ UNCHANGED <<exit, fired, stopNow, calls, parallel, batchVars, history>>

\* SET_ATOMIC_SIGNAL_EXIT (query,0): a signal that came since is lost.
Reset ==
  /\ pc = "reset"
  /\ exit' = FALSE
  /\ pc' = "idle"
  /\ UNCHANGED <<itemctr, fired, stopNow, results, callerVars, batchVars,
                 history>>

-----------------------------------------------------------------------------
\* glyr_signal_exit(), from any thread, also between two calls.
SignalExit ==
  /\ ~exit
  /\ exit' = TRUE
  /\ UNCHANGED <<pc, itemctr, fired, stopNow, results, callerVars, batchVars,
                 history>>

Work ==
  \/ Fire \/ SearchEnds
  \/ \E p \in Provider : AskOffline(p)
  \/ \E i \in Item, response \in Response : OfferOffline(i, response)
  \/ OfflineEnds
  \/ \E p \in Provider :
       \E parsed \in SUBSET From[p] :
         \E kept \in SUBSET parsed : PageArrives(p, parsed, kept)
  \/ \E p \in Provider : PageFails(p)
  \/ PagesEnd \/ PagesFail
  \/ \E i \in Item : DropText(i)
  \/ \E i \in Item, response \in Response : OfferText(i, response)
  \/ TextEnds
  \/ \E i \in Item : DropPicture(i)
  \/ \E i \in Item, response \in Response : OfferPicture(i, response)
  \/ \E i \in Item : PictureFails(i)
  \/ PicturesEnd \/ PicturesFail
  \/ Commit \/ Answer \/ Reset

Finished == pc = "idle" /\ calls = MaxCalls

Next ==
  \/ Start \/ Reject
  \/ Work
  \/ SignalExit
  \/ Finished /\ UNCHANGED vars

\* The thread in glyr_get() keeps running and its downloads end: Downloader.tla
\* says when that is so.
Spec == Init /\ [][Next]_vars /\ WF_vars(Work)

-----------------------------------------------------------------------------
\* Every variable has its type.
TypeOK ==
  /\ pc \in {"idle", "select", "offline", "pages", "text", "pictures", "commit",
             "answer", "reset"}
  /\ exit \in BOOLEAN /\ halted \in BOOLEAN /\ stopNow \in BOOLEAN
  /\ asked \in BOOLEAN
  /\ calls \in 0..MaxCalls
  /\ parallel \in Nat
  /\ itemctr \in Nat
  /\ fired \subseteq Enabled
  /\ offline \subseteq Provider
  /\ todo \subseteq Provider \cup Item
  /\ offItems \subseteq Item /\ raw \subseteq Item /\ cached \subseteq Item
  /\ ready \subseteq Item /\ results \subseteq Item /\ ret \subseteq Item
  /\ accepted \subseteq Item
  /\ errno \in {"ok", "insuff_data", "no_provider", "was_stopped"}

\* "The maximum number of items to get in a glyr_get(), resulting number of
\* items may be below @num but not higher" (glyr.h:533): whatever the counter
\* went through, with dropped, refused and lost items in several batches.
NotMoreThanAsked == Cardinality(ret) <= Number

\* The items of this batch that the finalizer did not decide about yet.
Pending == IF pc = "pictures" THEN todo ELSE raw

\* itemctr, which stops parsers and downloads, never runs below the number of
\* items that may still reach the answer, whatever was dropped, refused or lost
\* in this batch and the ones before, and never beyond the limit.
CounterCoversItems ==
  /\ Cardinality(results) + Cardinality(cached) + Cardinality(ready)
       + Cardinality(Pending) <= itemctr
  /\ itemctr <= Number

\* No two items of an answer have the same checksum: "libglyr uses checksums to
\* filter double items" (core.h:44).
ItemsDiffer == \A i, j \in ret : FinalSum(i) = FinalSum(j) => i = j

\* "To stop right now and return the results" (glyr.h:294, 296): after the
\* callback answered with a stop, no other item is accepted in this call.
StopIsFinal == [][asked /\ asked' => accepted' = accepted]_vars

\* Providers are fired in the order of their ratings, over all batches.
BestFirst == \A p \in fired, q \in Enabled \ fired : Rating[p] >= Rating[q]

\* What glyr_get() promises to its caller.
Contract == INSTANCE Query WITH
  Candidate <- Item,
  Limit <- Number,
  phase <- IF pc = "idle" THEN "idle"
           ELSE IF pc = "reset" THEN "answered" ELSE "searching",
  answer <- ret,
  cancel <- exit

\* The engine keeps that promise.
ImplementsQuery == Contract!QuerySpec

\* Every call of glyr_get() returns.
EveryCallReturns == (pc # "idle") ~> (pc = "idle")
=============================================================================
