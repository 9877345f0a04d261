-------------------------- MODULE DownloaderProofs --------------------------
(***************************************************************************)
(* Proofs about Downloader.tla, for every set of addresses, every page and *)
(* either receiver: the ownership invariants and the implementation of     *)
(* Fetch.tla.                                                              *)
(***************************************************************************)
EXTENDS Downloader, TLAPS

\* Everything owned by u exactly when its transfer is under way.
Owned(u) ==
  /\ handle[u] /\ pointer[u]
  /\ ~consumed[u] /\ ~buffered[u]
  /\ easyMem[u] = "live" /\ cacheMem[u] = "live"
  /\ u \notin rawList

\* An address that was cut off: cleanup freed both of its objects.
CutOff(u) ==
  /\ ~pointer[u]
  /\ easyMem[u] = "freed" /\ cacheMem[u] = "freed"
  /\ u \notin rawList

\* A read message: the handle is gone, the cache is listed or freed.
Settled(u) ==
  /\ ~handle[u] /\ buffered[u]
  /\ easyMem[u] = "freed"
  /\ IF u \in rawList THEN /\ Receiver = "image"
                           /\ cacheMem[u] = "live"
                      ELSE /\ ~pointer[u]
                           /\ cacheMem[u] = "freed"

Untouched(u) ==
  /\ ~handle[u] /\ ~pointer[u]
  /\ easyMem[u] = "none" /\ cacheMem[u] = "none"
  /\ u \notin rawList

\* The phase of an address decides who owns its objects.
UrlInv ==
  \A u \in Url :
    /\ transfer[u] = "absent" => Untouched(u)
    /\ transfer[u] \in {"active", "ended", "message"} =>
         IF pc = "done" THEN CutOff(u) ELSE Owned(u)
    /\ transfer[u] = "read" => Settled(u)

\* Parsed items exist only for pages that were read, and live on the list.
ItemInv ==
  /\ \A i \in Item : itemMem[i] # "broken"
  /\ \A i \in Item : i \in itemList <=> itemMem[i] = "live"
  /\ \A u \in Url : transfer[u] # "read" => \A i \in Page[u] : itemMem[i] = "none"

\* The callback objects that exist, and what is left for the loop to do.
LoopInv ==
  /\ pc = "start" => \A u \in Url : transfer[u] = "absent"
  /\ pc = "start" => ~terminate /\ running /\ rawList = {} /\ itemList = {}
  /\ \A u \in Url : transfer[u] # "read" => ~consumed[u] /\ ~buffered[u]
  /\ pc # "start" => \A u \in Url : transfer[u] = "absent" <=> u \notin Wanted
  /\ ~running => \A u \in Url : transfer[u] \notin {"active", "ended"}
  /\ pc = "perform" /\ ~exit /\ ~terminate =>
       \A u \in Url : transfer[u] # "message"
  /\ pc = "done" /\ ~exit /\ ~terminate =>
       \A u \in Wanted : transfer[u] = "read"

IInv == TypeOK /\ UrlInv /\ ItemInv /\ LoopInv

-----------------------------------------------------------------------------
\* The initial values have their types.
LEMMA TypeInit == Init => TypeOK
<1> SUFFICES ASSUME Init PROVE TypeOK
  OBVIOUS
<1>1. /\ pc \in {"start", "perform", "read", "done", "failed"}
      /\ transfer \in [Url -> TransferState]
      /\ outcome \in [Url -> Outcome \cup {"none"}]
      /\ easyMem \in [Url -> Status] /\ cacheMem \in [Url -> Status]
      /\ itemMem \in [Item -> Status]
      /\ rawList \subseteq Url /\ itemList \subseteq Item
  BY DEF Init, TransferState, Status
<1>2. exit \in BOOLEAN /\ running \in BOOLEAN /\ terminate \in BOOLEAN
  BY DEF Init
<1>3. /\ handle \in [Url -> BOOLEAN] /\ pointer \in [Url -> BOOLEAN]
      /\ consumed \in [Url -> BOOLEAN] /\ buffered \in [Url -> BOOLEAN]
  BY DEF Init
<1> QED
  BY <1>1, <1>2, <1>3 DEF TypeOK

\* Every step keeps the types.
LEMMA TypeStep == TypeOK /\ [Next]_vars => TypeOK'
<1> SUFFICES ASSUME TypeOK, [Next]_vars PROVE TypeOK'
  OBVIOUS
<1> USE WorldAssumption DEF TypeOK, TransferState, Status, lists, curl, capo, memory
<1>1. CASE Setup
  BY <1>1 DEF Setup
<1>2. CASE Perform
  BY <1>2 DEF Perform, GoesOn
<1>3. CASE PerformFails
  BY <1>3 DEF PerformFails
<1>4. CASE NoMessage
  BY <1>4 DEF NoMessage
<1>5. ASSUME NEW u \in Url, ReadMessage(u) PROVE TypeOK'
  <2>1. CASE Discard(u)
    BY <2>1 DEF Discard, TakeMessage, DropCache, Freed
  <2>2. ASSUME NEW parsed \in SUBSET Page[u], NEW kept \in SUBSET parsed,
               Parse(u, parsed, kept)
        PROVE  TypeOK'
    BY <2>2 DEF Parse, AfterParsing, TakeMessage, Freed
  <2>3. ASSUME NEW halt \in BOOLEAN, KeepPicture(u, halt) PROVE TypeOK'
    BY <2>3 DEF KeepPicture, TakeMessage, Freed
  <2>4. ASSUME NEW halt \in BOOLEAN, RefusePicture(u, halt) PROVE TypeOK'
    BY <2>4 DEF RefusePicture, TakeMessage, DropCache, Freed
  <2> QED
    BY <1>5, <2>1, <2>2, <2>3, <2>4 DEF ReadMessage
<1>6. CASE Destroy
  BY <1>6 DEF Destroy, Freed
<1>7. ASSUME NEW u \in Url, NEW o \in OutcomesOf(u), TransferEnds(u, o)
      PROVE  TypeOK'
  BY <1>7 DEF TransferEnds, OutcomesOf
<1>8. CASE SignalExit
  BY <1>8 DEF SignalExit
<1>9. CASE UNCHANGED vars
  BY <1>9 DEF vars
<1> QED
  BY <1>1, <1>2, <1>3, <1>4, <1>5, <1>6, <1>7, <1>8, <1>9
  DEF Next, Step, Network

\* TypeOK of Downloader.tla: no step leaves the types.
THEOREM DownloaderTypes == Spec => []TypeOK
BY TypeInit, TypeStep, PTL DEF Spec

-----------------------------------------------------------------------------
\* The ownership invariant holds before anything is allocated.
LEMMA InvInit == Init => IInv
<1> SUFFICES ASSUME Init PROVE IInv
  OBVIOUS
<1>1. TypeOK
  BY TypeInit
<1>2. UrlInv
  BY DEF Init, UrlInv, Untouched
<1>3. ItemInv
  BY WorldAssumption DEF Init, ItemInv
<1>4. LoopInv
  BY DEF Init, LoopInv
<1> QED
  BY <1>1, <1>2, <1>3, <1>4 DEF IInv

\* Setup gives every wanted address its two objects.
LEMMA SetupInv == IInv /\ Setup => UrlInv' /\ ItemInv' /\ LoopInv'
<1> SUFFICES ASSUME IInv, Setup PROVE UrlInv' /\ ItemInv' /\ LoopInv'
  OBVIOUS
<1> USE DEF IInv, TypeOK, Setup, lists
<1>1. UrlInv'
  BY DEF UrlInv, Untouched, Owned, CutOff, Settled, LoopInv
<1>2. ItemInv'
  BY WorldAssumption DEF ItemInv, LoopInv
<1>3. LoopInv'
  BY DEF LoopInv, Wanted
<1> QED
  BY <1>1, <1>2, <1>3

\* Steps of the loop and the network that touch no object.
LEMMA LoopStepInv ==
  ASSUME IInv,
         \/ Perform \/ PerformFails \/ NoMessage \/ SignalExit
         \/ \E u \in Url : Network(u)
  PROVE  UrlInv' /\ ItemInv' /\ LoopInv'
<1> USE DEF IInv, TypeOK, lists, capo, memory, curl
<1>1. CASE Perform
  <2>1. UrlInv'
    BY <1>1 DEF Perform, UrlInv, Untouched, Owned, CutOff, Settled
  <2>2. ItemInv'
    BY <1>1, WorldAssumption DEF Perform, ItemInv
  <2>3. LoopInv'
    BY <1>1 DEF Perform, GoesOn, LoopInv, TransferState
  <2> QED
    BY <2>1, <2>2, <2>3
<1>2. CASE PerformFails
  BY <1>2, WorldAssumption
  DEF PerformFails, UrlInv, ItemInv, LoopInv, Untouched, Owned, CutOff, Settled
<1>3. CASE NoMessage
  BY <1>3, WorldAssumption
  DEF NoMessage, ReadAll, UrlInv, ItemInv, LoopInv, Untouched, Owned, CutOff, Settled
<1>4. CASE SignalExit
  BY <1>4, WorldAssumption
  DEF SignalExit, UrlInv, ItemInv, LoopInv, Untouched, Owned, CutOff, Settled
<1>5. ASSUME NEW u \in Url, NEW o \in OutcomesOf(u), TransferEnds(u, o)
      PROVE  UrlInv' /\ ItemInv' /\ LoopInv'
  <2>1. UrlInv'
    BY <1>5 DEF TransferEnds, UrlInv, Untouched, Owned, CutOff, Settled
  <2>2. ItemInv'
    BY <1>5, WorldAssumption DEF TransferEnds, ItemInv
  <2>3. LoopInv'
    BY <1>5 DEF TransferEnds, LoopInv, Wanted
  <2> QED
    BY <2>1, <2>2, <2>3
<1> QED
  BY <1>1, <1>2, <1>3, <1>4, <1>5 DEF Network

\* A read message settles its address and nothing else; its items are new.
LEMMA ReadInv ==
  ASSUME IInv, NEW u \in Url, ReadMessage(u)
  PROVE  UrlInv' /\ ItemInv' /\ LoopInv'
<1> USE DEF IInv, TypeOK, lists, TakeMessage
<1>1. Owned(u) /\ pc = "read"
  BY DEF UrlInv, ReadMessage, Discard, Parse, KeepPicture, RefusePicture
<1>2. CASE Discard(u)
  <2>1. UrlInv'
    BY <1>1, <1>2
    DEF Discard, DropCache, Freed, UrlInv, Untouched, Owned, CutOff, Settled
  <2>2. ItemInv' /\ LoopInv'
    BY <1>2, WorldAssumption DEF Discard, DropCache, ItemInv, LoopInv, Wanted
  <2> QED
    BY <2>1, <2>2
<1>3. ASSUME NEW parsed \in SUBSET Page[u], NEW kept \in SUBSET parsed,
             Parse(u, parsed, kept)
      PROVE  UrlInv' /\ ItemInv' /\ LoopInv'
  <2>1. UrlInv'
    BY <1>1, <1>3
    DEF Parse, Freed, UrlInv, Untouched, Owned, CutOff, Settled
  <2>2. ItemInv'
    BY <1>3, WorldAssumption, PageAssumption DEF Parse, AfterParsing, ItemInv
  <2>3. LoopInv'
    BY <1>3 DEF Parse, LoopInv, Wanted
  <2> QED
    BY <2>1, <2>2, <2>3
<1>4. ASSUME NEW halt \in BOOLEAN, KeepPicture(u, halt)
      PROVE  UrlInv' /\ ItemInv' /\ LoopInv'
  <2>1. UrlInv'
    BY <1>1, <1>4
    DEF KeepPicture, Freed, UrlInv, Untouched, Owned, CutOff, Settled
  <2>2. ItemInv' /\ LoopInv'
    BY <1>4, WorldAssumption DEF KeepPicture, ItemInv, LoopInv, Wanted
  <2> QED
    BY <2>1, <2>2
<1>5. ASSUME NEW halt \in BOOLEAN, RefusePicture(u, halt)
      PROVE  UrlInv' /\ ItemInv' /\ LoopInv'
  <2>1. UrlInv'
    BY <1>1, <1>5
    DEF RefusePicture, DropCache, Freed, UrlInv, Untouched, Owned, CutOff, Settled
  <2>2. ItemInv' /\ LoopInv'
    BY <1>5, WorldAssumption DEF RefusePicture, DropCache, ItemInv, LoopInv, Wanted
  <2> QED
    BY <2>1, <2>2
<1> QED
  BY <1>2, <1>3, <1>4, <1>5 DEF ReadMessage

\* The cleanup frees exactly what no message settled.
LEMMA DestroyInv ==
  ASSUME IInv, Destroy
  PROVE  UrlInv' /\ ItemInv' /\ LoopInv'
<1> USE DEF IInv, TypeOK, Destroy, GoesOn, lists, curl
<1>1. UrlInv'
  BY DEF MustFree, FreeCaches, Freed, UrlInv, LoopInv, Untouched, Owned, CutOff,
         Settled
<1>2. ItemInv'
  BY WorldAssumption DEF ItemInv
<1>3. LoopInv'
  BY DEF LoopInv, Wanted, TransferState
<1> QED
  BY <1>1, <1>2, <1>3

\* Every step keeps the inductive invariant.
LEMMA InvStep == IInv /\ [Next]_vars => IInv'
<1> SUFFICES ASSUME IInv, [Next]_vars PROVE IInv'
  OBVIOUS
<1>1. TypeOK'
  BY TypeStep DEF IInv
<1>2. CASE Setup
  BY <1>1, <1>2, SetupInv DEF IInv
<1>3. CASE Destroy
  BY <1>1, <1>3, DestroyInv DEF IInv
<1>4. ASSUME NEW u \in Url, ReadMessage(u) PROVE IInv'
  BY <1>1, <1>4, ReadInv DEF IInv
<1>5. CASE \/ Perform \/ PerformFails \/ NoMessage \/ SignalExit
           \/ \E u \in Url : Network(u)
  BY <1>1, <1>5, LoopStepInv DEF IInv
<1>6. CASE UNCHANGED vars
  BY <1>1, <1>6
  DEF IInv, vars, curl, capo, memory, lists, UrlInv, ItemInv, LoopInv, Untouched,
      Owned, CutOff, Settled
<1> QED
  BY <1>2, <1>3, <1>4, <1>5, <1>6 DEF Next, Step

LEMMA InvAlways == Spec => []IInv
BY InvInit, InvStep, PTL DEF Spec

-----------------------------------------------------------------------------
\* The invariant gives the ownership properties in every state.
LEMMA InvGives ==
  IInv => FreedAtMostOnce /\ ListedIsLive /\ NothingLeaks /\ EveryAnswerRead
<1> SUFFICES ASSUME IInv
             PROVE  FreedAtMostOnce /\ ListedIsLive /\ NothingLeaks /\ EveryAnswerRead
  OBVIOUS
<1> USE DEF IInv, TypeOK, UrlInv, Untouched, Owned, CutOff, Settled
<1>1. \A u \in Url : transfer[u] \in {"absent", "active", "ended", "message", "read"}
  BY DEF TransferState
<1>2. FreedAtMostOnce
  BY <1>1 DEF FreedAtMostOnce, ItemInv
<1>3. ListedIsLive
  BY <1>1 DEF ListedIsLive, ItemInv
<1>4. NothingLeaks
  BY <1>1 DEF NothingLeaks, ItemInv
<1>5. EveryAnswerRead
  BY DEF EveryAnswerRead, LoopInv
<1> QED
  BY <1>2, <1>3, <1>4, <1>5

\* Nothing that async_download() and its callbacks allocate is freed twice
\* (FreedAtMostOnce), and nothing it returns is freed (ListedIsLive).
THEOREM NoDoubleFree == Spec => []FreedAtMostOnce
BY InvAlways, InvGives, PTL

THEOREM ReturnedIsLive == Spec => []ListedIsLive
BY InvAlways, InvGives, PTL

\* destroy_async_download() leaves nothing behind (NothingLeaks).
THEOREM CleanupIsComplete == Spec => []NothingLeaks
BY InvAlways, InvGives, PTL

\* The loop reads every answer unless asked to stop (EveryAnswerRead).
THEOREM LoopIsComplete == Spec => []EveryAnswerRead
BY InvAlways, InvGives, PTL

-----------------------------------------------------------------------------
(* async_download() implements the download contract.                      *)

\* What the contract sees of a state.
jobState == CASE pc = "start" -> "idle"
              [] pc = "done" -> "closed"
              [] pc = "failed" -> "failed"
              [] OTHER -> "open"
todoSet == {u \in Wanted : pc # "start" /\ transfer[u] # "read"}
gotSet == IF pc = "failed" THEN {} ELSE rawList \cup itemList

LEMMA FetchInitial == Init => Job!FetchInit
BY DEF Init, Job!FetchInit

\* A step that leaves what the contract sees alone is a stutter.
LEMMA FetchStutter ==
  ASSUME jobState' = jobState, todoSet' = todoSet, gotSet' = gotSet,
         terminate' = terminate, exit' = exit
  PROVE  UNCHANGED Job!fetchVars
BY DEF jobState, todoSet, gotSet, Job!fetchVars

\* Reading the message of u answers u.
LEMMA FetchAnswers ==
  ASSUME IInv, NEW u \in Url, ReadMessage(u)
  PROVE  \E things \in SUBSET (Page[u] \cup {u}), halt \in BOOLEAN :
           Job!Answer(u, things, halt)
<1> USE DEF TakeMessage, Job!Answer
<1>0. /\ pc = "read" /\ pc' = pc /\ ~terminate /\ exit' = exit
      /\ transfer[u] = "message" /\ transfer' = [transfer EXCEPT ![u] = "read"]
      /\ transfer \in [Url -> TransferState]
  BY DEF IInv, TypeOK, ReadMessage, Discard, Parse, KeepPicture, RefusePicture
<1>1. u \in Wanted
  BY <1>0 DEF IInv, LoopInv
<1>2. u \in todoSet /\ todoSet' = todoSet \ {u}
  BY <1>0, <1>1 DEF todoSet, Wanted
<1>3. jobState = "open" /\ jobState' = jobState
  BY <1>0 DEF jobState
<1>4. ASSUME NEW things \in SUBSET (Page[u] \cup {u}),
             rawList' \cup itemList' = rawList \cup itemList \cup things,
             terminate' \in BOOLEAN
      PROVE  Job!Answer(u, things, terminate')
  BY <1>0, <1>2, <1>3, <1>4 DEF jobState, todoSet
<1>5. CASE Discard(u)
  <2>1. rawList' \cup itemList' = rawList \cup itemList \cup {}
    BY <1>5 DEF Discard, lists
  <2>2. terminate' \in BOOLEAN
    BY <1>0, <1>5 DEF Discard, IInv, TypeOK
  <2> QED
    BY <1>4, <2>1, <2>2
<1>6. ASSUME NEW parsed \in SUBSET Page[u], NEW kept \in SUBSET parsed,
             Parse(u, parsed, kept)
      PROVE  \E things \in SUBSET (Page[u] \cup {u}), halt \in BOOLEAN :
               Job!Answer(u, things, halt)
  <2>1. rawList' \cup itemList' = rawList \cup itemList \cup kept
    BY <1>6 DEF Parse
  <2>2. terminate' \in BOOLEAN /\ kept \in SUBSET (Page[u] \cup {u})
    BY <1>6 DEF Parse
  <2> QED
    BY <1>4, <2>1, <2>2
<1>7. ASSUME NEW halt \in BOOLEAN, KeepPicture(u, halt)
      PROVE  \E things \in SUBSET (Page[u] \cup {u}), h \in BOOLEAN :
               Job!Answer(u, things, h)
  <2>1. rawList' \cup itemList' = rawList \cup itemList \cup {u}
    BY <1>7 DEF KeepPicture
  <2>2. terminate' \in BOOLEAN
    BY <1>7 DEF KeepPicture
  <2> QED
    BY <1>4, <2>1, <2>2
<1>8. ASSUME NEW halt \in BOOLEAN, RefusePicture(u, halt)
      PROVE  \E things \in SUBSET (Page[u] \cup {u}), h \in BOOLEAN :
               Job!Answer(u, things, h)
  <2>1. rawList' \cup itemList' = rawList \cup itemList \cup {}
    BY <1>8 DEF RefusePicture, lists
  <2>2. terminate' \in BOOLEAN
    BY <1>8 DEF RefusePicture
  <2> QED
    BY <1>4, <2>1, <2>2
<1> QED
  BY <1>5, <1>6, <1>7, <1>8 DEF ReadMessage

\* Every step is a step of the contract or invisible to it.
LEMMA FetchStep == IInv /\ [Next]_vars => [Job!FetchNext]_(Job!fetchVars)
<1> SUFFICES ASSUME IInv, [Next]_vars
             PROVE  Job!FetchNext \/ UNCHANGED Job!fetchVars
  OBVIOUS
<1> USE DEF Job!FetchNext
<1>1. CASE Setup
  <2>1. Job!Open(Wanted)
    BY <1>1 DEF Setup, Job!Open, IInv, LoopInv, lists, Wanted
  <2> QED
    BY <2>1 DEF Wanted
<1>2. CASE Perform \/ NoMessage
  BY <1>2, FetchStutter
  DEF Perform, NoMessage, jobState, todoSet, gotSet, lists, curl, IInv, TypeOK, Wanted
<1>3. CASE PerformFails
  <2>1. Job!Fail
    BY <1>3 DEF PerformFails, Job!Fail, curl
  <2> QED
    BY <2>1
<1>4. ASSUME NEW u \in Url, ReadMessage(u) PROVE Job!FetchNext
  <2>1. [v \in Url |-> Page[v] \cup {v}][u] = Page[u] \cup {u}
    OBVIOUS
  <2> QED
    BY <1>4, <2>1, FetchAnswers
<1>5. CASE Destroy
  <2>1. todoSet = {} \/ terminate \/ exit
    BY <1>5 DEF Destroy, GoesOn, IInv, LoopInv, TypeOK, TransferState, todoSet, Wanted
  <2>2. Job!Close
    BY <1>5, <2>1 DEF Destroy, Job!Close, todoSet, curl, lists
  <2> QED
    BY <2>2
<1>6. ASSUME NEW u \in Url, NEW o \in OutcomesOf(u), TransferEnds(u, o)
      PROVE  UNCHANGED Job!fetchVars
  BY <1>6, FetchStutter
  DEF TransferEnds, jobState, todoSet, gotSet, lists, IInv, TypeOK, Wanted
<1>7. CASE SignalExit
  <2>1. Job!AskStop
    BY <1>7 DEF SignalExit, Job!AskStop, curl, lists
  <2> QED
    BY <2>1
<1>8. CASE UNCHANGED vars
  BY <1>8, FetchStutter DEF vars, curl, lists, jobState, todoSet, gotSet
<1> QED
  BY <1>1, <1>2, <1>3, <1>4, <1>5, <1>6, <1>7, <1>8 DEF Next, Step, Network

\* ImplementsFetch: every execution of async_download(), seen through its
\* arguments, its result and the exit signal, is one of the download contract.
THEOREM DownloaderImplementsFetch == Spec => ImplementsFetch
BY InvAlways, FetchInitial, FetchStep, PTL DEF Spec, ImplementsFetch, Job!FetchSpec
=============================================================================
