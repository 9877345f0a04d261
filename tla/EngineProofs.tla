---------------------------- MODULE EngineProofs ----------------------------
(***************************************************************************)
(* Proofs about Engine.tla, for every set of providers and items, every    *)
(* limit and every user callback: the counter covers the items in flight,  *)
(* so that no answer is too long, glyr_get() keeps the contract of         *)
(* Query.tla, and its downloads that of Fetch.tla.                         *)
(***************************************************************************)
EXTENDS Engine, FiniteSetTheorems, TLAPS

\* What is empty between the phases.
PhaseInv ==
  /\ pc \in {"idle", "reset", "answer", "select"} =>
       cached = {} /\ ready = {}
  /\ pc \in {"idle", "reset", "answer", "select", "offline", "commit"} => raw = {}
  /\ pc \in {"idle", "reset"} => itemctr = 0 /\ results = {}
  /\ pc = "pictures" => todo \subseteq Item

\* Only accepted items are on their way to the answer.
AcceptInv == results \cup cached \cup ready \subseteq accepted

IInv ==
  /\ TypeOK /\ CounterCoversItems /\ NotMoreThanAsked
  /\ PhaseInv /\ AcceptInv

-----------------------------------------------------------------------------
\* Cardinalities of sets of items.
LEMMA CardItem ==
  ASSUME NEW S \in SUBSET Item
  PROVE  IsFiniteSet(S) /\ Cardinality(S) \in Nat
BY EngineAssumption, FS_Subset, FS_CardinalityType

LEMMA CardEmpty == Cardinality({}) = 0
BY FS_EmptySet

LEMMA CardUnion ==
  ASSUME NEW S \in SUBSET Item, NEW T \in SUBSET Item
  PROVE  Cardinality(S \cup T) <= Cardinality(S) + Cardinality(T)
<1>1. IsFiniteSet(S) /\ IsFiniteSet(T) /\ Cardinality(S) \in Nat /\ Cardinality(T) \in Nat
  BY CardItem
<1>2. Cardinality(S \cup T)
        = Cardinality(S) + Cardinality(T) - Cardinality(S \cap T)
  BY <1>1, FS_Union
<1>3. Cardinality(S \cap T) \in Nat
  BY CardItem
<1> QED
  BY <1>1, <1>2, <1>3

LEMMA CardSubset ==
  ASSUME NEW S \in SUBSET Item, NEW T \in SUBSET S
  PROVE  Cardinality(T) <= Cardinality(S)
BY CardItem, FS_Subset

LEMMA CardAdd ==
  ASSUME NEW S \in SUBSET Item, NEW i \in Item
  PROVE  Cardinality(S \cup {i}) <= Cardinality(S) + 1
<1>1. IsFiniteSet(S) /\ Cardinality(S) \in Nat
  BY CardItem
<1>2. Cardinality(S \cup {i})
        = IF i \in S THEN Cardinality(S) ELSE Cardinality(S) + 1
  BY <1>1, FS_AddElement
<1> QED
  BY <1>1, <1>2

LEMMA CardRemove ==
  ASSUME NEW S \in SUBSET Item, NEW i \in S
  PROVE  Cardinality(S \ {i}) = Cardinality(S) - 1
BY CardItem, FS_RemoveElement

\* auto_detect_parallel() computes a number of providers, possibly 0.
LEMMA ParallelType == AutoParallel \in Nat
<1>1. Cardinality(Provider) \in Nat
  BY EngineAssumption, FS_CardinalityType
<1>2. \A n \in Nat, d \in Nat \ {0} : n \div d \in Nat
  OBVIOUS
<1>3. \A q \in 1..99 : 50 \div q \in Nat
  BY <1>2
<1> QED
  BY <1>1, <1>2, <1>3, EngineAssumption DEF AutoParallel

\* The four sets that the counter pays for are sets of items.
LEMMA Counted ==
  ASSUME IInv
  PROVE  /\ Pending \in SUBSET Item
         /\ Cardinality(results) \in Nat /\ Cardinality(cached) \in Nat
         /\ Cardinality(ready) \in Nat /\ Cardinality(Pending) \in Nat
         /\ itemctr \in Nat /\ Number \in Nat \ {0}
<1>1. Pending \in SUBSET Item
  BY DEF IInv, TypeOK, PhaseInv, Pending
<1>2. /\ results \in SUBSET Item /\ cached \in SUBSET Item
      /\ ready \in SUBSET Item
  BY DEF IInv, TypeOK
<1> QED
  BY <1>1, <1>2, CardItem, EngineAssumption DEF IInv, TypeOK

LEMMA IInvInit == Init => IInv
<1> SUFFICES ASSUME Init PROVE IInv
  OBVIOUS
<1> USE DEF Init
<1>1. TypeOK
  <2>1. calls \in 0..MaxCalls
    BY EngineAssumption
  <2> QED
    BY <2>1 DEF TypeOK
<1>2. CounterCoversItems /\ NotMoreThanAsked
  BY CardEmpty, EngineAssumption DEF CounterCoversItems, NotMoreThanAsked, Pending
<1>3. PhaseInv /\ AcceptInv
  BY DEF PhaseInv, AcceptInv
<1> QED
  BY <1>1, <1>2, <1>3 DEF IInv

-----------------------------------------------------------------------------
\* A call begins with nothing collected ...
LEMMA StartStep == IInv /\ (Start \/ Reject) => IInv'
<1> SUFFICES ASSUME IInv, Start \/ Reject PROVE IInv'
  OBVIOUS
<1> USE DEF IInv, Start, Reject, batchVars
<1>1. TypeOK'
  <2>1. calls' \in 0..MaxCalls
    BY EngineAssumption DEF TypeOK
  <2>2. parallel' \in Nat
    BY ParallelType DEF TypeOK
  <2> QED
    BY <2>1, <2>2 DEF TypeOK
<1>2. CounterCoversItems'
  BY CardEmpty, EngineAssumption DEF CounterCoversItems, Pending, PhaseInv
<1>3. NotMoreThanAsked'
  BY CardEmpty, EngineAssumption DEF NotMoreThanAsked
<1>4. PhaseInv' /\ AcceptInv'
  BY DEF PhaseInv, AcceptInv
<1> QED
  BY <1>1, <1>2, <1>3, <1>4

\* ... and firing a batch collects nothing.
LEMMA SelectStep == IInv /\ (Fire \/ SearchEnds) => IInv'
<1> SUFFICES ASSUME IInv, Fire \/ SearchEnds PROVE IInv'
  OBVIOUS
<1> USE DEF IInv, Fire, SearchEnds, callerVars, batchVars, history
<1>1. TypeOK'
  BY EngineAssumption DEF TypeOK, Batches, Unfired
<1>2. CounterCoversItems'
  BY CardEmpty DEF CounterCoversItems, Pending, PhaseInv
<1>3. NotMoreThanAsked' /\ PhaseInv' /\ AcceptInv'
  BY DEF NotMoreThanAsked, PhaseInv, AcceptInv
<1> QED
  BY <1>1, <1>2, <1>3

\* Offline providers: an accepted item enters cached and the counter at once.
LEMMA OfflineStep ==
  ASSUME IInv,
         \/ \E p \in Provider : AskOffline(p)
         \/ \E i \in Item, response \in Response : OfferOffline(i, response)
         \/ OfflineEnds
  PROVE  IInv'
<1> USE DEF callerVars, batchVars, history
<1>0. /\ Pending = raw /\ Pending' = raw'
      /\ UNCHANGED <<results, raw, ready, ret>>
  BY DEF AskOffline, OfferOffline, OfflineEnds, Pending
<1>1. ASSUME NEW p \in Provider, AskOffline(p) PROVE IInv'
  <2>1. TypeOK'
    BY <1>1, EngineAssumption DEF IInv, TypeOK, AskOffline
  <2> QED
    BY <1>0, <1>1, <2>1 DEF IInv, AskOffline, CounterCoversItems,
       NotMoreThanAsked, PhaseInv, AcceptInv
<1>2. ASSUME NEW i \in Item, NEW response \in Response,
             OfferOffline(i, response)
      PROVE  IInv'
  <2> USE <1>2 DEF OfferOffline, Offered
  <2>1. halted' \in BOOLEAN /\ asked' \in BOOLEAN
    BY DEF Stops
  <2>2. /\ itemctr' \in Nat
        /\ offItems' \subseteq Item /\ cached' \subseteq Item
        /\ accepted' \subseteq Item
    BY DEF IInv, TypeOK
  <2>3. TypeOK'
    BY <2>1, <2>2 DEF IInv, TypeOK
  <2>4. Cardinality(cached') - Cardinality(cached) <= itemctr' - itemctr
    <3>1. Cardinality(cached \cup {i}) <= Cardinality(cached) + 1
      BY CardAdd DEF IInv, TypeOK
    <3>2. Cardinality(cached \cup {i}) \in Nat
      BY CardItem DEF IInv, TypeOK
    <3>3. CASE Adds(response)
      <4>1. cached' = cached \cup {i} /\ itemctr' = itemctr + 1
        BY <3>3
      <4> HIDE <1>2 DEF OfferOffline, Offered
      <4> QED
        BY <3>1, <3>2, <4>1, Counted
    <3>4. CASE ~Adds(response)
      BY <3>4, Counted
    <3> QED
      BY <3>3, <3>4
  <2>5. Cardinality(cached') \in Nat
    BY <2>2, CardItem
  <2>6. CounterCoversItems'
    BY <1>0, <2>2, <2>4, <2>5, Counted DEF IInv, CounterCoversItems
  <2>7. NotMoreThanAsked' /\ PhaseInv'
    BY <1>0 DEF IInv, NotMoreThanAsked, PhaseInv
  <2>8. AcceptInv'
    BY <1>0 DEF IInv, AcceptInv
  <2> QED
    BY <2>3, <2>6, <2>7, <2>8 DEF IInv
<1>3. CASE OfflineEnds
  <2> USE <1>3 DEF OfflineEnds
  <2>1. TypeOK'
    BY DEF IInv, TypeOK
  <2>2. raw' = raw /\ (pc' = "commit" => pc = "offline")
    OBVIOUS
  <2> QED
    BY <1>0, <2>1, <2>2 DEF IInv, CounterCoversItems, NotMoreThanAsked,
       PhaseInv, AcceptInv
<1> QED
  BY <1>1, <1>2, <1>3

\* Pages: what a parser found is counted up to the limit, what an early return
\* loses stays counted.
LEMMA PageStep ==
  ASSUME IInv,
         \/ \E p \in Provider :
              \E parsed \in SUBSET From[p] :
                \E kept \in SUBSET parsed : PageArrives(p, parsed, kept)
         \/ \E p \in Provider : PageFails(p)
         \/ PagesFail
  PROVE  IInv'
<1> USE DEF callerVars, history
<1>0. /\ Pending = raw /\ Pending' = raw'
      /\ UNCHANGED <<results, cached, ready, ret, accepted>>
  BY DEF PageArrives, PageFails, PagesFail, Pending
<1>1. ASSUME NEW p \in Provider, NEW parsed \in SUBSET From[p],
             NEW kept \in SUBSET parsed, PageArrives(p, parsed, kept)
      PROVE  IInv'
  <2> USE <1>1 DEF PageArrives
  <2>1. parsed \in SUBSET Item /\ kept \in SUBSET Item
    BY EngineAssumption
  <2>2. raw' \in SUBSET Item
    BY <2>1 DEF IInv, TypeOK
  <2>3. halted' \in BOOLEAN
    OBVIOUS
  <2>4. Cardinality(kept) \in Nat /\ Cardinality(parsed) \in Nat
    BY <2>1, CardItem
  <2>5. itemctr' \in Nat /\ itemctr' <= Number
    BY <2>4, Counted DEF IInv, CounterCoversItems, Room
  <2>6. TypeOK'
    BY <2>2, <2>3, <2>5 DEF IInv, TypeOK
  <2>7. Cardinality(raw') <= Cardinality(raw) + Cardinality(kept)
    BY <2>1, CardUnion DEF IInv, TypeOK
  <2>8. Cardinality(raw') \in Nat
    BY <2>2, CardItem
  <2>9. CounterCoversItems'
    BY <1>0, <2>4, <2>5, <2>7, <2>8, Counted DEF IInv, CounterCoversItems
  <2> QED
    BY <1>0, <2>6, <2>9 DEF IInv, NotMoreThanAsked, PhaseInv, AcceptInv
<1>2. ASSUME NEW p \in Provider, PageFails(p) PROVE IInv'
  <2> USE <1>2 DEF PageFails
  <2>1. TypeOK'
    BY DEF IInv, TypeOK
  <2> QED
    BY <1>0, <2>1 DEF IInv, CounterCoversItems, NotMoreThanAsked, PhaseInv,
       AcceptInv
<1>3. CASE PagesFail
  <2> USE <1>3 DEF PagesFail
  <2>1. TypeOK'
    BY DEF IInv, TypeOK
  <2>2. CounterCoversItems'
    BY <1>0, CardEmpty, Counted DEF IInv, CounterCoversItems
  <2> QED
    BY <1>0, <2>1, <2>2 DEF IInv, NotMoreThanAsked, PhaseInv, AcceptInv
<1> QED
  BY <1>1, <1>2, <1>3

\* The duplicates among the pages leave raw and the counter together.
LEMMA PagesEndStep ==
  ASSUME IInv, PagesEnd
  PROVE  IInv'
<1> USE DEF PagesEnd, callerVars, history
<1>1. PICK D \in Deduplicated(raw) :
        /\ raw' = D
        /\ itemctr' = itemctr - Duplicates(raw, D)
        /\ todo' = IF Pictures THEN D ELSE {}
  OBVIOUS
<1>2. D \in SUBSET raw /\ D \in SUBSET Item /\ raw \in SUBSET Item
  BY DEF Deduplicated, IInv, TypeOK
<1>3. /\ Cardinality(D) \in Nat /\ Cardinality(raw) \in Nat
      /\ Cardinality(D) <= Cardinality(raw)
  BY <1>2, CardItem, CardSubset
<1>4. Pending = raw /\ Pending' = D
  <2>1. CASE raw = {}
    BY <1>1, <1>2, <2>1 DEF Pending
  <2>2. CASE raw # {} /\ Pictures
    BY <1>1, <2>2 DEF Pending
  <2>3. CASE raw # {} /\ ~Pictures
    BY <1>1, <2>3 DEF Pending
  <2> QED
    BY <2>1, <2>2, <2>3
<1>5. itemctr' = itemctr - (Cardinality(raw) - Cardinality(D))
  BY <1>1 DEF Duplicates
<1>6. CounterCoversItems' /\ itemctr' \in Nat
  BY <1>3, <1>4, <1>5, Counted DEF IInv, CounterCoversItems
<1>7. pc' \in {"commit", "pictures", "text"} /\ (pc' = "commit" => raw' = {})
  BY <1>1, <1>2
<1>8. TypeOK'
  BY <1>1, <1>2, <1>6, <1>7 DEF IInv, TypeOK
<1>9. NotMoreThanAsked' /\ PhaseInv' /\ AcceptInv'
  BY <1>1, <1>2, <1>7 DEF IInv, NotMoreThanAsked, PhaseInv, AcceptInv
<1> QED
  BY <1>6, <1>8, <1>9 DEF IInv

\* The text finalizer moves an item to ready, or drops it with its count; a
\* refused one stays in the counter.
LEMMA TextStep ==
  ASSUME IInv,
         \/ \E i \in Item : DropText(i)
         \/ \E i \in Item, response \in Response : OfferText(i, response)
         \/ TextEnds
  PROVE  IInv'
<1> USE DEF callerVars, batchVars, history
<1>0. /\ Pending = raw /\ Pending' = raw'
      /\ UNCHANGED <<results, cached, ret>>
  BY DEF DropText, OfferText, TextEnds, Pending
<1>1. raw \in SUBSET Item /\ ready \in SUBSET Item
  BY DEF IInv, TypeOK
<1>2. ASSUME NEW i \in raw
      PROVE  /\ Cardinality(raw \ {i}) = Cardinality(raw) - 1
             /\ Cardinality(raw \ {i}) \in Nat
  BY <1>1, CardItem, CardRemove
<1>3. ASSUME NEW i \in Item, DropText(i) PROVE IInv'
  <2>1. raw' = raw \ {i} /\ i \in raw /\ itemctr' = itemctr - 1 /\ ready' = ready
    BY <1>3 DEF DropText
  <2>2. CounterCoversItems' /\ itemctr' \in Nat
    BY <1>0, <1>2, <2>1, Counted DEF IInv, CounterCoversItems
  <2>3. TypeOK'
    BY <1>3, <2>2 DEF IInv, TypeOK, DropText
  <2> QED
    BY <1>0, <1>3, <2>2, <2>3 DEF IInv, DropText, NotMoreThanAsked, PhaseInv,
       AcceptInv
<1>4. ASSUME NEW i \in Item, NEW response \in Response, OfferText(i, response)
      PROVE  IInv'
  <2>1. /\ raw' = raw \ {i} /\ i \in raw /\ itemctr' = itemctr
        /\ ready' = ready \/ ready' = ready \cup {i}
    BY <1>4 DEF OfferText
  <2>2. Cardinality(ready') <= Cardinality(ready) + 1 /\ Cardinality(ready') \in Nat
    <3>1. CASE ready' = ready
      BY <3>1, Counted
    <3>2. CASE ready' = ready \cup {i}
      BY <1>1, <3>2, CardAdd, CardItem
    <3> QED
      BY <2>1, <3>1, <3>2
  <2>3. CounterCoversItems'
    BY <1>0, <1>2, <2>1, <2>2, Counted DEF IInv, CounterCoversItems
  <2>4. stopNow' \in BOOLEAN /\ asked' \in BOOLEAN
    BY <1>4 DEF OfferText, Offered, Stops
  <2>5. TypeOK'
    BY <1>4, <2>1, <2>4 DEF IInv, TypeOK, OfferText, Offered
  <2>6. AcceptInv'
    BY <1>0, <1>4 DEF IInv, AcceptInv, OfferText, Offered
  <2> QED
    BY <1>0, <1>4, <2>3, <2>5, <2>6 DEF IInv, OfferText, NotMoreThanAsked,
       PhaseInv
<1>5. CASE TextEnds
  <2>1. TypeOK'
    BY <1>5 DEF IInv, TypeOK, TextEnds
  <2> QED
    BY <1>0, <1>5, <2>1 DEF IInv, TextEnds, CounterCoversItems,
       NotMoreThanAsked, PhaseInv, AcceptInv
<1> QED
  BY <1>3, <1>4, <1>5

\* The picture finalizer does the same for the address of each picture.
LEMMA PictureStep ==
  ASSUME IInv,
         \/ \E i \in Item : DropPicture(i) \/ PictureFails(i)
         \/ \E i \in Item, response \in Response : OfferPicture(i, response)
         \/ PicturesEnd \/ PicturesFail
  PROVE  IInv'
<1> USE DEF callerVars, batchVars, history
<1>0. pc = "pictures" /\ Pending = todo /\ UNCHANGED <<results, cached, ret>>
  BY DEF DropPicture, OfferPicture, PictureFails, PicturesEnd, PicturesFail,
     Pending
<1>1. todo \in SUBSET Item /\ ready \in SUBSET Item
  BY <1>0 DEF IInv, TypeOK, PhaseInv
<1>2. ASSUME NEW i \in todo
      PROVE  /\ Cardinality(todo \ {i}) = Cardinality(todo) - 1
             /\ Cardinality(todo \ {i}) \in Nat
  BY <1>1, CardItem, CardRemove
<1>3. ASSUME NEW i \in Item, DropPicture(i) PROVE IInv'
  <2>1. /\ todo' = todo \ {i} /\ i \in todo /\ itemctr' = itemctr - 1
        /\ ready' = ready /\ Pending' = todo \ {i}
    BY <1>0, <1>3 DEF DropPicture, Pending
  <2>2. CounterCoversItems' /\ itemctr' \in Nat
    BY <1>0, <1>2, <2>1, Counted DEF IInv, CounterCoversItems
  <2>3. TypeOK'
    BY <1>3, <2>2 DEF IInv, TypeOK, DropPicture
  <2> QED
    BY <1>0, <1>3, <2>2, <2>3 DEF IInv, DropPicture, NotMoreThanAsked, PhaseInv,
       AcceptInv
<1>4. ASSUME NEW i \in Item, NEW response \in Response,
             OfferPicture(i, response)
      PROVE  IInv'
  <2>1. /\ todo' = todo \ {i} /\ i \in todo /\ itemctr' = itemctr
        /\ ready' = ready \/ ready' = ready \cup {i}
        /\ pc' = pc
    BY <1>4 DEF OfferPicture
  <2>2. Cardinality(ready') <= Cardinality(ready) + 1 /\ Cardinality(ready') \in Nat
    <3>1. CASE ready' = ready
      BY <3>1, Counted
    <3>2. CASE ready' = ready \cup {i}
      BY <1>1, <3>2, CardAdd, CardItem
    <3> QED
      BY <2>1, <3>1, <3>2
  <2>3. CounterCoversItems'
    BY <1>0, <1>2, <2>1, <2>2, Counted DEF IInv, CounterCoversItems, Pending
  <2>4. halted' \in BOOLEAN /\ asked' \in BOOLEAN
    BY <1>4 DEF OfferPicture, Offered, Stops
  <2>5. TypeOK'
    BY <1>4, <2>1, <2>4 DEF IInv, TypeOK, OfferPicture, Offered
  <2>6. AcceptInv'
    BY <1>0, <1>4 DEF IInv, AcceptInv, OfferPicture, Offered
  <2> QED
    BY <1>0, <1>4, <2>3, <2>5, <2>6 DEF IInv, OfferPicture, NotMoreThanAsked,
       PhaseInv
<1>5. ASSUME NEW i \in Item, PictureFails(i) PROVE IInv'
  <2>1. todo' = todo \ {i} /\ i \in todo /\ UNCHANGED <<pc, itemctr, ready>>
    BY <1>5 DEF PictureFails
  <2>2. CounterCoversItems'
    BY <1>0, <1>2, <2>1, Counted DEF IInv, CounterCoversItems, Pending
  <2>3. TypeOK'
    BY <1>5 DEF IInv, TypeOK, PictureFails
  <2> QED
    BY <1>0, <1>5, <2>2, <2>3 DEF IInv, PictureFails, NotMoreThanAsked,
       PhaseInv, AcceptInv
<1>6. CASE PicturesEnd \/ PicturesFail
  <2>1. /\ pc' = "commit" /\ raw' = {} /\ todo' = {}
        /\ itemctr' = itemctr
        /\ ready' = ready \/ ready' = {}
    BY <1>6 DEF PicturesEnd, PicturesFail
  <2>2. Cardinality(ready') \in Nat /\ Cardinality(ready') <= Cardinality(ready)
    BY <2>1, CardEmpty, Counted
  <2>3. CounterCoversItems'
    BY <1>0, <2>1, <2>2, CardEmpty, Counted DEF IInv, CounterCoversItems, Pending
  <2>4. TypeOK'
    BY <1>6 DEF IInv, TypeOK, PicturesEnd, PicturesFail
  <2> QED
    BY <1>0, <1>6, <2>1, <2>3, <2>4 DEF IInv, PicturesEnd, PicturesFail,
       NotMoreThanAsked, PhaseInv, AcceptInv
<1> QED
  BY <1>3, <1>4, <1>5, <1>6

\* The batch joins the results, the results become the answer: what was counted
\* apart is now counted together.
LEMMA EndStep == IInv /\ (Commit \/ Answer \/ Reset \/ SignalExit) => IInv'
<1> SUFFICES ASSUME IInv, Commit \/ Answer \/ Reset \/ SignalExit PROVE IInv'
  OBVIOUS
<1> USE DEF callerVars, batchVars, history
<1>1. CASE Commit
  <2> USE <1>1 DEF Commit
  <2>1. /\ results \in SUBSET Item /\ cached \in SUBSET Item
        /\ ready \in SUBSET Item /\ results' = results \cup cached \cup ready
        /\ cached' = {} /\ ready' = {} /\ raw = {}
    BY DEF IInv, TypeOK, PhaseInv
  <2>2. /\ Cardinality(results') \in Nat
        /\ Cardinality(results')
             <= Cardinality(results) + Cardinality(cached) + Cardinality(ready)
    <3>1. Cardinality(results \cup cached)
            <= Cardinality(results) + Cardinality(cached)
      BY <2>1, CardUnion
    <3>2. Cardinality((results \cup cached) \cup ready)
            <= Cardinality(results \cup cached) + Cardinality(ready)
      BY <2>1, CardUnion
    <3>3. /\ Cardinality(results \cup cached) \in Nat
          /\ Cardinality((results \cup cached) \cup ready) \in Nat
      BY <2>1, CardItem
    <3>4. results' = (results \cup cached) \cup ready
      BY <2>1
    <3> HIDE <1>1 DEF Commit
    <3> QED
      BY <3>1, <3>2, <3>3, <3>4, Counted
  <2>3. Pending = {} /\ Pending' = {} /\ itemctr' = itemctr
    BY <2>1 DEF Pending
  <2>4. CounterCoversItems'
    BY <2>1, <2>2, <2>3, CardEmpty, Counted DEF IInv, CounterCoversItems
  <2>5. stopNow' \in BOOLEAN
    BY DEF IInv, TypeOK, StopAfterBatch
  <2>6. TypeOK'
    BY <2>1, <2>5 DEF IInv, TypeOK
  <2> QED
    BY <2>1, <2>4, <2>6 DEF IInv, NotMoreThanAsked, PhaseInv, AcceptInv
<1>2. CASE Answer
  <2> USE <1>2 DEF Answer
  <2>1. ret' = results \/ ret' = {}
    OBVIOUS
  <2>2. NotMoreThanAsked'
    BY <2>1, CardEmpty, Counted DEF IInv, CounterCoversItems, NotMoreThanAsked
  <2>3. /\ results' = {} /\ cached' = {} /\ ready' = {} /\ Pending' = {}
        /\ itemctr' = 0
    BY DEF IInv, PhaseInv, Pending
  <2>4. CounterCoversItems'
    BY <2>3, CardEmpty, EngineAssumption DEF CounterCoversItems
  <2>5. TypeOK'
    BY <2>1, <2>3 DEF IInv, TypeOK
  <2> QED
    BY <2>2, <2>3, <2>4, <2>5 DEF IInv, PhaseInv, AcceptInv
<1>3. CASE Reset \/ SignalExit
  <2>1. TypeOK'
    BY <1>3 DEF IInv, TypeOK, Reset, SignalExit
  <2>2. /\ UNCHANGED <<results, cached, ready, raw, todo, itemctr, ret, accepted>>
        /\ pc' = pc \/ (pc = "reset" /\ pc' = "idle")
    BY <1>3 DEF Reset, SignalExit
  <2>3. Pending' = Pending
    BY <2>2 DEF Pending
  <2> QED
    BY <2>1, <2>2, <2>3 DEF IInv, CounterCoversItems, NotMoreThanAsked, PhaseInv,
       AcceptInv
<1> QED
  BY <1>1, <1>2, <1>3

LEMMA IInvNext == IInv /\ [Next]_vars => IInv'
<1> SUFFICES ASSUME IInv, [Next]_vars PROVE IInv'
  OBVIOUS
<1>1. CASE Start \/ Reject
  BY <1>1, StartStep
<1>2. CASE Work
  <2>1. CASE Fire \/ SearchEnds
    BY <2>1, SelectStep
  <2>2. CASE \/ \E p \in Provider : AskOffline(p)
             \/ \E i \in Item, response \in Response : OfferOffline(i, response)
             \/ OfflineEnds
    BY <2>2, OfflineStep
  <2>3. CASE \/ \E p \in Provider :
                  \E parsed \in SUBSET From[p] :
                    \E kept \in SUBSET parsed : PageArrives(p, parsed, kept)
             \/ \E p \in Provider : PageFails(p)
             \/ PagesFail
    BY <2>3, PageStep
  <2>4. CASE PagesEnd
    BY <2>4, PagesEndStep
  <2>5. CASE \/ \E i \in Item : DropText(i)
             \/ \E i \in Item, response \in Response : OfferText(i, response)
             \/ TextEnds
    BY <2>5, TextStep
  <2>6. CASE \/ \E i \in Item : DropPicture(i) \/ PictureFails(i)
             \/ \E i \in Item, response \in Response : OfferPicture(i, response)
             \/ PicturesEnd \/ PicturesFail
    BY <2>6, PictureStep
  <2>7. CASE Commit \/ Answer \/ Reset
    BY <2>7, EndStep
  <2> QED
    BY <1>2, <2>1, <2>2, <2>3, <2>4, <2>5, <2>6, <2>7 DEF Work
<1>3. CASE SignalExit
  BY <1>3, EndStep
<1>4. CASE UNCHANGED vars
  BY <1>4 DEF vars, callerVars, batchVars, history, IInv, TypeOK,
     CounterCoversItems, NotMoreThanAsked, PhaseInv, AcceptInv, Pending
<1> QED
  BY <1>1, <1>2, <1>3, <1>4 DEF Next

-----------------------------------------------------------------------------
LEMMA Inductive == Spec => []IInv
<1>1. Init => IInv
  BY IInvInit
<1>2. IInv /\ [Next]_vars => IInv'
  BY IInvNext
<1> QED
  BY <1>1, <1>2, PTL DEF Spec

\* Every variable keeps its type; in particular itemctr never becomes negative
\* by giving back items that were not counted.
THEOREM EngineTypes == Spec => []TypeOK
<1>1. IInv => TypeOK
  BY DEF IInv
<1> QED
  BY <1>1, Inductive, PTL

\* query->itemctr is at least the number of items that can still reach the
\* answer and at most query->number, in every state of every call.
THEOREM CounterIsSafe == Spec => []CounterCoversItems
<1>1. IInv => CounterCoversItems
  BY DEF IInv
<1> QED
  BY <1>1, Inductive, PTL

\* glyr_get() never returns more items than glyr_opt_number() allows.
THEOREM AnswerBound == Spec => []NotMoreThanAsked
<1>1. IInv => NotMoreThanAsked
  BY DEF IInv
<1> QED
  BY <1>1, Inductive, PTL

-----------------------------------------------------------------------------
(* glyr_get() keeps the contract of Query.tla.                             *)

\* What the contract sees of the program counter.
phaseOf == IF pc = "idle" THEN "idle"
           ELSE IF pc = "reset" THEN "answered" ELSE "searching"

LEMMA QueryInitial == Init => Contract!QueryInit
BY DEF Init, Contract!QueryInit

\* The contract counts as FiniteSets does.
LEMMA SameCardinality == \A S : Contract!Cardinality(S) = Cardinality(S)
BY DEF Contract!Cardinality, Cardinality

\* A step within the search that accepts nothing is a stutter.
LEMMA QueryStutter ==
  ASSUME phaseOf' = phaseOf, accepted' = accepted, ret' = ret, exit' = exit
  PROVE  UNCHANGED Contract!queryVars
BY DEF phaseOf, Contract!queryVars

\* An offered item is accepted, or nothing happens that the contract sees.
LEMMA QueryOffer ==
  ASSUME NEW i \in Item, NEW response \in Response, Offered(i, response),
         phaseOf = "searching", phaseOf' = "searching", ret' = ret, exit' = exit
  PROVE  Contract!QueryNext \/ UNCHANGED Contract!queryVars
<1>1. CASE Adds(response)
  <2>1. Contract!Accept(i)
    BY <1>1 DEF Offered, Contract!Accept, phaseOf
  <2> QED
    BY <2>1 DEF Contract!QueryNext
<1>2. CASE ~Adds(response)
  BY <1>2, QueryStutter DEF Offered
<1> QED
  BY <1>1, <1>2

\* Every step is a step of the contract or invisible to it.
LEMMA QueryStep == IInv /\ [Next]_vars => [Contract!QueryNext]_(Contract!queryVars)
<1> SUFFICES ASSUME IInv, [Next]_vars
             PROVE  Contract!QueryNext \/ UNCHANGED Contract!queryVars
  OBVIOUS
<1> USE DEF callerVars, batchVars, history
<1>1. CASE Start \/ Reject
  <2>1. Contract!Call
    BY <1>1 DEF Start, Reject, Contract!Call
  <2> QED
    BY <2>1 DEF Contract!QueryNext
<1>2. CASE Fire \/ SearchEnds \/ OfflineEnds
  BY <1>2, QueryStutter DEF Fire, SearchEnds, OfflineEnds, phaseOf
<1>3. ASSUME NEW p \in Provider, AskOffline(p) \/ PageFails(p)
      PROVE  UNCHANGED Contract!queryVars
  BY <1>3, QueryStutter DEF AskOffline, PageFails, phaseOf
<1>4. ASSUME NEW p \in Provider, NEW parsed \in SUBSET From[p],
             NEW kept \in SUBSET parsed, PageArrives(p, parsed, kept)
      PROVE  UNCHANGED Contract!queryVars
  BY <1>4, QueryStutter DEF PageArrives, phaseOf
<1>5. CASE PagesEnd \/ PagesFail \/ TextEnds
  BY <1>5, QueryStutter DEF PagesEnd, PagesFail, TextEnds, phaseOf
<1>6. CASE PicturesEnd \/ PicturesFail \/ Commit
  BY <1>6, QueryStutter DEF PicturesEnd, PicturesFail, Commit, phaseOf
<1>7. ASSUME NEW i \in Item, DropText(i) \/ DropPicture(i) \/ PictureFails(i)
      PROVE  UNCHANGED Contract!queryVars
  BY <1>7, QueryStutter DEF DropText, DropPicture, PictureFails, phaseOf
<1>8. ASSUME NEW i \in Item, NEW response \in Response,
             \/ OfferOffline(i, response) \/ OfferText(i, response)
             \/ OfferPicture(i, response)
      PROVE  Contract!QueryNext \/ UNCHANGED Contract!queryVars
  <2>1. /\ Offered(i, response) /\ phaseOf = "searching"
        /\ phaseOf' = "searching" /\ ret' = ret /\ exit' = exit
    BY <1>8 DEF OfferOffline, OfferText, OfferPicture, phaseOf
  <2> QED
    BY <2>1, QueryOffer
<1>9. CASE Answer
  <2>1. results \in SUBSET Item /\ results \subseteq accepted
    BY DEF IInv, TypeOK, AcceptInv
  <2>2. Cardinality(results) <= Number
    BY Counted DEF IInv, CounterCoversItems
  <2>3. CASE ThrownAway
    <3>1. Contract!Return({})
      BY <1>9, <2>3, CardEmpty, SameCardinality, EngineAssumption
      DEF Answer, Contract!Return
    <3> QED
      BY <3>1 DEF Contract!QueryNext
  <2>4. CASE ~ThrownAway
    <3>1. Contract!Return(results)
      BY <1>9, <2>1, <2>2, <2>4, SameCardinality
      DEF Answer, ThrownAway, Contract!Return
    <3> QED
      BY <2>1, <3>1 DEF Contract!QueryNext
  <2> QED
    BY <2>3, <2>4
<1>10. CASE Reset
  <2>1. Contract!Rearm
    BY <1>10 DEF Reset, Contract!Rearm
  <2> QED
    BY <2>1 DEF Contract!QueryNext
<1>11. CASE SignalExit
  <2>1. Contract!Cancel
    BY <1>11 DEF SignalExit, Contract!Cancel
  <2> QED
    BY <2>1 DEF Contract!QueryNext
<1>12. CASE UNCHANGED vars
  BY <1>12, QueryStutter DEF vars, phaseOf
<1> QED
  BY <1>1, <1>2, <1>3, <1>4, <1>5, <1>6, <1>7, <1>8, <1>9, <1>10, <1>11, <1>12
  DEF Next, Work

\* ImplementsQuery: every execution of the engine, seen through its calls, its
\* answers, what the callback accepted and the exit signal, is one of Query.tla:
\* answers hold accepted items only, no more than asked for, and none after a
\* cancellation that the end of the call sees.
THEOREM EngineImplementsQuery == Spec => ImplementsQuery
BY Inductive, QueryInitial, QueryStep, PTL
DEF Spec, ImplementsQuery, Contract!QuerySpec

-----------------------------------------------------------------------------
(* The order of the providers, and what text jobs promise besides.         *)

\* What happens within a call besides firing batches.
LEMMA OthersFireNothing ==
  ASSUME [Next]_vars
  PROVE  Fire \/ Start \/ Reject \/ fired' = fired
<1> USE DEF callerVars, batchVars, history
<1>1. CASE Work
  <2>1. ASSUME NEW p \in Provider, AskOffline(p) \/ PageFails(p)
        PROVE  fired' = fired
    BY <2>1 DEF AskOffline, PageFails
  <2>2. ASSUME NEW p \in Provider, NEW parsed \in SUBSET From[p],
               NEW kept \in SUBSET parsed, PageArrives(p, parsed, kept)
        PROVE  fired' = fired
    BY <2>2 DEF PageArrives
  <2>3. ASSUME NEW i \in Item, DropText(i) \/ DropPicture(i) \/ PictureFails(i)
        PROVE  fired' = fired
    BY <2>3 DEF DropText, DropPicture, PictureFails
  <2>4. ASSUME NEW i \in Item, NEW response \in Response,
               \/ OfferOffline(i, response) \/ OfferText(i, response)
               \/ OfferPicture(i, response)
        PROVE  fired' = fired
    BY <2>4 DEF OfferOffline, OfferText, OfferPicture
  <2>5. CASE \/ SearchEnds \/ OfflineEnds \/ PagesEnd \/ PagesFail \/ TextEnds
             \/ PicturesEnd \/ PicturesFail \/ Commit \/ Answer \/ Reset
    BY <2>5 DEF SearchEnds, OfflineEnds, PagesEnd, PagesFail, TextEnds,
       PicturesEnd, PicturesFail, Commit, Answer, Reset
  <2> QED
    BY <1>1, <2>1, <2>2, <2>3, <2>4, <2>5 DEF Work
<1>2. CASE SignalExit \/ UNCHANGED vars
  BY <1>2 DEF SignalExit, vars
<1> QED
  BY <1>1, <1>2 DEF Next

\* Over all batches of a call, whatever was found, refused or lost in them, no
\* provider is fired while a better one is left.
THEOREM BestAreFiredFirst == Spec => []BestFirst
<1>1. Init => BestFirst
  BY DEF Init, BestFirst
<1>2. TypeOK /\ BestFirst /\ [Next]_vars => BestFirst'
  <2> SUFFICES ASSUME TypeOK, BestFirst, [Next]_vars PROVE BestFirst'
    OBVIOUS
  <2>1. CASE Fire
    <3>1. PICK B \in Batches : fired' = fired \cup B
      BY <2>1 DEF Fire
    <3>2. /\ B \subseteq Enabled \ fired
          /\ \A p \in B, q \in (Enabled \ fired) \ B : Rating[p] >= Rating[q]
      BY DEF Batches, Unfired
    <3>3. ASSUME NEW p \in fired', NEW q \in Enabled \ fired'
          PROVE  Rating[p] >= Rating[q]
      <4>1. q \in (Enabled \ fired) \ B /\ p \in fired \cup B
        BY <3>1
      <4>2. CASE p \in fired
        BY <4>1, <4>2 DEF BestFirst
      <4>3. CASE p \in B
        BY <3>2, <4>1, <4>3
      <4> QED
        BY <4>1, <4>2, <4>3
    <3> QED
      BY <3>3 DEF BestFirst
  <2>2. CASE Start \/ Reject
    BY <2>2 DEF Start, Reject, BestFirst
  <2>3. CASE fired' = fired
    BY <2>3 DEF BestFirst
  <2> QED
    BY <2>1, <2>2, <2>3, OthersFireNothing
<1> QED
  BY <1>1, <1>2, EngineTypes, PTL DEF Spec

\* Texts of the network only: offline providers and pictures go past the
\* comparison with result_list, and past stop_now.
TextsOnly == ~Pictures /\ Offline = {}

\* Nothing is offered outside of the text finalizer, and what it has before it
\* was compared with each other.
TextInv ==
  /\ offline = {} /\ offItems = {} /\ cached = {}
  /\ pc # "pictures"
  /\ pc = "text" => \A i, j \in raw \cup ready : PageSum[i] = PageSum[j] => i = j
  /\ pc \in {"offline", "pages"} => ready = {}

\* Whatever is or will be part of the answer differs.
DifferInv ==
  /\ \A i, j \in results \cup ready : PageSum[i] = PageSum[j] => i = j
  /\ \A i, j \in ret : PageSum[i] = PageSum[j] => i = j

\* A stop sets stop_now, and stop_now stays until the next call.
StopInv == asked => stopNow

TInv == TextInv /\ DifferInv /\ StopInv

LEMMA TextsByPage ==
  ASSUME TextsOnly
  PROVE  \A i : FinalSum(i) = PageSum[i]
BY DEF TextsOnly, FinalSum

LEMMA TInvInit == Init => TInv
BY DEF Init, TInv, TextInv, DifferInv, StopInv

\* The finalizer: what it adds differs from the results, and from what it
\* added before.
LEMMA TInvText ==
  ASSUME TextsOnly, TInv, NEW i \in Item, NEW response \in Response,
         OfferText(i, response)
  PROVE  TInv' /\ ~stopNow
<1>1. /\ pc = "text" /\ pc' = pc /\ i \in raw /\ raw' = raw \ {i}
      /\ ready' = IF Adds(response) THEN ready \cup {i} ELSE ready
      /\ stopNow' = Stops(response) /\ asked' = (asked \/ Stops(response))
      /\ ~stopNow /\ ~InResults(PageSum[i])
      /\ UNCHANGED <<results, ret, offline, offItems, cached>>
  BY DEF OfferText, Offered, callerVars
<1>2. \A r \in results : PageSum[r] # PageSum[i]
  BY <1>1, TextsByPage DEF InResults
<1>3. raw' \cup ready' \subseteq raw \cup ready /\ ready' \subseteq ready \cup {i}
  BY <1>1
<1>4. TextInv'
  BY <1>1, <1>3 DEF TInv, TextInv
<1>5. \A r \in ready : PageSum[r] = PageSum[i] => r = i
  BY <1>1 DEF TInv, TextInv
<1>6. DifferInv'
  BY <1>1, <1>2, <1>3, <1>5 DEF TInv, DifferInv
<1>7. StopInv'
  BY <1>1 DEF TInv, StopInv
<1> QED
  BY <1>1, <1>4, <1>6, <1>7 DEF TInv

\* After the download the pages have no duplicates among each other.
LEMMA TInvPagesEnd ==
  ASSUME TextsOnly, TInv, PagesEnd
  PROVE  TInv'
<1>1. PICK D \in Deduplicated(raw) : raw' = D
  BY DEF PagesEnd
<1>2. /\ pc = "pages" /\ pc' \in {"commit", "text"}
      /\ ready = {}
      /\ UNCHANGED <<stopNow, asked, results, ret, offline, offItems, cached, ready>>
  BY DEF PagesEnd, TextsOnly, TInv, TextInv, callerVars, history
<1>3. \A i, j \in D : PageSum[i] = PageSum[j] => i = j
  BY DEF Deduplicated
<1> QED
  BY <1>1, <1>2, <1>3 DEF TInv, TextInv, DifferInv, StopInv

LEMMA TInvNext ==
  ASSUME TextsOnly
  PROVE  IInv /\ TInv /\ [Next]_vars => TInv'
<1> SUFFICES ASSUME IInv, TInv, [Next]_vars PROVE TInv'
  OBVIOUS
<1> USE DEF callerVars, batchVars, history
<1>1. CASE Start \/ Reject
  BY <1>1 DEF Start, Reject, TInv, TextInv, DifferInv, StopInv, IInv, PhaseInv
<1>2. CASE Fire \/ SearchEnds \/ OfflineEnds
  BY <1>2 DEF Fire, SearchEnds, OfflineEnds, TextsOnly, TInv, TextInv,
     DifferInv, StopInv, IInv, PhaseInv
<1>3. ASSUME NEW p \in Provider, AskOffline(p) \/ PageFails(p) PROVE TInv'
  BY <1>3 DEF AskOffline, PageFails, TInv, TextInv, DifferInv, StopInv
<1>4. ASSUME NEW p \in Provider, NEW parsed \in SUBSET From[p],
             NEW kept \in SUBSET parsed, PageArrives(p, parsed, kept)
      PROVE  TInv'
  BY <1>4 DEF PageArrives, TInv, TextInv, DifferInv, StopInv
<1>5. CASE PagesEnd
  BY <1>5, TInvPagesEnd
<1>6. CASE PagesFail \/ TextEnds
  BY <1>6 DEF PagesFail, TextEnds, TInv, TextInv, DifferInv, StopInv
<1>7. ASSUME NEW i \in Item, DropText(i) PROVE TInv'
  BY <1>7 DEF DropText, TInv, TextInv, DifferInv, StopInv
<1>8. ASSUME NEW i \in Item, NEW response \in Response, OfferText(i, response)
      PROVE  TInv'
  BY <1>8, TInvText
<1>9. ASSUME NEW i \in Item
      PROVE  /\ ~DropPicture(i) /\ ~PictureFails(i)
             /\ \A response \in Response :
                  ~OfferOffline(i, response) /\ ~OfferPicture(i, response)
  BY DEF OfferOffline, OfferPicture, DropPicture, PictureFails, TInv, TextInv
<1>10. CASE Commit
  BY <1>10 DEF Commit, StopAfterBatch, TInv, TextInv, DifferInv, StopInv
<1>11. CASE Answer \/ Reset
  BY <1>11 DEF Answer, Reset, TInv, TextInv, DifferInv, StopInv, IInv, PhaseInv
<1>12. CASE SignalExit \/ UNCHANGED vars
  BY <1>12 DEF SignalExit, vars, TInv, TextInv, DifferInv, StopInv
<1>13. CASE PicturesEnd \/ PicturesFail
  BY <1>13 DEF PicturesEnd, PicturesFail, TInv, TextInv
<1> QED
  BY <1>1, <1>2, <1>3, <1>4, <1>5, <1>6, <1>7, <1>8, <1>9, <1>10, <1>11, <1>12,
     <1>13
  DEF Next, Work

LEMMA TextInductive ==
  ASSUME TextsOnly
  PROVE  Spec => []TInv
<1>1. Init => TInv
  BY TInvInit
<1>2. IInv /\ TInv /\ [Next]_vars => TInv'
  BY TInvNext
<1> QED
  BY <1>1, <1>2, Inductive, PTL DEF Spec

\* A text job, from whatever pages in however many batches, answers with no
\* two items of the same checksum.
THEOREM TextsDiffer ==
  ASSUME TextsOnly
  PROVE  Spec => []ItemsDiffer
<1>1. TInv => ItemsDiffer
  BY TextsByPage DEF TInv, DifferInv, ItemsDiffer
<1> QED
  BY <1>1, TextInductive, PTL

\* In a text job a stop of the callback is the end: of the items the finalizer
\* has left none is accepted any more, and no other batch is fired for them.
THEOREM StopEndsTexts ==
  ASSUME TextsOnly
  PROVE  Spec => StopIsFinal
<1>1. IInv /\ TInv /\ [Next]_vars
        => [asked /\ asked' => accepted' = accepted]_vars
  <2> SUFFICES ASSUME IInv, TInv, [Next]_vars, asked, asked'
               PROVE  accepted' = accepted
    OBVIOUS
  <2> USE DEF callerVars, batchVars, history
  <2>1. ASSUME NEW i \in Item, NEW response \in Response
        PROVE  ~OfferText(i, response) /\ ~OfferOffline(i, response)
                 /\ ~OfferPicture(i, response)
    BY DEF OfferText, OfferOffline, OfferPicture, TInv, TextInv, StopInv
  <2>2. ~Start /\ ~Reject
    BY DEF Start, Reject
  <2>3. ASSUME NEW p \in Provider, AskOffline(p) \/ PageFails(p)
        PROVE  accepted' = accepted
    BY <2>3 DEF AskOffline, PageFails
  <2>4. ASSUME NEW p \in Provider, NEW parsed \in SUBSET From[p],
               NEW kept \in SUBSET parsed, PageArrives(p, parsed, kept)
        PROVE  accepted' = accepted
    BY <2>4 DEF PageArrives
  <2>5. ASSUME NEW i \in Item, DropText(i) \/ DropPicture(i) \/ PictureFails(i)
        PROVE  accepted' = accepted
    BY <2>5 DEF DropText, DropPicture, PictureFails
  <2>6. CASE \/ Fire \/ SearchEnds \/ OfflineEnds \/ PagesEnd \/ PagesFail
             \/ TextEnds \/ PicturesEnd \/ PicturesFail \/ Commit \/ Answer
             \/ Reset \/ SignalExit \/ UNCHANGED vars
    BY <2>6 DEF Fire, SearchEnds, OfflineEnds, PagesEnd, PagesFail, TextEnds,
       PicturesEnd, PicturesFail, Commit, Answer, Reset, SignalExit, vars
  <2> QED
    BY <2>1, <2>2, <2>3, <2>4, <2>5, <2>6 DEF Next, Work
<1> QED
  BY <1>1, Inductive, TextInductive, PTL DEF Spec, StopIsFinal
-----------------------------------------------------------------------------
(* Both downloads of a batch are jobs of Fetch.tla, which Downloader.tla   *)
(* implements: nothing the engine relies on goes beyond that contract.     *)

\* The download of the pages, a job for every batch: its answers contribute
\* what the parsers kept.  Outside of it there is no job.
pageJob == IF pc = "pages" THEN "open" ELSE "idle"
pageTodo == IF pc = "pages" THEN todo ELSE {}
pageGot == IF pc = "pages" THEN raw ELSE {}
pageHalted == pc = "pages" /\ halted

PageJob == INSTANCE Fetch WITH
  Address <- Provider, Thing <- Item, Of <- From,
  job <- pageJob, todo <- pageTodo, got <- pageGot, halted <- pageHalted,
  stop <- exit

\* The download of the pictures: its addresses are the items that were kept,
\* its answers contribute what the callback accepted.
pictureJob == IF pc = "pictures" THEN "open" ELSE "idle"
pictureTodo == IF pc = "pictures" THEN todo ELSE {}
pictureGot == IF pc = "pictures" THEN ready ELSE {}
pictureHalted == pc = "pictures" /\ halted

PictureJob == INSTANCE Fetch WITH
  Address <- Item, Thing <- Item, Of <- [i \in Item |-> {i}],
  job <- pictureJob, todo <- pictureTodo, got <- pictureGot,
  halted <- pictureHalted, stop <- exit

\* The engine goes on with what the answers contributed if the job may be
\* closed, and otherwise with nothing.
PagesGoOn ==
  /\ pageJob = "open" /\ pageJob' = "idle"
  /\ \/ (pageTodo = {} \/ pageHalted \/ exit) /\ raw' \in Deduplicated(pageGot)
     \/ raw' = {} /\ pc' = "commit"

PicturesGoOn ==
  /\ pictureJob = "open" /\ pictureJob' = "idle"
  /\ \/ (pictureTodo = {} \/ pictureHalted \/ exit) /\ ready' = pictureGot
     \/ ready' = {}

PageJobStep ==
  \/ \E addresses \in SUBSET Provider : PageJob!Open(addresses)
  \/ \E p \in Provider, things \in SUBSET Item, halt \in BOOLEAN :
       things \subseteq From[p] /\ PageJob!Answer(p, things, halt)
  \/ PagesGoOn

PictureJobStep ==
  \/ \E addresses \in SUBSET Item : PictureJob!Open(addresses)
  \/ \E i \in Item, things \in SUBSET Item, halt \in BOOLEAN :
       things \subseteq {i} /\ PictureJob!Answer(i, things, halt)
  \/ PicturesGoOn

pageJobVars == <<pageJob, pageTodo, pageGot, pageHalted>>
pictureJobVars == <<pictureJob, pictureTodo, pictureGot, pictureHalted>>

\* A batch begins with nothing accepted by the finalizer, and what is asked
\* first are providers.
JobInv ==
  /\ pc \in {"offline", "pages"} => todo \subseteq Provider /\ ready = {}
  /\ pc = "offline" => raw = {}

LEMMA JobInvInit == Init => JobInv
BY DEF Init, JobInv

LEMMA JobInvStep == JobInv /\ IInv /\ [Next]_vars => JobInv'
<1> SUFFICES ASSUME JobInv, IInv, [Next]_vars PROVE JobInv'
  OBVIOUS
<1> USE DEF callerVars, batchVars, history, JobInv
<1>1. CASE Work
  <2>1. CASE Fire
    <3>1. Batches \subseteq SUBSET Provider
      BY EngineAssumption DEF Batches, Unfired
    <3> QED
      BY <2>1, <3>1 DEF Fire
  <2>2. ASSUME NEW p \in Provider, AskOffline(p) \/ PageFails(p)
        PROVE  JobInv'
    BY <2>2 DEF AskOffline, PageFails
  <2>3. ASSUME NEW p \in Provider, NEW parsed \in SUBSET From[p],
               NEW kept \in SUBSET parsed, PageArrives(p, parsed, kept)
        PROVE  JobInv'
    BY <2>3 DEF PageArrives
  <2>4. CASE OfflineEnds
    BY <2>4 DEF OfflineEnds
  <2>5. ASSUME NEW i \in Item, NEW response \in Response, OfferOffline(i, response)
        PROVE  JobInv'
    BY <2>5 DEF OfferOffline
  <2>6. ASSUME NEW i \in Item, DropText(i) \/ DropPicture(i) \/ PictureFails(i)
        PROVE  JobInv'
    BY <2>6 DEF DropText, DropPicture, PictureFails
  <2>7. ASSUME NEW i \in Item, NEW response \in Response,
               OfferText(i, response) \/ OfferPicture(i, response)
        PROVE  JobInv'
    BY <2>7 DEF OfferText, OfferPicture
  <2>8. CASE \/ SearchEnds \/ PagesEnd \/ PagesFail \/ TextEnds
             \/ PicturesEnd \/ PicturesFail \/ Commit \/ Answer \/ Reset
    BY <2>8 DEF SearchEnds, PagesEnd, PagesFail, TextEnds, PicturesEnd,
       PicturesFail, Commit, Answer, Reset
  <2> QED
    BY <1>1, <2>1, <2>2, <2>3, <2>4, <2>5, <2>6, <2>7, <2>8 DEF Work
<1>2. CASE Start \/ Reject \/ SignalExit \/ UNCHANGED vars
  BY <1>2 DEF Start, Reject, SignalExit, vars
<1> QED
  BY <1>1, <1>2 DEF Next

LEMMA JobInductive == Spec => [](IInv /\ JobInv)
<1>1. IInv /\ JobInv /\ [Next]_vars => (IInv /\ JobInv)'
  BY IInvNext, JobInvStep
<1> QED
  BY <1>1, IInvInit, JobInvInit, PTL DEF Spec

\* Neither job sees what happens outside of it, nor a signal.
LEMMA JobStutter ==
  /\ \/ pc # "pages" /\ pc' # "pages"
     \/ UNCHANGED <<pc, todo, raw, halted>>
     => UNCHANGED pageJobVars
  /\ \/ pc # "pictures" /\ pc' # "pictures"
     \/ UNCHANGED <<pc, todo, ready, halted>>
     => UNCHANGED pictureJobVars
BY DEF pageJobVars, pageJob, pageTodo, pageGot, pageHalted,
   pictureJobVars, pictureJob, pictureTodo, pictureGot, pictureHalted

\* The pages are asked for with nothing parsed before ...
LEMMA PagesOpen ==
  ASSUME IInv, JobInv, OfflineEnds
  PROVE  PageJobStep \/ UNCHANGED pageJobVars
<1> USE DEF OfflineEnds, callerVars, history
<1>1. CASE pc' = "pages"
  <2>1. /\ ~halted /\ raw = {} /\ todo \in SUBSET Provider
        /\ pc = "offline"
    BY <1>1 DEF JobInv
  <2>2. PageJob!Open(todo)
    BY <1>1, <2>1 DEF PageJob!Open, pageJob, pageTodo, pageGot, pageHalted
  <2> QED
    BY <2>1, <2>2 DEF PageJobStep
<1>2. CASE pc' # "pages"
  BY <1>2, JobStutter
<1> QED
  BY <1>1, <1>2

\* ... each answers once, with items of its own provider ...
LEMMA PagesAnswer ==
  ASSUME IInv,
         NEW p \in Provider,
         \/ \E parsed \in SUBSET From[p] :
              \E kept \in SUBSET parsed : PageArrives(p, parsed, kept)
         \/ PageFails(p)
  PROVE  PageJobStep
<1>1. ASSUME NEW parsed \in SUBSET From[p], NEW kept \in SUBSET parsed,
             PageArrives(p, parsed, kept)
      PROVE  PageJobStep
  <2>1. kept \in SUBSET Item /\ kept \subseteq From[p] /\ (kept # parsed) \in BOOLEAN
    BY EngineAssumption
  <2>2. PageJob!Answer(p, kept, kept # parsed)
    BY <1>1 DEF PageArrives, PageJob!Answer, pageJob, pageTodo, pageGot, pageHalted
  <2> QED
    BY <2>1, <2>2 DEF PageJobStep
<1>2. ASSUME PageFails(p) PROVE PageJobStep
  <2>1. PageJob!Answer(p, {}, FALSE)
    BY <1>2 DEF PageFails, PageJob!Answer, pageJob, pageTodo, pageGot, pageHalted
  <2> QED
    BY <2>1 DEF PageJobStep
<1> QED
  BY <1>1, <1>2

\* ... and what is left of them without the duplicates goes on.
LEMMA PagesLeave ==
  ASSUME IInv, PagesEnd \/ PagesFail
  PROVE  PageJobStep
<1>1. CASE PagesEnd
  <2>1. pc' # "pages" /\ pc = "pages" /\ raw' \in Deduplicated(raw)
    BY <1>1 DEF PagesEnd
  <2> QED
    BY <1>1, <2>1
    DEF PagesEnd, PageJobStep, PagesGoOn, pageJob, pageTodo, pageGot, pageHalted
<1>2. CASE PagesFail
  BY <1>2 DEF PagesFail, PageJobStep, PagesGoOn, pageJob
<1> QED
  BY <1>1, <1>2

LEMMA PageJobNext ==
  IInv /\ JobInv /\ [Next]_vars => [PageJobStep]_pageJobVars
<1> SUFFICES ASSUME IInv, JobInv, [Next]_vars
             PROVE  PageJobStep \/ UNCHANGED pageJobVars
  OBVIOUS
<1> USE DEF callerVars, batchVars, history
<1>1. CASE Work
  <2>1. CASE Fire \/ SearchEnds \/ TextEnds
    BY <2>1, JobStutter DEF Fire, SearchEnds, TextEnds
  <2>2. ASSUME NEW p \in Provider, AskOffline(p)
        PROVE  PageJobStep \/ UNCHANGED pageJobVars
    BY <2>2, JobStutter DEF AskOffline
  <2>3. ASSUME NEW i \in Item, NEW response \in Response,
               \/ OfferOffline(i, response) \/ OfferText(i, response)
               \/ OfferPicture(i, response)
        PROVE  PageJobStep \/ UNCHANGED pageJobVars
    BY <2>3, JobStutter DEF OfferOffline, OfferText, OfferPicture
  <2>4. ASSUME NEW i \in Item, DropText(i) \/ DropPicture(i) \/ PictureFails(i)
        PROVE  PageJobStep \/ UNCHANGED pageJobVars
    BY <2>4, JobStutter DEF DropText, DropPicture, PictureFails
  <2>5. CASE PicturesEnd \/ PicturesFail \/ Commit \/ Answer \/ Reset
    BY <2>5, JobStutter DEF PicturesEnd, PicturesFail, Commit, Answer, Reset
  <2> QED
    BY <1>1, <2>1, <2>2, <2>3, <2>4, <2>5, PagesOpen, PagesAnswer, PagesLeave
    DEF Work
<1>2. CASE Start \/ Reject
  BY <1>2, JobStutter DEF Start, Reject
<1>3. CASE SignalExit \/ UNCHANGED vars
  BY <1>3, JobStutter DEF SignalExit, vars
<1> QED
  BY <1>1, <1>2, <1>3 DEF Next

\* The download of pages in execute_query() is one job of Fetch.tla for every
\* batch: it starts with no items, each address answers at most once and with items
\* of its own provider, nothing is taken after the parser stopped it, and the batch goes on
\* with those items without duplicates only when all have answered, the parser
\* stopped it or the query was cancelled; a download that failed leaves none.
THEOREM PagesFollowFetch == Spec => [][PageJobStep]_pageJobVars
BY JobInductive, PageJobNext, PTL DEF Spec

\* The pictures are asked for with nothing accepted before ...
LEMMA PicturesOpen ==
  ASSUME IInv, JobInv, PagesEnd
  PROVE  PictureJobStep \/ UNCHANGED pictureJobVars
<1> USE DEF PagesEnd, callerVars, history
<1>1. CASE pc' = "pictures"
  <2>1. PICK D \in Deduplicated(raw) : todo' = IF Pictures THEN D ELSE {}
    OBVIOUS
  <2>2. todo' \in SUBSET Item
    BY <2>1 DEF Deduplicated, IInv, TypeOK
  <2>3. ready = {} /\ ready' = {} /\ ~halted' /\ pc = "pages"
    BY DEF JobInv
  <2>4. PictureJob!Open(todo')
    BY <1>1, <2>3
    DEF PictureJob!Open, pictureJob, pictureTodo, pictureGot, pictureHalted
  <2> QED
    BY <2>2, <2>4 DEF PictureJobStep
<1>2. CASE pc' # "pictures"
  BY <1>2, JobStutter
<1> QED
  BY <1>1, <1>2

\* ... each answers once, with itself or with nothing.
LEMMA PicturesAnswer ==
  ASSUME IInv,
         NEW i \in Item,
         \/ DropPicture(i) \/ PictureFails(i)
         \/ \E response \in Response : OfferPicture(i, response)
  PROVE  PictureJobStep
<1>1. CASE DropPicture(i) \/ PictureFails(i)
  <2>1. PictureJob!Answer(i, {}, FALSE)
    BY <1>1 DEF DropPicture, PictureFails,
       PictureJob!Answer, pictureJob, pictureTodo, pictureGot, pictureHalted
  <2> QED
    BY <2>1 DEF PictureJobStep
<1>2. ASSUME NEW response \in Response, OfferPicture(i, response)
      PROVE  PictureJobStep
  <2>0. Stops(response) \in BOOLEAN
    BY DEF Stops
  <2>1. CASE Adds(response)
    <3>1. PictureJob!Answer(i, {i}, Stops(response))
      BY <1>2, <2>0, <2>1 DEF OfferPicture,
         PictureJob!Answer, pictureJob, pictureTodo, pictureGot, pictureHalted
    <3> QED
      BY <2>0, <3>1 DEF PictureJobStep
  <2>2. CASE ~Adds(response)
    <3>1. PictureJob!Answer(i, {}, Stops(response))
      BY <1>2, <2>0, <2>2 DEF OfferPicture,
         PictureJob!Answer, pictureJob, pictureTodo, pictureGot, pictureHalted
    <3> QED
      BY <2>0, <3>1 DEF PictureJobStep
  <2> QED
    BY <2>1, <2>2
<1> QED
  BY <1>1, <1>2

LEMMA PicturesLeave ==
  ASSUME IInv, PicturesEnd \/ PicturesFail
  PROVE  PictureJobStep
BY DEF PicturesEnd, PicturesFail, PictureJobStep, PicturesGoOn, pictureJob,
   pictureTodo, pictureGot, pictureHalted

LEMMA PictureJobNext ==
  IInv /\ JobInv /\ [Next]_vars => [PictureJobStep]_pictureJobVars
<1> SUFFICES ASSUME IInv, JobInv, [Next]_vars
             PROVE  PictureJobStep \/ UNCHANGED pictureJobVars
  OBVIOUS
<1> USE DEF callerVars, batchVars, history
<1>1. CASE Work
  <2>1. CASE Fire \/ SearchEnds \/ OfflineEnds \/ TextEnds
    BY <2>1, JobStutter DEF Fire, SearchEnds, OfflineEnds, TextEnds
  <2>2. ASSUME NEW p \in Provider, AskOffline(p) \/ PageFails(p)
        PROVE  PictureJobStep \/ UNCHANGED pictureJobVars
    BY <2>2, JobStutter DEF AskOffline, PageFails
  <2>3. ASSUME NEW p \in Provider, NEW parsed \in SUBSET From[p],
               NEW kept \in SUBSET parsed, PageArrives(p, parsed, kept)
        PROVE  PictureJobStep \/ UNCHANGED pictureJobVars
    BY <2>3, JobStutter DEF PageArrives
  <2>4. ASSUME NEW i \in Item, NEW response \in Response,
               OfferOffline(i, response) \/ OfferText(i, response)
        PROVE  PictureJobStep \/ UNCHANGED pictureJobVars
    BY <2>4, JobStutter DEF OfferOffline, OfferText
  <2>5. ASSUME NEW i \in Item, DropText(i)
        PROVE  PictureJobStep \/ UNCHANGED pictureJobVars
    BY <2>5, JobStutter DEF DropText
  <2>6. CASE PagesFail \/ Commit \/ Answer \/ Reset
    BY <2>6, JobStutter DEF PagesFail, Commit, Answer, Reset
  <2> QED
    BY <1>1, <2>1, <2>2, <2>3, <2>4, <2>5, <2>6, PicturesOpen, PicturesAnswer,
       PicturesLeave DEF Work
<1>2. CASE Start \/ Reject
  BY <1>2, JobStutter DEF Start, Reject
<1>3. CASE SignalExit \/ UNCHANGED vars
  BY <1>3, JobStutter DEF SignalExit, vars
<1> QED
  BY <1>1, <1>2, <1>3 DEF Next

\* The download of pictures in generic_img_finalizer() is such a job too: what
\* joins the batch is what the callback accepted of the pictures that arrived,
\* each at most once and none after its stop, or nothing if the download failed.
THEOREM PicturesFollowFetch == Spec => [][PictureJobStep]_pictureJobVars
BY JobInductive, PictureJobNext, PTL DEF Spec
=============================================================================
