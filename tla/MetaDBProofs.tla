---------------------------- MODULE MetaDBProofs ----------------------------
(***************************************************************************)
(* Proofs about MetaDB.tla.                                                *)
(***************************************************************************)
EXTENDS MetaDB, TLAPS

\* Within the library a call has its query, and an insert has something to insert.
CallInv ==
  \A t \in Thread :
    /\ pc[t] # "idle" => query[t] \in Query /\ (list[t] # << >> => copies[t] # 0)
    /\ pc[t] \in {"begin", "names", "data", "commit"} => list[t] # << >>

\* How far the side tables are filled for the row that is to come.
NamesInv ==
  \A t \in Thread :
    /\ pc[t] = "names" =>
         \A k \in 1..(field[t] - 1) :
           Fields[k] \in Required => <<Fields[k], query[t].names[Fields[k]]>> \in db.names
    /\ pc[t] = "data" =>
         /\ \A f \in Required : <<f, query[t].names[f]>> \in db.names
         /\ ProviderOf(Head(list[t])) \in db.providers

\* An open transaction has a thread on its way to a COMMIT, and without one all is saved.
TxInv ==
  /\ inTx => \E t \in Thread : pc[t] \in {"names", "data", "commit"}
  /\ ~inTx => db = disk

\* What was stored and not deleted is in the tables, what was returned also on the disk.
HistoryInv ==
  /\ \A t \in Thread : \A o \in made[t] : pc[t] = "commit" /\ Holds(db.rows, o.item)
  /\ Durable

IInv == TypeOK /\ CallInv /\ NamesInv /\ RowsResolve /\ TxInv /\ HistoryInv

-----------------------------------------------------------------------------
LEMMA FieldsFacts ==
  /\ Len(Fields) \in Nat
  /\ \A k \in 1..Len(Fields) : Fields[k] \in Field
  /\ \A f \in Field : \E k \in 1..Len(Fields) : Fields[k] = f
BY DatabaseAssumption DEF Field

LEMMA QueryFacts ==
  ASSUME NEW q \in Query
  PROVE  /\ q.names \in [Field -> Name \cup {Absent}]
         /\ q.from \subseteq Provider
         /\ q.number \in Nat \ {0}
BY CallAssumption

LEMMA ItemFacts ==
  ASSUME NEW i \in Item
  PROVE  /\ i.kind \in {"url", "data"} /\ i.sum \in Sum
         /\ i.source \in Source \cup {Absent}
         /\ ProviderOf(i) \in Provider
BY CallAssumption, DatabaseAssumption DEF ProviderOf

\* The row of an insert is a row, and it has the content of the cache.
LEMMA RowOfFacts ==
  ASSUME NEW q \in Query, NEW i \in Item
  PROVE  /\ RowOf(q, i) \in Row
         /\ Content(RowOf(q, i)) = Content(i)
BY QueryFacts, ItemFacts DEF RowOf, Row, Content

LEMMA ListFacts ==
  ASSUME NEW l \in Seq(Item), l # << >>
  PROVE  Head(l) \in Item /\ Len(l) \in Nat \ {0}
OBVIOUS

-----------------------------------------------------------------------------
LEMMA TypeInit == Init => TypeOK
<1> SUFFICES ASSUME Init
             PROVE  TypeOK
  OBVIOUS
<1>1. db \in Table /\ disk \in Table /\ inTx \in BOOLEAN /\ calls \in 0..MaxCalls
  <2>1. [names |-> {}, providers |-> {}, rows |-> {}] \in Table
    BY DEF Table
  <2>2. 0 \in 0..MaxCalls
    BY DatabaseAssumption
  <2> QED  BY <2>1, <2>2 DEF Init
<1>2. << >> \in Seq(Item) /\ 1 \in 1..(Len(Fields) + 1) /\ 0 \in Nat
  BY FieldsFacts
<1>3. /\ list \in [Thread -> Seq(Item)]
      /\ field \in [Thread -> 1..(Len(Fields) + 1)]
      /\ copies \in [Thread -> Nat]
      /\ deleted \in [Thread -> Nat]
  BY <1>2 DEF Init
<1>4. /\ pc \in [Thread -> {"idle", "begin", "names", "data", "commit", "delete", "deleting"}]
      /\ query \in [Thread -> Query \cup {Absent}]
      /\ left \in [Thread -> SUBSET Row]
      /\ made \in [Thread -> SUBSET Stored]
      /\ owed \subseteq Stored
  BY DEF Init
<1> QED  BY <1>1, <1>3, <1>4 DEF TypeOK

LEMMA TableUpdates ==
  ASSUME NEW d \in Table, NEW N \in SUBSET (Field \X Name), NEW P \in SUBSET Provider,
         NEW R \in SUBSET Row
  PROVE  /\ d.names \in SUBSET (Field \X Name)
         /\ d.providers \in SUBSET Provider
         /\ d.rows \in SUBSET Row
         /\ [d EXCEPT !.names = N] \in Table
         /\ [d EXCEPT !.providers = P] \in Table
         /\ [d EXCEPT !.rows = R] \in Table
BY DEF Table

\* What a statement does to the tables, if it succeeds or not.
LEMMA StatementTypes ==
  ASSUME NEW t, NEW new \in Table, Statement(t, new), db \in Table, disk \in Table, inTx \in BOOLEAN
  PROVE  db' \in Table /\ disk' \in Table /\ inTx' \in BOOLEAN
BY DEF Statement

LEMMA ForgetTypes ==
  ASSUME Forget, made \in [Thread -> SUBSET Stored], owed \subseteq Stored
  PROVE  made' \in [Thread -> SUBSET Stored] /\ owed' \subseteq Stored
BY DEF Forget

LEMMA EntersTypes ==
  ASSUME TypeOK, NEW t \in Thread, NEW q \in Query, NEW l \in Seq(Item),
         NEW where \in {"idle", "begin", "delete"}, Enters(t, q, l, where)
  PROVE  /\ pc' \in [Thread -> {"idle", "begin", "names", "data", "commit", "delete", "deleting"}]
         /\ query' \in [Thread -> Query \cup {Absent}]
         /\ list' \in [Thread -> Seq(Item)]
         /\ copies' \in [Thread -> Nat]
         /\ field' \in [Thread -> 1..(Len(Fields) + 1)]
         /\ left' \in [Thread -> SUBSET Row]
         /\ deleted' \in [Thread -> Nat]
         /\ calls' \in 0..MaxCalls
BY DatabaseAssumption DEF TypeOK, Enters

LEMMA CallTypes ==
  ASSUME TypeOK, NEW t \in Thread, Call(t)
  PROVE  TypeOK'
<1> PICK q \in Query :
      \/ \E i \in Item : Insert(t, q, i)
      \/ Delete(t, q)
      \/ \E l \in EditList : Edit(t, q, l)
      \/ \E sum \in Sum, l \in {<< >>} \cup {<<i>> : i \in Item} : Replace(t, sum, q, l)
  BY DEF Call
<1>1. ASSUME NEW i \in Item, Insert(t, q, i)
      PROVE  TypeOK'
  <2>1. <<i>> \in Seq(Item)
    OBVIOUS
  <2> QED  BY <1>1, <2>1, EntersTypes DEF Insert, TypeOK, store
<1>2. CASE Delete(t, q)
  <2>1. << >> \in Seq(Item)
    OBVIOUS
  <2> QED  BY <1>2, <2>1, EntersTypes DEF Delete, TypeOK, store
<1>3. ASSUME NEW l \in EditList, Edit(t, q, l)
      PROVE  TypeOK'
  <2>1. l \in Seq(Item)
    BY CallAssumption
  <2> QED  BY <1>3, <2>1, EntersTypes DEF Edit, TypeOK, store
<1>4. ASSUME NEW sum \in Sum, NEW l \in {<< >>} \cup {<<i>> : i \in Item}, Replace(t, sum, q, l)
      PROVE  TypeOK'
  <2>1. l \in Seq(Item)
    <3>1. << >> \in Seq(Item) /\ \A i \in Item : <<i>> \in Seq(Item)
      OBVIOUS
    <3> QED  BY <3>1
  <2>2. [db EXCEPT !.rows = {r \in @ : r.sum # sum}] \in Table
    BY DEF TypeOK, Table
  <2>3. db' \in Table /\ disk' \in Table /\ inTx' \in BOOLEAN
    BY <1>4, <2>2, StatementTypes DEF Replace, TypeOK
  <2>4. made' \in [Thread -> SUBSET Stored] /\ owed' \subseteq Stored
    BY <1>4, ForgetTypes DEF Replace, TypeOK
  <2> QED  BY <1>4, <2>1, <2>3, <2>4, EntersTypes DEF Replace, TypeOK
<1> QED  BY <1>1, <1>2, <1>3, <1>4

LEMMA WorkTypes ==
  ASSUME TypeOK, CallInv, NEW t \in Thread, Work(t)
  PROVE  TypeOK'
<1> USE DEF TypeOK
<1>1. CASE Begin(t)
  <2>1. 1 \in 1..(Len(Fields) + 1)
    BY FieldsFacts
  <2> QED  BY <1>1, <2>1 DEF Begin
<1>2. CASE AbortInsert(t)
  BY <1>2 DEF AbortInsert, AbortGoesTo, store, local
<1>3. CASE InsertName(t)
  <2>1. field' \in [Thread -> 1..(Len(Fields) + 1)]
    BY <1>3, FieldsFacts DEF InsertName
  <2>2. db' \in Table /\ disk' \in Table /\ inTx' \in BOOLEAN
    <3>1. CASE UNCHANGED store
      BY <3>1 DEF store
    <3>2. CASE /\ NameOf(t) # Absent
               /\ Statement(t, [db EXCEPT !.names = @ \cup {<<FieldOf(t), NameOf(t)>>}])
      <4>1. query[t] \in Query
        BY <1>3 DEF InsertName, CallInv
      <4>2. FieldOf(t) \in Field
        BY <1>3, FieldsFacts DEF InsertName, FieldOf
      <4>3. NameOf(t) \in Name
        BY <3>2, <4>1, <4>2, QueryFacts DEF NameOf
      <4>4. db.names \cup {<<FieldOf(t), NameOf(t)>>} \in SUBSET (Field \X Name)
        <5>1. <<FieldOf(t), NameOf(t)>> \in Field \X Name
          BY <4>2, <4>3
        <5>2. db.names \in SUBSET (Field \X Name)
          BY TableUpdates
        <5> QED  BY <5>1, <5>2
      <4>5. [db EXCEPT !.names = @ \cup {<<FieldOf(t), NameOf(t)>>}] \in Table
        BY <4>4, TableUpdates
      <4> QED  BY <3>2, <4>5, StatementTypes
    <3> QED  BY <1>3, <3>1, <3>2 DEF InsertName
  <2> QED  BY <1>3, <2>1, <2>2 DEF InsertName
<1>4. CASE InsertProvider(t)
  <2>1. Head(list[t]) \in Item
    BY <1>4, ListFacts DEF InsertProvider, CallInv
  <2>2. [db EXCEPT !.providers = @ \cup {ProviderOf(Head(list[t]))}] \in Table
    BY <2>1, ItemFacts DEF Table
  <2>3. db' \in Table /\ disk' \in Table /\ inTx' \in BOOLEAN
    BY <1>4, <2>2, StatementTypes DEF InsertProvider
  <2> QED  BY <1>4, <2>3 DEF InsertProvider, local
<1>5. CASE InsertData(t)
  <2>1. Head(list[t]) \in Item /\ query[t] \in Query
    BY <1>5, ListFacts DEF InsertData, CallInv
  <2>2. [db EXCEPT !.rows = @ \cup {RowOf(query[t], Head(list[t]))}] \in Table
    <3>1. db.rows \cup {RowOf(query[t], Head(list[t]))} \in SUBSET Row
      BY <2>1, RowOfFacts, TableUpdates
    <3> QED  BY <3>1, TableUpdates
  <2>3. db' \in Table /\ disk' \in Table /\ inTx' \in BOOLEAN
    BY <1>5, <2>2, StatementTypes DEF InsertData, store
  <2>4. [query |-> query[t], item |-> Head(list[t])] \in Stored
    BY <2>1 DEF Stored
  <2> QED  BY <1>5, <2>3, <2>4 DEF InsertData, local
<1>6. CASE Commit(t)
  <2>1. copies[t] - 1 \in Nat
    BY <1>6 DEF Commit, CallInv
  <2>2. db' \in Table /\ disk' \in Table /\ inTx' \in BOOLEAN
    BY <1>6 DEF Commit, EndTransaction, store
  <2>3. owed' \subseteq Stored
    BY <1>6 DEF Commit
  <2> QED  BY <1>6, <2>1, <2>2, <2>3 DEF Commit
<1>7. CASE DeleteSelect(t)
  <2>1. Matching(query[t], db.rows) \subseteq Row
    BY DEF Matching, Table
  <2> QED  BY <1>7, <2>1 DEF DeleteSelect, store
<1>8. CASE DeleteRow(t)
  <2>1. PICK r \in ToVisit(t) :
          /\ Statement(t, [db EXCEPT !.rows = {s \in @ : ~SameIds(s, r)}])
          /\ left' = [left EXCEPT ![t] = @ \ {r}]
    BY <1>8 DEF DeleteRow
  <2>2. [db EXCEPT !.rows = {s \in @ : ~SameIds(s, r)}] \in Table
    BY DEF Table
  <2>3. db' \in Table /\ disk' \in Table /\ inTx' \in BOOLEAN
    BY <2>1, <2>2, StatementTypes
  <2>4. made' \in [Thread -> SUBSET Stored] /\ owed' \subseteq Stored
    BY <1>8, ForgetTypes DEF DeleteRow
  <2>5. left' \in [Thread -> SUBSET Row] /\ deleted' \in [Thread -> Nat]
    BY <1>8, <2>1 DEF DeleteRow
  <2> QED  BY <1>8, <2>3, <2>4, <2>5 DEF DeleteRow
<1>9. CASE DeleteEnds(t)
  BY <1>9 DEF DeleteEnds, store
<1> QED  BY <1>1, <1>2, <1>3, <1>4, <1>5, <1>6, <1>7, <1>8, <1>9 DEF Work

LEMMA CrashTypes ==
  ASSUME TypeOK, Crash
  PROVE  TypeOK'
<1>1. << >> \in Seq(Item) /\ 1 \in 1..(Len(Fields) + 1) /\ 0 \in Nat
  BY FieldsFacts
<1>2. /\ list' \in [Thread -> Seq(Item)]
      /\ field' \in [Thread -> 1..(Len(Fields) + 1)]
      /\ copies' \in [Thread -> Nat]
      /\ deleted' \in [Thread -> Nat]
  BY <1>1 DEF Crash
<1>3. /\ pc' \in [Thread -> {"idle", "begin", "names", "data", "commit", "delete", "deleting"}]
      /\ query' \in [Thread -> Query \cup {Absent}]
      /\ left' \in [Thread -> SUBSET Row]
      /\ made' \in [Thread -> SUBSET Stored]
      /\ owed' \subseteq Stored
  BY DEF Crash, TypeOK
<1>4. calls' \in 0..MaxCalls
  BY DatabaseAssumption DEF Crash, TypeOK
<1> QED  BY <1>2, <1>3, <1>4 DEF Crash, TypeOK

-----------------------------------------------------------------------------
LEMMA CallStep ==
  ASSUME TypeOK, CallInv, [Next]_vars
  PROVE  CallInv'
<1> USE DEF TypeOK, CallInv
<1>1. ASSUME NEW t \in Thread, NEW q \in Query, NEW l \in Seq(Item),
             NEW where \in {"idle", "begin", "delete"}, Enters(t, q, l, where),
             where = "begin" => l # << >>
      PROVE  CallInv'
  <2>1. l # << >> => Len(l) # 0
    BY ListFacts
  <2> QED  BY <1>1, <2>1 DEF Enters
<1>2. ASSUME NEW t \in Thread, Call(t)
      PROVE  CallInv'
  <2> PICK q \in Query :
        \/ \E i \in Item : Insert(t, q, i)
        \/ Delete(t, q)
        \/ \E l \in EditList : Edit(t, q, l)
        \/ \E sum \in Sum, l \in {<< >>} \cup {<<i>> : i \in Item} : Replace(t, sum, q, l)
    BY <1>2 DEF Call
  <2>1. << >> \in Seq(Item) /\ \A i \in Item : <<i>> \in Seq(Item) /\ <<i>> # << >>
    OBVIOUS
  <2>2. \A l \in EditList : l \in Seq(Item)
    BY CallAssumption
  <2>3. \A i \in Item : Insert(t, q, i) => Enters(t, q, <<i>>, "begin")
    BY DEF Insert
  <2>4. Delete(t, q) => Enters(t, q, << >>, "delete")
    BY DEF Delete
  <2>5. \A l \in EditList : Edit(t, q, l) => Enters(t, q, l, "delete")
    BY DEF Edit
  <2>6. ASSUME NEW sum \in Sum, NEW l \in {<< >>} \cup {<<i>> : i \in Item}, Replace(t, sum, q, l)
        PROVE  CallInv'
    <3>1. l \in Seq(Item)
      BY <2>1
    <3>2. CASE l = << >>
      BY <1>1, <2>6, <3>1, <3>2 DEF Replace
    <3>3. CASE l # << >>
      BY <1>1, <2>6, <3>1, <3>3 DEF Replace
    <3> QED  BY <3>2, <3>3
  <2> HIDE DEF CallInv
  <2> QED  BY <1>1, <2>1, <2>2, <2>3, <2>4, <2>5, <2>6
<1>3. ASSUME NEW t \in Thread, Work(t)
      PROVE  CallInv'
  <2>1. CASE Begin(t) \/ InsertName(t)
    BY <2>1 DEF Begin, InsertName
  <2>2. CASE AbortInsert(t) \/ InsertProvider(t) \/ InsertData(t)
    BY <2>2 DEF AbortInsert, AbortGoesTo, InsertProvider, InsertData, local
  <2>3. CASE Commit(t)
    BY <2>3 DEF Commit
  <2>4. CASE DeleteSelect(t) \/ DeleteRow(t) \/ DeleteEnds(t)
    BY <2>4 DEF DeleteSelect, DeleteRow, DeleteEnds
  <2> QED  BY <1>3, <2>1, <2>2, <2>3, <2>4 DEF Work
<1>4. CASE Crash
  BY <1>4 DEF Crash
<1>5. CASE UNCHANGED vars
  BY <1>5 DEF vars, local
<1> QED  BY <1>2, <1>3, <1>4, <1>5 DEF Next

\* Every row of a metadata database and every position of a call is of its type, with
\* another process or without.
THEOREM DatabaseTypes == Spec => []TypeOK
<1>1. Init => TypeOK /\ CallInv
  <2>1. Init => CallInv
    BY DEF Init, CallInv
  <2> QED  BY <2>1, TypeInit
<1>2. TypeOK /\ CallInv /\ [Next]_vars => TypeOK' /\ CallInv'
  <2> SUFFICES ASSUME TypeOK, CallInv, [Next]_vars
               PROVE  TypeOK' /\ CallInv'
    OBVIOUS
  <2>1. CASE UNCHANGED vars
    BY <2>1, CallStep DEF vars, store, local, TypeOK
  <2>2. CASE Next
    BY <2>2, CallTypes, WorkTypes, CrashTypes, CallStep DEF Next
  <2> QED  BY <2>1, <2>2
<1> QED  BY <1>1, <1>2, PTL DEF Spec

-----------------------------------------------------------------------------
\* What the step of a thread may do to the tables: side tables only grow, the one new row
\* is that of an insert, and the file is as before or as the tables are.
LEMMA ThreadStep ==
  ASSUME ~OtherProcess, TypeOK, NEW t \in Thread, Call(t) \/ Work(t)
  PROVE  /\ db.names \subseteq db'.names /\ db.providers \subseteq db'.providers
         /\ \A r \in db'.rows \ db.rows :
              pc[t] = "data" /\ r = RowOf(query[t], Head(list[t]))
         /\ disk' = disk \/ disk' = db'
<1> DEFINE Effect ==
      /\ db.names \subseteq db'.names /\ db.providers \subseteq db'.providers
      /\ \A r \in db'.rows \ db.rows : pc[t] = "data" /\ r = RowOf(query[t], Head(list[t]))
      /\ disk' = disk \/ disk' = db'
<1>0. db \in Table
  BY DEF TypeOK
<1>1. CASE UNCHANGED <<db, disk>>
  BY <1>1
<1>2. ASSUME NEW q \in Query, NEW sum \in Sum, NEW l, Replace(t, sum, q, l)
      PROVE  Effect
  <2>1. Statement(t, [db EXCEPT !.rows = {r \in @ : r.sum # sum}])
    BY <1>2 DEF Replace
  <2> QED  BY <2>1, <1>0 DEF Statement, Table
<1>3. CASE Call(t)
  BY <1>1, <1>2, <1>3 DEF Call, Insert, Delete, Edit, store
<1>4. CASE Begin(t) \/ AbortInsert(t) \/ DeleteSelect(t) \/ DeleteEnds(t)
  BY <1>1, <1>4 DEF Begin, AbortInsert, DeleteSelect, DeleteEnds, store
<1>5. CASE Commit(t)
  BY <1>5 DEF Commit, EndTransaction, store
<1>6. CASE InsertName(t)
  <2>1. CASE Statement(t, [db EXCEPT !.names = @ \cup {<<FieldOf(t), NameOf(t)>>}])
    BY <2>1, <1>0 DEF Statement, Table
  <2> QED  BY <1>1, <1>6, <2>1 DEF InsertName, store
<1>7. CASE InsertProvider(t)
  <2>1. Statement(t, [db EXCEPT !.providers = @ \cup {ProviderOf(Head(list[t]))}])
    BY <1>7 DEF InsertProvider
  <2> QED  BY <2>1, <1>0 DEF Statement, Table
<1>8. CASE InsertData(t)
  <2>1. CASE Statement(t, [db EXCEPT !.rows = @ \cup {RowOf(query[t], Head(list[t]))}])
    BY <1>8, <2>1, <1>0 DEF Statement, Table, InsertData
  <2> QED  BY <1>1, <1>8, <2>1 DEF InsertData, store
<1>9. CASE DeleteRow(t)
  <2>1. PICK r \in ToVisit(t) : Statement(t, [db EXCEPT !.rows = {s \in @ : ~SameIds(s, r)}])
    BY <1>9 DEF DeleteRow
  <2> QED  BY <2>1, <1>0 DEF Statement, Table
<1> QED  BY <1>3, <1>4, <1>5, <1>6, <1>7, <1>8, <1>9 DEF Work

\* A step of a thread leaves the positions of the others alone.
LEMMA OthersWait ==
  ASSUME TypeOK, NEW t \in Thread, Call(t) \/ Work(t), NEW u \in Thread \ {t}
  PROVE  /\ pc'[u] = pc[u] /\ query'[u] = query[u] /\ list'[u] = list[u]
         /\ field'[u] = field[u] /\ made'[u] \subseteq made[u]
<1> USE DEF TypeOK
<1>1. CASE Call(t)
  <2> PICK q \in Query :
        \/ \E i \in Item : Insert(t, q, i)
        \/ Delete(t, q)
        \/ \E l \in EditList : Edit(t, q, l)
        \/ \E sum \in Sum, l \in {<< >>} \cup {<<i>> : i \in Item} : Replace(t, sum, q, l)
    BY <1>1 DEF Call
  <2>1. \E l, where : Enters(t, q, l, where)
    BY DEF Insert, Delete, Edit, Replace
  <2>2. UNCHANGED made \/ Forget
    BY DEF Insert, Delete, Edit, Replace
  <2>3. made'[u] \subseteq made[u]
    BY <2>2 DEF Forget
  <2> QED  BY <2>1, <2>3 DEF Enters
<1>2. CASE Begin(t) \/ AbortInsert(t) \/ InsertName(t) \/ InsertProvider(t)
  BY <1>2 DEF Begin, AbortInsert, InsertName, InsertProvider, local
<1>3. CASE InsertData(t) \/ Commit(t)
  BY <1>3 DEF InsertData, Commit, local
<1>4. CASE DeleteSelect(t) \/ DeleteRow(t) \/ DeleteEnds(t)
  BY <1>4 DEF DeleteSelect, DeleteRow, DeleteEnds, Forget
<1> QED  BY <1>1, <1>2, <1>3, <1>4 DEF Work

LEMMA NamesStep ==
  ASSUME ~OtherProcess, TypeOK, CallInv, NamesInv, NEW t \in Thread, Call(t) \/ Work(t)
  PROVE  NamesInv'
<1> DEFINE Filled(u) ==
      /\ pc[u] = "names" =>
           \A k \in 1..(field[u] - 1) :
             Fields[k] \in Required => <<Fields[k], query[u].names[Fields[k]]>> \in db.names
      /\ pc[u] = "data" =>
           /\ \A f \in Required : <<f, query[u].names[f]>> \in db.names
           /\ ProviderOf(Head(list[u])) \in db.providers
<1>1. db.names \subseteq db'.names /\ db.providers \subseteq db'.providers
  BY ThreadStep
<1>2. ASSUME NEW u \in Thread \ {t}
      PROVE  Filled(u)'
  <2>1. Filled(u)
    BY <1>2 DEF NamesInv
  <2>2. /\ pc'[u] = pc[u] /\ query'[u] = query[u] /\ list'[u] = list[u]
        /\ field'[u] = field[u]
    BY <1>2, OthersWait
  <2> QED  BY <1>1, <2>1, <2>2
<1>3. Filled(t)'
  <2>0. Filled(t)
    BY DEF NamesInv
  <2> USE DEF TypeOK
  <2>1. CASE Call(t)
    <3>1. pc'[t] \in {"idle", "begin", "delete"}
      BY <2>1 DEF Call, Insert, Delete, Edit, Replace, Enters
    <3> QED  BY <3>1
  <2>2. CASE Begin(t)
    BY <2>2 DEF Begin
  <2>3. CASE AbortInsert(t) \/ InsertData(t) \/ Commit(t)
    BY <2>3 DEF AbortInsert, AbortGoesTo, InsertData, Commit
  <2>4. CASE DeleteSelect(t) \/ DeleteRow(t) \/ DeleteEnds(t)
    BY <2>4 DEF DeleteSelect, DeleteRow, DeleteEnds
  <2>5. CASE InsertName(t)
    <3>1. pc'[t] = "names" /\ query'[t] = query[t] /\ field'[t] = field[t] + 1
      BY <2>5 DEF InsertName
    <3>2. ASSUME FieldOf(t) \in Required
          PROVE  <<FieldOf(t), NameOf(t)>> \in db'.names
      <4>1. Statement(t, [db EXCEPT !.names = @ \cup {<<FieldOf(t), NameOf(t)>>}])
        BY <2>5, <3>2 DEF InsertName
      <4> QED  BY <4>1 DEF Statement, Table
    <3>3. ASSUME NEW k \in 1..field[t], Fields[k] \in Required
          PROVE  <<Fields[k], query[t].names[Fields[k]]>> \in db'.names
      <4>1. CASE k = field[t]
        BY <3>2, <3>3, <4>1 DEF FieldOf, NameOf
      <4>2. CASE k # field[t]
        <5>1. k \in 1..(field[t] - 1)
          BY <4>2
        <5> QED  BY <1>1, <2>0, <2>5, <3>3, <5>1 DEF InsertName
      <4> QED  BY <4>1, <4>2
    <3> QED  BY <3>1, <3>3
  <2>6. CASE InsertProvider(t)
    <3>1. pc'[t] = "data" /\ query'[t] = query[t] /\ list'[t] = list[t]
      BY <2>6 DEF InsertProvider, local
    <3>2. \A f \in Required : <<f, query[t].names[f]>> \in db'.names
      <4> TAKE f \in Required
      <4>1. PICK k \in 1..Len(Fields) : Fields[k] = f
        BY DatabaseAssumption, FieldsFacts
      <4>2. k \in 1..(field[t] - 1)
        BY <2>6, FieldsFacts DEF InsertProvider
      <4> QED  BY <1>1, <2>0, <2>6, <4>1, <4>2 DEF InsertProvider
    <3>3. ProviderOf(Head(list[t])) \in db'.providers
      <4>1. Statement(t, [db EXCEPT !.providers = @ \cup {ProviderOf(Head(list[t]))}])
        BY <2>6 DEF InsertProvider
      <4> QED  BY <4>1 DEF Statement, Table
    <3> QED  BY <3>1, <3>2, <3>3
  <2> QED  BY <2>1, <2>2, <2>3, <2>4, <2>5, <2>6 DEF Work
<1> QED  BY <1>2, <1>3 DEF NamesInv

LEMMA ResolveStep ==
  ASSUME ~OtherProcess, TypeOK, CallInv, NamesInv, RowsResolve,
         NEW t \in Thread, Call(t) \/ Work(t)
  PROVE  RowsResolve'
<1>1. /\ db.names \subseteq db'.names /\ db.providers \subseteq db'.providers
      /\ \A r \in db'.rows \ db.rows : pc[t] = "data" /\ r = RowOf(query[t], Head(list[t]))
      /\ disk' = disk \/ disk' = db'
  BY ThreadStep
<1>2. ASSUME NEW r \in db'.rows
      PROVE  /\ r.provider \in db'.providers
             /\ \A f \in Required : <<f, r.names[f]>> \in db'.names
  <2>1. CASE r \in db.rows
    BY <1>1, <2>1 DEF RowsResolve, Resolves
  <2>2. CASE r \notin db.rows
    <3>1. pc[t] = "data" /\ r = RowOf(query[t], Head(list[t]))
      BY <1>1, <1>2, <2>2
    <3>2. /\ \A f \in Required : f \in Field /\ <<f, query[t].names[f]>> \in db.names
          /\ ProviderOf(Head(list[t])) \in db.providers
      BY <3>1, DatabaseAssumption DEF NamesInv
    <3> QED  BY <1>1, <3>1, <3>2 DEF RowOf
  <2> QED  BY <2>1, <2>2
<1>3. Resolves(db')
  BY <1>2 DEF Resolves
<1>4. Resolves(disk')
  BY <1>1, <1>3 DEF RowsResolve
<1> QED  BY <1>3, <1>4 DEF RowsResolve, Resolves

\* What a thread does to the transaction of the connection.
LEMMA TxStep ==
  ASSUME ~OtherProcess, TypeOK, TxInv, NEW t \in Thread, Call(t) \/ Work(t)
  PROVE  TxInv'
<1> DEFINE Writing(u) == pc[u] \in {"names", "data", "commit"}
<1>1. ASSUME NEW u \in Thread \ {t}, Writing(u)
      PROVE  Writing(u)'
  BY <1>1, OthersWait
<1>2. Writing(t) => Writing(t)' \/ Commit(t)
  BY DEF TypeOK, Call, Insert, Delete, Edit, Replace, Enters, Work, Begin, AbortInsert,
         AbortGoesTo, InsertName, InsertProvider, InsertData, DeleteSelect, DeleteRow, DeleteEnds
<1>3. CASE Begin(t)
  <2>1. Writing(t)' /\ inTx'
    BY <1>3 DEF Begin, TypeOK
  <2> QED  BY <2>1 DEF TxInv
<1>4. CASE Commit(t)
  <2>1. ~inTx' /\ db' = disk'
    BY <1>4 DEF Commit, EndTransaction, store, TxInv, TypeOK
  <2> QED  BY <2>1 DEF TxInv
<1>5. CASE ~Begin(t) /\ ~Commit(t)
  <2>1. inTx' = inTx
    <3>1. CASE Call(t)
      BY <3>1 DEF Call, Insert, Delete, Edit, Replace, Statement, store
    <3>2. CASE Work(t)
      BY <1>5, <3>2 DEF Work, AbortInsert, InsertName, InsertProvider, InsertData,
                       DeleteSelect, DeleteRow, DeleteEnds, Statement, store
    <3> QED  BY <3>1, <3>2
  <2>2. inTx' => \E u \in Thread : Writing(u)'
    BY <1>1, <1>2, <1>5, <2>1 DEF TxInv
  <2>3. ~inTx' => db' = disk'
    <3> SUFFICES ASSUME ~inTx', db = disk
                 PROVE  db' = disk'
      BY <2>1 DEF TxInv
    <3>1. UNCHANGED store \/ \E new : Statement(t, new)
      <4>1. CASE Call(t)
        BY <4>1 DEF Call, Insert, Delete, Edit, Replace
      <4>2. CASE Work(t)
        BY <1>5, <4>2 DEF Work, AbortInsert, InsertName, InsertProvider, InsertData,
                         DeleteSelect, DeleteRow, DeleteEnds
      <4> QED  BY <4>1, <4>2
    <3> QED  BY <2>1, <3>1 DEF Statement, store
  <2> QED  BY <2>2, <2>3 DEF TxInv
<1> QED  BY <1>3, <1>4, <1>5

\* After a step that takes rows on purpose, the history holds what is left.
LEMMA ForgetStep ==
  ASSUME TypeOK, HistoryInv, Forget, disk' = disk \/ disk' = db'
  PROVE  /\ Durable'
         /\ \A t \in Thread : made'[t] \subseteq made[t] /\ \A o \in made'[t] : Holds(db'.rows, o.item)
BY DEF TypeOK, HistoryInv, Durable, Forget, Holds

\* After a step that takes no row, it holds what it did.
LEMMA KeepStep ==
  ASSUME Durable, db.rows \subseteq db'.rows, disk' = disk \/ disk' = db'
  PROVE  \A o \in owed : Holds(db'.rows, o.item) /\ Holds(disk'.rows, o.item)
BY DEF Durable, Holds

LEMMA HistoryStep ==
  ASSUME ~OtherProcess, TypeOK, CallInv, TxInv, HistoryInv,
         NEW t \in Thread, Call(t) \/ Work(t)
  PROVE  HistoryInv'
<1> DEFINE Kept(u) == \A o \in made[u] : pc[u] = "commit" /\ Holds(db.rows, o.item)
<1>1. disk' = disk \/ disk' = db'
  BY ThreadStep
<1>2. ASSUME Forget, made[t] = {} PROVE HistoryInv'
  <2>1. /\ Durable'
        /\ \A u \in Thread : made'[u] \subseteq made[u] /\ \A o \in made'[u] : Holds(db'.rows, o.item)
    BY <1>1, <1>2, ForgetStep
  <2>2. \A u \in Thread \ {t} : pc'[u] = pc[u]
    BY OthersWait
  <2> QED  BY <1>2, <2>1, <2>2 DEF HistoryInv
<1>3. ASSUME db.rows \subseteq db'.rows, UNCHANGED <<made, owed>>, made[t] = {} PROVE HistoryInv'
  <2>1. Durable'
    BY <1>1, <1>3, KeepStep DEF Durable, HistoryInv
  <2>2. \A u \in Thread \ {t} : pc'[u] = pc[u]
    BY OthersWait
  <2>3. \A u \in Thread : Kept(u)'
    BY <1>3, <2>2 DEF HistoryInv, Holds
  <2> QED  BY <2>1, <2>3 DEF HistoryInv
<1>4. pc[t] # "commit" => made[t] = {}
  BY DEF HistoryInv
<1>5. CASE Call(t)
  <2>1. pc[t] = "idle" /\ (Forget \/ UNCHANGED <<db, made, owed>>)
    BY <1>5 DEF Call, Insert, Delete, Edit, Replace, Enters, store
  <2> QED  BY <1>2, <1>3, <1>4, <2>1
<1>6. CASE Begin(t) \/ AbortInsert(t) \/ DeleteSelect(t) \/ DeleteEnds(t)
  BY <1>3, <1>4, <1>6 DEF Begin, AbortInsert, DeleteSelect, DeleteEnds, store
<1>7. CASE InsertName(t) \/ InsertProvider(t)
  <2>1. db.rows \subseteq db'.rows
    BY <1>7 DEF InsertName, InsertProvider, Statement, store, TypeOK, Table
  <2> QED  BY <1>3, <1>4, <1>7, <2>1 DEF InsertName, InsertProvider, local
<1>8. CASE DeleteRow(t)
  BY <1>2, <1>4, <1>8 DEF DeleteRow
<1>9. CASE InsertData(t)
  <2> DEFINE i == Head(list[t])
  <2>1. query[t] \in Query /\ i \in Item
    BY <1>9, ListFacts DEF InsertData, CallInv, TypeOK
  <2>2. db.rows \subseteq db'.rows /\ Holds(db'.rows, i)
    <3>1. CASE Conflicts(i) /\ UNCHANGED store
      BY <3>1 DEF Conflicts, store
    <3>2. CASE Statement(t, [db EXCEPT !.rows = @ \cup {RowOf(query[t], i)}])
      <4>1. Content(RowOf(query[t], i)) = Content(i)
        BY <2>1, RowOfFacts
      <4>2. db'.rows = db.rows \cup {RowOf(query[t], i)}
        BY <3>2 DEF Statement, TypeOK, Table
      <4> QED  BY <4>1, <4>2 DEF Holds
    <3> QED  BY <1>9, <3>1, <3>2 DEF InsertData
  <2>3. Durable'
    BY <1>1, <1>9, <2>2, KeepStep DEF InsertData, Durable, HistoryInv
  <2>4. ASSUME NEW u \in Thread PROVE Kept(u)'
    <3>1. CASE u = t
      BY <1>9, <2>2, <3>1 DEF InsertData, TypeOK
    <3>2. CASE u # t
      <4>1. pc'[u] = pc[u] /\ made'[u] \subseteq made[u]
        BY <3>2, OthersWait
      <4> QED  BY <2>2, <4>1 DEF HistoryInv, Holds
    <3> QED  BY <3>1, <3>2
  <2> QED  BY <2>3, <2>4 DEF HistoryInv
<1>10. CASE Commit(t)
  <2>1. db' = db /\ disk' = db
    BY <1>10 DEF Commit, EndTransaction, store, TxInv, TypeOK
  <2>2. Durable'
    BY <1>10, <2>1 DEF Commit, Durable, HistoryInv
  <2>3. ASSUME NEW u \in Thread PROVE Kept(u)'
    <3>1. CASE u = t
      BY <1>10, <3>1 DEF Commit, TypeOK
    <3>2. CASE u # t
      <4>1. pc'[u] = pc[u] /\ made'[u] \subseteq made[u]
        BY <3>2, OthersWait
      <4> QED  BY <2>1, <4>1 DEF HistoryInv
    <3> QED  BY <3>1, <3>2
  <2> QED  BY <2>2, <2>3 DEF HistoryInv
<1> QED  BY <1>5, <1>6, <1>7, <1>8, <1>9, <1>10 DEF Work

-----------------------------------------------------------------------------
LEMMA CrashStep ==
  ASSUME IInv, Crash
  PROVE  (NamesInv /\ RowsResolve /\ TxInv /\ HistoryInv)'
<1>1. /\ db' = disk /\ disk' = disk /\ ~inTx' /\ owed' = owed
      /\ \A t \in Thread : pc'[t] = "idle" /\ made'[t] = {}
  BY DEF Crash
<1>2. NamesInv' /\ TxInv'
  BY <1>1 DEF NamesInv, TxInv
<1>3. RowsResolve'
  BY <1>1 DEF IInv, RowsResolve, Resolves
<1>4. HistoryInv'
  BY <1>1 DEF IInv, HistoryInv, Durable
<1> QED  BY <1>2, <1>3, <1>4

LEMMA InvInit == Init => IInv
<1> SUFFICES ASSUME Init
             PROVE  IInv
  OBVIOUS
<1>1. CallInv /\ NamesInv /\ TxInv
  BY DEF Init, CallInv, NamesInv, TxInv
<1>2. RowsResolve /\ HistoryInv
  BY DEF Init, RowsResolve, Resolves, HistoryInv, Durable
<1> QED  BY <1>1, <1>2, TypeInit DEF IInv

LEMMA InvNext ==
  ASSUME ~OtherProcess, IInv, [Next]_vars
  PROVE  IInv'
<1>1. CASE UNCHANGED vars
  BY <1>1 DEF vars, store, local, IInv, TypeOK, CallInv, NamesInv, RowsResolve, Resolves,
              TxInv, HistoryInv, Durable
<1>2. CASE Crash
  BY <1>2, CrashTypes, CallStep, CrashStep DEF IInv
<1>3. ASSUME NEW t \in Thread, Call(t) \/ Work(t)
      PROVE  IInv'
  <2>1. TypeOK' /\ CallInv'
    BY <1>3, CallTypes, WorkTypes, CallStep DEF IInv
  <2>2. NamesInv' /\ RowsResolve' /\ TxInv' /\ HistoryInv'
    BY <1>3, NamesStep, ResolveStep, TxStep, HistoryStep DEF IInv
  <2> QED  BY <2>1, <2>2 DEF IInv
<1> QED  BY <1>1, <1>2, <1>3 DEF Next

LEMMA InvAlways ==
  ASSUME ~OtherProcess
  PROVE  Spec => []IInv
BY InvInit, InvNext, PTL DEF Spec

\* However many threads share the connection, and wherever a crash cuts an insert short,
\* every row that glyr_db_insert() leaves has its provider and required names in the side
\* tables it is joined with.
THEOREM RowsAlwaysResolve ==
  ASSUME ~OtherProcess
  PROVE  Spec => []RowsResolve
<1>1. IInv => RowsResolve
  BY DEF IInv
<1> QED  BY <1>1, InvAlways, PTL

\* What a returned glyr_db_insert() stored outlives every crash until it is deleted.
THEOREM InsertsAreDurable ==
  ASSUME ~OtherProcess
  PROVE  Spec => []Durable
<1>1. IInv => Durable
  BY DEF IInv, HistoryInv
<1> QED  BY <1>1, InvAlways, PTL

\* When no thread is in the library, no transaction is open and everything is saved.
THEOREM NothingStaysOpen ==
  ASSUME ~OtherProcess
  PROVE  Spec => []NothingOpen
<1>1. IInv => NothingOpen
  BY DEF IInv, TxInv, NothingOpen
<1> QED  BY <1>1, InvAlways, PTL

-----------------------------------------------------------------------------
\* The rows a delete still has to visit are rows its query asks for.
VisitInv ==
  \A t \in Thread : pc[t] = "deleting" =>
    \A r \in left[t] : NamesMatch(query[t], r) /\ ProviderMatches(query[t], r)

\* One delete runs at a time, and what it has not visited is all there is to delete.
CoverInv ==
  \A t \in Thread : pc[t] = "deleting" =>
    /\ \A u \in Thread \ {t} : pc[u] # "deleting"
    /\ Matching(query[t], db.rows) \subseteq left[t]

\* What only a delete moves.
LEMMA OthersVisit ==
  ASSUME TypeOK, NEW t \in Thread, Call(t) \/ Work(t), NEW u \in Thread \ {t}
  PROVE  left'[u] = left[u]
<1>1. CASE Call(t)
  BY <1>1 DEF Call, Insert, Delete, Edit, Replace, Enters
<1>2. CASE Begin(t) \/ AbortInsert(t) \/ InsertName(t) \/ InsertProvider(t)
  BY <1>2 DEF Begin, AbortInsert, InsertName, InsertProvider, local
<1>3. CASE InsertData(t) \/ Commit(t)
  BY <1>3 DEF InsertData, Commit, local
<1>4. CASE DeleteSelect(t) \/ DeleteRow(t) \/ DeleteEnds(t)
  BY <1>4 DEF DeleteSelect, DeleteRow, DeleteEnds, TypeOK
<1> QED  BY <1>1, <1>2, <1>3, <1>4 DEF Work

\* How a thread comes to delete, and how it goes on.
LEMMA DeletingStep ==
  ASSUME TypeOK, NEW t \in Thread, Call(t) \/ Work(t), pc'[t] = "deleting"
  PROVE  DeleteSelect(t) \/ (DeleteRow(t) /\ pc[t] = "deleting")
<1> USE DEF TypeOK
<1>1. CASE Call(t)
  <2>1. pc'[t] \in {"idle", "begin", "delete"}
    BY <1>1 DEF Call, Insert, Delete, Edit, Replace, Enters
  <2> QED  BY <2>1
<1>2. CASE Begin(t) \/ InsertName(t) \/ InsertProvider(t)
  BY <1>2 DEF Begin, InsertName, InsertProvider
<1>3. CASE AbortInsert(t) \/ InsertData(t) \/ Commit(t) \/ DeleteEnds(t)
  BY <1>3 DEF AbortInsert, AbortGoesTo, InsertData, Commit, DeleteEnds
<1>4. CASE DeleteRow(t)
  BY <1>4 DEF DeleteRow
<1> QED  BY <1>1, <1>2, <1>3, <1>4 DEF Work

LEMMA VisitStep ==
  ASSUME TypeOK, VisitInv, [Next]_vars
  PROVE  VisitInv'
<1>1. CASE UNCHANGED vars
  BY <1>1 DEF vars, local, VisitInv, NamesMatch, ProviderMatches
<1>2. CASE Crash
  BY <1>2 DEF Crash, VisitInv
<1>3. ASSUME NEW t \in Thread, Call(t) \/ Work(t)
      PROVE  VisitInv'
  <2> SUFFICES ASSUME NEW u \in Thread, pc'[u] = "deleting", NEW r \in left'[u]
               PROVE  NamesMatch(query'[u], r) /\ ProviderMatches(query'[u], r)
    BY DEF VisitInv, NamesMatch, ProviderMatches
  <2>1. CASE u # t
    <3>1. pc'[u] = pc[u] /\ query'[u] = query[u] /\ left'[u] = left[u]
      BY <1>3, <2>1, OthersWait, OthersVisit
    <3> QED  BY <3>1 DEF VisitInv
  <2>2. CASE u = t /\ DeleteSelect(t)
    <3>1. query' = query /\ r \in Matching(query[t], db.rows)
      BY <2>2 DEF DeleteSelect, TypeOK
    <3> QED  BY <2>2, <3>1 DEF Matching
  <2>3. CASE u = t /\ DeleteRow(t) /\ pc[t] = "deleting"
    <3>1. query' = query /\ r \in left[t]
      BY <2>3 DEF DeleteRow, TypeOK
    <3> QED  BY <2>3, <3>1 DEF VisitInv
  <2> QED  BY <1>3, <2>1, <2>2, <2>3, DeletingStep
<1> QED  BY <1>1, <1>2, <1>3 DEF Next

\* While one thread deletes, no other changes the tables or begins to delete.
LEMMA DeleteExcludes ==
  ASSUME TypeOK, NEW t \in Thread, Call(t) \/ Work(t), NEW u \in Thread \ {t}, pc[u] = "deleting"
  PROVE  db' = db /\ ~DeleteSelect(t)
<1>1. ~Free(t)
  BY DEF Free
<1>2. CASE Call(t)
  BY <1>1, <1>2 DEF Call, Insert, Delete, Edit, Replace, Statement, store, DeleteSelect, Enters
<1>3. CASE Work(t)
  BY <1>1, <1>3 DEF Work, Begin, AbortInsert, InsertName, InsertProvider, InsertData, Commit,
                    DeleteSelect, DeleteRow, DeleteEnds, Statement, store
<1> QED  BY <1>2, <1>3

LEMMA CoverStep ==
  ASSUME ~OtherProcess, TypeOK, CoverInv, [Next]_vars
  PROVE  CoverInv'
<1>1. CASE UNCHANGED vars
  BY <1>1 DEF vars, store, local, CoverInv, Matching, NamesMatch, ProviderMatches, KindMatches
<1>2. CASE Crash
  BY <1>2 DEF Crash, CoverInv
<1>3. ASSUME NEW t \in Thread, Call(t) \/ Work(t)
      PROVE  CoverInv'
  <2> SUFFICES ASSUME NEW u \in Thread, pc'[u] = "deleting"
               PROVE  /\ \A v \in Thread \ {u} : pc'[v] # "deleting"
                      /\ Matching(query'[u], db'.rows) \subseteq left'[u]
    BY DEF CoverInv, Matching, NamesMatch, ProviderMatches, KindMatches
  <2>1. \A v \in Thread \ {t} : pc'[v] = pc[v] /\ query'[v] = query[v] /\ left'[v] = left[v]
    BY <1>3, OthersWait, OthersVisit
  <2>2. CASE u # t
    <3>1. db' = db /\ ~DeleteSelect(t) /\ pc[u] = "deleting"
      BY <1>3, <2>1, <2>2, DeleteExcludes
    <3>2. pc[t] # "deleting"
      BY <2>2, <3>1 DEF CoverInv
    <3>3. pc'[t] # "deleting"
      BY <1>3, <3>1, <3>2, DeletingStep
    <3> QED  BY <2>1, <2>2, <3>1, <3>3 DEF CoverInv
  <2>3. CASE u = t /\ DeleteSelect(t)
    <3>1. \A v \in Thread \ {t} : pc[v] # "deleting"
      BY <2>3 DEF DeleteSelect, Free
    <3>2. db' = db /\ query' = query /\ left'[t] = Matching(query[t], db.rows)
      BY <2>3 DEF DeleteSelect, store, TypeOK
    <3> QED  BY <2>1, <2>3, <3>1, <3>2
  <2>4. CASE u = t /\ DeleteRow(t) /\ pc[t] = "deleting"
    <3>1. PICK r \in ToVisit(t) :
            /\ Statement(t, [db EXCEPT !.rows = {s \in @ : ~SameIds(s, r)}])
            /\ left' = [left EXCEPT ![t] = @ \ {r}]
      BY <2>4 DEF DeleteRow
    <3>2. db'.rows = {s \in db.rows : ~SameIds(s, r)}
      BY <3>1 DEF Statement, TypeOK, Table
    <3>3. db'.rows \subseteq db.rows /\ r \notin db'.rows
      BY <3>2 DEF SameIds
    <3>4. query' = query /\ left'[t] = left[t] \ {r}
      BY <2>4, <3>1 DEF DeleteRow, TypeOK
    <3>5. Matching(query[t], db'.rows) \subseteq left[t] \ {r}
      BY <2>4, <3>3 DEF CoverInv, Matching
    <3> QED  BY <2>1, <2>4, <3>4, <3>5 DEF CoverInv
  <2> QED  BY <1>3, <2>2, <2>3, <2>4, DeletingStep
<1> QED  BY <1>1, <1>2, <1>3 DEF Next

\* delete_callback() never takes a row with other names, or of a provider that the query
\* does not allow, whatever other threads and other processes do meanwhile.
THEOREM DeletesAreNarrow == Spec => DeleteIsNarrow
<1> DEFINE Narrow ==
      \A t \in Thread : DeleteRow(t) =>
        \A r \in db.rows \ db'.rows : NamesMatch(query[t], r) /\ ProviderMatches(query[t], r)
<1>1. Init => TypeOK /\ CallInv /\ VisitInv
  <2>1. Init => CallInv /\ VisitInv
    BY DEF Init, CallInv, VisitInv
  <2> QED  BY <2>1, TypeInit
<1>2. TypeOK /\ CallInv /\ VisitInv /\ [Next]_vars => TypeOK' /\ CallInv' /\ VisitInv'
  <2> SUFFICES ASSUME TypeOK, CallInv, VisitInv, [Next]_vars
               PROVE  TypeOK' /\ CallInv' /\ VisitInv'
    OBVIOUS
  <2>1. CASE UNCHANGED vars
    BY <2>1, CallStep, VisitStep DEF vars, store, local, TypeOK
  <2>2. CASE Next
    BY <2>2, CallTypes, WorkTypes, CrashTypes, CallStep, VisitStep DEF Next
  <2> QED  BY <2>1, <2>2
<1>3. TypeOK /\ VisitInv => Narrow
  <2> SUFFICES ASSUME TypeOK, VisitInv, NEW t \in Thread, DeleteRow(t), NEW s \in db.rows \ db'.rows
               PROVE  NamesMatch(query[t], s) /\ ProviderMatches(query[t], s)
    OBVIOUS
  <2>1. PICK r \in ToVisit(t) : Statement(t, [db EXCEPT !.rows = {x \in @ : ~SameIds(x, r)}])
    BY DEF DeleteRow
  <2>2. SameIds(s, r)
    BY <2>1 DEF Statement, TypeOK, Table
  <2>3. NamesMatch(query[t], r) /\ ProviderMatches(query[t], r)
    BY <2>1 DEF VisitInv, ToVisit, DeleteRow
  <2> QED  BY <2>2, <2>3 DEF SameIds, NamesMatch, ProviderMatches
<1>4. TypeOK /\ VisitInv /\ [Next]_vars => [Narrow]_vars
  BY <1>3
<1> QED  BY <1>1, <1>2, <1>4, PTL DEF Spec, DeleteIsNarrow

\* glyr_db_delete() that was not stopped by its limit leaves nothing of what its query
\* asked for, although other threads insert and delete over the same connection.
THEOREM DeletesAreComplete ==
  ASSUME ~OtherProcess
  PROVE  Spec => DeleteIsComplete
<1> DEFINE Complete ==
      \A t \in Thread : DeleteEnds(t) /\ deleted[t] < query[t].number
        => Matching(query[t], db.rows) = {}
<1>1. Init => CoverInv
  BY DEF Init, CoverInv
<1>2. TypeOK /\ CoverInv /\ [Next]_vars => CoverInv'
  BY CoverStep
<1>3. TypeOK /\ CallInv /\ CoverInv => Complete
  <2> SUFFICES ASSUME TypeOK, CallInv, CoverInv, NEW t \in Thread, DeleteEnds(t),
                      deleted[t] < query[t].number
               PROVE  Matching(query[t], db.rows) = {}
    OBVIOUS
  <2>1. pc[t] = "deleting"
    BY DEF DeleteEnds
  <2>2. query[t].number \in Nat /\ deleted[t] \in Nat
    BY <2>1, QueryFacts DEF CallInv, TypeOK
  <2>3. left[t] \cap db.rows = {}
    BY <2>2 DEF DeleteEnds, ToVisit
  <2>4. Matching(query[t], db.rows) \subseteq left[t] \cap db.rows
    BY <2>1 DEF CoverInv, Matching
  <2> QED  BY <2>3, <2>4
<1>4. TypeOK /\ CallInv /\ CoverInv /\ [Next]_vars => [Complete]_vars
  BY <1>3
<1>5. IInv => TypeOK /\ CallInv
  BY DEF IInv
<1> QED  BY <1>1, <1>2, <1>4, <1>5, InvAlways, PTL DEF Spec, DeleteIsComplete

=============================================================================
