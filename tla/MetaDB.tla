------------------------------- MODULE MetaDB -------------------------------
(***************************************************************************)
(* The metadata database (src/lib/cache.c, src/lib/cache_intern.c): one    *)
(* SQLite connection that the threads of an application share.  SQLite     *)
(* itself executes one statement at a time; what is modelled is what the   *)
(* library makes of it: an insert is a handful of statements between BEGIN *)
(* and COMMIT, their errors are ignored, and a transaction belongs to the  *)
(* connection and not to the thread that began it.                         *)
(*                                                                         *)
(* One getter type is modelled, all statements but the DELETE of           *)
(* glyr_db_replace() restrict themselves to one.  A row holds the names    *)
(* its ids stand for; names are compared without case and are equal or     *)
(* not.  Rows that differ in rating and time only are one row.             *)
(***************************************************************************)
EXTENDS Naturals, FiniteSets, Sequences

CONSTANTS
  Thread,        \* the threads of the application
  Query,         \* their queries: [names, from, download, number]
  Item,          \* the caches they store: [provider, kind, sum, source]
  Fields,        \* the order in which names are inserted: artist, album, title
  Required,      \* GLYR_REQUIRES_* of the getter
  Optional,      \* GLYR_OPTIONAL_* of the getter
  ImageType,     \* TYPE_IS_IMAGE (query->type)
  EditList,      \* the lists given to glyr_db_edit()
  Name, Provider, NoProvider, Sum, Source,
  Absent,        \* NULL
  OtherProcess,  \* does another process use the file, so that statements may find it busy?
  MaxCalls       \* bound: calls and crashes

Field == {Fields[i] : i \in 1..Len(Fields)}

ASSUME DatabaseAssumption ==
  /\ Fields \in Seq(STRING)
  /\ Required \subseteq Field
  /\ Optional \subseteq Field \ Required
  /\ ImageType \in BOOLEAN /\ OtherProcess \in BOOLEAN
  /\ Absent \notin Name \cup Provider \cup Source /\ NoProvider \in Provider
  /\ MaxCalls \in Nat

ASSUME CallAssumption ==
  /\ Query \subseteq [names : [Field -> Name \cup {Absent}], from : SUBSET Provider,
                      download : BOOLEAN, number : Nat \ {0}]
  /\ Item \subseteq [provider : Provider \cup {Absent}, kind : {"url", "data"},
                     sum : Sum, source : Source \cup {Absent}]
  /\ EditList \subseteq Seq(Item) \ {<< >>}

VARIABLES
  db,       \* what statements on the connection see: side tables and metadata
  disk,     \* what a crash leaves
  inTx,     \* is a transaction open on the connection
  pc,       \* [Thread -> position]
  query,    \* [Thread -> the query of the call]
  list,     \* [Thread -> the caches of the call]
  copies,   \* [Thread -> how many inserts are to come in it]
  field,    \* [Thread -> position in Fields]
  left,     \* [Thread -> rows the SELECT of a delete has not returned yet]
  deleted,  \* [Thread -> delete_callback_data.deleted]
  made,     \* history: what the insert of a thread has stored
  owed,     \* history: what returned inserts have stored and no delete took
  calls     \* bound

store == <<db, disk, inTx>>
local == <<query, list, copies, field, left, deleted>>
vars == <<store, pc, local, made, owed, calls>>

-----------------------------------------------------------------------------
\* CACHE_GET_PROVIDER
ProviderOfNull(i) == i.provider
ProviderOf(i) == IF i.provider = Absent THEN NoProvider ELSE i.provider

Content(x) == [kind |-> x.kind, sum |-> x.sum, source |-> x.source]

Holds(rows, i) == \E r \in rows : Content(r) = Content(i)

\* The names an insert writes to their side tables.
Used == Required \cup Optional

\* index_unique; NULLs differ from each other.
Conflicts(i) ==
  /\ i.source # Absent
  /\ Holds(db.rows, i)

\* SQL_INSERT_CACHE: every name and the provider are looked up in the side tables, what
\* is not there becomes NULL.
RowOf(q, i) ==
  [names    |-> [f \in Field |-> IF <<f, q.names[f]>> \in db.names THEN q.names[f] ELSE Absent],
   provider |-> IF ProviderOf(i) \in db.providers THEN ProviderOf(i) ELSE Absent,
   kind     |-> i.kind, sum |-> i.sum, source |-> i.source]

NamesMatch(q, r) ==
  \A f \in Required : q.names[f] # Absent => r.names[f] = q.names[f]

\* The inner join with the providers, and convert_from_option_to_sql().
ProviderMatches(q, r) == r.provider # Absent /\ r.provider \in q.from \cup {NoProvider}

\* 'IsALink' constraint
KindMatches(q, r) == ImageType => (q.download <=> r.kind # "url")

\* The rows SQL_LOOKUP and SQL_DELETE_SELECT find, before their LIMIT.
Matching(q, rows) ==
  {r \in rows : NamesMatch(q, r) /\ ProviderMatches(q, r) /\ KindMatches(q, r)}

\* Variant: the plain comparison with NULL, which is never true.
SameIdsNull(r, s) ==
  /\ \A f \in Field : s.names[f] # Absent /\ r.names[f] = s.names[f]
  /\ r.provider = s.provider

\* Variant: the provider is not compared.
SameIdsAnyProvider(r, s) == r.names = s.names

\* SQL_ACTUAL_DELETE, with IS instead of = for a NULL.
SameIds(r, s) == r.names = s.names /\ r.provider = s.provider

-----------------------------------------------------------------------------
\* glyr_db_init() made the tables and committed.
Init ==
  /\ db = [names |-> {}, providers |-> {}, rows |-> {}]
  /\ disk = db
  /\ inTx = FALSE
  /\ pc = [t \in Thread |-> "idle"]
  /\ query = [t \in Thread |-> Absent]
  /\ list = [t \in Thread |-> << >>]
  /\ copies = [t \in Thread |-> 0]
  /\ field = [t \in Thread |-> 1]
  /\ left = [t \in Thread |-> {}]
  /\ deleted = [t \in Thread |-> 0]
  /\ made = [t \in Thread |-> {}]
  /\ owed = {}
  /\ calls = 0

\* sqlite3_exec() holds the mutex of the connection until it is through, callbacks
\* included; only the one of a delete takes more than one step.
Free(t) == \A u \in Thread \ {t} : pc[u] # "deleting"

\* A writing statement: outside of a transaction it is one of its own, and if another
\* process has locked the file it fails, which execute() only reports.
Statement(t, new) ==
  /\ Free(t)
  /\ \/ db' = new /\ disk' = IF inTx THEN disk ELSE new
     \/ OtherProcess /\ ~inTx /\ UNCHANGED <<db, disk>>
  /\ UNCHANGED inTx

\* A thread enters the library.
Enters(t, q, l, where) ==
  /\ pc[t] = "idle"
  /\ calls < MaxCalls
  /\ pc' = [pc EXCEPT ![t] = where]
  /\ query' = [query EXCEPT ![t] = q]
  /\ list' = [list EXCEPT ![t] = l]
  /\ copies' = [copies EXCEPT ![t] = Len(l)]
  /\ calls' = calls + 1
  /\ UNCHANGED <<field, left, deleted>>

\* The bookkeeping of the history after rows were deleted on purpose.
Forget ==
  /\ made' = [t \in Thread |-> {o \in made[t] : Holds(db'.rows, o.item)}]
  /\ owed' = {o \in owed : Holds(db'.rows, o.item)}

Insert(t, q, i) ==
  /\ Enters(t, q, <<i>>, "begin")
  /\ UNCHANGED <<store, made, owed>>

Delete(t, q) ==
  /\ Enters(t, q, << >>, "delete")
  /\ UNCHANGED <<store, made, owed>>

Edit(t, q, l) ==
  /\ Enters(t, q, l, "delete")
  /\ UNCHANGED <<store, made, owed>>

\* glyr_db_replace() up to the insert, which only follows if there is data.
Replace(t, sum, q, l) ==
  /\ Enters(t, q, l, IF l = << >> THEN "idle" ELSE "begin")
  /\ Statement(t, [db EXCEPT !.rows = {r \in @ : r.sum # sum}])
  /\ Forget

-----------------------------------------------------------------------------
\* BEGIN IMMEDIATE; within a transaction it is an error, which is ignored.
Begin(t) ==
  /\ pc[t] = "begin"
  /\ Free(t)
  /\ \/ inTx' = TRUE
     \/ OtherProcess /\ UNCHANGED inTx
  /\ pc' = [pc EXCEPT ![t] = "names"]
  /\ field' = [field EXCEPT ![t] = 1]
  /\ UNCHANGED <<db, disk, query, list, copies, left, deleted, made, owed, calls>>

\* The name whose turn it is.
FieldOf(t) == Fields[field[t]]
NameOf(t) == query[t].names[FieldOf(t)]

\* Variants: an early return, and a label before insert_cache_data().
AbortReturns == "idle"
AbortGoesToData == "data"

\* goto rollback, where the COMMIT is.
AbortGoesTo == "commit"

\* ABORT_ON_FAILED_REQS
AbortInsert(t) ==
  /\ pc[t] = "names"
  /\ field[t] <= Len(Fields)
  /\ FieldOf(t) \in Required /\ NameOf(t) = Absent
  /\ pc' = [pc EXCEPT ![t] = AbortGoesTo]
  /\ UNCHANGED <<store, local, made, owed, calls>>

\* INSERT_STRING for a name, which does nothing if there is none.
InsertName(t) ==
  /\ pc[t] = "names"
  /\ field[t] <= Len(Fields)
  /\ \/ /\ FieldOf(t) \in Used /\ NameOf(t) # Absent
        /\ Statement(t, [db EXCEPT !.names = @ \cup {<<FieldOf(t), NameOf(t)>>}])
     \/ /\ FieldOf(t) \notin Required
        /\ FieldOf(t) \in Optional => NameOf(t) = Absent
        /\ UNCHANGED store
  /\ field' = [field EXCEPT ![t] = @ + 1]
  /\ UNCHANGED <<pc, query, list, copies, left, deleted, made, owed, calls>>

\* INSERT_STRING for the provider
InsertProvider(t) ==
  /\ pc[t] = "names"
  /\ field[t] > Len(Fields)
  /\ Statement(t, [db EXCEPT !.providers = @ \cup {ProviderOf(Head(list[t]))}])
  /\ pc' = [pc EXCEPT ![t] = "data"]
  /\ UNCHANGED <<local, made, owed, calls>>

\* insert_cache_data(); glyr_db_edit() passes the head of its list every time.
InsertData(t) ==
  LET i == Head(list[t])
  IN  /\ pc[t] = "data"
      /\ \/ Conflicts(i) /\ Free(t) /\ UNCHANGED store
         \/ ~Conflicts(i) /\ Statement(t, [db EXCEPT !.rows = @ \cup {RowOf(query[t], i)}])
      /\ made' = [made EXCEPT ![t] = {[query |-> query[t], item |-> i]}]
      /\ pc' = [pc EXCEPT ![t] = "commit"]
      /\ UNCHANGED <<local, owed, calls>>

\* Variant: ROLLBACK instead of COMMIT.
EndTransactionRollback == db' = disk /\ UNCHANGED disk
EndTransaction == disk' = db /\ UNCHANGED db

\* COMMIT, whoever began; without a transaction it is an error, which is ignored.  If
\* another process is reading the file it fails and the transaction stays open.
Commit(t) ==
  /\ pc[t] = "commit"
  /\ Free(t)
  /\ \/ inTx /\ EndTransaction /\ inTx' = FALSE
     \/ (inTx => OtherProcess) /\ UNCHANGED store
  /\ pc' = [pc EXCEPT ![t] = IF copies[t] > 1 THEN "begin" ELSE "idle"]
  /\ copies' = [copies EXCEPT ![t] = @ - 1]
  /\ made' = [made EXCEPT ![t] = {}]
  /\ owed' = owed \cup made[t]
  /\ UNCHANGED <<query, list, field, left, deleted, calls>>

-----------------------------------------------------------------------------
\* The SELECT of glyr_db_delete() starts.
DeleteSelect(t) ==
  /\ pc[t] = "delete"
  /\ Free(t)
  /\ pc' = [pc EXCEPT ![t] = "deleting"]
  /\ left' = [left EXCEPT ![t] = Matching(query[t], db.rows)]
  /\ deleted' = [deleted EXCEPT ![t] = 0]
  /\ UNCHANGED <<store, query, list, copies, field, made, owed, calls>>

\* Rows that are deleted while the SELECT runs are not returned by it any more.
ToVisit(t) == left[t] \cap db.rows

\* delete_callback() for the next row
DeleteRow(t) ==
  /\ pc[t] = "deleting"
  /\ deleted[t] < query[t].number
  /\ \E r \in ToVisit(t) :
       /\ Statement(t, [db EXCEPT !.rows = {s \in @ : ~SameIds(s, r)}])
       /\ left' = [left EXCEPT ![t] = @ \ {r}]
  /\ deleted' = [deleted EXCEPT ![t] = @ + 1]
  /\ Forget
  /\ UNCHANGED <<pc, query, list, copies, field, calls>>

\* glyr_db_delete() returns, to glyr_db_edit() if there is a list to insert.
DeleteEnds(t) ==
  /\ pc[t] = "deleting"
  /\ deleted[t] = query[t].number \/ ToVisit(t) = {}
  /\ pc' = [pc EXCEPT ![t] = IF deleted[t] # 0 /\ list[t] # << >> THEN "begin" ELSE "idle"]
  /\ left' = [left EXCEPT ![t] = {}]
  /\ UNCHANGED <<store, query, list, copies, field, deleted, made, owed, calls>>

\* The process dies, SQLite rolls back when the file is opened again.
Crash ==
  /\ calls < MaxCalls
  /\ db' = disk
  /\ inTx' = FALSE
  /\ pc' = [t \in Thread |-> "idle"]
  /\ query' = [t \in Thread |-> Absent]
  /\ list' = [t \in Thread |-> << >>]
  /\ copies' = [t \in Thread |-> 0]
  /\ field' = [t \in Thread |-> 1]
  /\ left' = [t \in Thread |-> {}]
  /\ deleted' = [t \in Thread |-> 0]
  /\ made' = [t \in Thread |-> {}]
  /\ calls' = calls + 1
  /\ UNCHANGED <<disk, owed>>

Call(t) ==
  \E q \in Query :
    \/ \E i \in Item : Insert(t, q, i)
    \/ Delete(t, q)
    \/ \E l \in EditList : Edit(t, q, l)
    \/ \E sum \in Sum, l \in {<< >>} \cup {<<i>> : i \in Item} : Replace(t, sum, q, l)

Work(t) ==
  \/ Begin(t) \/ AbortInsert(t) \/ InsertName(t) \/ InsertProvider(t)
  \/ InsertData(t) \/ Commit(t)
  \/ DeleteSelect(t) \/ DeleteRow(t) \/ DeleteEnds(t)

Next == Crash \/ \E t \in Thread : Call(t) \/ Work(t)

Spec == Init /\ [][Next]_vars

-----------------------------------------------------------------------------
Row == [names : [Field -> Name \cup {Absent}], provider : Provider \cup {Absent},
        kind : {"url", "data"}, sum : Sum, source : Source \cup {Absent}]

Table == [names : SUBSET (Field \X Name), providers : SUBSET Provider,
          rows : SUBSET Row]

Stored == [query : Query, item : Item]

TypeOK ==
  /\ db \in Table /\ disk \in Table
  /\ inTx \in BOOLEAN
  /\ pc \in [Thread -> {"idle", "begin", "names", "data", "commit", "delete", "deleting"}]
  /\ query \in [Thread -> Query \cup {Absent}]
  /\ list \in [Thread -> Seq(Item)]
  /\ copies \in [Thread -> Nat]
  /\ field \in [Thread -> 1..(Len(Fields) + 1)]
  /\ left \in [Thread -> SUBSET Row]
  /\ deleted \in [Thread -> Nat]
  /\ made \in [Thread -> SUBSET Stored]
  /\ owed \subseteq Stored
  /\ calls \in 0..MaxCalls

Resolves(d) ==
  \A r \in d.rows : /\ r.provider \in d.providers
                    /\ \A f \in Required : <<f, r.names[f]>> \in d.names

\* Every row has a provider and the required names, and they are in their side tables:
\* no interleaving of inserts on the shared connection, no aborted insert and no crash
\* leaves a row that a lookup with the right names does not find.
RowsResolve == Resolves(db) /\ Resolves(disk)

\* What a returned insert stored is there until it is deleted, and a crash does not take
\* it, although the COMMIT of another thread may have ended its transaction.
Durable ==
  \A o \in owed : Holds(db.rows, o.item) /\ Holds(disk.rows, o.item)

\* Between calls no transaction is left open: the jump to the COMMIT in glyr_db_insert()
\* and the transactions that threads share leave nothing unsaved.
NothingOpen == (\A t \in Thread : pc[t] = "idle") => ~inTx /\ db = disk

\* delete_callback() compares ids, NULLs included, to delete the row it was called for: it
\* takes no row with other names or of a provider the query does not allow.
DeleteIsNarrow ==
  [][\A t \in Thread : DeleteRow(t) =>
       \A r \in db.rows \ db'.rows : NamesMatch(query[t], r) /\ ProviderMatches(query[t], r)]_vars

\* A delete that returns less than query->number leaves nothing that it should have taken.
DeleteIsComplete ==
  [][\A t \in Thread : DeleteEnds(t) /\ deleted[t] < query[t].number
       => Matching(query[t], db.rows) = {}]_vars

\* "The cache wil be inserted to the db @db, @q is used to determine the artist, album,
\* title and type." (cache.h:151): it is found under these names.
InsertedIsFound ==
  \A o \in owed : \E r \in db.rows : /\ Content(r) = Content(o.item)
                                     /\ NamesMatch(o.query, r)
=============================================================================
