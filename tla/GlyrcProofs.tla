----------------------------- MODULE GlyrcProofs -----------------------------
(***************************************************************************)
(* Proofs about Glyrc.tla, for every command line, every list of fetchers  *)
(* and providers and SIGINT at any time: a search gives back what it       *)
(* allocated, main() keeps to the rules of glyr.h (Client.tla), and the    *)
(* providers that were wanted are asked, the best first.                   *)
(***************************************************************************)
EXTENDS Glyrc, OrderProofs, SequenceTheorems, TLAPS

\* After the functions of atexit() began.
Down == {"cleaned", "exit_cleaned", "done", "exited"}

\* The library is up from Start to AtExit.
RegistryInv ==
  /\ pc = "start" => ~is_initalized /\ lookup_table = "NULL"
  /\ pc \notin Down \cup {"start", "killed"} =>
       is_initalized /\ lookup_table = "built"
  /\ pc \in Down => ~is_initalized /\ lookup_table = "dangling"

\* Its lists hold sources, of which there is one for each position.
TablesInv ==
  /\ DOMAIN FList \subseteq DOMAIN Fetcher
  /\ SList \in Seq(DOMAIN Source)
  /\ \A f \in DOMAIN Fetcher : provider[f] \in Seq(DOMAIN Source)

Fields == DOMAIN set_query_on_defaults

IsList(s) == Len(s) \in Nat /\ DOMAIN s = 1..Len(s)

\* A GlyrQuery has all its fields, whatever was set.
QueryOK ==
  /\ query = [f \in Fields |-> query[f]]
  /\ query.info \subseteq InfoSlots
  /\ IsList(query.from)
  /\ query.number \in Int /\ query.qsratio \in Int /\ query.parallel \in Int
  /\ query.is_initalized \in BOOLEAN
  /\ query.signal_exit \in BOOLEAN

\* Each slot of info[] owns one copy, or none.
Owned ==
  strings = [slot \in InfoSlots |-> IF slot \in query.info THEN 1 ELSE 0]

\* The query lives from InitQuery on; a search leaves nothing in it.
QueryInv ==
  /\ pc \in {"start", "main"} =>
       query.info = {} /\ ~query.is_initalized /\ ~query.signal_exit
  /\ pc \in {"handler", "type", "options", "get", "engine", "found", "got",
             "concat", "close", "cache"} => query.is_initalized
  /\ pc \in {"return", "cleaned", "done"} /\ command.mode = "search" =>
       query.info = {}
  /\ pc \in {"engine", "found"} => query.q_errno # "no_init"
  /\ pc = "cache" => command.mode # "search"

\* glob_lastQuery points to a query while there is one to search with.
HandlerInv ==
  /\ pc \in {"type", "options"} /\ command.mode = "search" =>
       glob_lastQuery = "query"
  /\ pc \in {"get", "engine", "found", "got", "concat", "close"} =>
       glob_lastQuery = "query"
  /\ glob_lastQuery = "query" => query.is_initalized
  /\ glob_lastQuery = "dangling" => pc \in {"return", "cleaned", "done"}

\* Who owns the caches, and the name of the last file.
MemoryInv ==
  /\ result \in Nat
  /\ pc \in {"start", "main", "handler", "type", "options", "get"} => result = 0
  /\ pc # "killed" =>
       caches = IF pc \in {"engine", "found", "got"} THEN result
                ELSE IF pc = "concat" THEN 1 ELSE 0
  /\ write_path \in BOOLEAN
  /\ paths = IF write_path THEN 1 ELSE 0
  /\ pc \in {"done", "exited"} => write_path = FALSE

\* main() knows the only database that was opened.
DbInv ==
  /\ opened \in Nat
  /\ opened = 0 => dbs = {}
  /\ opened <= 1 => dbs \subseteq {db}
  /\ pc \in {"return", "cleaned", "done"} /\ command.mode = "search"
       /\ opened <= 1 => dbs = {}

IInv ==
  /\ command \in Command
  /\ RegistryInv /\ QueryOK /\ Owned /\ QueryInv /\ HandlerInv
  /\ MemoryInv /\ DbInv

-----------------------------------------------------------------------------
\* Options.

\* The query is as alive and as cancelled as before.
SameLife ==
  /\ query'.is_initalized = query.is_initalized
  /\ query'.signal_exit = query.signal_exit

\* And asks as before.
SameSearch ==
  \A f \in {"from", "lang_aware_only", "imagejob", "qsratio", "parallel", "number"} :
    query'[f] = query[f]

LEMMA InitFields ==
  /\ set_query_on_defaults = [f \in Fields |-> set_query_on_defaults[f]]
  /\ {"info", "number", "is_initalized", "signal_exit", "q_errno", "callback",
      "imagejob", "parallel", "type", "from", "itemctr", "db_autowrite",
      "local_db", "lang_aware_only", "qsratio"} \cup Plain \subseteq Fields
BY DEF set_query_on_defaults, Fields, Plain

\* A field of its own changes no other one.
LEMMA FieldSet ==
  ASSUME NEW q, NEW f \in Fields, NEW v, q = [g \in Fields |-> q[g]]
  PROVE  LET r == [q EXCEPT ![f] = v]
         IN  /\ r = [g \in Fields |-> r[g]]
             /\ \A g \in Fields : r[g] = IF g = f THEN v ELSE q[g]
OBVIOUS

\* Nor do two or three.
LEMMA FieldsSet ==
  ASSUME NEW q, q = [h \in Fields |-> q[h]], NEW e \in Fields, NEW u,
         NEW f \in Fields, NEW v, NEW g \in Fields, NEW w
  PROVE  /\ LET r == [q EXCEPT ![f] = v, ![g] = w]
            IN  /\ r = [h \in Fields |-> r[h]]
                /\ \A h \in Fields : r[h] = IF h = g THEN w
                                         ELSE IF h = f THEN v ELSE q[h]
         /\ LET r == [q EXCEPT ![e] = u, ![f] = v, ![g] = w]
            IN  /\ r = [h \in Fields |-> r[h]]
                /\ \A h \in Fields :
                     r[h] = IF h = g THEN w ELSE IF h = f THEN v
                            ELSE IF h = e THEN u ELSE q[h]
OBVIOUS

\* glyr_set_info() makes a copy for a slot that has none.
LEMMA InfoSet ==
  ASSUME QueryOK, Owned, NEW slot \in InfoSlots,
         NEW q, q = [g \in Fields |-> q[g]],
         \A g \in {"info", "number", "qsratio", "is_initalized", "signal_exit"} :
           q[g] = query[g],
         IsList(q.from), q.parallel \in Int, glyr_set_info(q, slot)
  PROVE  /\ QueryOK' /\ Owned'
         /\ \A g \in Fields \ {"info"} : query'[g] = q[g]
<1>1. query' = [q EXCEPT !.info = q.info \cup {slot}]
  BY DEF glyr_set_info
<1>2. strings' = [strings EXCEPT ![slot] = IF slot \in q.info THEN strings[slot]
                                           ELSE strings[slot] + 1]
  BY DEF glyr_set_info
<1>3. /\ query' = [g \in Fields |-> query'[g]]
      /\ \A g \in Fields \ {"info"} : query'[g] = q[g]
      /\ query'.info = query.info \cup {slot}
  BY <1>1, InitFields, FieldSet
<1>4. QueryOK'
  BY <1>3, InitFields DEF QueryOK
<1>5. strings' = [at_ \in InfoSlots |->
                    IF at_ \in query.info \cup {slot} THEN 1 ELSE 0]
  BY <1>2 DEF Owned, QueryOK
<1> QED
  BY <1>3, <1>4, <1>5 DEF Owned

\* An option that was given is stored: a copy of each string, once.
LEMMA OptionStores ==
  ASSUME QueryOK, Owned, NEW o,
         o.value \in Int, IsList(o.list), INT_MAX \in Nat, glyr_opt(o)
  PROVE  QueryOK' /\ Owned' /\ SameLife
<1>1. CASE o.name \in DOMAIN Slot
               /\ glyr_set_info(IF o.name = "from"
                                THEN [query EXCEPT !.from = o.list]
                                ELSE query, Slot[o.name])
  <2> DEFINE q == IF o.name = "from" THEN [query EXCEPT !.from = o.list]
                  ELSE query
             slot == Slot[o.name]
  <2>1. slot \in InfoSlots
    BY <1>1 DEF Slot, InfoSlots
  <2>2. /\ q = [g \in Fields |-> q[g]]
        /\ \A g \in Fields \ {"from"} : q[g] = query[g]
        /\ IsList(q.from) /\ q.parallel \in Int
    BY InitFields, FieldSet DEF QueryOK, Plain
  <2>3. glyr_set_info(q, slot)
    BY <1>1
  <2> HIDE DEF q, slot
  <2> QED
    BY <2>1, <2>2, <2>3, InfoSet, InitFields DEF SameLife
<1>2. CASE o.name \in Plain /\ Assign([query EXCEPT ![o.name] = Setting(o)])
  <2>1. o.name \in {"number", "qsratio", "parallel"} => Setting(o) \in Int
    BY DEF Setting, Clamp
  <2>2. o.name \in Fields \ {"info", "from", "is_initalized", "signal_exit"}
    BY <1>2, InitFields DEF Plain
  <2>3. /\ query' = [g \in Fields |-> query'[g]]
        /\ \A g \in Fields : query'[g] = IF g = o.name THEN Setting(o)
                                         ELSE query[g]
    BY <1>2, <2>2, FieldSet DEF Assign, QueryOK
  <2> QED
    BY <1>2, <2>1, <2>2, <2>3, InitFields DEF QueryOK, Owned, Assign, SameLife
<1>3. CASE o.name = "lang_aware_only"
             /\ Assign([query EXCEPT !.lang_aware_only = TRUE])
  <2>1. /\ query' = [g \in Fields |-> query'[g]]
        /\ \A g \in Fields \ {"lang_aware_only"} : query'[g] = query[g]
    BY <1>3, InitFields, FieldSet DEF Assign, QueryOK
  <2> QED
    BY <1>3, <2>1, InitFields DEF QueryOK, Owned, Assign, SameLife
<1> QED
  BY <1>1, <1>2, <1>3 DEF glyr_opt

-----------------------------------------------------------------------------
\* Every step preserves the invariant.

\* What matters here of the defaults.
LEMMA Defaults ==
  LET d == set_query_on_defaults
  IN  /\ d.info = {} /\ d.number = 1 /\ d.qsratio = 85 /\ d.parallel = 0
      /\ IsList(d.from)
      /\ d.is_initalized = TRUE /\ d.signal_exit = FALSE
BY DEF set_query_on_defaults, IsList

LEMMA Initially == Init => IInv
<1> SUFFICES ASSUME Init PROVE IInv
  OBVIOUS
<1>1. query = [set_query_on_defaults EXCEPT !.is_initalized = FALSE]
  BY DEF Init
<1>2. /\ query = [f \in Fields |-> query[f]]
      /\ \A f \in Fields : query[f] = IF f = "is_initalized" THEN FALSE
                                     ELSE set_query_on_defaults[f]
  BY <1>1, InitFields, FieldSet
<1>3. /\ query.info = {} /\ query.number = 1
      /\ query.qsratio = 85 /\ query.parallel = 0 /\ IsList(query.from)
      /\ query.is_initalized = FALSE /\ query.signal_exit = FALSE
  BY <1>2, InitFields, Defaults
<1>4. QueryOK
  <2>1. /\ query.info \subseteq InfoSlots /\ IsList(query.from)
        /\ query.number \in Int /\ query.qsratio \in Int /\ query.parallel \in Int
    BY <1>3
  <2>2. query.is_initalized \in BOOLEAN /\ query.signal_exit \in BOOLEAN
    BY <1>3
  <2> QED
    BY <1>2, <2>1, <2>2 DEF QueryOK
<1>5. Owned
  BY <1>3 DEF Init, Owned
<1>6. RegistryInv /\ QueryInv /\ HandlerInv
  BY <1>3 DEF Init, RegistryInit, RegistryInv, QueryInv, HandlerInv, Down
<1>7. MemoryInv /\ DbInv
  BY DEF Init, MemoryInv, DbInv
<1> QED
  BY <1>4, <1>5, <1>6, <1>7 DEF Init, IInv

\* Most steps leave the query alone.
LEMMA QueryKept ==
  ASSUME QueryOK, Owned, UNCHANGED optionVars
  PROVE  QueryOK' /\ Owned'
BY DEF QueryOK, Owned, optionVars

LEMMA StartStep == IInv /\ Start => IInv'
<1> SUFFICES ASSUME IInv, Start PROVE IInv'
  OBVIOUS
<1>1. QueryOK' /\ Owned'
  BY QueryKept DEF IInv, Start
<1> QED
  BY <1>1 DEF IInv, Start, glyr_init, RegistryInv, QueryInv, HandlerInv, MemoryInv,
     DbInv, Down, mainVars, dbVars, engineVars, memory, optionVars

\* What is left when the owned fields are not touched.
LEMMA OthersSet ==
  ASSUME QueryOK, Owned, UNCHANGED strings,
         query' = [f \in Fields |-> query'[f]],
         \A f \in {"info", "from", "number", "qsratio", "is_initalized"} :
           query'[f] = query[f],
         query'.parallel \in Int, query'.signal_exit \in BOOLEAN
  PROVE  QueryOK' /\ Owned' /\ query'.info = query.info
         /\ query'.is_initalized = query.is_initalized
BY DEF QueryOK, Owned

LEMMA InitQueryStores ==
  ASSUME IInv, InitQuery
  PROVE  /\ QueryOK' /\ Owned' /\ query'.info = {}
         /\ query'.is_initalized = TRUE /\ query'.signal_exit = FALSE
<1>1. /\ query' = [set_query_on_defaults EXCEPT !.verbosity = 2]
      /\ strings' = strings
  BY DEF InitQuery, Assign
<1>2. /\ query' = [f \in Fields |-> query'[f]]
      /\ \A f \in Fields \ {"verbosity"} : query'[f] = set_query_on_defaults[f]
  BY <1>1, InitFields, FieldSet DEF Plain
<1>3. /\ query'.info = {} /\ query'.number = 1
      /\ query'.qsratio = 85 /\ query'.parallel = 0 /\ IsList(query'.from)
      /\ query'.is_initalized = TRUE /\ query'.signal_exit = FALSE
  BY <1>2, InitFields, Defaults
<1>4. QueryOK'
  <2>1. /\ query'.info \subseteq InfoSlots /\ IsList(query'.from)
        /\ query'.number \in Int /\ query'.qsratio \in Int /\ query'.parallel \in Int
    BY <1>3
  <2>2. query'.is_initalized \in BOOLEAN /\ query'.signal_exit \in BOOLEAN
    BY <1>3
  <2> QED
    BY <1>2, <2>1, <2>2 DEF QueryOK
<1>5. Owned'
  BY <1>1, <1>3 DEF IInv, InitQuery, Owned, QueryInv
<1> QED
  BY <1>3, <1>4, <1>5

LEMMA InitQueryStep == IInv /\ InitQuery => IInv'
<1> SUFFICES ASSUME IInv, InitQuery PROVE IInv'
  OBVIOUS
<1>1. /\ QueryOK' /\ Owned' /\ query'.info = {}
      /\ query'.is_initalized = TRUE /\ query'.signal_exit = FALSE
  BY InitQueryStores
<1>2. RegistryInv' /\ QueryInv' /\ HandlerInv'
  BY <1>1 DEF IInv, InitQuery, RegistryInv, QueryInv, HandlerInv, Down, mainVars,
     registryVars
<1>3. MemoryInv' /\ DbInv'
  BY DEF IInv, InitQuery, MemoryInv, DbInv, mainVars, dbVars, engineVars, memory
<1> QED
  BY <1>1, <1>2, <1>3 DEF InitQuery, IInv, mainVars

LEMMA HandlerStep == IInv /\ init_cancel_handler => IInv'
<1> SUFFICES ASSUME IInv, init_cancel_handler PROVE IInv'
  OBVIOUS
<1>1. QueryOK' /\ Owned'
  BY QueryKept DEF IInv, init_cancel_handler
<1>2. RegistryInv' /\ QueryInv' /\ HandlerInv'
  BY DEF IInv, init_cancel_handler, RegistryInv, QueryInv, HandlerInv, Down,
     optionVars, registryVars
<1>3. MemoryInv' /\ DbInv'
  BY DEF IInv, init_cancel_handler, MemoryInv, DbInv, dbVars, engineVars, memory
<1> QED
  BY <1>1, <1>2, <1>3 DEF init_cancel_handler, IInv

LEMMA TypeStores ==
  ASSUME IInv, parse_type_argument
  PROVE  QueryOK' /\ Owned' /\ query'.info = query.info /\ SameLife
<1>1. PICK type : glyr_opt_type(type)
  BY DEF parse_type_argument
<1>2. /\ query' = [f \in Fields |-> query'[f]]
      /\ \A f \in Fields \ {"type"} : query'[f] = query[f]
  BY <1>1, InitFields, FieldSet DEF IInv, QueryOK, glyr_opt_type, Assign
<1> QED
  BY <1>1, <1>2, OthersSet, InitFields
  DEF IInv, QueryOK, glyr_opt_type, Assign, SameLife

LEMMA TypeStep == IInv /\ parse_type_argument => IInv'
<1> SUFFICES ASSUME IInv, parse_type_argument PROVE IInv'
  OBVIOUS
<1>1. QueryOK' /\ Owned' /\ query'.info = query.info /\ SameLife
  BY TypeStores
<1>2. pc = "type" /\ pc' \in {"close", "options"}
  BY DEF parse_type_argument
<1>3. RegistryInv' /\ QueryInv' /\ HandlerInv'
  BY <1>1, <1>2 DEF IInv, parse_type_argument, RegistryInv, QueryInv, HandlerInv,
     Down, mainVars, registryVars, SameLife
<1>4. MemoryInv' /\ DbInv'
  BY <1>2 DEF IInv, parse_type_argument, MemoryInv, DbInv, mainVars, dbVars,
     engineVars, memory
<1> QED
  BY <1>1, <1>3, <1>4 DEF parse_type_argument, IInv, mainVars

\* A command line is made of options.
LEMMA OptionType ==
  ASSUME command \in Command, NEW o \in Range(command.options)
  PROVE  o.value \in Int /\ IsList(o.list)
<1> DEFINE Option == [name : STRING, value : Int, list : From]
<1>1. command.options \in Seq(Option)
  BY CommandAssumption
<1>2. PICK i \in DOMAIN command.options : o = command.options[i]
  BY DEF Range
<1>3. \A x \in Option : x.value \in Int /\ x.list \in From
  OBVIOUS
<1> HIDE DEF Option
<1>4. o \in Option
  BY <1>1, <1>2
<1>5. o.list \in Seq([sign : Sign, text : STRING])
  BY <1>3, <1>4 DEF From
<1>6. IsList(o.list)
  BY <1>5, LenProperties DEF IsList
<1> QED
  BY <1>3, <1>4, <1>6

LEMMA OptionStep ==
  ASSUME IInv, NEW o \in Range(command.options), SetOption(o)
  PROVE  IInv'
<1>1. QueryOK' /\ Owned' /\ SameLife
  BY OptionStores, OptionType, CommandAssumption DEF IInv, SetOption
<1>2. pc = "options" /\ pc' = pc
  BY DEF SetOption, Reads, GoOn
<1>3. RegistryInv' /\ QueryInv' /\ HandlerInv'
  BY <1>1, <1>2 DEF IInv, SetOption, GoOn, RegistryInv, QueryInv, HandlerInv, Down,
     registryVars, SameLife
<1>4. MemoryInv' /\ DbInv'
  BY <1>2 DEF IInv, SetOption, GoOn, MemoryInv, DbInv, dbVars, engineVars, memory
<1> QED
  BY <1>1, <1>3, <1>4 DEF SetOption, GoOn, IInv

LEMMA CacheOptionStores ==
  ASSUME IInv, NEW o, OpenCache(o)
  PROVE  QueryOK' /\ Owned' /\ query'.info = query.info /\ SameLife
<1>1. PICK new_db : glyr_opt_lookup_db(new_db)
  BY DEF OpenCache
<1>2. PICK x : query' = [query EXCEPT !.db_autowrite = 1, !.local_db = x]
  BY <1>1 DEF glyr_opt_lookup_db, Assign
<1>3. /\ query' = [f \in Fields |-> query'[f]]
      /\ \A f \in Fields \ {"db_autowrite", "local_db"} : query'[f] = query[f]
  BY <1>2, InitFields, FieldsSet DEF IInv, QueryOK
<1> QED
  BY <1>1, <1>3, OthersSet, InitFields
  DEF IInv, QueryOK, glyr_opt_lookup_db, Assign, SameLife

LEMMA CacheOptionStep ==
  ASSUME IInv, NEW o, OpenCache(o)
  PROVE  IInv'
<1>1. QueryOK' /\ Owned' /\ query'.info = query.info /\ SameLife
  BY CacheOptionStores
<1>2. pc = "options" /\ pc' = pc
  BY DEF OpenCache, Reads, GoOn
<1>3. RegistryInv' /\ QueryInv' /\ HandlerInv'
  BY <1>1, <1>2 DEF IInv, OpenCache, GoOn, RegistryInv, QueryInv, HandlerInv, Down,
     registryVars, SameLife
<1>4. MemoryInv'
  BY <1>2 DEF IInv, OpenCache, GoOn, MemoryInv, engineVars, memory
<1>5. DbInv'
  BY <1>2 DEF IInv, OpenCache, DbInv
<1> QED
  BY <1>1, <1>3, <1>4, <1>5 DEF OpenCache, GoOn, IInv

LEMMA OtherOptionStep ==
  ASSUME IInv, NEW o, CallbackOption(o) \/ ExitOption(o)
  PROVE  IInv'
<1>1. UNCHANGED <<dbVars, engineVars, memory, optionVars, registryVars, command,
                  glob_lastQuery>>
      /\ pc = "options" /\ pc' \in {"options", "exit"}
  BY DEF CallbackOption, ExitOption, Exit, GoOn, Reads
<1>2. QueryOK' /\ Owned'
  BY <1>1, QueryKept DEF IInv
<1>3. RegistryInv' /\ QueryInv' /\ HandlerInv'
  BY <1>1 DEF IInv, RegistryInv, QueryInv, HandlerInv, Down, optionVars,
     registryVars
<1>4. MemoryInv' /\ DbInv'
  BY <1>1 DEF IInv, MemoryInv, DbInv, dbVars, engineVars, memory
<1> QED
  BY <1>1, <1>2, <1>3, <1>4 DEF IInv

LEMMA OptionsDoneStep == IInv /\ OptionsDone => IInv'
<1> SUFFICES ASSUME IInv, OptionsDone PROVE IInv'
  OBVIOUS
<1>1. QueryOK' /\ Owned'
  BY QueryKept DEF IInv, OptionsDone
<1>2. RegistryInv' /\ QueryInv' /\ HandlerInv'
  BY DEF IInv, OptionsDone, RegistryInv, QueryInv, HandlerInv, Down, optionVars,
     registryVars, mainVars
<1>3. MemoryInv' /\ DbInv'
  BY DEF IInv, OptionsDone, MemoryInv, DbInv, dbVars, engineVars, memory
<1> QED
  BY <1>1, <1>2, <1>3 DEF OptionsDone, IInv, mainVars

\* glyr_get() finds the library and the query ready.
LEMMA GetStores ==
  ASSUME IInv, TablesInv, glyr_get
  PROVE  /\ QueryOK' /\ Owned' /\ SameLife
         /\ query'.q_errno # "no_init"
<1> DEFINE q == [query EXCEPT !.callback = Live]
           found == {f \in DOMAIN FList : Fetcher[f].type = q.type}
           f == CHOOSE g \in found : TRUE
           ready == is_initalized /\ q.is_initalized
           errno == IF ~ready THEN "no_init"
                    ELSE IF found = {} THEN "unknown_get"
                    ELSE IF ~check_if_valid(f) THEN "insuff_data" ELSE "ok"
           r == [q EXCEPT !.q_errno = errno]
           s == IF errno # "ok" THEN r
                ELSE [r EXCEPT !.imagejob = ~Fetcher[f].full_data,
                               !.parallel = auto_detect_parallel(q, f)]
<1>1. /\ pc = "get"
      /\ pc' = IF errno = "ok" THEN "engine" ELSE "found"
      /\ IF ready /\ Slot.lang \notin q.info
         THEN glyr_set_info(s, Slot.lang) ELSE Assign(s)
      /\ UNCHANGED <<mainVars, dbVars, fired, asked, result, full, memory,
                     registryVars>>
  BY DEF glyr_get
<1>2. /\ \A g \in Fields \ {"callback"} : q[g] = query[g]
  BY InitFields, FieldSet DEF IInv, QueryOK
<1>3. is_initalized /\ query.is_initalized
  BY <1>1 DEF IInv, RegistryInv, QueryInv, Down
<1>4. ready
  BY <1>2, <1>3, InitFields
<1>5. errno # "no_init"
  BY <1>4
<1>6. errno = "ok" => f \in DOMAIN Fetcher
  <2>1. errno = "ok" => found # {}
    OBVIOUS
  <2>2. found \subseteq DOMAIN Fetcher
    BY DEF TablesInv
  <2> QED
    BY <2>1, <2>2
<1>7. errno = "ok" => auto_detect_parallel(q, f) \in Int
  <2> SUFFICES ASSUME f \in DOMAIN Fetcher PROVE auto_detect_parallel(q, f) \in Int
    BY <1>6
  <2> HIDE DEF f
  <2>1. q.parallel \in Int
    BY <1>2, InitFields DEF IInv, QueryOK, Plain
  <2>2. Fetcher[f].default_parallel \in Int
    <3> DEFINE MetaDataFetcher ==
                 [name : STRING, type : STRING, full_data : BOOLEAN,
                  reqs : SUBSET {"artist", "album", "title"},
                  default_parallel : Nat]
    <3>1. Fetcher \in Seq(MetaDataFetcher)
      BY RegistryAssumption
    <3>2. \A x \in MetaDataFetcher : x.default_parallel \in Nat
      OBVIOUS
    <3> HIDE DEF MetaDataFetcher
    <3> QED
      BY <3>1, <3>2
  <2>3. Len(provider[f]) \in Nat
    BY LenProperties DEF TablesInv
  <2> DEFINE div == 50 \div Clamp(q.qsratio, 1, 99)
  <2>4. q.qsratio \in Int
    BY <1>2, InitFields DEF IInv, QueryOK
  <2>5. div \in Nat
    BY <2>4 DEF Clamp
  <2> HIDE DEF q
  <2>6. div # 0 => Len(provider[f]) \div div \in Int
    <3> HIDE DEF div
    <3> QED
      BY <2>3, <2>5
  <2> QED
    BY <2>1, <2>2, <2>6 DEF auto_detect_parallel
<1>8. /\ q = [query EXCEPT !.callback = Live]
      /\ (errno = "ok" => auto_detect_parallel(q, f) \in Int)
      /\ r = [q EXCEPT !.q_errno = errno]
      /\ \/ s = r
         \/ errno = "ok" /\ s = [r EXCEPT !.imagejob = ~Fetcher[f].full_data,
                                       !.parallel = auto_detect_parallel(q, f)]
  BY <1>7
<1> HIDE DEF r, s, q, found, ready, errno, f
<1>9. /\ s = [g \in Fields |-> s[g]]
      /\ \A g \in Fields \ {"callback", "q_errno", "imagejob", "parallel"} :
           s[g] = query[g]
      /\ s.q_errno = errno /\ s.parallel \in Int
  <2>1. /\ q = [g \in Fields |-> q[g]]
        /\ \A g \in Fields \ {"callback"} : q[g] = query[g]
        /\ query.parallel \in Int
    BY <1>8, InitFields, FieldSet DEF IInv, QueryOK
  <2>2. /\ r = [g \in Fields |-> r[g]]
        /\ \A g \in Fields \ {"callback", "q_errno"} : r[g] = query[g]
        /\ r.q_errno = errno
    BY <1>8, <2>1, InitFields, FieldSet
  <2>3. CASE s = r
    BY <2>1, <2>2, <2>3, InitFields DEF Plain
  <2>4. CASE errno = "ok" /\ s = [r EXCEPT !.imagejob = ~Fetcher[f].full_data,
                                       !.parallel = auto_detect_parallel(q, f)]
    <3> DEFINE imagejob == ~Fetcher[f].full_data
               par == auto_detect_parallel(q, f)
    <3>1. s = [r EXCEPT !.imagejob = imagejob, !.parallel = par] /\ par \in Int
      BY <1>8, <2>4
    <3> HIDE DEF imagejob, par
    <3>2. "imagejob" \in Fields /\ "parallel" \in Fields
      BY InitFields DEF Plain
    <3> QED
      BY <2>2, <3>1, <3>2, InitFields, FieldsSet
  <2> QED
    BY <1>8, <2>3, <2>4
<1>10. /\ QueryOK' /\ Owned'
      /\ SameLife
      /\ query'.q_errno = errno
  <2>1. Slot.lang \in InfoSlots
    BY DEF Slot, InfoSlots
  <2>2. CASE glyr_set_info(s, Slot.lang)
    <3>1. IsList(s.from)
      BY <1>9, InitFields DEF IInv, QueryOK
    <3> QED
      BY <1>9, <2>1, <2>2, <3>1, InfoSet, InitFields DEF IInv, SameLife
  <2>3. CASE Assign(s)
    <3>1. query' = s /\ strings' = strings
      BY <2>3 DEF Assign
    <3>2. query'.signal_exit \in BOOLEAN /\ query'.parallel \in Int
      BY <3>1, <1>9, InitFields DEF IInv, QueryOK
    <3> QED
      BY <3>1, <3>2, <1>9, OthersSet, InitFields DEF IInv, SameLife
  <2> QED
    BY <1>1, <2>2, <2>3
<1> QED
  BY <1>5, <1>10

LEMMA GetStep == IInv /\ TablesInv /\ glyr_get => IInv'
<1> SUFFICES ASSUME IInv, TablesInv, glyr_get PROVE IInv'
  OBVIOUS
<1>1. QueryOK' /\ Owned' /\ SameLife /\ query'.q_errno # "no_init"
  BY GetStores
<1>2. /\ pc = "get" /\ pc' \in {"engine", "found"}
      /\ UNCHANGED <<mainVars, dbVars, fired, asked, result, full, memory,
                     registryVars>>
  BY DEF glyr_get
<1>3. RegistryInv' /\ QueryInv' /\ HandlerInv'
  BY <1>1, <1>2 DEF IInv, RegistryInv, QueryInv, HandlerInv, Down, registryVars,
     mainVars, SameLife
<1>4. MemoryInv' /\ DbInv'
  BY <1>2 DEF IInv, MemoryInv, DbInv, mainVars, dbVars, memory
<1> QED
  BY <1>1, <1>2, <1>3, <1>4 DEF IInv, mainVars

\* callback() leaves at most one name.
LEMMA OnePath ==
  ASSUME MemoryInv, NEW items, callback(items)
  PROVE  write_path' \in BOOLEAN /\ paths' = IF write_path' THEN 1 ELSE 0
<1>1. CASE items > 0 /\ output
  <2>1. write_path' = TRUE
    BY <1>1 DEF callback
  <2>2. paths' = 1
    BY <1>1 DEF callback, MemoryInv
  <2> QED
    BY <2>1, <2>2
<1>2. CASE ~(items > 0 /\ output)
  <2>1. write_path' = write_path /\ paths' = paths
    BY <1>2 DEF callback
  <2> QED
    BY <2>1 DEF MemoryInv
<1> QED
  BY <1>1, <1>2

\* A batch adds what it found to the list.
LEMMA BatchStep == IInv /\ Batch => IInv'
<1> SUFFICES ASSUME IInv, Batch PROVE IInv'
  OBVIOUS
<1>1. QueryOK' /\ Owned'
  BY QueryKept DEF IInv, Batch
<1>2. RegistryInv' /\ QueryInv' /\ HandlerInv' /\ DbInv'
  BY DEF IInv, Batch, RegistryInv, QueryInv, HandlerInv, DbInv, Down, optionVars,
     registryVars, mainVars, dbVars
<1>3. MemoryInv'
  <2>1. PICK items \in 0..Clamp(query.number - result, 0, MaxFinds) :
          /\ result' = result + items
          /\ caches' = caches + items
          /\ callback(IF query.callback THEN items ELSE 0)
    BY DEF Batch
  <2>2. Clamp(query.number - result, 0, MaxFinds) \in Int
    BY CommandAssumption DEF Clamp, IInv, QueryOK, MemoryInv
  <2>3. items \in Nat
    BY <2>2
  <2>4. pc = "engine" /\ pc' \in {"engine", "found"}
    BY DEF Batch
  <2>5. write_path' \in BOOLEAN /\ paths' = IF write_path' THEN 1 ELSE 0
    <3> DEFINE shown == IF query.callback THEN items ELSE 0
    <3>1. callback(shown)
      BY <2>1
    <3> HIDE DEF shown
    <3> QED
      BY <3>1, OnePath DEF IInv
  <2> QED
    BY <2>1, <2>3, <2>4, <2>5 DEF IInv, MemoryInv
<1> QED
  BY <1>1, <1>2, <1>3 DEF Batch, IInv, mainVars

LEMMA EngineEndsStores ==
  ASSUME IInv, EngineEnds
  PROVE  /\ QueryOK' /\ Owned' /\ query'.info = query.info /\ SameLife
         /\ query'.q_errno \in {"no_provider", query.q_errno} /\ SameSearch
<1>1. /\ query' \in {[query EXCEPT !.q_errno = "no_provider"], query}
      /\ strings' = strings
  BY DEF EngineEnds, Assign
<1>2. /\ query' = [f \in Fields |-> query'[f]]
      /\ \A f \in Fields \ {"q_errno"} : query'[f] = query[f]
      /\ query'.q_errno \in {"no_provider", query.q_errno}
  BY <1>1, InitFields, FieldSet DEF IInv, QueryOK
<1>3. query'.signal_exit \in BOOLEAN /\ query'.parallel \in Int
  BY <1>2, InitFields DEF IInv, QueryOK, Plain
<1>4. SameSearch
  BY <1>2, InitFields DEF SameSearch, Plain
<1> QED
  BY <1>1, <1>2, <1>3, <1>4, OthersSet, InitFields DEF IInv, SameLife

LEMMA EngineEndsStep == IInv /\ EngineEnds => IInv'
<1> SUFFICES ASSUME IInv, EngineEnds PROVE IInv'
  OBVIOUS
<1>1. /\ QueryOK' /\ Owned' /\ query'.info = query.info /\ SameLife
      /\ query'.q_errno \in {"no_provider", query.q_errno}
  BY EngineEndsStores
<1>2. pc = "engine" /\ pc' = "found"
  BY DEF EngineEnds
<1>3. RegistryInv' /\ QueryInv' /\ HandlerInv'
  BY <1>1, <1>2 DEF IInv, EngineEnds, RegistryInv, QueryInv, HandlerInv, Down,
     registryVars, mainVars, SameLife
<1>4. MemoryInv' /\ DbInv'
  BY <1>2 DEF IInv, EngineEnds, MemoryInv, DbInv, mainVars, dbVars, memory
<1> QED
  BY <1>1, <1>3, <1>4 DEF EngineEnds, IInv, mainVars

\* What glyr_get() leaves of the query.
LEMMA ReturnStores ==
  ASSUME IInv, Return
  PROVE  /\ QueryOK' /\ Owned' /\ query'.info = query.info
         /\ query'.is_initalized = query.is_initalized
         /\ query'.signal_exit = FALSE /\ SameSearch
         /\ query'.q_errno = IF result # 0 /\ query.signal_exit THEN "was_stopped"
                             ELSE query.q_errno
<1> DEFINE stopped == result # 0 /\ query.signal_exit
           exits == IF query.signal_exit /\ query.q_errno # "no_init" THEN FALSE
                    ELSE query.signal_exit
           errno == IF stopped THEN "was_stopped" ELSE query.q_errno
<1>1. /\ query' = [query EXCEPT !.signal_exit = exits, !.q_errno = errno,
                                !.itemctr = 0]
      /\ strings' = strings
  BY DEF Return, Assign
<1>2. exits = FALSE
  BY DEF IInv, Return, QueryInv, QueryOK
<1>6. errno = IF result # 0 /\ query.signal_exit THEN "was_stopped" ELSE query.q_errno
  OBVIOUS
<1> HIDE DEF exits, errno
<1>3. /\ query' = [f \in Fields |-> query'[f]]
      /\ \A f \in Fields \ {"signal_exit", "q_errno", "itemctr"} :
           query'[f] = query[f]
      /\ query'.signal_exit = exits /\ query'.q_errno = errno
  BY <1>1, InitFields, FieldsSet DEF IInv, QueryOK
<1>4. query'.signal_exit \in BOOLEAN /\ query'.parallel \in Int
  BY <1>2, <1>3, InitFields DEF IInv, QueryOK, Plain
<1>5. SameSearch
  BY <1>3, InitFields DEF SameSearch, Plain
<1> QED
  BY <1>1, <1>2, <1>3, <1>4, <1>5, <1>6, OthersSet, InitFields DEF IInv

LEMMA ReturnStep == IInv /\ Return => IInv'
<1> SUFFICES ASSUME IInv, Return PROVE IInv'
  OBVIOUS
<1>1. /\ QueryOK' /\ Owned' /\ query'.info = query.info
      /\ query'.is_initalized = query.is_initalized
  BY ReturnStores
<1>2. pc = "found" /\ pc' = "got"
  BY DEF Return
<1>3. RegistryInv' /\ QueryInv' /\ HandlerInv' /\ DbInv'
  BY <1>1, <1>2 DEF IInv, Return, RegistryInv, QueryInv, HandlerInv, DbInv, Down,
     registryVars, mainVars, dbVars
<1>4. MemoryInv'
  BY <1>2 DEF IInv, Return, MemoryInv
<1> QED
  BY <1>1, <1>3, <1>4 DEF Return, IInv, mainVars

\* The list is freed, or turned into one cache.
LEMMA ShowStores ==
  ASSUME IInv, Show
  PROVE  QueryOK' /\ Owned' /\ query'.info = query.info /\ SameLife /\ SameSearch
<1>1. /\ query' \in {[query EXCEPT !.callback = TRUE], query}
      /\ strings' = strings
  BY DEF Show, Assign, optionVars, glyr_opt_dlcallback
<1>2. /\ query' = [f \in Fields |-> query'[f]]
      /\ \A f \in Fields \ {"callback"} : query'[f] = query[f]
  BY <1>1, InitFields, FieldSet DEF IInv, QueryOK
<1>3. query'.signal_exit \in BOOLEAN /\ query'.parallel \in Int
  BY <1>2, InitFields DEF IInv, QueryOK, Plain
<1>4. SameSearch
  BY <1>2, InitFields DEF SameSearch, Plain
<1> QED
  BY <1>1, <1>2, <1>3, <1>4, OthersSet, InitFields DEF IInv, SameLife

LEMMA ShowStep == IInv /\ Show => IInv'
<1> SUFFICES ASSUME IInv, Show PROVE IInv'
  OBVIOUS
<1>1. QueryOK' /\ Owned' /\ query'.info = query.info /\ SameLife
  BY ShowStores
<1>2. pc = "got" /\ pc' \in {"concat", "close"}
  BY DEF Show
<1>3. RegistryInv' /\ QueryInv' /\ HandlerInv' /\ DbInv'
  BY <1>1, <1>2 DEF IInv, Show, RegistryInv, QueryInv, HandlerInv, DbInv, Down,
     registryVars, dbVars, SameLife
<1>4. MemoryInv'
  <2>1. \/ callback(1) \/ UNCHANGED <<paths, write_path>>
    BY DEF Show, memory
  <2>2. write_path' \in BOOLEAN /\ paths' = IF write_path' THEN 1 ELSE 0
    <3>1. CASE callback(1)
      BY <3>1, OnePath DEF IInv
    <3>2. CASE UNCHANGED <<paths, write_path>>
      BY <3>2 DEF IInv, MemoryInv
    <3> QED
      BY <2>1, <3>1, <3>2
  <2>3. result' = result /\ caches = result /\ result \in Nat
    BY <1>2 DEF IInv, Show, MemoryInv, engineVars
  <2>4. caches' = IF pc' = "concat" THEN 1 ELSE 0
    BY <2>3 DEF Show, concatenate_list, memory
  <2> QED
    BY <1>2, <2>2, <2>3, <2>4 DEF MemoryInv
<1> QED
  BY <1>1, <1>3, <1>4 DEF Show, IInv

LEMMA FreeConcatStep == IInv /\ FreeConcat => IInv'
<1> SUFFICES ASSUME IInv, FreeConcat PROVE IInv'
  OBVIOUS
<1>1. QueryOK' /\ Owned'
  BY QueryKept DEF IInv, FreeConcat
<1>2. RegistryInv' /\ QueryInv' /\ HandlerInv'
  BY DEF IInv, FreeConcat, RegistryInv, QueryInv, HandlerInv, Down, optionVars,
     registryVars, mainVars
<1>3. MemoryInv' /\ DbInv'
  BY DEF IInv, FreeConcat, MemoryInv, DbInv, dbVars, engineVars, mainVars
<1> QED
  BY <1>1, <1>2, <1>3 DEF FreeConcat, IInv, mainVars

\* glyr_query_destroy() frees every copy.
LEMMA CloseStep == IInv /\ Close => IInv'
<1> SUFFICES ASSUME IInv, Close PROVE IInv'
  OBVIOUS
<1>1. /\ query' = set_query_on_defaults
      /\ strings' = [slot \in InfoSlots |-> IF slot \in query.info
                                           THEN strings[slot] - 1
                                           ELSE strings[slot]]
  BY DEF IInv, Close, QueryInv, glyr_query_destroy
<1>2. query'.info = {} /\ query'.is_initalized = TRUE
  BY <1>1, Defaults
<1>3. QueryOK'
  <2>1. /\ query'.info \subseteq InfoSlots /\ IsList(query'.from)
        /\ query'.number \in Int /\ query'.qsratio \in Int /\ query'.parallel \in Int
    BY <1>1, Defaults
  <2>2. query'.is_initalized \in BOOLEAN /\ query'.signal_exit \in BOOLEAN
    BY <1>1, Defaults
  <2> QED
    BY <1>1, <2>1, <2>2, InitFields DEF QueryOK
<1>4. Owned'
  BY <1>1, <1>2 DEF IInv, Owned
<1>5. RegistryInv' /\ QueryInv' /\ HandlerInv'
  BY <1>2 DEF IInv, Close, RegistryInv, QueryInv, HandlerInv, Down, registryVars
<1>6. MemoryInv' /\ DbInv'
  BY DEF IInv, Close, MemoryInv, DbInv, engineVars, memory
<1> QED
  BY <1>3, <1>4, <1>5, <1>6 DEF Close, IInv

LEMMA CacheInterfaceStep == IInv /\ do_cache_interface => IInv'
<1> SUFFICES ASSUME IInv, do_cache_interface PROVE IInv'
  OBVIOUS
<1>1. QueryOK' /\ Owned'
  BY QueryKept DEF IInv, do_cache_interface
<1>2. /\ pc = "cache" /\ pc' = "return"
      /\ UNCHANGED <<caches, mainVars, dbVars, engineVars, optionVars, registryVars>>
  BY DEF do_cache_interface
<1>3. RegistryInv' /\ QueryInv' /\ HandlerInv' /\ DbInv'
  BY <1>2 DEF IInv, RegistryInv, QueryInv, HandlerInv, DbInv, Down, optionVars,
     registryVars, mainVars, dbVars
<1>4. write_path' \in BOOLEAN /\ paths' = IF write_path' THEN 1 ELSE 0
  <2>1. \/ \E items \in 0..MaxFinds : callback(items)
        \/ UNCHANGED <<paths, write_path>>
    BY DEF do_cache_interface
  <2>2. ASSUME NEW items \in 0..MaxFinds, callback(items)
        PROVE  write_path' \in BOOLEAN /\ paths' = IF write_path' THEN 1 ELSE 0
    BY <2>2, OnePath DEF IInv
  <2>3. CASE UNCHANGED <<paths, write_path>>
    BY <2>3 DEF IInv, MemoryInv
  <2> QED
    BY <2>1, <2>2, <2>3
<1>5. MemoryInv'
  BY <1>2, <1>4 DEF IInv, MemoryInv, engineVars
<1> QED
  BY <1>1, <1>2, <1>3, <1>5 DEF IInv, mainVars

LEMMA OtherStep == IInv /\ Other => IInv'
<1> SUFFICES ASSUME IInv, Other PROVE IInv'
  OBVIOUS
<1>1. QueryOK' /\ Owned'
  BY QueryKept DEF IInv, Other
<1>2. /\ pc = "main" /\ pc' \in {"return", "exit"}
      /\ pc' = "return" => command.mode # "search"
      /\ UNCHANGED <<command, glob_lastQuery, dbVars, engineVars, caches, paths,
                     write_path, optionVars, registryVars>>
  BY DEF Other
<1>3. RegistryInv' /\ QueryInv' /\ HandlerInv' /\ DbInv'
  BY <1>2 DEF IInv, RegistryInv, QueryInv, HandlerInv, DbInv, Down, optionVars,
     registryVars, dbVars
<1>4. MemoryInv'
  BY <1>2 DEF IInv, MemoryInv, engineVars
<1> QED
  BY <1>1, <1>2, <1>3, <1>4 DEF IInv

LEMMA AtExitStep == IInv /\ AtExit => IInv'
<1> SUFFICES ASSUME IInv, AtExit PROVE IInv'
  OBVIOUS
<1>1. QueryOK' /\ Owned'
  BY QueryKept DEF IInv, AtExit
<1>2. /\ \/ pc = "return" /\ pc' = "cleaned"
         \/ pc = "exit" /\ pc' = "exit_cleaned"
      /\ UNCHANGED <<mainVars, dbVars, engineVars, memory, optionVars>>
  BY DEF AtExit
<1>3. RegistryInv'
  BY DEF IInv, AtExit, glyr_cleanup, RegistryInv, Down
<1>4. QueryInv' /\ HandlerInv' /\ DbInv'
  BY <1>2 DEF IInv, QueryInv, HandlerInv, DbInv, optionVars, mainVars, dbVars
<1>5. MemoryInv'
  BY <1>2 DEF IInv, MemoryInv, engineVars, memory
<1> QED
  BY <1>1, <1>2, <1>3, <1>4, <1>5 DEF IInv, mainVars

LEMMA GlobalCleanupStep == IInv /\ global_cleanup => IInv'
<1> SUFFICES ASSUME IInv, global_cleanup PROVE IInv'
  OBVIOUS
<1>1. QueryOK' /\ Owned'
  BY QueryKept DEF IInv, global_cleanup
<1>2. /\ \/ pc = "cleaned" /\ pc' = "done"
         \/ pc = "exit_cleaned" /\ pc' = "exited"
      /\ UNCHANGED <<mainVars, dbVars, engineVars, caches, optionVars, registryVars>>
      /\ paths' = IF write_path THEN paths - 1 ELSE paths
      /\ write_path' = FALSE
  BY DEF global_cleanup
<1>3. RegistryInv' /\ QueryInv' /\ HandlerInv' /\ DbInv'
  BY <1>2 DEF IInv, RegistryInv, QueryInv, HandlerInv, DbInv, Down, optionVars,
     registryVars, mainVars, dbVars
<1>4. MemoryInv'
  <2>1. paths' = 0
    BY <1>2 DEF IInv, MemoryInv
  <2>2. write_path' \in BOOLEAN /\ ~write_path'
    BY <1>2
  <2> QED
    BY <1>2, <2>1, <2>2 DEF IInv, MemoryInv, engineVars
<1> QED
  BY <1>1, <1>2, <1>3, <1>4 DEF IInv, mainVars

\* glyr_signal_exit() touches nothing else.
LEMMA SignalStores ==
  ASSUME IInv, glyr_signal_exit
  PROVE  /\ QueryOK' /\ Owned' /\ query'.info = query.info
         /\ query'.is_initalized = query.is_initalized
         /\ query'.signal_exit = TRUE
         /\ query'.q_errno = query.q_errno /\ SameSearch
<1>1. /\ query' = [query EXCEPT !.signal_exit = TRUE]
      /\ strings' = strings
  BY DEF glyr_signal_exit, Assign
<1>2. /\ query' = [f \in Fields |-> query'[f]]
      /\ \A f \in Fields \ {"signal_exit"} : query'[f] = query[f]
      /\ query'.signal_exit = TRUE
  BY <1>1, InitFields, FieldSet DEF IInv, QueryOK
<1>3. query'.signal_exit \in BOOLEAN /\ query'.parallel \in Int
  BY <1>2, InitFields DEF IInv, QueryOK, Plain
<1>4. SameSearch
  BY <1>2, InitFields DEF SameSearch, Plain
<1> QED
  BY <1>1, <1>2, <1>3, <1>4, OthersSet, InitFields DEF IInv

\* SIGINT kills the process, or cancels the query that lives.
LEMMA CancelStep == IInv /\ handle_cancel => IInv'
<1> SUFFICES ASSUME IInv, handle_cancel PROVE IInv'
  OBVIOUS
<1>1. CASE glob_lastQuery = "NULL" /\ pc' = "killed" /\ UNCHANGED optionVars
  <2>1. QueryOK' /\ Owned'
    BY <1>1, QueryKept DEF IInv
  <2>2. RegistryInv' /\ QueryInv' /\ HandlerInv'
    BY <1>1 DEF IInv, handle_cancel, RegistryInv, QueryInv, HandlerInv, Down,
       optionVars, mainVars
  <2>3. MemoryInv' /\ DbInv'
    BY <1>1 DEF IInv, handle_cancel, MemoryInv, DbInv, dbVars, engineVars, memory
  <2> QED
    BY <2>1, <2>2, <2>3 DEF handle_cancel, IInv, mainVars
<1>2. CASE glob_lastQuery = "query" /\ glyr_signal_exit /\ UNCHANGED pc
  <2>1. /\ QueryOK' /\ Owned' /\ query'.info = query.info
        /\ query'.is_initalized = query.is_initalized
        /\ query'.q_errno = query.q_errno
    BY <1>2, SignalStores
  <2>2. pc \notin {"start", "main"}
    BY <1>2 DEF IInv, QueryInv, HandlerInv
  <2>3. RegistryInv' /\ QueryInv' /\ HandlerInv'
    BY <1>2, <2>1, <2>2 DEF IInv, handle_cancel, RegistryInv, QueryInv, HandlerInv,
       Down, registryVars, mainVars
  <2>4. MemoryInv' /\ DbInv'
    BY <1>2 DEF IInv, handle_cancel, MemoryInv, DbInv, mainVars, dbVars, engineVars,
       memory
  <2> QED
    BY <2>1, <2>3, <2>4 DEF handle_cancel, IInv, mainVars
<1> QED
  BY <1>1, <1>2 DEF handle_cancel

LEMMA Inductive == IInv /\ TablesInv /\ [Next]_vars => IInv'
<1> SUFFICES ASSUME IInv, TablesInv, [Next]_vars PROVE IInv'
  OBVIOUS
<1>1. CASE Start \/ InitQuery \/ init_cancel_handler \/ parse_type_argument
  BY <1>1, StartStep, InitQueryStep, HandlerStep, TypeStep
<1>2. CASE ReadOption
  <2>1. PICK o \in Range(command.options) :
          SetOption(o) \/ OpenCache(o) \/ CallbackOption(o) \/ ExitOption(o)
    BY <1>2 DEF ReadOption
  <2> QED
    BY <2>1, OptionStep, CacheOptionStep, OtherOptionStep
<1>3. CASE OptionsDone \/ glyr_get \/ Batch \/ EngineEnds \/ Return
  BY <1>3, OptionsDoneStep, GetStep, BatchStep, EngineEndsStep, ReturnStep
<1>4. CASE Show \/ FreeConcat \/ Close \/ do_cache_interface \/ Other
  BY <1>4, ShowStep, FreeConcatStep, CloseStep, CacheInterfaceStep, OtherStep
<1>5. CASE AtExit \/ global_cleanup \/ handle_cancel
  BY <1>5, AtExitStep, GlobalCleanupStep, CancelStep
<1>6. CASE UNCHANGED vars
  <2>1. QueryOK' /\ Owned'
    BY <1>6, QueryKept DEF IInv, vars
  <2>2. RegistryInv' /\ QueryInv' /\ HandlerInv'
    BY <1>6 DEF IInv, RegistryInv, QueryInv, HandlerInv, Down, vars, mainVars,
       optionVars, registryVars
  <2>3. MemoryInv' /\ DbInv'
    BY <1>6 DEF IInv, MemoryInv, DbInv, vars, mainVars, dbVars, engineVars, memory
  <2> QED
    BY <1>6, <2>1, <2>2, <2>3 DEF IInv, vars, mainVars
<1> QED
  BY <1>1, <1>2, <1>3, <1>4, <1>5, <1>6 DEF Next, Step

-----------------------------------------------------------------------------
\* The lists of the registry.

LEMMA SourceType ==
  ASSUME NEW i \in DOMAIN Source
  PROVE  Source[i].quality \in Int /\ Source[i].speed \in Int
<1> DEFINE MetaDataSource ==
             [name : STRING, key : STRING, type : STRING, quality : Int,
              speed : Int, free_url : BOOLEAN, lang_aware : BOOLEAN]
<1>1. Source \in Seq(MetaDataSource)
  BY RegistryAssumption
<1>2. \A x \in MetaDataSource : x.quality \in Int /\ x.speed \in Int
  OBVIOUS
<1> HIDE DEF MetaDataSource
<1> QED
  BY <1>1, <1>2

\* What is prepended and what was there, and nothing else.
LEMMA ListFromType ==
  ASSUME NEW meta, NEW list \in Seq(DOMAIN Source),
         NEW sources \in Seq(DOMAIN Source)
  PROVE  get_list_from_type(meta, list, sources) \in Seq(DOMAIN Source)
<1> DEFINE fits == {i \in DOMAIN sources : Of(meta, Source[sources[i]])}
           new(i) == <<Priority(Source[sources[i]]), -i>>
           old(i) == <<Priority(Source[list[i]]), i>>
           first == {new(i) : i \in fits}
           last == {old(i) : i \in DOMAIN list}
           rated == first \cup last
           n == Cardinality(rated)
<1>1. /\ DOMAIN sources = 1..Len(sources) /\ Len(sources) \in Nat
      /\ DOMAIN list = 1..Len(list) /\ Len(list) \in Nat
      /\ \A i \in DOMAIN sources : sources[i] \in DOMAIN Source
      /\ \A i \in DOMAIN list : list[i] \in DOMAIN Source
  <2> HIDE DEF fits
  <2>1. \A S : \A s \in Seq(S) : /\ DOMAIN s = 1..Len(s) /\ Len(s) \in Nat
                                 /\ \A i \in DOMAIN s : s[i] \in S
    BY LenProperties
  <2> QED
    BY <2>1
<1>2. \A i \in DOMAIN Source : Priority(Source[i]) \in Int
  BY SourceType DEF Priority
<1>3. IsFiniteSet(DOMAIN sources) /\ IsFiniteSet(DOMAIN list)
  BY <1>1, FS_Interval
<1>4. fits \subseteq DOMAIN sources /\ IsFiniteSet(fits)
  <2>1. fits \subseteq DOMAIN sources
    OBVIOUS
  <2> HIDE DEF fits
  <2> QED
    BY <2>1, <1>3, FS_Subset
<1> HIDE DEF fits
<1>5. \A x \in first : \E i \in fits : x[1] \in Int /\ x[2] = -i /\ x = <<x[1], x[2]>>
  BY <1>1, <1>2, <1>4
<1>6. \A x \in last : \E i \in DOMAIN list : x[1] \in Int /\ x[2] = i /\ x = <<x[1], x[2]>>
  BY <1>1, <1>2
<1>7. IsFiniteSet(first)
  <2> DEFINE f == [i \in fits |-> new(i)]
  <2>1. f \in Surjection(fits, first)
    BY DEF Surjection
  <2> HIDE DEF f, first
  <2> QED
    BY <1>4, <2>1, FS_Surjection
<1>8. IsFiniteSet(last)
  <2> DEFINE f == [i \in DOMAIN list |-> old(i)]
             at_ == DOMAIN list
  <2>1. f \in Surjection(at_, last)
    BY DEF Surjection
  <2>2. IsFiniteSet(at_)
    BY <1>3
  <2> HIDE DEF f, last, at_
  <2> QED
    BY <2>1, <2>2, FS_Surjection
<1>9. get_list_from_type(meta, list, sources) =
        [k \in 1..n |-> LET i == Ranked(rated)[k][2]
                        IN  IF i < 0 THEN sources[-i] ELSE list[i]]
  BY DEF get_list_from_type, fits
<1> HIDE DEF first, last
<1>10. IsFiniteSet(rated)
  BY <1>7, <1>8, FS_Union
<1>11. rated \in SUBSET (Int \X Int)
  <2>1. \A x \in first : x \in Int \X Int
    <3> SUFFICES ASSUME NEW x \in first PROVE x \in Int \X Int
      OBVIOUS
    <3>1. PICK i \in fits : x[1] \in Int /\ x[2] = -i /\ x = <<x[1], x[2]>>
      BY <1>5
    <3>2. -i \in Int
      BY <1>1, <1>4
    <3> QED
      BY <3>1, <3>2
  <2>2. \A x \in last : x \in Int \X Int
    BY <1>1, <1>6
  <2> QED
    BY <2>1, <2>2
<1>12. n \in Nat /\ Ranked(rated) \in [1..n -> rated]
  BY <1>10, <1>11, RankedFacts
<1>13. ASSUME NEW x \in rated
       PROVE  (IF x[2] < 0 THEN sources[-x[2]] ELSE list[x[2]]) \in DOMAIN Source
  <2>1. CASE x \in first
    <3>1. PICK i \in fits : x[2] = -i
      BY <1>5, <2>1
    <3>2. i \in DOMAIN sources /\ i \in Nat /\ i > 0
      BY <1>1, <1>4
    <3>3. x[2] < 0 /\ -x[2] = i
      BY <3>1, <3>2
    <3> QED
      BY <1>1, <3>2, <3>3
  <2>2. CASE x \in last
    <3>1. PICK i \in DOMAIN list : x[2] = i
      BY <1>6, <2>2
    <3>2. i \in Nat
      BY <1>1
    <3> QED
      BY <1>1, <3>1, <3>2
  <2> QED
    BY <2>1, <2>2
<1> HIDE DEF rated, n
<1> DEFINE e(k) == LET i == Ranked(rated)[k][2]
                   IN  IF i < 0 THEN sources[-i] ELSE list[i]
<1>14. \A k \in 1..n : e(k) \in DOMAIN Source
  BY <1>12, <1>13
<1>15. [k \in 1..n |-> e(k)] \in Seq(DOMAIN Source)
  <2> HIDE DEF e
  <2> QED
    BY <1>12, <1>14
<1> QED
  BY <1>9, <1>15

LEMMA TablesInitially == Init => TablesInv
<1> SUFFICES ASSUME Init PROVE TablesInv
  OBVIOUS
<1>1. FList = <<>> /\ SList = <<>> /\ provider = [f \in DOMAIN Fetcher |-> <<>>]
  BY DEF Init, RegistryInit
<1>2. <<>> \in Seq(DOMAIN Source)
  OBVIOUS
<1> QED
  BY <1>1, <1>2 DEF TablesInv

LEMMA TablesInductive == TablesInv /\ [Next]_vars => TablesInv'
<1> SUFFICES ASSUME TablesInv, [Next]_vars PROVE TablesInv'
  OBVIOUS
<1>1. CASE UNCHANGED registryVars
  BY <1>1 DEF TablesInv, registryVars
<1>2. CASE glyr_init /\ ~is_initalized
  <2> DEFINE id == [s \in DOMAIN Source |-> s]
  <2>1. /\ FList' = [f \in DOMAIN Fetcher |-> f]
        /\ SList' = Reverse(id) \o SList
        /\ provider' = [f \in DOMAIN Fetcher |->
                          get_list_from_type(Fetcher[f], provider[f], SList')]
    BY <1>2 DEF glyr_init
  <2>2. Reverse(id) \in Seq(DOMAIN Source)
    <3>1. DOMAIN Source = 1..Len(Source) /\ Len(Source) \in Nat
      BY RegistryAssumption, LenProperties
    <3>2. id \in Seq(DOMAIN Source) /\ Len(id) = Len(Source)
      BY <3>1
    <3> QED
      BY <3>1, <3>2 DEF Reverse
  <2>3. SList' \in Seq(DOMAIN Source)
    <3> HIDE DEF id
    <3> QED
      BY <2>1, <2>2, ConcatProperties DEF TablesInv
  <2>4. ASSUME NEW f \in DOMAIN Fetcher PROVE provider'[f] \in Seq(DOMAIN Source)
    BY <2>1, <2>3, ListFromType DEF TablesInv
  <2> QED
    BY <2>1, <2>3, <2>4 DEF TablesInv
<1>3. CASE glyr_cleanup /\ is_initalized
  <2>1. /\ FList' = <<>> /\ SList' = SList
        /\ provider' = [f \in DOMAIN Fetcher |-> <<>>]
    BY <1>3 DEF glyr_cleanup
  <2>2. <<>> \in Seq(DOMAIN Source)
    OBVIOUS
  <2> QED
    BY <2>1, <2>2 DEF TablesInv
<1>4. \/ UNCHANGED registryVars
      \/ glyr_init /\ ~is_initalized
      \/ glyr_cleanup /\ is_initalized
  BY DEF Next, Step, Start, InitQuery, init_cancel_handler, parse_type_argument,
     ReadOption, SetOption, OpenCache, CallbackOption, ExitOption, Exit, GoOn,
     OptionsDone, glyr_get, Batch, EngineEnds, Return, Show, FreeConcat, Close,
     do_cache_interface, Other, AtExit, global_cleanup, handle_cancel,
     glyr_init, glyr_cleanup, vars
<1> QED
  BY <1>1, <1>2, <1>3, <1>4

LEMMA InvariantKeepsNothing == IInv => NothingKept
<1> SUFFICES ASSUME IInv PROVE NothingKept
  OBVIOUS
<1>1. ASSUME pc = "done", command.mode = "search", NEW slot \in InfoSlots
      PROVE  strings[slot] = 0
  BY <1>1 DEF IInv, QueryInv, Owned
<1>2. pc = "done" => caches = 0
  BY DEF IInv, MemoryInv
<1>3. pc = "done" /\ command.mode = "search" /\ opened <= 1 => dbs = {}
  BY DEF IInv, DbInv
<1>4. pc \in {"done", "exited"} => paths = 0 /\ ~is_initalized
  BY DEF IInv, MemoryInv, RegistryInv, Down
<1> QED
  BY <1>1, <1>2, <1>3, <1>4 DEF NothingKept

\* NothingKept: whatever options were given, however often, and however the
\* search ended, a glyrc that comes back from main() has freed the copies of
\* its options, all caches, the name of the last file and its only database,
\* each once, and has taken the library down.
THEOREM SearchKeepsNothing == Spec => []NothingKept
BY Initially, TablesInitially, Inductive, TablesInductive, InvariantKeepsNothing,
   PTL DEF Spec

-----------------------------------------------------------------------------
\* What the rules of Client.tla see of glyrc.
libraryOf == IF is_initalized THEN "up"
             ELSE IF lookup_table = "NULL" THEN "down" ELSE "gone"
queryOf == IF query.is_initalized /\ glob_lastQuery # "dangling" THEN "ready"
           ELSE "raw"
listOf == IF pc \in {"engine", "found"} THEN 0 ELSE caches

LEMMA ClientInitial == Init => C!ClientInit
<1> SUFFICES ASSUME Init PROVE C!ClientInit
  OBVIOUS
<1>1. QueryInv /\ MemoryInv /\ RegistryInv
  BY Initially DEF IInv
<1> QED
  BY <1>1 DEF Init, RegistryInit, QueryInv, MemoryInv, RegistryInv, C!ClientInit

\* A step that leaves all of it alone.
LEMMA ClientStutter ==
  ASSUME UNCHANGED <<libraryOf, queryOf, listOf>>,
         query'.signal_exit = query.signal_exit
  PROVE  UNCHANGED C!clientVars
BY DEF libraryOf, queryOf, listOf, C!clientVars

LEMMA QuietStep ==
  ASSUME IInv, SameLife, UNCHANGED <<registryVars, glob_lastQuery>>, listOf' = listOf
  PROVE  UNCHANGED C!clientVars
BY ClientStutter DEF SameLife, registryVars, libraryOf, queryOf

LEMMA SameQuery == ASSUME UNCHANGED optionVars PROVE SameLife
BY DEF optionVars, SameLife

LEMMA ClientStep ==
  IInv /\ TablesInv /\ [Next]_vars => [C!ClientNext]_(C!clientVars)
<1> SUFFICES ASSUME IInv, TablesInv, [Next]_vars
             PROVE  C!ClientNext \/ UNCHANGED C!clientVars
  OBVIOUS
<1>1. CASE Start
  <2>1. C!InitLibrary
    BY <1>1 DEF IInv, Start, glyr_init, RegistryInv, C!InitLibrary, mainVars,
       memory, optionVars
  <2> QED
    BY <2>1 DEF C!ClientNext
<1>2. CASE InitQuery
  <2>1. /\ pc = "main" /\ pc' \in {"handler", "options", "type"}
        /\ query'.is_initalized = TRUE /\ query'.signal_exit = FALSE
    BY <1>2, InitQueryStores DEF InitQuery
  <2>2. query.signal_exit = FALSE
    BY <1>2 DEF IInv, InitQuery, QueryInv, QueryOK
  <2>3. C!InitQuery
    BY <1>2, <2>1, <2>2 DEF IInv, InitQuery, RegistryInv, QueryInv, HandlerInv, Down,
       C!InitQuery, mainVars, memory, registryVars
  <2> QED
    BY <2>3 DEF C!ClientNext
<1>3. CASE init_cancel_handler
  <2>1. query.is_initalized /\ glob_lastQuery # "dangling"
    BY <1>3 DEF IInv, init_cancel_handler, QueryInv, HandlerInv
  <2>2. UNCHANGED <<libraryOf, queryOf, listOf>>
    BY <1>3, <2>1 DEF init_cancel_handler, libraryOf, queryOf, listOf, memory,
       optionVars, registryVars
  <2> QED
    BY <1>3, <2>2, SameQuery, ClientStutter DEF init_cancel_handler, SameLife
<1>4. CASE parse_type_argument
  <2>1. listOf' = listOf
    BY <1>4 DEF parse_type_argument, listOf, memory
  <2> QED
    BY <1>4, <2>1, TypeStores, QuietStep DEF parse_type_argument, mainVars
<1>5. CASE ReadOption
  <2>1. PICK o \in Range(command.options) :
          SetOption(o) \/ OpenCache(o) \/ CallbackOption(o) \/ ExitOption(o)
    BY <1>5 DEF ReadOption
  <2>2. UNCHANGED <<registryVars, glob_lastQuery>> /\ listOf' = listOf
    BY <2>1 DEF SetOption, OpenCache, CallbackOption, ExitOption, Exit, GoOn, Reads,
       listOf, memory
  <2>3. SameLife
    <3>1. CASE SetOption(o)
      BY <3>1, OptionStores, OptionType, CommandAssumption DEF IInv, SetOption
    <3>2. CASE OpenCache(o)
      BY <3>2, CacheOptionStores
    <3>3. CASE CallbackOption(o) \/ ExitOption(o)
      BY <3>3, SameQuery DEF CallbackOption, ExitOption, Exit
    <3> QED
      BY <2>1, <3>1, <3>2, <3>3
  <2> QED
    BY <2>2, <2>3, QuietStep
<1>6. CASE OptionsDone \/ do_cache_interface \/ Other
  <2>1. UNCHANGED <<registryVars, glob_lastQuery, optionVars>> /\ listOf' = listOf
    BY <1>6 DEF OptionsDone, do_cache_interface, Other, listOf, memory, mainVars
  <2> QED
    BY <2>1, SameQuery, QuietStep
<1>7. CASE glyr_get
  <2>1. listOf' = listOf
    BY <1>7 DEF IInv, MemoryInv, glyr_get, listOf, memory
  <2> QED
    BY <1>7, <2>1, GetStores, QuietStep DEF glyr_get, mainVars
<1>8. CASE Batch
  <2>1. listOf' = listOf
    BY <1>8 DEF Batch, listOf
  <2> QED
    BY <1>8, <2>1, SameQuery, QuietStep DEF Batch, mainVars
<1>9. CASE EngineEnds
  <2>1. listOf' = listOf
    BY <1>9 DEF EngineEnds, listOf
  <2> QED
    BY <1>9, <2>1, EngineEndsStores, QuietStep DEF EngineEnds, mainVars
<1>10. CASE Return
  <2>1. pc = "found" /\ pc' = "got"
    BY <1>10 DEF Return
  <2>2. is_initalized /\ query.is_initalized /\ glob_lastQuery # "dangling"
    BY <2>1 DEF IInv, RegistryInv, QueryInv, HandlerInv, Down
  <2>3. caches' \in Nat /\ (query.signal_exit => caches' = 0)
    BY <1>10, <2>1 DEF IInv, MemoryInv, Return
  <2>4. query'.signal_exit = FALSE /\ query'.is_initalized
    BY <1>10, <2>2, ReturnStores
  <2>5. C!Get
    BY <1>10, <2>1, <2>2, <2>3, <2>4 DEF Return, C!Get, registryVars, mainVars
  <2> QED
    BY <2>5 DEF C!ClientNext
<1>11. CASE Show
  <2>1. /\ pc = "got" /\ pc' \in {"concat", "close"}
        /\ UNCHANGED <<registryVars, glob_lastQuery>>
    BY <1>11 DEF Show
  <2>2. is_initalized /\ caches = result /\ caches \in Nat
    BY <2>1 DEF IInv, RegistryInv, MemoryInv, Down
  <2>3. /\ result = 0 => caches' = caches
        /\ result # 0 => caches' \in {0, 1}
    BY <1>11, <2>2 DEF Show, memory, concatenate_list
  <2>4. SameLife
    BY <1>11, ShowStores
  <2>5. CASE caches' = caches
    <3>1. listOf' = listOf
      BY <2>1, <2>5 DEF listOf
    <3> QED
      BY <2>1, <2>4, <3>1, QuietStep
  <2>6. CASE caches' # caches
    <3>1. C!Free
      BY <2>1, <2>2, <2>3, <2>4, <2>6 DEF C!Free, registryVars, SameLife
    <3> QED
      BY <3>1 DEF C!ClientNext
  <2> QED
    BY <2>5, <2>6
<1>12. CASE FreeConcat
  <2>1. pc = "concat" /\ pc' = "close" /\ caches = 1 /\ caches' = 0 /\ is_initalized
    BY <1>12 DEF IInv, FreeConcat, MemoryInv, RegistryInv, Down
  <2>2. C!Free
    BY <1>12, <2>1 DEF FreeConcat, C!Free, mainVars, optionVars, registryVars
  <2> QED
    BY <2>2 DEF C!ClientNext
<1>13. CASE Close
  <2>1. /\ pc = "close" /\ pc' = "return" /\ caches = 0 /\ caches' = 0
        /\ is_initalized /\ query.is_initalized /\ glob_lastQuery # "dangling"
        /\ glob_lastQuery' = "dangling" /\ UNCHANGED registryVars
    BY <1>13 DEF IInv, Close, MemoryInv, RegistryInv, QueryInv, HandlerInv, Down,
       memory
  <2>2. query'.signal_exit = FALSE
    BY <1>13, <2>1, Defaults DEF Close, glyr_query_destroy
  <2>3. C!DestroyQuery
    BY <2>1, <2>2 DEF C!DestroyQuery, registryVars
  <2> QED
    BY <2>3 DEF C!ClientNext
<1>14. CASE AtExit
  <2>1. /\ pc \in {"return", "exit"} /\ pc' \in {"cleaned", "exit_cleaned"}
        /\ caches = 0 /\ caches' = 0 /\ is_initalized
        /\ UNCHANGED <<query, glob_lastQuery>>
    BY <1>14 DEF IInv, AtExit, MemoryInv, RegistryInv, Down, memory, mainVars,
       optionVars
  <2>2. ~is_initalized' /\ lookup_table' = "dangling"
    BY <1>14, <2>1 DEF AtExit, glyr_cleanup
  <2>3. C!Cleanup
    BY <2>1, <2>2 DEF C!Cleanup
  <2> QED
    BY <2>3 DEF C!ClientNext
<1>15. CASE global_cleanup
  <2>1. listOf' = listOf
    BY <1>15 DEF global_cleanup, listOf
  <2> QED
    BY <1>15, <2>1, SameQuery, QuietStep DEF global_cleanup, mainVars
<1>16. CASE handle_cancel
  <2>1. CASE glob_lastQuery = "NULL" /\ pc' = "killed" /\ UNCHANGED optionVars
    <3>1. listOf' = listOf
      BY <1>16, <2>1 DEF IInv, HandlerInv, handle_cancel, listOf, memory
    <3> QED
      BY <1>16, <2>1, <3>1, SameQuery, QuietStep DEF handle_cancel, mainVars
  <2>2. CASE glob_lastQuery = "query" /\ glyr_signal_exit /\ UNCHANGED pc
    <3>1. query'.signal_exit = TRUE /\ query'.is_initalized = query.is_initalized
      BY <2>2, SignalStores
    <3>2. C!Signal
      BY <1>16, <2>2, <3>1 DEF IInv, HandlerInv, handle_cancel, C!Signal, memory,
         mainVars, registryVars
    <3> QED
      BY <3>2 DEF C!ClientNext
  <2> QED
    BY <1>16, <2>1, <2>2 DEF handle_cancel
<1>17. CASE UNCHANGED vars
  BY <1>17, SameQuery, QuietStep DEF vars, mainVars, memory, listOf
<1> QED
  BY <1>1, <1>2, <1>3, <1>4, <1>5, <1>6, <1>7, <1>8, <1>9, <1>10, <1>11, <1>12,
     <1>13, <1>14, <1>15, <1>16, <1>17 DEF Next, Step

\* FollowsProtocol: every execution of glyrc is one that glyr.h allows.  The
\* library is up before and while it is used, handle_cancel() reaches only a
\* query that lives, a cancelled search brings nothing, and the caches of a
\* search are freed before the library goes.
THEOREM GlyrcFollowsProtocol == Spec => FollowsProtocol
BY Initially, TablesInitially, Inductive, TablesInductive, ClientInitial,
   ClientStep, PTL
DEF Spec, FollowsProtocol, C!ClientSpec
-----------------------------------------------------------------------------
\* What a search asks.

Asking == {"engine", "found", "got", "concat", "close"}

\* The providers that the query enables, and their ratings.
Enabled == {i \in DOMAIN Providers : provider_is_enabled(query, Providers[i])}
Ratings == [i \in DOMAIN Providers |-> calc_rating(query.qsratio, Providers[i])]

\* No element twice, and none before a better one.
Descending(s, rating) ==
  \A i, j \in 1..Len(s) : i < j => s[i] # s[j] /\ rating[s[i]] >= rating[s[j]]

\* None that is left of E is better.
Leads(s, E, rating) ==
  \A i \in 1..Len(s), x \in E \ Range(s) : rating[s[i]] >= rating[x]

\* Over all batches the best of the enabled providers were asked; what was not
\* asked, and so is all that get_queued() looks at, is no better.
AskedInv ==
  /\ asked \in Seq(Enabled)
  /\ fired = Range(asked)
  /\ Descending(asked, Ratings) /\ Leads(asked, Enabled, Ratings)

\* A search that went on to its end has enough, or has asked all, or may ask
\* nobody, or was stopped and has lost what it had.
EndInv ==
  full /\ pc \in {"found", "got"} =>
    \/ result >= query.number
    \/ ~(query.parallel > 0)
    \/ Enabled \subseteq fired
    \/ pc = "got" /\ query.q_errno = "was_stopped"

SearchInv ==
  /\ pc \in {"start", "main", "handler", "type", "options", "get"} =>
       fetcher = 0 /\ asked = <<>> /\ fired = {} /\ full = FALSE
  /\ pc = "engine" => full = FALSE /\ fetcher # 0
  /\ fetcher # 0 =>
       /\ fetcher \in DOMAIN Fetcher
       /\ pc \in Asking \/ query.info = {}
       /\ pc \in Asking => AskedInv /\ EndInv

\* The best of those that are left may follow.
LEMMA BestFollow ==
  ASSUME NEW E, NEW rating, \A x \in E : rating[x] \in Int,
         NEW s \in Seq(E), NEW t \in Seq(E \ Range(s)),
         Descending(s, rating), Leads(s, E, rating),
         Descending(t, rating), Leads(t, E \ Range(s), rating)
  PROVE  /\ s \o t \in Seq(E)
         /\ Range(s \o t) = Range(s) \cup Range(t)
         /\ Descending(s \o t, rating) /\ Leads(s \o t, E, rating)
<1> DEFINE m == Len(s)
           n == Len(t)
           st == s \o t
<1>1. /\ m \in Nat /\ n \in Nat /\ Len(st) = m + n
      /\ s \in [1..m -> E] /\ t \in [1..n -> E \ Range(s)] /\ st \in [1..m + n -> E]
      /\ st \in Seq(E)
  <2> DEFINE R == Range(s)
  <2>1. t \in Seq(E)
    <3>1. t \in Seq(E \ R) /\ E \ R \subseteq E
      OBVIOUS
    <3> HIDE DEF R
    <3> QED
      BY <3>1, SeqMonotonic
  <2>2. /\ Len(s) \in Nat /\ s \in [1..Len(s) -> E]
        /\ Len(t) \in Nat /\ t \in [1..Len(t) -> E \ R]
    <3>1. t \in Seq(E \ R)
      OBVIOUS
    <3> HIDE DEF R
    <3>2. Len(s) \in Nat /\ s \in [1..Len(s) -> E]
      BY LenProperties
    <3>3. Len(t) \in Nat /\ t \in [1..Len(t) -> E \ R]
      BY <3>1, LenProperties
    <3> QED
      BY <3>2, <3>3
  <2>3. st \in Seq(E) /\ Len(st) = m + n
    BY <2>1, ConcatProperties
  <2>4. st \in [1..m + n -> E]
    <3> HIDE DEF st, m, n
    <3> QED
      BY <2>3, LenProperties
  <2> QED
    BY <2>2, <2>3, <2>4
<1>2. \A i \in 1..m + n : st[i] = IF i <= m THEN s[i] ELSE t[i - m]
  OBVIOUS
<1>3. /\ \A i \in 1..m : i \in 1..m + n /\ st[i] = s[i]
      /\ \A i \in 1..n : m + i \in 1..m + n /\ st[m + i] = t[i]
  BY <1>1, <1>2
<1>4. \A i \in 1..m + n : \/ i \in 1..m /\ st[i] = s[i]
                          \/ i - m \in 1..n /\ i > m /\ st[i] = t[i - m]
  BY <1>1, <1>2
<1> HIDE DEF m, n, st
<1>5. Range(st) = Range(s) \cup Range(t)
  <2>1. Range(s) = {s[i] : i \in 1..m} /\ Range(t) = {t[i] : i \in 1..n}
        /\ Range(st) = {st[i] : i \in 1..m + n}
    BY <1>1 DEF Range
  <2>2. Range(st) \subseteq Range(s) \cup Range(t)
    BY <1>4, <2>1
  <2>3. Range(s) \cup Range(t) \subseteq Range(st)
    BY <1>3, <2>1
  <2> QED
    BY <2>2, <2>3
<1>6. \A i \in 1..m : s[i] \in Range(s) /\ s[i] \in E
  BY <1>1 DEF Range
<1>7. \A i \in 1..n : t[i] \in E \ Range(s)
  BY <1>1
<1>8. Descending(st, rating)
  <2> SUFFICES ASSUME NEW i \in 1..m + n, NEW j \in 1..m + n, i < j
               PROVE  st[i] # st[j] /\ rating[st[i]] >= rating[st[j]]
    BY <1>1 DEF Descending, st
  <2>1. CASE j \in 1..m /\ st[j] = s[j]
    <3>1. i \in 1..m
      BY <1>1, <2>1
    <3> QED
      BY <2>1, <3>1, <1>3 DEF Descending, m
  <2>2. CASE i \in 1..m /\ st[i] = s[i] /\ j - m \in 1..n /\ st[j] = t[j - m]
    <3>1. st[j] \in E \ Range(s)
      BY <1>7, <2>2
    <3> QED
      BY <2>2, <3>1, <1>6 DEF Leads, m
  <2>3. CASE i - m \in 1..n /\ st[i] = t[i - m] /\ j - m \in 1..n /\ st[j] = t[j - m]
    <3>1. i - m < j - m
      BY <1>1
    <3> QED
      BY <2>3, <3>1 DEF Descending, n
  <2> QED
    BY <1>4, <1>1, <2>1, <2>2, <2>3
<1>9. Leads(st, E, rating)
  <2> SUFFICES ASSUME NEW i \in 1..m + n, NEW x \in E \ Range(st)
               PROVE  rating[st[i]] >= rating[x]
    BY <1>1 DEF Leads, st
  <2>1. x \in E \ Range(s) /\ x \in (E \ Range(s)) \ Range(t)
    BY <1>5
  <2>2. CASE i \in 1..m /\ st[i] = s[i]
    BY <2>1, <2>2 DEF Leads, m
  <2>3. CASE i - m \in 1..n /\ st[i] = t[i - m]
    BY <2>1, <2>3 DEF Leads, n
  <2> QED
    BY <1>4, <2>2, <2>3
<1> QED
  BY <1>1, <1>5, <1>8, <1>9 DEF st

\* get_queued() takes the best of what is left.
LEMMA QueuedFacts ==
  ASSUME NEW q, NEW providers, NEW gone,
         DOMAIN providers \in SUBSET Int, IsFiniteSet(DOMAIN providers),
         \A i \in DOMAIN providers : calc_rating(q.qsratio, providers[i]) \in Int,
         q.parallel \in Int
  PROVE  LET queue == get_queued(q, providers, gone)
             rating == [i \in DOMAIN providers |-> calc_rating(q.qsratio, providers[i])]
             left == {i \in DOMAIN providers \ gone : provider_is_enabled(q, providers[i])}
         IN  /\ queue \in Seq(left)
             /\ Descending(queue, rating) /\ Leads(queue, left, rating)
             /\ queue = <<>> /\ q.parallel > 0 => left = {}
<1> DEFINE queue == get_queued(q, providers, gone)
           rating == [i \in DOMAIN providers |-> calc_rating(q.qsratio, providers[i])]
           left == {i \in DOMAIN providers \ gone : provider_is_enabled(q, providers[i])}
           pair(i) == <<-rating[i], i>>
           rated == {pair(i) : i \in left}
           order == Ranked(rated)
           n == Cardinality(rated)
           len == Clamp(q.parallel, 0, n)
<1>1. left \subseteq DOMAIN providers /\ IsFiniteSet(left)
  <2>1. left \subseteq DOMAIN providers
    OBVIOUS
  <2> HIDE DEF left
  <2> QED
    BY <2>1, FS_Subset
<1>2. \A i \in left : rating[i] \in Int /\ i \in Int /\ -rating[i] \in Int
  BY <1>1
<1>3. rated \in SUBSET (Int \X Int)
  BY <1>2
<1>4. IsFiniteSet(rated)
  <2> DEFINE f == [i \in left |-> pair(i)]
  <2>1. f \in Surjection(left, rated)
    BY DEF Surjection
  <2> HIDE DEF f, left, rated
  <2> QED
    BY <1>1, <2>1, FS_Surjection
<1>5. queue = [k \in 1..len |-> order[k][2]]
  <2>1. rated = {<<-calc_rating(q.qsratio, providers[i]), i>> : i \in left}
    BY <1>1
  <2> QED
    BY <2>1 DEF get_queued
<1>6. \A x \in rated : \E i \in left : x = pair(i)
  OBVIOUS
<1>7. \A i \in left : pair(i) \in rated /\ pair(i)[2] = i /\ pair(i)[1] = -rating[i]
  OBVIOUS
<1> HIDE DEF rated, left, rating, pair
<1>8. /\ n \in Nat /\ order \in [1..n -> rated]
      /\ \A k \in 1..n : Rank(order[k], rated) = k - 1
      /\ \A x \in rated : \E k \in 1..n : order[k] = x
      /\ \A x, y \in rated : Precedes(x, y) <=> Rank(x, rated) < Rank(y, rated)
  BY <1>3, <1>4, RankedFacts, RankBijective
<1> HIDE DEF order, n
<1>9. len \in 0..n /\ (q.parallel > 0 /\ len = 0 => n = 0)
  BY <1>8 DEF Clamp
<1> HIDE DEF len
<1>10. ASSUME NEW k \in 1..n
       PROVE  order[k][2] \in left /\ order[k] = pair(order[k][2])
  <2>1. PICK i \in left : order[k] = pair(i)
    BY <1>6, <1>8
  <2> QED
    BY <1>7, <2>1
<1>11. ASSUME NEW k \in 1..n, NEW l \in 1..n, k < l
       PROVE  /\ order[k][2] # order[l][2]
              /\ rating[order[k][2]] >= rating[order[l][2]]
  <2>1. Precedes(order[k], order[l]) /\ order[k] # order[l]
    BY <1>8, <1>11
  <2>2. order[k][1] <= order[l][1]
    BY <1>2, <1>7, <1>10, <2>1 DEF Precedes
  <2> QED
    BY <1>2, <1>7, <1>10, <2>1, <2>2
<1>12. queue \in Seq(left) /\ Len(queue) = len /\ \A k \in 1..len : queue[k] = order[k][2]
  BY <1>5, <1>9, <1>8, <1>10
<1> HIDE DEF queue
<1>13. Descending(queue, rating)
  <2> SUFFICES ASSUME NEW k \in 1..len, NEW l \in 1..len, k < l
               PROVE  queue[k] # queue[l] /\ rating[queue[k]] >= rating[queue[l]]
    BY <1>12 DEF Descending
  <2>1. k \in 1..n /\ l \in 1..n
    BY <1>8, <1>9
  <2> QED
    BY <2>1, <1>11, <1>12
<1>14. Leads(queue, left, rating)
  <2> SUFFICES ASSUME NEW k \in 1..len, NEW x \in left \ Range(queue)
               PROVE  rating[queue[k]] >= rating[x]
    BY <1>12 DEF Leads
  <2>1. PICK l \in 1..n : order[l] = pair(x)
    BY <1>7, <1>8
  <2>2. order[l][2] = x
    BY <1>7, <2>1
  <2>3. l \notin 1..len
    <3>1. \A j \in 1..len : queue[j] \in Range(queue)
      BY <1>12 DEF Range
    <3> QED
      BY <1>12, <2>2, <3>1
  <2>4. k < l /\ k \in 1..n
    BY <1>8, <1>9, <2>3
  <2> QED
    BY <1>11, <1>12, <2>2, <2>4
<1>15. queue = <<>> /\ q.parallel > 0 => left = {}
  <2> SUFFICES ASSUME queue = <<>>, q.parallel > 0, NEW x \in left PROVE FALSE
    OBVIOUS
  <2>1. n = 0
    BY <1>9, <1>12
  <2> QED
    BY <1>7, <1>8, <2>1
<1> QED
  BY <1>12, <1>13, <1>14, <1>15 DEF queue, left, rating
-----------------------------------------------------------------------------
LEMMA RatingType ==
  ASSUME NEW ratio \in Int, NEW i \in DOMAIN Source
  PROVE  calc_rating(ratio, Source[i]) \in Int
BY SourceType DEF calc_rating, Clamp

LEMMA ProvidersFacts ==
  ASSUME TablesInv, fetcher \in DOMAIN Fetcher
  PROVE  /\ DOMAIN Providers \in SUBSET Int /\ IsFiniteSet(DOMAIN Providers)
         /\ \A i \in DOMAIN Providers :
              /\ Providers[i] = sourceOf(i)
              /\ provider[fetcher][i] \in DOMAIN Source
<1> DEFINE list == provider[fetcher]
<1>1. list \in Seq(DOMAIN Source)
  BY DEF TablesInv
<1> HIDE DEF list
<1>2. /\ DOMAIN list = 1..Len(list) /\ Len(list) \in Nat
      /\ \A i \in DOMAIN list : list[i] \in DOMAIN Source
  BY <1>1, LenProperties
<1>3. DOMAIN list \in SUBSET Int /\ IsFiniteSet(DOMAIN list)
  BY <1>2, FS_Interval
<1>4. Providers = [i \in DOMAIN list |-> sourceOf(i)]
  BY DEF Providers, list
<1> QED
  BY <1>2, <1>3, <1>4 DEF list

LEMMA RatingsType ==
  ASSUME TablesInv, fetcher \in DOMAIN Fetcher, query.qsratio \in Int
  PROVE  \A i \in DOMAIN Providers : calc_rating(query.qsratio, Providers[i]) \in Int
BY ProvidersFacts, RatingType DEF sourceOf

\* As long as the query and the lists are the same, so is what it wants.
LEMMA SameProviders ==
  ASSUME SameSearch, UNCHANGED <<provider, fetcher>>
  PROVE  Enabled' = Enabled /\ Ratings' = Ratings
<1>1. Providers' = Providers
  BY DEF Providers, sourceOf
<1>2. /\ query'.from = query.from /\ query'.lang_aware_only = query.lang_aware_only
      /\ query'.imagejob = query.imagejob /\ query'.qsratio = query.qsratio
  BY DEF SameSearch
<1>3. Ratings' = Ratings
  BY <1>1, <1>2 DEF Ratings
<1>4. \A x : provider_is_enabled(query', x) <=> provider_is_enabled(query, x)
  BY <1>2 DEF provider_is_enabled, Foreign, AllOccured, IsNamed, IsExcluded
<1>5. Enabled' = Enabled
  BY <1>1, <1>4 DEF Enabled
<1> QED
  BY <1>3, <1>5

LEMMA AskedKept ==
  ASSUME AskedInv, SameSearch, UNCHANGED <<provider, fetcher, asked, fired>>
  PROVE  AskedInv'
BY SameProviders DEF AskedInv, Descending, Leads

LEMMA EndKept ==
  ASSUME EndInv, SameSearch, UNCHANGED <<provider, fetcher, fired, full>>,
         \/ UNCHANGED <<pc, result>> /\ query'.q_errno = query.q_errno
         \/ pc' \notin {"found", "got"}
  PROVE  EndInv'
BY SameProviders DEF EndInv, SameSearch

LEMMA SearchInitially == Init => SearchInv
BY DEF Init, SearchInv

\* A batch asks the best of what is left.
LEMMA BatchAsks ==
  ASSUME IInv, TablesInv, SearchInv, Batch
  PROVE  SearchInv'
<1> DEFINE queue == get_queued(query, Providers, fired)
           left == {i \in DOMAIN Providers \ fired : provider_is_enabled(query, Providers[i])}
<1>1. /\ pc = "engine" /\ pc' \in {"engine", "found"}
      /\ fired' = fired \cup Range(queue) /\ asked' = asked \o queue
      /\ UNCHANGED <<query, fetcher, full, provider>>
  BY DEF Batch, optionVars, registryVars
<1>2. fetcher \in DOMAIN Fetcher /\ full = FALSE /\ fetcher # 0 /\ AskedInv
  BY <1>1 DEF SearchInv, Asking
<1>3. query.qsratio \in Int /\ query.parallel \in Int
  BY DEF IInv, QueryOK
<1>4. /\ queue \in Seq(left)
      /\ Descending(queue, Ratings) /\ Leads(queue, left, Ratings)
  BY <1>2, <1>3, ProvidersFacts, RatingsType, QueuedFacts DEF Ratings
<1>5. left = Enabled \ Range(asked)
  BY <1>2 DEF Enabled, AskedInv
<1>6. \A i \in Enabled : Ratings[i] \in Int
  BY <1>2, <1>3, RatingsType DEF Enabled, Ratings
<1> HIDE DEF queue, left
<1>7. /\ asked' \in Seq(Enabled) /\ Range(asked') = Range(asked) \cup Range(queue)
      /\ Descending(asked', Ratings) /\ Leads(asked', Enabled, Ratings)
  BY <1>1, <1>2, <1>4, <1>5, <1>6, BestFollow DEF AskedInv
<1>8. Enabled' = Enabled /\ Ratings' = Ratings
  BY <1>1, SameProviders DEF SameSearch
<1>9. AskedInv'
  BY <1>1, <1>2, <1>7, <1>8 DEF AskedInv, Descending, Leads
<1> QED
  BY <1>1, <1>2, <1>9 DEF SearchInv, EndInv, Asking

\* glyr_get() starts with nothing asked.
LEMMA GetAsks ==
  ASSUME TablesInv, SearchInv, glyr_get
  PROVE  SearchInv'
<1> DEFINE q == [query EXCEPT !.callback = Live]
           found == {f \in DOMAIN FList : Fetcher[f].type = q.type}
           f == CHOOSE g \in found : TRUE
           ready == is_initalized /\ q.is_initalized
           errno == IF ~ready THEN "no_init"
                    ELSE IF found = {} THEN "unknown_get"
                    ELSE IF ~check_if_valid(f) THEN "insuff_data" ELSE "ok"
<1>1. /\ pc = "get"
      /\ pc' = IF errno = "ok" THEN "engine" ELSE "found"
      /\ fetcher' = IF errno = "ok" THEN f ELSE 0
      /\ UNCHANGED <<fired, asked, full>>
  BY DEF glyr_get
<1>2. errno = "ok" => f \in DOMAIN Fetcher
  <2>1. errno = "ok" => found # {}
    OBVIOUS
  <2>2. found \subseteq DOMAIN Fetcher
    BY DEF TablesInv
  <2> QED
    BY <2>1, <2>2
<1> HIDE DEF errno, f
<1>3. \A g \in DOMAIN Fetcher : g # 0
  BY RegistryAssumption, LenProperties
<1>4. asked = <<>> /\ fired = {} /\ full = FALSE
  BY <1>1 DEF SearchInv
<1>5. AskedInv'
  <2>1. asked' = <<>> /\ Len(asked') = 0 /\ Range(asked') = {} /\ fired' = {}
    BY <1>1, <1>4 DEF Range
  <2>2. asked' \in Seq(Enabled')
    BY <2>1
  <2> QED
    BY <2>1, <2>2 DEF AskedInv, Descending, Leads
<1>6. EndInv'
  BY <1>1, <1>4 DEF EndInv
<1> QED
  BY <1>1, <1>2, <1>3, <1>4, <1>5, <1>6 DEF SearchInv, Asking

\* What other steps need to keep: which search it is, and what it asked.
LEMMA SearchKept ==
  ASSUME SearchInv, UNCHANGED <<provider, fetcher, fired, asked, full>>,
         pc \in Asking, pc' \in Asking \ {"engine"} \/ pc' = pc,
         SameSearch, EndInv => EndInv'
  PROVE  SearchInv'
<1>1. fetcher # 0 => AskedInv' /\ EndInv'
  BY AskedKept DEF SearchInv
<1> QED
  BY <1>1 DEF SearchInv, Asking

LEMMA SearchStep == IInv /\ TablesInv /\ SearchInv /\ [Next]_vars => SearchInv'
<1> SUFFICES ASSUME IInv, TablesInv, SearchInv, [Next]_vars PROVE SearchInv'
  OBVIOUS
<1>1. CASE Start \/ InitQuery \/ init_cancel_handler \/ parse_type_argument
             \/ OptionsDone \/ ReadOption \/ Other
  <2>1. /\ pc \in {"start", "main", "handler", "type", "options"}
        /\ pc' \notin {"engine", "found", "got", "concat"}
        /\ UNCHANGED engineVars
    BY <1>1 DEF Start, InitQuery, init_cancel_handler, parse_type_argument, OptionsDone,
       ReadOption, SetOption, OpenCache, CallbackOption, ExitOption, Exit, GoOn, Reads, Other
  <2> QED
    BY <2>1 DEF SearchInv, engineVars
<1>2. CASE glyr_get
  BY <1>2, GetAsks
<1>3. CASE Batch
  BY <1>3, BatchAsks
<1>4. CASE EngineEnds
  <2>1. /\ pc = "engine" /\ pc' = "found" /\ Exhausted
        /\ UNCHANGED <<fetcher, fired, asked, result, provider>>
    BY <1>4 DEF EngineEnds, registryVars
  <2>2. SameSearch
    BY <1>4, EngineEndsStores
  <2>3. fetcher \in DOMAIN Fetcher /\ AskedInv /\ fetcher # 0
    BY <2>1 DEF SearchInv, Asking
  <2>4. query.qsratio \in Int /\ query.parallel \in Int
    BY DEF IInv, QueryOK
  <2> DEFINE queue == get_queued(query, Providers, fired)
             left == {i \in DOMAIN Providers \ fired :
                        provider_is_enabled(query, Providers[i])}
  <2>5. queue = <<>> /\ query.parallel > 0 => left = {}
    BY <2>3, <2>4, ProvidersFacts, RatingsType, QueuedFacts
  <2>6. left = {} => Enabled \subseteq fired
    BY DEF Enabled
  <2>7. result >= query.number \/ ~(query.parallel > 0) \/ Enabled \subseteq fired
    BY <2>1, <2>5, <2>6 DEF Exhausted
  <2>8. EndInv'
    BY <2>1, <2>2, <2>7, SameProviders DEF EndInv, SameSearch
  <2>9. AskedInv'
    BY <2>1, <2>2, <2>3, AskedKept
  <2> QED
    BY <2>1, <2>3, <2>8, <2>9 DEF SearchInv, Asking
<1>5. CASE Return
  <2>1. /\ pc = "found" /\ pc' = "got" /\ UNCHANGED <<fetcher, fired, asked, full, provider>>
        /\ result' = IF result # 0 /\ query.signal_exit THEN 0 ELSE result
    BY <1>5 DEF Return, registryVars
  <2>2. /\ SameSearch
        /\ query'.q_errno = IF result # 0 /\ query.signal_exit THEN "was_stopped"
                            ELSE query.q_errno
    BY <1>5, ReturnStores
  <2>3. EndInv => EndInv'
    BY <2>1, <2>2, SameProviders DEF EndInv, SameSearch
  <2> QED
    BY <2>1, <2>2, <2>3, SearchKept DEF Asking
<1>6. CASE Show
  <2>1. /\ pc = "got" /\ pc' \in {"concat", "close"}
        /\ UNCHANGED <<fetcher, fired, asked, full, provider>> /\ SameSearch
    BY <1>6, ShowStores DEF Show, engineVars, registryVars
  <2> QED
    BY <2>1, SearchKept, EndKept DEF Asking
<1>7. CASE FreeConcat
  <2>1. /\ pc = "concat" /\ pc' = "close"
        /\ UNCHANGED <<fetcher, fired, asked, full, provider, query>> /\ SameSearch
    BY <1>7 DEF FreeConcat, engineVars, registryVars, optionVars, SameSearch
  <2> QED
    BY <2>1, SearchKept, EndKept DEF Asking
<1>8. CASE Close
  <2>1. pc = "close" /\ pc' = "return" /\ UNCHANGED engineVars
    BY <1>8 DEF Close
  <2>2. query'.info = {}
    BY <1>8, <2>1, Defaults DEF Close, glyr_query_destroy, IInv, QueryInv
  <2> QED
    BY <2>1, <2>2 DEF SearchInv, engineVars, Asking
<1>9. CASE do_cache_interface \/ AtExit \/ global_cleanup
  <2>1. /\ pc \notin Asking /\ pc' \notin Asking
        /\ pc' \in {"return", "cleaned", "exit_cleaned", "done", "exited"}
        /\ UNCHANGED <<engineVars, query>>
    BY <1>9 DEF do_cache_interface, AtExit, global_cleanup, optionVars, Asking
  <2> QED
    BY <2>1 DEF SearchInv, engineVars
<1>10. CASE handle_cancel
  <2>1. UNCHANGED <<engineVars, provider>>
    BY <1>10 DEF handle_cancel, registryVars
  <2>2. CASE glob_lastQuery = "NULL" /\ pc' = "killed" /\ UNCHANGED optionVars
    <3>1. pc \notin Asking
      BY <2>2 DEF IInv, HandlerInv, Asking
    <3> QED
      BY <2>1, <2>2, <3>1 DEF SearchInv, engineVars, optionVars, Asking
  <2>3. CASE glob_lastQuery = "query" /\ glyr_signal_exit /\ UNCHANGED pc
    <3>1. /\ SameSearch /\ query'.info = query.info /\ query'.q_errno = query.q_errno
      BY <2>3, SignalStores
    <3>2. CASE pc \in Asking
      <4>1. EndInv => EndInv'
        BY <2>1, <2>3, <3>1, EndKept DEF engineVars
      <4> QED
        BY <2>1, <2>3, <3>1, <3>2, <4>1, SearchKept DEF engineVars
    <3>3. CASE pc \notin Asking
      BY <2>1, <2>3, <3>1, <3>3 DEF SearchInv, engineVars, Asking
    <3> QED
      BY <3>2, <3>3
  <2> QED
    BY <1>10, <2>2, <2>3 DEF handle_cancel
<1>11. CASE UNCHANGED vars
  <2>1. UNCHANGED <<pc, engineVars, query, provider>> /\ SameSearch
    BY <1>11 DEF vars, registryVars, optionVars, SameSearch
  <2>2. CASE pc \in Asking
    <3>1. EndInv => EndInv'
      BY <2>1, EndKept DEF engineVars
    <3> QED
      BY <2>1, <2>2, <3>1, SearchKept DEF engineVars
  <2>3. CASE pc \notin Asking
    BY <2>1, <2>3 DEF SearchInv, engineVars, Asking
  <2> QED
    BY <2>2, <2>3
<1> QED
  BY <1>1, <1>2, <1>3, <1>4, <1>5, <1>6, <1>7, <1>8, <1>9, <1>10, <1>11
  DEF Next, Step

\* Of a plain list glyr.h and provider_is_enabled() say the same.
LEMMA WantedIsEnabled ==
  ASSUME PlainList, IsList(query.from), NEW p \in Range(Source)
  PROVE  provider_is_enabled(query, p) <=> Wanted(p)
<1> DEFINE all == DOMAIN query.from
           t(i) == query.from[i]
<1>1. \A token \in Tokens : \E i \in all : token = t(i)
  BY DEF Tokens, Range
<1>2. \A i \in all : t(i) \in Tokens
  BY DEF Tokens, Range
<1>3. \A i \in all :
        /\ t(i).sign # "" => t(i).text # p.key
        /\ AllWord(t(i)) => t(i).text = "all" /\ t(i).sign # "-"
  BY <1>2 DEF PlainList
<1>4. \A i, j \in all : DocNames(t(i), p) /\ DocNames(t(j), p) => i = j
  BY DEF PlainList
<1> HIDE DEF t
<1>5. \A i \in all : Names(t(i), p) <=> DocNames(t(i), p)
  BY <1>3 DEF Names, DocNames
<1>6. AllOccured(query) <=> \E i \in all : t(i).sign # "-" /\ t(i).text = "all"
  <2>1. \A i \in all : AllWord(t(i)) <=> t(i).sign # "-" /\ t(i).text = "all"
    BY <1>3 DEF AllWord
  <2> QED
    BY <2>1 DEF AllOccured, t
<1>7. IsNamed(query, p) <=> \E i \in all : DocNames(t(i), p)
  BY <1>5 DEF IsNamed, t
<1>8. IsExcluded(query, p) <=> \E i \in all : DocNames(t(i), p) /\ t(i).sign = "-"
  <2>1. ASSUME NEW i \in all, DocNames(t(i), p)
        PROVE  \A j \in i + 1..Len(query.from) : ~DocNames(t(j), p)
    <3>1. \A j \in i + 1..Len(query.from) : j \in all /\ j # i
      BY DEF IsList
    <3> QED
      BY <1>4, <2>1, <3>1
  <2>2. \A i \in all : \A j \in i + 1..Len(query.from) : j \in all
    BY DEF IsList
  <2> QED
    BY <1>5, <2>1, <2>2 DEF IsExcluded, t
<1>9. Wanted(p) <=>
        /\ \E i \in all : t(i).sign # "-" /\ (DocNames(t(i), p) \/ t(i).text = "all")
        /\ ~\E i \in all : t(i).sign = "-" /\ DocNames(t(i), p)
        /\ ~Foreign(query, p)
  BY <1>1, <1>2 DEF Wanted, Foreign
<1> QED
  BY <1>6, <1>7, <1>8, <1>9 DEF provider_is_enabled

LEMMA SearchAsks == IInv /\ TablesInv /\ SearchInv => WantedAreAsked
<1> SUFFICES ASSUME IInv, TablesInv, SearchInv, fetcher # 0, query.info # {}, PlainList
             PROVE  /\ \A i \in 1..Len(asked) : Wanted(sourceOf(asked[i]))
                    /\ \A i, j \in 1..Len(asked) : i < j =>
                         /\ asked[i] # asked[j]
                         /\ calc_rating(query.qsratio, sourceOf(asked[i]))
                              >= calc_rating(query.qsratio, sourceOf(asked[j]))
                    /\ full /\ pc = "got" /\ result < query.number
                         /\ query.parallel > 0 /\ query.q_errno # "was_stopped" =>
                         {i \in DOMAIN Providers : Wanted(sourceOf(i))} \subseteq Range(asked)
  BY DEF WantedAreAsked
<1>1. fetcher \in DOMAIN Fetcher /\ AskedInv /\ EndInv
  BY DEF SearchInv
<1>2. \A i \in DOMAIN Providers : Providers[i] = sourceOf(i) /\ sourceOf(i) \in Range(Source)
  BY <1>1, ProvidersFacts DEF sourceOf, Range
<1>3. \A i \in DOMAIN Providers : i \in Enabled <=> Wanted(sourceOf(i))
  <2>1. IsList(query.from)
    BY DEF IInv, QueryOK
  <2> QED
    BY <1>2, <2>1, WantedIsEnabled DEF Enabled
<1>4. \A i \in 1..Len(asked) : asked[i] \in Enabled /\ asked[i] \in DOMAIN Providers
  <2>1. \A i \in 1..Len(asked) : asked[i] \in Enabled
    BY <1>1 DEF AskedInv
  <2> QED
    BY <2>1 DEF Enabled
<1>5. \A i \in DOMAIN Providers : Ratings[i] = calc_rating(query.qsratio, sourceOf(i))
  BY <1>2 DEF Ratings
<1>6. \A i, j \in 1..Len(asked) : i < j =>
        asked[i] # asked[j] /\ Ratings[asked[i]] >= Ratings[asked[j]]
  BY <1>1 DEF AskedInv, Descending
<1>7. ASSUME full, pc = "got", result < query.number, query.parallel > 0,
             query.q_errno # "was_stopped"
      PROVE  Enabled \subseteq Range(asked)
  <2>1. ~(result >= query.number)
    BY <1>7 DEF IInv, QueryOK, MemoryInv
  <2> QED
    BY <1>1, <1>7, <2>1 DEF EndInv, AskedInv
<1> QED
  BY <1>3, <1>4, <1>5, <1>6, <1>7

\* WantedAreAsked: for every registry, every command line and SIGINT at any
\* time, a search asks the providers that glyr.h says its list selects, each
\* once, the best first over all batches, and all of them when it went to its
\* end without enough.
THEOREM WantedOnesAreAsked == Spec => []WantedAreAsked
BY Initially, TablesInitially, SearchInitially, Inductive, TablesInductive, SearchStep,
   SearchAsks, PTL DEF Spec
=============================================================================
