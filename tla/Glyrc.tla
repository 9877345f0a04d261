------------------------------- MODULE Glyrc --------------------------------
(***************************************************************************)
(* glyrc (src/src/glyrc/glyrc.c), the program on top of libglyr, from the  *)
(* start of the process to its end: main() sets up the library and, by the *)
(* first argument, searches or looks into a database, after it has read    *)
(* the options; glyr_get() and start_engine() (src/lib) ask one batch of   *)
(* providers after the other; what was allocated is given back, and the    *)
(* functions of atexit() run.  SIGINT may come at any time.                *)
(*                                                                         *)
(* Memory is counted: the copies of the options (Options.tla), the caches, *)
(* the databases that are open, the path of the last file.  What the       *)
(* engine does within a batch is in Engine.tla; here a batch finds some    *)
(* items or none.                                                          *)
(***************************************************************************)
EXTENDS Registry, Options

CONSTANTS
  Command,   \* the command lines
  MaxFinds   \* bound: what one batch of providers finds

\* A command line: what is to be done, the fetcher, if it is named, and the
\* options as records [name, value, list].
ASSUME CommandAssumption ==
  /\ MaxFinds \in Nat
  /\ INT_MAX \in Nat
  /\ Command \subseteq
       [mode : {"search", "list", "select", "delete", "incomplete", "update",
                "version", "overview", "help"},
        fetcher : STRING,
        options : Seq([name : STRING, value : Int, list : From])]

VARIABLES
  pc,              \* where main(), and what it calls, is
  command,         \* argv
  at,              \* optind: the next option
  glob_lastQuery,  \* "NULL", "query", or "dangling" once main() left the block
  opened,          \* how often a database was opened
  dbs,             \* those of them that are still open
  db,              \* the one that main() knows, or 0
  as_one, output,  \* CBQueryData: as_one; whether output_path is a real path
  write_path,      \* global_write_path is set
  fetcher,         \* the position of the MetaDataFetcher in use
  fired,           \* fired[]
  asked,           \* history: the sources in the order they were asked
  result,          \* the length of the list
  full,            \* history: the search went on to its end
  caches, paths,   \* how many caches, and strings for write_path, are live
  unfreed,         \* caches that nobody frees: what update() and "select" got
  exit_code

mainVars == <<command, at, glob_lastQuery, as_one, output, exit_code>>
dbVars == <<opened, dbs, db>>
engineVars == <<fetcher, fired, asked, result, full>>
memory == <<caches, paths, write_path, unfreed>>
optionVars == <<query, strings>>
vars == <<pc, mainVars, dbVars, engineVars, memory, optionVars, registryVars>>

Init ==
  /\ RegistryInit
  /\ pc = "start"
  /\ command \in Command
  /\ at = 1
  /\ glob_lastQuery = "NULL"
  /\ opened = 0 /\ dbs = {} /\ db = 0
  /\ as_one = FALSE /\ output = TRUE
  /\ write_path = FALSE
  /\ fetcher = 0 /\ fired = {} /\ asked = <<>> /\ result = 0 /\ full = FALSE
  /\ caches = 0 /\ paths = 0 /\ unfreed = 0
  /\ exit_code = 1
  /\ query = [set_query_on_defaults EXCEPT !.is_initalized = FALSE]
  /\ strings = [slot \in InfoSlots |-> 0]

-----------------------------------------------------------------------------
\* main() until it looks at the first argument.
Start ==
  /\ pc = "start"
  /\ pc' = "main"
  /\ glyr_init
  /\ UNCHANGED <<mainVars, dbVars, engineVars, memory, optionVars>>

\* A query on the stack of main(); update() has one of its own.
InitQuery ==
  /\ pc = "main"
  /\ command.mode \in {"search", "list", "select", "delete"}
  /\ pc' = CASE command.mode = "search" -> "handler"
             [] command.mode = "list" -> "options"
             [] OTHER -> "type"
  /\ Assign([set_query_on_defaults EXCEPT !.verbosity = 2])
  /\ UNCHANGED <<mainVars, dbVars, engineVars, memory, registryVars>>

\* init_cancel_handler()
init_cancel_handler ==
  /\ pc = "handler"
  /\ pc' = "type"
  /\ glob_lastQuery' = "query"
  /\ UNCHANGED <<command, at, as_one, output, exit_code, dbVars, engineVars,
                 memory, optionVars, registryVars>>

\* Of all fetchers the first of that name.
get_type_from_string(word) ==
  LET info == get_plugin_info
      named == {f \in DOMAIN info : info[f].name = word}
  IN  IF word = "none" THEN "any"
      ELSE IF named = {} THEN "unknown" ELSE info[Min(named)].type

\* parse_type_argument(): a cache operation goes on without a type.
parse_type_argument ==
  /\ pc = "type"
  /\ LET type == get_type_from_string(command.fetcher) IN
       /\ glyr_opt_type(type)
       /\ pc' = IF type = "unknown" /\ command.mode = "search" THEN "close"
                ELSE "options"
  /\ UNCHANGED <<mainVars, dbVars, engineVars, memory, registryVars>>

-----------------------------------------------------------------------------
\* parse_commandline_general(), one option at a time.
Reads(o) ==
  /\ pc = "options"
  /\ at <= Len(command.options)
  /\ o = command.options[at]

GoOn ==
  /\ at' = at + 1
  /\ UNCHANGED <<pc, command, glob_lastQuery, exit_code, engineVars, memory,
                 registryVars>>

SetOption(o) ==
  /\ Reads(o)
  /\ glyr_opt(o)
  /\ GoOn
  /\ UNCHANGED <<as_one, output, dbVars>>

\* glyr_db_init() may fail, and then there is none.
OpenCache(o) ==
  /\ Reads(o) /\ o.name = "cache"
  /\ \E new_db \in {0, opened + 1} :
       /\ db' = new_db
       /\ opened' = opened + 1
       /\ dbs' = dbs \cup ({new_db} \ {0})
       /\ glyr_opt_lookup_db(new_db)
  /\ GoOn
  /\ UNCHANGED <<as_one, output>>

CallbackOption(o) ==
  /\ Reads(o)
  /\ \/ /\ o.name = "as-one"
        /\ as_one' = (o.value = 1)
        /\ UNCHANGED output
     \/ /\ o.name = "write" /\ o.value # 0
        /\ output' = (o.value = 1)
        /\ UNCHANGED as_one
  /\ GoOn
  /\ UNCHANGED <<dbVars, optionVars>>

\* exit()
Exit(code) ==
  /\ pc' = "exit"
  /\ exit_code' = code
  /\ UNCHANGED <<command, at, glob_lastQuery, as_one, output, dbVars,
                 engineVars, memory, optionVars, registryVars>>

\* An option that only says something; and what cannot be understood, or
\* written to.
ExitOption(o) ==
  /\ Reads(o)
  /\ \/ o.name \in {"version", "list"} /\ Exit(0)
     \/ o.name = "help" /\ Exit(1)
     \/ o.name = "cache" /\ Exit(1)
     \/ o.name \in {"?", "write"} /\ o.value = 0 /\ Exit(-1)

OptionsDone ==
  /\ pc = "options"
  /\ at > Len(command.options)
  /\ pc' = IF command.mode = "search" THEN "get" ELSE "cache"
  /\ UNCHANGED <<mainVars, dbVars, engineVars, memory, optionVars, registryVars>>

-----------------------------------------------------------------------------
TYPE_IS_IMAGE(type) == type \in {"cover", "photos", "backdrops"}

Live == as_one = FALSE \/ TYPE_IS_IMAGE(query.type)

\* check_if_valid(): artist, album and title are what was set.
check_if_valid(f) == \A field \in Fetcher[f].reqs : Slot[field] \in query.info

\* auto_detect_parallel(); all numbers are small enough for whole percents.
auto_detect_parallel(q, f) ==
  LET div == 50 \div Clamp(q.qsratio, 1, 99)
  IN  IF q.parallel > 0 THEN q.parallel
      ELSE IF Fetcher[f].default_parallel > 0 THEN Fetcher[f].default_parallel
      ELSE IF div = 0 THEN 3 ELSE Len(provider[f]) \div div

\* main() sets the callback and calls glyr_get(), which chooses the fetcher.
glyr_get ==
  /\ pc = "get"
  /\ LET q == [query EXCEPT !.callback = Live]
         found == {f \in DOMAIN FList : Fetcher[f].type = q.type}
         f == CHOOSE g \in found : TRUE
         ready == is_initalized /\ q.is_initalized
         errno == IF ~ready THEN "no_init"
                  ELSE IF found = {} THEN "unknown_get"
                  ELSE IF ~check_if_valid(f) THEN "insuff_data" ELSE "ok"
         r == [q EXCEPT !.q_errno = errno]
         s == IF errno # "ok" THEN r
              ELSE [r EXCEPT !.imagejob = ~Fetcher[f].full_data,
                             !.parallel = auto_detect_parallel(q, f)]
     IN  /\ IF ready /\ Slot.lang \notin q.info
            THEN glyr_set_info(s, Slot.lang)
            ELSE Assign(s)
         /\ pc' = IF errno = "ok" THEN "engine" ELSE "found"
         /\ fetcher' = IF errno = "ok" THEN f ELSE 0
  /\ UNCHANGED <<mainVars, dbVars, fired, asked, result, full, memory,
                 registryVars>>

sourceOf(i) == Source[provider[fetcher][i]]
Providers == [i \in DOMAIN provider[fetcher] |-> sourceOf(i)]

\* callback(), on some items: each leaves the name of the file it wrote.
callback(items) ==
  IF items > 0 /\ output
  THEN /\ write_path' = TRUE
       /\ paths' = IF write_path THEN paths ELSE paths + 1
  ELSE UNCHANGED <<write_path, paths>>

\* get_queued() and execute_query(): the callback is called for each item
\* that a batch adds to the result.
Batch ==
  /\ pc = "engine"
  /\ result < query.number
  /\ LET queue == get_queued(query, Providers, fired) IN
       /\ queue # <<>>
       /\ fired' = fired \cup Range(queue)
       /\ asked' = asked \o queue
  /\ \E items \in 0..Clamp(query.number - result, 0, MaxFinds) :
       /\ result' = result + items
       /\ caches' = caches + items
       /\ callback(IF query.callback THEN items ELSE 0)
  /\ pc' = IF query.signal_exit THEN "found" ELSE "engine"
  /\ UNCHANGED <<mainVars, dbVars, fetcher, full, unfreed, optionVars,
                 registryVars>>

\* Variant: the loop goes on until there is enough.
Enough == result >= query.number
Exhausted ==
  result >= query.number \/ get_queued(query, Providers, fired) = <<>>

\* start_engine() returns.
EngineEnds ==
  /\ pc = "engine"
  /\ Exhausted
  /\ pc' = "found"
  /\ full' = TRUE
  /\ Assign(IF asked = <<>> THEN [query EXCEPT !.q_errno = "no_provider"]
            ELSE query)
  /\ UNCHANGED <<mainVars, dbVars, fetcher, fired, asked, result, memory,
                 registryVars>>

\* glyr_get() returns: nothing, when it was stopped.
Return ==
  /\ pc = "found"
  /\ pc' = "got"
  /\ LET stopped == result # 0 /\ query.signal_exit IN
       /\ result' = IF stopped THEN 0 ELSE result
       /\ caches' = IF stopped THEN caches - result ELSE caches
       /\ Assign([query EXCEPT !.signal_exit =
                                  IF @ /\ query.q_errno # "no_init" THEN FALSE
                                  ELSE @,
                               !.q_errno = IF stopped THEN "was_stopped" ELSE @,
                               !.itemctr = 0])
  /\ UNCHANGED <<mainVars, dbVars, fetcher, fired, asked, full, paths,
                 write_path, unfreed, registryVars>>

-----------------------------------------------------------------------------
\* Variant: the list is kept.
concatenate_and_keep(list) == caches' = caches + 1
concatenate_list(list) == caches' = caches + 1 - list

\* main(): all texts in one, shown, or only freed; or an error message.
Show ==
  /\ pc = "got"
  /\ IF result = 0 THEN UNCHANGED <<exit_code, memory, optionVars>> /\ pc' = "close"
     ELSE /\ exit_code' = 0
          /\ IF as_one /\ ~TYPE_IS_IMAGE(query.type)
             THEN /\ concatenate_list(result)
                  /\ Assign(glyr_opt_dlcallback)
                  /\ callback(1)
                  /\ UNCHANGED unfreed
                  /\ pc' = "concat"
             ELSE /\ caches' = caches - result
                  /\ UNCHANGED <<optionVars, paths, write_path>>
                  /\ UNCHANGED unfreed
                  /\ pc' = "close"
  /\ UNCHANGED <<command, at, glob_lastQuery, as_one, output, dbVars, engineVars,
                 registryVars>>

\* glyr_cache_free()
FreeConcat ==
  /\ pc = "concat"
  /\ pc' = "close"
  /\ caches' = caches - 1
  /\ UNCHANGED <<mainVars, dbVars, engineVars, paths, write_path, unfreed,
                 optionVars, registryVars>>

\* glyr_db_destroy(), glyr_query_destroy(), and the end of the block.
Close ==
  /\ pc = "close"
  /\ pc' = "return"
  /\ glob_lastQuery' = "dangling"
  /\ dbs' = dbs \ {db}
  /\ glyr_query_destroy
  /\ UNCHANGED <<command, at, as_one, output, exit_code, opened, db, engineVars,
                 memory, registryVars>>

\* do_cache_interface(), whose result nobody looks at: what was selected is
\* shown, and neither it nor the database nor the query is freed.
do_cache_interface ==
  /\ pc = "cache"
  /\ pc' = "return"
  /\ \E items \in 0..MaxFinds :
       IF db # 0 /\ command.mode = "select"
       THEN unfreed' = items /\ callback(items)
       ELSE UNCHANGED <<unfreed, paths, write_path>>
  /\ UNCHANGED <<caches, mainVars, dbVars, engineVars, optionVars, registryVars>>

\* The other things main() does: update() has nothing to clean up but its
\* page, which it leaks; the rest is printed.
Other ==
  /\ pc = "main"
  /\ \/ /\ command.mode = "update"
        /\ unfreed' \in {0, 1}
        /\ pc' = "return"
        /\ UNCHANGED exit_code
     \/ /\ command.mode \in {"incomplete", "overview"}
        /\ pc' = "return"
        /\ UNCHANGED <<unfreed, exit_code>>
     \/ /\ command.mode \in {"version", "help"}
        /\ pc' = "exit"
        /\ exit_code' = IF command.mode = "help" THEN 1 ELSE 0
        /\ UNCHANGED unfreed
  /\ UNCHANGED <<command, at, glob_lastQuery, as_one, output, dbVars, engineVars,
                 caches, paths, write_path, optionVars, registryVars>>

-----------------------------------------------------------------------------
\* atexit(): first glyr_cleanup(), then global_cleanup().
AtExit ==
  /\ pc \in {"return", "exit"}
  /\ pc' = IF pc = "return" THEN "cleaned" ELSE "exit_cleaned"
  /\ glyr_cleanup
  /\ UNCHANGED <<mainVars, dbVars, engineVars, memory, optionVars>>

global_cleanup ==
  /\ pc \in {"cleaned", "exit_cleaned"}
  /\ pc' = IF pc = "cleaned" THEN "done" ELSE "exited"
  /\ paths' = IF write_path THEN paths - 1 ELSE paths
  /\ write_path' = FALSE
  /\ UNCHANGED <<mainVars, dbVars, engineVars, caches, unfreed, optionVars,
                 registryVars>>

Ended == pc \in {"done", "exited", "killed"}

\* SIGINT kills the process until handle_cancel() is there.  What it writes
\* to where the query was is no concern of anyone any more.
CancelAnyhow ==
  /\ ~Ended
  /\ glyr_signal_exit /\ UNCHANGED pc
  /\ UNCHANGED <<mainVars, dbVars, engineVars, memory, registryVars>>

handle_cancel ==
  /\ ~Ended
  /\ \/ glob_lastQuery = "NULL" /\ pc' = "killed" /\ UNCHANGED optionVars
     \/ glob_lastQuery = "query" /\ glyr_signal_exit /\ UNCHANGED pc
  /\ UNCHANGED <<mainVars, dbVars, engineVars, memory, registryVars>>

ReadOption ==
  \E o \in Range(command.options) :
    SetOption(o) \/ OpenCache(o) \/ CallbackOption(o) \/ ExitOption(o)

Step ==
  \/ Start \/ InitQuery \/ init_cancel_handler \/ parse_type_argument
  \/ ReadOption \/ OptionsDone \/ glyr_get \/ Batch \/ EngineEnds \/ Return
  \/ Show \/ FreeConcat \/ Close \/ do_cache_interface \/ Other
  \/ AtExit \/ global_cleanup

Next == Step \/ handle_cancel

\* One process that nothing holds up but the network, whose answers have a
\* timeout.
Spec == Init /\ [][Next]_vars /\ WF_vars(Step)

-----------------------------------------------------------------------------
\* A search that main() came back from has given back what it allocated, each
\* piece once: the copies of all options, however often they were given; what
\* was found, in a list or as one; the name of the last file; the database,
\* unless --cache was given twice.
NothingKept ==
  /\ pc = "done" /\ command.mode = "search" =>
       /\ \A slot \in InfoSlots : strings[slot] = 0
       /\ caches = 0
       /\ opened <= 1 => dbs = {}
  /\ pc \in {"done", "exited"} => paths = 0 /\ ~is_initalized

\* What glyr.h says of the string for glyr_opt_from(): the providers it names
\* or "all", without those that have a "-" in front.
Tokens == Range(query.from)
DocNames(token, source) == token.text \in {source.name, source.key}
Wanted(source) ==
  /\ \E token \in Tokens :
       token.sign # "-" /\ (DocNames(token, source) \/ token.text = "all")
  /\ \A token \in Tokens : ~(token.sign = "-" /\ DocNames(token, source))
  /\ query.lang_aware_only /\ ~query.imagejob =>
       source.lang_aware \/ source.name = "local"

\* Signs stand before whole names, "all" is written out and has no "-", and no
\* provider is named twice: otherwise a key is not recognised behind a sign,
\* "-all", "a" and "al" are "all", and the last token decides.
PlainList ==
  /\ \A token \in Tokens :
       /\ token.sign # "" => token.text \notin {s.key : s \in Range(Source)}
       /\ AllWord(token) => token.text = "all" /\ token.sign # "-"
  /\ \A s \in Range(Source), i, j \in DOMAIN query.from :
       DocNames(query.from[i], s) /\ DocNames(query.from[j], s) => i = j

\* A search asks the wanted providers only, none twice, and no worse one
\* before a better one; and when it goes to its end without as many items as
\* it should find, it has asked them all.
WantedAreAsked ==
  fetcher # 0 /\ query.info # {} /\ PlainList =>
    /\ \A i \in 1..Len(asked) : Wanted(sourceOf(asked[i]))
    /\ \A i, j \in 1..Len(asked) : i < j =>
         /\ asked[i] # asked[j]
         /\ calc_rating(query.qsratio, sourceOf(asked[i]))
              >= calc_rating(query.qsratio, sourceOf(asked[j]))
    /\ full /\ pc = "got" /\ result < query.number /\ query.parallel > 0
         /\ query.q_errno # "was_stopped" =>
         {i \in DOMAIN Providers : Wanted(sourceOf(i))} \subseteq Range(asked)

C == INSTANCE Client WITH
  library <- IF is_initalized THEN "up"
             ELSE IF lookup_table = "NULL" THEN "down" ELSE "gone",
  query <- IF query.is_initalized /\ glob_lastQuery # "dangling" THEN "ready"
           ELSE "raw",
  cancel <- query.signal_exit,
  list <- IF pc \in {"engine", "found"} THEN 0 ELSE caches

\* main() uses libglyr as its header demands, whenever it is interrupted: the
\* library is up before it is used, a query is cancelled only while there is
\* one, a cancelled search brings nothing, and all lists of searches are freed
\* when the library is.
FollowsProtocol == C!ClientSpec

\* Every command comes to an end.
EveryCommandEnds == <>Ended
=============================================================================
