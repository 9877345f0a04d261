# A verification development for libglyr

libglyr searches the web for music metadata (covers, lyrics, reviews, ...). A
program fills a `GlyrQuery`, calls `glyr_get()` and receives a list of
`GlyrMemCache` items. This directory holds TLA+ models of the parts of the library
in which order, ownership and counting matter, the TLC runs that check them on
small instances, and TLAPS proofs of the most important results. Paths are
relative to the root of the repository.

## 1. The system

| Component | State | Operations | Talks to |
|---|---|---|---|
| Query engine: `glyr_get()` (`lib/glyr.c`), `start_engine()`, `get_queued()`, `execute_query()`, `call_provider_callback()` (`lib/core.c`), the finalizers (`lib/intern/generic.c`) | `itemctr`, `parallel`, `signal_exit`, `q_errno` of the query; the local `fired[]`, `stop_now`, `result_list` | run a query, fire a batch of providers, accept or drop items | provider parsers, download loop, the user's callback, the database |
| Download loop: `async_download()`, `init_async_download()`, `destroy_async_download()`, `DL_buffer()` (`lib/core.c`) | a list of `cb_object`s, a curl multi handle, `running_handles`, `terminate` | start transfers, read their messages, hand pages to a callback, clean up | libcurl, the callback of its caller, the exit signal |
| Provider selection: `provider_is_enabled()`, `calc_rating()`, `get_queued()` (`lib/core.c`) | none | the wanted providers, best first | registry, `query->from` |
| Provider parsers (`lib/intern/*/`) | none | `get_url()`, `parser()`; some do nested downloads with `download_single()`, most ask `continue_search()` | query, download |
| Filters: `delete_dupes()`, `is_in_result_list()`, `kick_out_wrong_formats()`, charset conversion (`lib/core.c`) | none | remove items from a list; the format check starts threads | `itemctr` through their callers |
| Metadata database (`lib/cache.c`, `lib/cache_intern.c`) | a SQLite file with `metadata` and side tables | insert, lookup, edit, replace, delete, foreach | engine (`db_autowrite`, `db_autoread`), the `local` provider |
| Library set-up and registry (`lib/register_plugins.c`, `lib/glyr.c`, `lib/blacklist.c`) | lists of fetchers and providers, `is_initalized`, the blacklist | `glyr_init()`, `glyr_cleanup()`, registration | all of the above |
| Options (`glyr_opt_*()` in `lib/glyr.c`) | fields of `GlyrQuery` | check and set | engine |
| String library (`lib/stringlib.c`) | none | normalise, compare, split | parsers, filters |
| Command line `glyrc` (`src/glyrc/`) | its own options | one query per run | the library |

How they interact. `glyr_get()` runs in the thread of its caller. It fires
providers in batches; a batch becomes a set of addresses for `async_download()`;
for each page that arrives the loop calls back into the engine, which lets the
provider's parser make items and counts them in `itemctr`. When the batch is
over a finalizer shows the items to the user's callback, or, in an image job,
starts a second `async_download()` whose callback shows every picture at once.
The only other actor is `glyr_signal_exit()`, which any thread may call at any
time; it is read at the head of several loops and reset at the end of a call.

What is hard here:
- *ownership*: a downloaded cache belongs to the loop, then to a callback, then to
  the result; three flags (`consumed`, `was_buffered`, `cache != NULL`) say to whom;
- *one counter for everything*: parsers and offline providers raise `itemctr`, three
  different duplicate filters lower it, failures and refusals leave it alone, and
  every stage of the search stops by it;
- *many stop flags*: `*stop_download`, `terminate`, `proceed`, `*stop_me`,
  `stop_now` and the exit signal;
- *timing*: transfers that end while others are parsed, servers that never answer,
  a signal between two steps, a query object that is used again;
- *tables updated in several statements*: an insert is up to six statements on a connection that threads
  share, errors are ignored, rows are deleted while they are selected;
- *pages of others*: a parser walks over a page with `strstr()`, which knows no end of an entry;
  a missing field is found in the next one, and a walk that does not step on never ends;
- *memory by convention*: whether an address is to be freed is a flag of the provider, whether a
  string is, a slot of the query; `glyrc` leaves the rest to two functions of `atexit()`;
- *order by hand*: the answers of the database are sorted by an insertion into a linked list
  and then prepended from list to list.

What makes each component correct: the download loop frees or hands over everything
exactly once, reads every answer unless stopped, and ends; the engine returns at
most `number` items, each accepted by the callback, without duplicates, asks the
best providers first, honours stops and signals, and can be used again; the
database finds what was stored, keeps its side tables consistent, deletes what it is told to and
survives a crash; a parser takes what belongs to the entry it was asked for, once, within the limits of
the query, and comes to an end; the checks behind it keep exactly what passes; the options hold one copy of each
string; `glyrc` uses the library in the order its header demands and gives everything back.

## 2. Modules

| Module | Models |
|---|---|
| `Fetch` | the contract of a download job: addresses, answers, a stop; abstract |
| `Downloader` | `async_download()` with set-up, message loop, both callbacks and clean-up |
| `DownloaderProofs` | theorems about `Downloader` |
| `Query` | the contract of `glyr_get()` for its caller; abstract |
| `Engine` | `glyr_get()` and what it calls, down to the download contract |
| `EngineProofs` | theorems about `Engine` |
| `CacheList` | the order of the database's answers: `add_to_cache_list()` and the loops behind it |
| `CacheListProofs` | theorems about `CacheList` |
| `MetaDB` | `glyr_db_insert()`, `_delete()`, `_edit()`, `_replace()` statement by statement, on a shared connection |
| `MetaDBProofs` | theorems about `MetaDB` |
| `Parsing` | what the parsers share: pages, `strstr()`, `continue_search()` |
| `LyricsProviders`, `PictureProviders`, `InfoProviders` | the 45 registered providers with a page: the memory of their `get_url()`, their `parser()` |
| `Providers` | a provider is asked for its address, the page arrives, it is parsed |
| `Checks` | what `call_provider_callback()` does with the list behind the parser |
| `ChecksProofs` | theorems about `Checks` |
| `ParserProofs` | theorems about all parsers |
| `Ordering` | `g_list_sort()`: the rank of an element, the list by rank |
| `OrderProofs` | theorems about `Ordering` |
| `Selection` | `provider_is_enabled()`, `calc_rating()`, `get_queued()` as operators |
| `Registry` | `glyr_init()`, `glyr_cleanup()` and the lists they make |
| `Options` | a `GlyrQuery`, its options and the copies of its strings |
| `Client` | how a program has to use the library; abstract |
| `Glyrc` | `glyrc` from the start of the process to its end |
| `GlyrcProofs` | theorems about `Glyrc` |
| `MCDownloader`, `MCEngine`, `MCCacheList`, `MCMetaDB`, `MCProviders`, `MCLibrary` | small instances for TLC |

`Engine` uses downloads as `Fetch` promises them (answers in any order, each at most
once, until a stop or a signal; or a failure of the whole job), and `Downloader`
implements `Fetch`. `Query` is above both. `Checks` extends `Providers`, which extends the three modules of
parsers: one provider with one page, in detail, where `Engine` has "a parser returns any
subset of its provider's items" and `Downloader` one action. `Glyrc` extends
`Registry` and `Options`, both of which extend `Selection`, which extends `Ordering`; it implements
`Client`, and has one action for what a batch does, where `Engine` has the
detail. `MCLibrary` takes the ratings and types of the providers from `Providers`.

### Downloader

State. One thread executes the function; `pc` is where it stands
(`start`, `perform`, `read`, `done`, `failed`). `transfer` and `outcome` are what
libcurl knows of every address; `handle`, `pointer`, `consumed`, `buffered` are
the fields of its `cb_object`; `easyMem`, `cacheMem`, `itemMem` are ghosts: the
allocation state of the easy handle, of the cache made for the address, and of the items
that parsers made. `rawList` and `itemList` together are `item_list`.

Actions. `Setup` is `init_async_download()`; `Perform` is one round of
`curl_multi_perform()` and `select()`, `PerformFails` its early returns; a message is
read by `Discard`, `Parse`, `KeepPicture` or `RefusePicture`, which share
`TakeMessage`, the part every branch executes; `Destroy` leaves the loop. The network
(`TransferEnds`) ends a transfer at any time with a page, nothing, or an error, and
`SignalExit` may happen between any two steps.

Abstractions. The lists are sets (the code only prepends and iterates). A page
is the set of items its parser can make; which of them it makes, and how many are
beyond `query->number`, is left open. `Receiver` chooses one of the two callbacks.
Blacklisted addresses get no object. Connection limits are libcurl's business.

### Engine

State. `pc` is the stage of the call: `select` (head of the loop in `start_engine()`),
`offline` and `pages` (in `execute_query()`), `text` or `pictures` (in a
finalizer), `commit` (the end of `execute_query()`), `answer` and `reset` (the end of
`glyr_get()`). The variables keep the names of the code where it has names.
`accepted` and `asked` are history: what the callback took and whether it asked to stop.

Actions. `Start` and `Reject` enter `glyr_get()`; `Fire` picks a batch as
`get_queued()` does; `AskOffline`, `OfferOffline`, `OfflineEnds` are the loop over
offline providers; `PageArrives`, `PageFails`, `PagesEnd`, `PagesFail` the page
download with `call_provider_callback()` and the duplicate filter behind it; `DropText`,
`OfferText` and `DropPicture`, `OfferPicture`, `PictureFails` the two finalizers;
`Commit`, `Answer`, `Reset` the way back. `SignalExit` may happen at any time.

Abstractions. Items are atoms with a checksum (`PageSum`, and `PictureSum` once
the address was replaced by its picture). A parser returns any subset of what its provider knows,
without equal items (`delete_dupes()` was called on it). The order in which a list
is walked is left open. `provider_is_enabled()` and `get_url()` are constants
(`Enabled`, `Silent`, `Offline`). The format filter and the database filter can only make
parsed sets smaller and are part of "any subset".

### CacheList

State. `list` is the list being built or passed on, `stage` who holds it (the lookup, the local
provider, `execute_query()`, the answer). History: `found` is what the lookup returned, `timely` tells whether all rows came in
the order of their insertion.

Actions. `SelectRow` is `select_callback()` for one row; `LookupEnds`, `ProviderConverts`, `OfflineAccepts` and
`Commit` are the ways of the list, each of the last three a loop that prepends. `Added` is `add_to_cache_list()`: the
first loop finds `FirstNotBetter`, the second walks on to `Place`, as far as the code walks. Rows
come in any order, as SQL does without ORDER BY; in the order of their insertion (`timely`) if SQLite scans the table
and the clock never went back. Caches without data are left out.

### MetaDB

State. `db` is what statements on the connection see (the side tables of names and providers, and `metadata`), `disk`
what a crash leaves, `inTx` whether the connection is in a transaction. For every thread `pc` is the next
statement, and `query`, `list`, `copies`, `field`, `left`, `deleted` are the arguments and local state of its call.
`made` and `owed` are history: what inserts stored and no delete took, before and after they returned.

Actions. One per statement: `Begin`, `InsertName`, `InsertProvider`, `InsertData`, `Commit` (with `AbortInsert` for
the jump to it) are `glyr_db_insert()`; `DeleteSelect`, `DeleteRow`, `DeleteEnds` are `glyr_db_delete()` and
its callback; `Edit` and `Replace` lead into them. A `Statement` outside of a transaction commits itself. `BEGIN` and
`COMMIT` belong to the connection: a `BEGIN` within the transaction of another thread fails,
the `COMMIT` that follows ends that transaction, and neither error is seen. `Crash` may come at any time.

SQLite is used as its documentation says: a `sqlite3_exec()` holds the mutex of the connection
(SQLITE_OPEN_FULLMUTEX) until it is through, a delete with its callbacks included; an unfinished transaction is
rolled back; with `OtherProcess` a statement outside of a transaction, a `BEGIN` or a `COMMIT` may find the file busy.

Abstractions. One getter type. A row holds names instead of ids, and rows that differ only in rating and time are
one row (`CacheList` has these). Names are equal or not, which is what the lower case of ASCII on both
sides gives. A SELECT does not return rows that were deleted while it runs. Lookup and foreach only read: lookup
is `Matching`, without a step of its own.

### Parsing, the providers and Checks

State. `page` is a sequence of tokens: a literal that some parser looks for, the value that follows it and the
entry of the page it belongs to. `at` is where the parser stands, `tries` the counter of those that count
pages they followed, `list` what it found: for each item the position of the token it was copied from. `url`
is the memory of the address. After the parser `raw` is the list, as the set of positions still on it, `data`
the memory of each item, `thread` the threads of the format check, `parsed` what is returned and `stop` whether other
downloads are to end. `refused` is history.

Actions. `Ask` is `get_url()` and what `execute_query()` makes of it; `Arrive` the page, or the end of the
download without one; `<provider>_parse` one turn of the parser's loop (or all of
a parser without a loop), named as in the code. `Take`, `delete_dupes`, `delete_already_cached_items`, `StartThreads`,
`ThreadEnds`, `Join`, `delete_wrong_formats`, `CheckText`, `Keep`, `Hand` are `call_provider_callback()`. `SignalExit`
may come at any time.

Abstractions. A name on a page is the asked one or another (what `levenshtein_strnormcmp()` would say of it), a size
fits or not, an address is good or empty. A page that a parser downloads on the way is the value of its address; it may
always fail to arrive. `Find` is `strstr()` on the rest of the page, across the ends of entries, as in C.
A read through a pointer to nowhere ends in `"lost"`, after which anything may happen and nothing is claimed. Sums of items, what the database
knows, formats and encodings are chosen freely.

### Selection, Registry, Options and Glyrc

State. The variables of `main()`, `CBQueryData`, the library and the query have the names of the code.
`strings[slot]` counts the copies made for a slot of `info[]` that are not freed; `caches`, `paths`, `dbs` and `unfreed` count
other memory. `asked` and `full` are history.

Actions. One per function, or per branch of `main()` that lies between two calls of the
library: `Start`, `InitQuery`, `init_cancel_handler`, `parse_type_argument`, one of `SetOption`, `OpenCache`,
`CallbackOption`, `ExitOption` for each option, `glyr_get`, a `Batch` for each turn of `start_engine()`, `Return`,
`Show`, `Close`, `AtExit`, `global_cleanup`; `do_cache_interface` and `Other` for the other modes. `handle_cancel` is SIGINT at any
time: it kills a process that has no query yet, and afterwards sets `signal_exit`.

Abstractions. Of strings only the copies count, except for the token list of `glyr_opt_from()`, which is modelled token by token with its
signs, prefixes of "all" and keys. The quality ratio is in percent. `G_MAXINT` is a
constant; only its square, which wraps round to 1 in 32 bits, is computed.

## 3. Runs

Bounds. `Downloader`: three or four addresses, so that one can be read while another is
finished and a third is active; one blacklisted, one marked; a page with two items, so that
a parser can keep one and free one. The signal is a single bit in the code, so one is
enough. `Engine`: four providers in batches of two (or of one) give two to four batches; three of them have
items, equal in pairs within a batch and across batches; one has no address, one
can be offline; `Number` is 2 or 3, less than the five items there are. `MaxCalls` is 2 where reuse of the
query matters: a second call starts from what the first left behind. `CacheList`: three ratings, three times,
lists of up to four rows: the walk needs a group of equal ratings, an element to pass in it, and another
group behind. `MetaDB`: two threads, because what matters is one BEGIN within the transaction of
another; four calls or crashes, because storing twice, deleting and crashing is four; queries with and without
an artist, with and without the optional album, that allow a provider or not; caches with and without
a provider or a source, addresses and data. `db_images` has one thread and three calls, since any statement may fail.
`MCProviders`: for each provider all pages of up to two entries, each field right, wrong, or missing, since what can go
wrong at the border of two entries needs two; lyrix, which gives up after six, has a page of seven. Five queries, each as
a text and a picture job: one item; a database and forced UTF-8 with one item already there; `plugmax`; a job with room for one and
four wanted; a database that is not read and limits on sizes. `MCLibrary`: every fetcher and provider of the library with its ratings, 32
command lines that together take every branch, among them repeated options, lists of providers with signs, keys and
"all", ratios beyond their limits, an unlimited number, no providers, a missing artist; a batch finds up to
`MaxFinds` = 2 items. `G_MAXINT` and `INT_MAX` are 100000, more than any sum of ratings or items. All constants
that bound a run are in the `.cfg` or the MC module; `MaxCalls` and `MaxFinds` are the only bounds in actions.

| Run | Question | Result |
|---|---|---|
| `download_pages` | page downloads, a fair network: ownership, completeness, contract, termination | holds |
| `download_images` | picture downloads, a network that may never answer: ownership, no leak of what was finished but not read; a signal ends it | holds |
| `download_stalls` | does a picture download of one address end? | no: its timeout is 0 |
| `engine_text` | two calls of a text query, all answers of the callback, signals | holds |
| `engine_pictures` | an image query, one provider per batch, one offline | holds |
| `engine_stop` | is nothing accepted after the callback's stop? | no, in an image job |
| `list_order` | is a lookup sorted if rows come in the order of insertion, or if nothing is rated? what becomes of it in `glyr_get()`? | it is; it is turned round |
| `db_threads` | two threads on one connection, crashes: side tables, durability, transactions, deletes | holds |
| `db_images` | addresses and pictures, and statements that fail because the file is busy: deletes | holds |
| `provider_pages` | what do the parsers take from a page, and what do the checks keep of it? limits, ownership, termination | holds, with the exceptions below |
| `library_session` | does `glyrc` follow the protocol of the library, give everything back, ask the right providers and end? | yes |
| `db_found` | is an inserted cache found under its query's names? | no, if another artist has it |

The three violations are disagreements between a comment or the API documentation and the code;
`PROJECT.json` quotes them under `findings`. The models contain other places where code and documentation
differ, without a run of their own, because a single line decides them:
- a page cut at its endmarker is dropped as a failed download (`core.c:867`);
- two addresses of one batch with the same picture are both returned (`generic.c:180`);
- spare addresses are freed before the pictures were fetched (`core.c:1347`);
- a call stopped before it has a result does not report `GLYRE_WAS_STOPPED` (`glyr.c:953`);
- `auto_detect_parallel()` gives 0 for few providers and a small ratio: nobody is asked, and the error is
  `GLYRE_NO_PROVIDER` (`glyr.c:798`); what it found for one query is kept for the next one, of any type (`glyr.c:792`);
- `glyr_opt_number(0)` stores `INT_MAX`, to which `continue_search()` adds (`core.c:526`);
- the key of a provider is not recognised behind a sign; "-all" is "all", and so are "a" and "al" without a sign, because `strncasecmp()`
  compares no more than the token has (`core.c:1426`): `--from a`, the key of lyrix (`lyrix_at.c:117`), asks everybody. `PlainList`
  leaves such lists out of `WantedAreAsked`;
- `glyr_cleanup()` followed by `glyr_init()` registers every provider twice, since the list of sources is only freed when it is
  empty (`register_plugins.c:327`); the table of blocked addresses stays as a dangling pointer (`blacklist.c:52`);
- rows that come in another order than that of their insertion are not sorted by time within equal ratings
  (`cache.c:853`; the comment at `cache.c:833` promises it);
- `glyr_get()` answers from the database in the reverse order of `glyr_db_lookup()` (`AnswerReversed`);
- a delete may take more than `number` rows, and addresses together with pictures (`cache.c:130`);
- `glyr_db_edit()` inserts the head of its list again and again (`cache.c:397`);
- a name whose INSERT fails because the file is busy is NULL in the row (`cache.c:728`), which is why `RowsResolve`
  assumes that no other process uses the file;
- `glyrc cache` always exits with 1, and an option that is not understood with -1, where the help text
  says 0 or 1 (`glyrc.c:325`); `cache select` frees neither its list nor its query nor its database, `update` not its page;
- after the block of `main()` the handler of SIGINT still points to its query (`glyrc.c:214`); a second `--cache` loses
  the first database (`glyrc.c:512`).

Parsers that the properties of `provider_pages` name as exceptions, or that end in `"lost"`:
- six count something else than their items or nothing at all, so that `query->number` does not bind them (`Unlimited`); rhapsody
  has one item more than allowed, slothradio and the parsers without a loop one when there is no room;
- flickr does not step over the photo it took (`flickr.c:57`): it takes the first one again and again, for ever if that is not closed;
- echonest takes the last review again for an object behind it; lyricstime compares with the name
  of the entry before (`lyricstime.c:125`); lipwalk prepends a NULL (`lipwalk.c:103`);
- where a literal is not there, a read through the NULL that `strstr()` returned, plus an offset, is what `"lost"` stands for, in
  `common/musicbrainz.c:131`, `common/picsearch.c:83` and `tracklist/musicbrainz.c:48` (no title at all; a title without a duration is only
  passed over), and so is a text that ends before it begins (`ainfo/lastfm.c:66`) and a NULL among texts with an encoding (`core.c:1125`):
  `Astray` names these pages and lists, and `Returns` shows that there are no others;
- `similar_artist/lastfm.c:71` reverses its list within the loop.

Not modelled, but seen while reading: the rating of a cache without data goes to the wrong column (`cache.c:778`);
`db_contains()` never compares checksums (`cache_intern.c:38`); `glyr_query_init()` on a query that was used loses its strings;
`glyr_opt_*()` with the query's own string copies what it just freed (`glyr.c:1064`); `glyrc.c:521` checks the wrong
pointer for a directory it could not create.

The properties, by module:
- `Downloader`: `FreedAtMostOnce` (no allocation is freed twice), `ListedIsLive` (nothing on the
  result list was freed), `NothingLeaks` (after the clean-up everything is freed or on the list, also for pictures, whose caches the clean-up
  frees only if their message was not read),
  `EveryAnswerRead` (a loop that was not stopped read every message), `ImplementsFetch`, `Terminates`,
  `ExitEndsIt`.
- `Engine`: `CounterCoversItems` (`itemctr` covers every item that can still reach
  the answer and stays within `number`), `ItemsDiffer`, `BestFirst`, `StopIsFinal`,
  `ImplementsQuery`, `EveryCallReturns`. `StopIsFinal` and `ItemsDiffer` hold for text jobs without offline
  providers, which is what `engine_text` has: a stop answered to an offline provider ends its batch only
  (`proceed`, not `stop_me`), and what it offers is not compared with earlier results.
- `CacheList`: `LookupSorted`, `UnratedSorted`, `AnswerReversed`.
- `MetaDB`: `RowsResolve` (every row has its provider and required names in the side tables, in memory and on
  disk), `Durable` (what a returned insert stored is there, and on the disk, until a delete takes it),
  `NothingOpen` (no transaction is left open between calls), `DeleteIsNarrow` (a delete takes no row with other
  names or of another provider), `DeleteIsComplete` (one that returns less than `number` leaves nothing that matches).
- `Providers`: `NotBeyondLimit` (no more items than there is room for in the query), `NoneTwice` (no
  place of a page is taken twice: on every page, but for the nine parsers of `Behind`, which take a field from behind a node and go on
  behind the node, only if each entry has one node and its field behind it, `Tidy`), `OnlyAsked` (nothing is taken from an entry about
  someone else, of the wrong size or without a live link: `Wants` names for 27 parsers where an entry begins, what is taken and what is compared
  before. It is about `WellFormed` pages, whose entries have each of those literals once and begin with the node; on others `strstr()` does look into the neighbour), `AddressesOwned` (`free_url` fits the memory of the address, for every query), `StopsAdding`.
- `Checks`: `Returns` (parser and checks end, with a list handed over: only on a page, or with a list, that is `Astray` may the process be
  lost instead, and only flickr's photo that is not closed, `Unclosed`, may be looked at for ever), `ChecksAreExact` (the first items that pass all checks are returned, all others freed once, and the stop says whether there
  were any), `ThreadsHaveTheirItem` (no thread reads a freed address or is left behind).
- `Glyrc`: `NothingKept` (a search that ended has freed each copy, cache, path and database once), `WantedAreAsked` (the
  providers that glyr.h says the list selects, each once, best first, and all of them if not enough was found),
  `FollowsProtocol` (it implements `Client`), `EveryCommandEnds`.

Fairness. `Downloader!Spec` has weak fairness of the calling thread, which never waits for anything
but `select()` with a bounded time, and of every transfer that has a timeout, because libcurl
ends it then; transfers without a timeout get none. `StalledSpec` has no fairness of
the network at all: only what does not depend on servers is checked under it.
`Engine!Spec` has weak fairness of the thread in `glyr_get()`, downloads included: this is what
`download_pages` shows of downloads that have a timeout, and what `download_stalls` shows to fail for
a single picture. `SignalExit` and new calls are never fair. `Checks!Spec` has weak fairness of the parser, of the checks (one thread that nothing interrupts; nested downloads
have the timeouts of the download loop) and of the format threads, whose transfers end after ten seconds. `Glyrc!Spec` has weak fairness
of the process; SIGINT is not fair. `CacheList` and `MetaDB` have no liveness and no fairness.

## 4. Proofs

`TLC` agrees on all of these first; the inductive invariants were checked as invariants of the passing runs.
The assumptions are the named ASSUMEs of the modules (finite sets, types, and that parsers make new objects).

`DownloaderProofs`. The inductive invariant `IInv` joins the types with three parts: `UrlInv` ties the flags of
an object to the allocation state of its cache and handle, stage by stage of its transfer;
`ItemInv` says that an item is live exactly when it is on the list, and that items of an address whose
message was not read do not exist; `LoopInv` ties the flags of the loop to its position. None of the
safety properties is inductive alone: that a cache is freed once depends on `consumed`, `was_buffered` and the pointer
agreeing with the position of the message. From it follow `DownloaderTypes`, `NoDoubleFree`, `ReturnedIsLive`,
`CleanupIsComplete`, `LoopIsComplete`, and, step by step, `DownloaderImplementsFetch`.

`EngineProofs`. `IInv` joins the types, `CounterCoversItems`, `NotMoreThanAsked`, `PhaseInv` (which lists are
empty in which stage) and `AcceptInv` (results were accepted). The bound on the answer is not
inductive: what is needed is that the counter pays for every list of the batch *separately*, so
that merging the lists, moving items between them and dropping duplicates never
uses more than was counted. `EngineTypes` shows as a side effect that `itemctr` never becomes negative although
three filters lower it. `EngineImplementsQuery` is the refinement of `Query`. The lemmas about cardinalities
rest on `FiniteSetTheorems`. `BestFirst` is inductive with the types: a batch is the best of what is left.
`TextsDiffer` and `StopEndsTexts` assume `TextsOnly`, a text job without offline providers, and do not hold otherwise (`engine_stop`).
Their invariant `TInv` says that the items before the finalizer differ, as do those it let pass together with the results of earlier
batches (`TextInv`, `DifferInv`), and that a stop of the callback sets `stop_now` for the rest of the call (`StopInv`).
`PagesFollowFetch` and `PicturesFollowFetch` join the engine to the download loop: each of its two downloads is a job of `Fetch`, opened with nothing
collected (`JobInv`), answered by each address at most once, with items of its own and never after a stop of the receiver; the batch goes on
when the job may be closed, or with nothing. As `DownloaderImplementsFetch` shows the same contract from below, the engine relies on nothing that the loop does
not give. The other direction, that the engine is ready for everything the contract allows, is a statement about ENABLED and not proved. In one point it is not:
`Fetch` allows an answer after the exit signal, `Engine` has none, since the loop looks at the signal before it reads a message. A signal that comes
while a page is parsed is the same as one after a page that had less: parsers and format checks take less then, the callback of pictures does not look at it.

`CacheListProofs`. `TimelyLookupSorted` says for all ratings and times that inserting rows in the order of their time keeps
the list sorted: the new row is the youngest, so the first loop finds its place and the second does not move;
`UnratedLookupSorted` that with equal ratings the second loop alone sorts rows of any order; `AnswerIsReversed` that
three loops that prepend turn the list round. `ListTypes` needs
that the place exists, that is that the walk always ends.

`MetaDBProofs`. The types hold in any case (`DatabaseTypes`). The other three assume that no other process uses
the file: a failed INSERT of a name leaves a row without it. The invariant `IInv` adds to the types
`CallInv` (a call has its arguments), `NamesInv` (how far the side tables are filled for the row that a thread is about to
insert: they only grow, so no other thread can undo it), `TxInv` (an open transaction has a thread on its
way to a COMMIT; without one disk and tables agree) and `HistoryInv`. `Durable` rests on `TxInv`: a
thread that returns has just ended whatever transaction was open, or there was none. `RowsAlwaysResolve` rests on `NamesInv`,
`NothingStaysOpen` on `TxInv`. Deletes need two invariants more: `VisitInv` (the rows a delete has yet to visit are rows that
its query asks for) gives `DeletesAreNarrow`, with other processes and failing statements too; `CoverInv` (every row
that matches is still to be visited, since a delete has the connection to itself) gives `DeletesAreComplete`, which assumes that no
other process uses the file.

`ChecksProofs`. For every site, query and choice of sums, known items, formats and encodings. That the answer is exact is a statement about
the end of the checks; what is inductive is, stage by stage, that an item lives exactly if it is an item of the list and was
not refused so far (`CheckInv`), while threads run, that it is allowed already or its thread is not joined (`ThreadInv`), and that what lives is on
one of two lists, so that it is freed at most once (`MemoryInv`). `AddressesHaveOneOwner` goes through the `get_url()` of all providers. The parsers come in by one lemma each for lyrics, pictures and
information: whatever a parser does, it goes on, returns or is lost. From it follow `ChecksExact` and `ThreadItems`.

`ParserProofs`. For every site and query, and with that every page that is a sequence of tokens. `Turn` says what one turn of any parser may do: add at most
one item, and that only to an empty list or while `continue_search()` agrees; the lemmas `LyricsTurn`, `PictureTurn` and `InfoTurn` show it parser by
parser. Inductive is that the list is within the limit (`LengthInv`) together with what the parsers without such a question rely on
(`FirstInv`): a parser without a loop starts from nothing.
From it follow `ParsersKeepTheLimit` and `ParsersStopAdding`. `ChecksTypes` is `TypeOK` of `Checks`, and with it that no parser leaves its page:
parser by parser, a turn stays on the page (`Moves`), and what it works on are a place of the page and a list of numbers (`Work`). `NothingIsTakenTwice` needs that what was taken is not found any more from where the parser stands
(`TwiceInv`), for three kinds of parsers. Most stand at or behind what they took last, or go on from a place behind the node
(`WalkAhead`); picsearch's take the next link but stand one before it (`SearchAhead`); those of `Behind` stand at the node, and take what `strstr()` finds
behind it: on a `Tidy` page that field belongs to the entry of the node (`FieldOfNode`), and no node of that entry comes any more
(`FieldAhead`). Without `Tidy` it is false: where the second of three entries has its `<LyricId>` before the node, or lacks it,
`lyrics_chartlyrics_parse` takes the third one twice. `albumlist_musicbrainz_parse` compares the titles (`AlbumsDiffer`).
`OnlyTheAskedIsTaken` is about pages that are `WellFormed`: entries are alike, begin with the node (echonest's reviews do not), have no field of their parser in
a place outside of entries, and have each compared field once. On others it is false: a release without an `<artist>` is compared with the artist
of the next one. Inductive is that nothing listed is of an entry with a wrong word (`AskedInv`). What `strstr()` finds behind a node belongs to the entry of
the node (`OwnEntry`), so words that were right behind a node are the words of its entry, which has no second ones (`NodeAsked`), and so is the field that is taken
(`TakenBehind`). Four kinds of parsers need more: those of a list inside an entry have to stay in the entry that was compared, so
that where they stand is of an entry as asked (`Stands`: `coverartarchive`, the relations and tags of musicbrainz); `cover_lyricswiki` gets to its
address by way of a timestamp (`TakenBehindStamp`); and `review_echonest` looks back from a release to the summary
before it (`TakenBefore`).

`OrderProofs`. A list sorted by rank is a list of all its elements in order, which all sorting here rests on: the rank of an element is
the number of those before it, so ranks differ and lie below the number of elements; as an injection of a finite set into
another of the same size, ranks take every value (`RankBijective`), and `RankedFacts` says that `Ranked` holds each pair once and ascends.

`GlyrcProofs`. For every registry, every set of command lines, every number of finds and SIGINT anywhere. The invariant counts: a slot of
`info[]` that is set has one copy and another none; the live caches are those of the result, or the one made from it; at most one path is live, exactly
when `write_path` says so; with at most one `--cache` the open database is the one `main()` knows. From it follows
`SearchKeepsNothing`. `GlyrcFollowsProtocol` is the refinement of `Client`: it needs where the library is up, where the query is ready, and that
`signal_exit` is only set while it is. `WantedOnesAreAsked` is about the order over all batches, which no batch knows: `SearchInv` has it
that what was asked is sorted, and that each of it is rated at least as well as everything enabled that is left (`Leads`). `get_queued()` takes the best of
what is left, so both stay true; and a search ends by itself only when nothing is left or enough was found (`EndInv`). `TablesInv` says that the lists of
providers hold positions of the registry, each fitting its fetcher. That "enabled" is what glyr.h calls selected
(`WantedIsEnabled`) is where `PlainList` is needed.

Only model-checked: `Terminates`, `ExitEndsIt`, `EveryCallReturns`, `EveryCommandEnds`, `Returns`, since liveness under fairness is out of the
prover's reach, as is ENABLED. Every invariant and every action property of the passing runs is a theorem; `DownloaderTypes`, the types of `Downloader`, is only proved.

## 5. Not modelled, and why

The providers that `register_provider_plugins()` does not register (`metrolyrics`, `guitaretab`, `albumart`, `cover/amazon`, `coverhunt`,
`review/amazon`, with `common/amazon.c`) are never called. The text of addresses, the cleaning of found texts, charset conversion and the rest of
`stringlib` are text processing without state; what a comparison of names yields is a value on the page. The
file-system walk of `musictree.c` is I/O; `Engine` has it as an offline provider. The testing helpers call single providers. `jsmn` is
vendored; its tokens are tokens of a page. Of `glyrc` what is only printed is left out: `escape.c` makes
paths and formats, `autohelp.c` suggests words. A timeout of 0 seconds (`glyr_opt_timeout`) makes `execute_query()` divide by zero before anything is
downloaded and is excluded from `Engine`. Lookup and foreach of the database only read.

## 6. Plan

1. `Fetch`, `Downloader`, `Query`, `Engine` with their proofs: done.
2. `CacheList` with its proofs: done.
3. `MetaDB` with its proofs: done.
4. `Selection`, `Registry`, `Options`, `Client`, `Glyrc` with their proofs: done.
5. `Parsing`, the provider modules, `Providers`, `Checks` with their proofs: done.
6. `Engine` as a client of `Fetch`: done. Left: as a client of `MetaDB` (`db_autoread`, `db_autowrite`).
