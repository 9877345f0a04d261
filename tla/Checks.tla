------------------------------- MODULE Checks -------------------------------
(***************************************************************************)
(* What call_provider_callback() (src/lib/core.c) does with the list of a  *)
(* parser before anything of it counts as found: duplicates go, and what   *)
(* the database has already; the formats of pictures are looked up by one  *)
(* thread for each address, texts are checked for their encoding; what is  *)
(* left is kept as far as there is room for it.                            *)
(*                                                                         *)
(* An item is its position on the list.  The list only ever loses items,   *)
(* so that the set of positions that are left says what is on it, and in   *)
(* which order.                                                            *)
(***************************************************************************)
EXTENDS Providers

CONSTANT Sum   \* MD5 sums, with the sizes

VARIABLES
  raw,      \* raw_parsed_data
  data,     \* the memory of each item: "null", "live", "freed", and "torn"
            \* when it was freed twice
  thread,   \* the threads of check_all_types_in_url_list(): "running", or
            \* what they say of the format
  allowed,  \* the items whose img_format is one of query->allowed_formats
  parsed,   \* what is returned
  stop,     \* *stop_download
  refused   \* history: the items that should not be returned

checkVars == <<raw, data, thread, allowed, parsed, stop, refused>>
allVars == <<vars, checkVars>>

Live(i) == data[i] = "live"
Items == DOMAIN data

\* DL_free() on each.
DL_free(items) ==
  [i \in Items |-> IF i \notin items THEN data[i]
                   ELSE IF Live(i) THEN "freed" ELSE "torn"]

\* g_list_delete_link() and DL_free().
Delete(items) ==
  /\ raw' = raw \ items
  /\ data' = DL_free(items)

-----------------------------------------------------------------------------
\* The parser returns.  Nothing looks at the page any more; fix_data_types()
\* gives the items a type, which no check here depends on.
Take ==
  /\ pc = "parsed"
  /\ pc' = "raw"
  /\ raw' = DOMAIN list
  /\ data' = [i \in DOMAIN list |-> IF list[i] = 0 THEN "null" ELSE "live"]
  /\ page' = <<>> /\ list' = <<>>
  /\ at' = 0 /\ tries' = 0
  /\ url' = "none"
  /\ UNCHANGED <<provider, query, exit, thread, allowed, parsed, stop, refused>>

\* The loops of delete_dupes() leave the first of each kind.
Duplicates(sum) ==
  {i \in raw : Live(i) /\ \E j \in raw : j < i /\ Live(j) /\ sum[i] = sum[j]}

delete_dupes(sum) ==
  /\ pc = "raw"
  /\ pc' = "unique"
  /\ Delete(Duplicates(sum))
  /\ refused' = {i \in raw : \E j \in raw : j < i /\ Live(i) /\ Live(j)
                                            /\ sum[j] = sum[i]}
  /\ UNCHANGED <<at, tries, list, exit, capo, thread, allowed, parsed, stop>>

\* db_contains() finds some of them.  Variant: db_autoread is not asked.
KnownAnyway(known) == IF query.local_db THEN known ELSE {}
Known(known) == IF query.db_autoread /\ query.local_db THEN known ELSE {}

delete_already_cached_items(known) ==
  /\ pc = "unique"
  /\ Delete(Known(known))
  /\ pc' = IF raw' = {} THEN "done"
           ELSE IF query.imagejob THEN "formats" ELSE "text"
  /\ refused' = IF query.db_autoread /\ query.local_db
                THEN refused \cup known ELSE refused
  /\ UNCHANGED <<at, tries, list, exit, capo, thread, allowed, parsed, stop>>

-----------------------------------------------------------------------------
\* check_all_types_in_url_list(): a thread for each address, which it reads
\* from the item itself.
StartThreads ==
  /\ pc = "formats"
  /\ pc' = "joining"
  /\ thread' = [i \in {j \in raw : Live(j)} |-> "running"]
  /\ UNCHANGED <<at, tries, list, exit, capo, raw, data, allowed, parsed, stop,
                 refused>>

\* retrieve_content_info(): the server says that it has a picture in one of
\* the allowed formats, or something else, or there is no answer in time.
ThreadEnds(i) ==
  /\ i \in DOMAIN thread /\ thread[i] = "running"
  /\ \E answer \in {"allowed", "other", "failed"} :
       thread' = [thread EXCEPT ![i] = answer]
  /\ UNCHANGED <<pc, at, tries, list, exit, capo, raw, data, allowed, parsed,
                 stop, refused>>

\* g_thread_join(), in the order of thread_list, the last one first.
Join ==
  /\ pc = "joining"
  /\ \E i \in DOMAIN thread :
       /\ \A j \in DOMAIN thread : j <= i
       /\ thread[i] # "running"
       /\ allowed' = IF thread[i] = "allowed" THEN allowed \cup {i} ELSE allowed
       /\ refused' = IF thread[i] = "allowed" THEN refused ELSE refused \cup {i}
       /\ thread' = [j \in DOMAIN thread \ {i} |-> thread[j]]
  /\ UNCHANGED <<pc, at, tries, list, exit, capo, raw, data, parsed, stop>>

\* Variant: it does not wait when it is told to stop.
JoinedOrStopped == exit \/ DOMAIN thread = {}
Joined == DOMAIN thread = {}

\* An item without a format is not allowed either.
delete_wrong_formats ==
  /\ pc = "joining"
  /\ Joined
  /\ pc' = "keep"
  /\ Delete({i \in raw : Live(i) /\ i \notin allowed})
  /\ UNCHANGED <<at, tries, list, exit, capo, thread, allowed, parsed, stop,
                 refused>>

-----------------------------------------------------------------------------
\* Sources with an encoding of their own.
Encoding == {"lyrics_lyrdb", "lyrics_elyrics"}

\* normalize_utf8(), do_charset_conversion() and check_for_forced_utf8(): the
\* second does not expect a NULL.
CheckText(invalid) ==
  /\ pc = "text"
  /\ IF provider \in Encoding /\ \E i \in raw : ~Live(i)
     THEN pc' = "lost" /\ UNCHANGED <<raw, data, refused>>
     ELSE /\ pc' = "keep"
          /\ Delete(IF query.force_utf8 THEN invalid ELSE {})
          /\ refused' = IF query.force_utf8 THEN refused \cup invalid ELSE refused
  /\ UNCHANGED <<at, tries, list, exit, capo, thread, allowed, parsed, stop>>

\* As many as there is room for, the first ones.
FirstOf(items, room) == {i \in items : Cardinality({j \in items : j < i}) < room}

Keep ==
  /\ pc = "keep"
  /\ pc' = "done"
  /\ LET items == {i \in raw : Live(i)} IN
       /\ parsed' = FirstOf(items, query.number - query.itemctr)
       /\ data' = DL_free(items \ parsed')
       /\ stop' = (items # parsed')
       /\ raw' = {}
  /\ UNCHANGED <<at, tries, list, exit, capo, thread, allowed, refused>>

\* The list is the caller's, and the provider there for the next query.
Hand ==
  /\ pc = "done"
  /\ pc' = "idle"
  /\ raw' = {} /\ data' = <<>>
  /\ thread' = <<>> /\ allowed' = {}
  /\ parsed' = {} /\ refused' = {}
  /\ stop' = FALSE
  /\ exit' = FALSE
  /\ UNCHANGED <<at, tries, list, capo>>

-----------------------------------------------------------------------------
CheckInit ==
  /\ Init
  /\ raw = {} /\ data = <<>>
  /\ thread = <<>> /\ allowed = {}
  /\ parsed = {} /\ refused = {}
  /\ stop = FALSE

Check ==
  \/ Take \/ StartThreads \/ Join \/ delete_wrong_formats \/ Keep \/ Hand
  \/ \E sum \in [raw -> Sum] : delete_dupes(sum)
  \/ \E items \in SUBSET {i \in raw : Live(i)} :
       delete_already_cached_items(items) \/ CheckText(items)

Threads == \E i \in DOMAIN thread : ThreadEnds(i)

Next ==
  \/ (Ask \/ Arrive \/ Parse \/ SignalExit) /\ UNCHANGED checkVars
  \/ Check \/ Threads

\* Parser and checks run in one thread that is not interrupted; the timeout
\* of ten seconds ends each of the others.
Spec ==
  /\ CheckInit /\ [][Next]_allVars
  /\ WF_allVars(Parse /\ UNCHANGED checkVars)
  /\ WF_allVars(Check) /\ WF_allVars(Threads)

-----------------------------------------------------------------------------
\* Types of all variables.
TypeOK ==
  /\ pc \in {"idle", "asked", "parsing", "parsed", "raw", "unique", "formats",
             "joining", "text", "keep", "done", "lost"}
  /\ provider \in Provider
  /\ query \in Query
  /\ at \in 0..Len(page)
  /\ tries \in Nat
  /\ list \in Seq(Int)
  /\ url \in {"none", "static", "heap", "freed", "torn"}
  /\ exit \in BOOLEAN /\ stop \in BOOLEAN
  /\ data \in Seq({"null", "live", "freed", "torn"})
  /\ raw \subseteq Items /\ parsed \subseteq Items
  /\ allowed \subseteq Items /\ refused \subseteq Items
  /\ DOMAIN thread \subseteq Items
  /\ \A i \in DOMAIN thread :
       thread[i] \in {"running", "allowed", "other", "failed"}

\* call_provider_callback() returns the first items that pass all checks, as
\* many as there is room for, and exactly what it does not return is freed,
\* once.  The other downloads are stopped when something was in excess.
ChecksAreExact ==
  pc = "done" =>
    LET good == {i \in Items : data[i] # "null"} \ refused
    IN  /\ parsed = FirstOf(good, query.number - query.itemctr)
        /\ {i \in Items : Live(i)} = parsed
        /\ "torn" \notin Range(data)
        /\ stop <=> parsed # good

\* No item is freed while a thread reads its address, and no thread is left
\* behind.
ThreadsHaveTheirItem ==
  /\ \A i \in DOMAIN thread : Live(i)
  /\ pc # "joining" => DOMAIN thread = {}

\* A photo that is not closed is looked at forever.
Unclosed ==
  provider = "photos_flickr" /\ Find("/>", Find("<photo id=", 1)) = 0

\* All that may lead the code away from a page or its list: a tracklist
\* without a title, no table of pictures, a biography that ends before it
\* begins, an entity that is the asked one and the last, and a NULL among the
\* texts of a source with an encoding of its own.
Astray ==
  \/ /\ provider = "tracklist_musicbrainz"
     /\ Find("<title>", Find("id=", 1)) = 0
  \/ /\ provider \in {"cover_picsearch", "photos_picsearch"}
     /\ Find("<div id=results_table", 1) = 0
  \/ /\ provider = "ainfo_lastfm"
     /\ \E i, j \in 1..Len(page) :
          /\ i < j /\ page[i].mark \in {"</content>", "User-contributed text"}
          /\ page[j].mark \in {"<content>", "<![CDATA["}
  \/ /\ provider \in {"relations_musicbrainz", "tags_musicbrainz"}
     /\ LET last == LastUpTo("<entity ", Len(page))
        IN  last # 0 /\ Asked("<name>", last)
  \/ provider \in Encoding /\ \E i \in raw : data[i] = "null"

\* Every parser comes to an end of its page, whatever the page is like, and
\* so do the checks of its list, whatever the servers answer: the list is
\* handed over, but for what leads astray.
Returns ==
  (pc = "parsing" /\ ~Unclosed) ~> (pc = "idle" \/ (pc = "lost" /\ Astray))
=============================================================================
