------------------------------ MODULE Parsing -------------------------------
(***************************************************************************)
(* One provider at work: its get_url() is asked for an address (in         *)
(* execute_query(), src/lib/core.c), the page arrives, and its parser      *)
(* walks over the page with strstr() and makes a list of what it finds.    *)
(* This module has what the parsers of src/lib/intern/ share; each parser  *)
(* is an action of LyricsProviders, PictureProviders or InfoProviders.     *)
(*                                                                         *)
(* A page is a sequence of tokens: a literal that the parser looks for,    *)
(* with the value that follows it and ends at its closing literal.  An     *)
(* address is a token, too: its value says what the page there is good     *)
(* for; when the parser searches that page with a loop of its own, the     *)
(* tokens of that page follow.  An item of the list is the position of the *)
(* token its data was copied from, negative when the data was changed to   *)
(* lead to a larger picture; 0 is a NULL pointer.                          *)
(***************************************************************************)
EXTENDS Integers, SequencesExt

CONSTANTS
  Site,    \* Site[p]: the pages that the server of provider p may send
  Query    \* the queries: those fields of GlyrQuery that matter here

Provider == DOMAIN Site

\* A token's value is a word: of names, whether it is the asked one within
\* query->fuzzyness; of sizes, whether it is within the limits of the query.
Token == [mark : STRING, text : STRING, entry : Nat]

ASSUME SiteAssumption == \A p \in Provider : Site[p] \subseteq Seq(Token)

\* imagejob is for glyr_get() to set, whatever it was before.
ASSUME QueryAssumption ==
  /\ Query \subseteq [number : Nat \ {0}, plugmax : Nat \cup {-1},
                      imagejob : BOOLEAN, local_db : BOOLEAN,
                      db_autoread : BOOLEAN, force_utf8 : BOOLEAN, itemctr : Nat,
                      img_min : Int, img_max : Int,
                      names : SUBSET {"artist", "album", "title"}]
  /\ \A q \in Query, image \in BOOLEAN : [q EXCEPT !.imagejob = image] \in Query

VARIABLES
  pc,        \* "idle", "asked", "parsing", "parsed", then the checks of
             \* Checks.tla, and "lost" in the wild
  provider,  \* the MetaDataSource
  query,     \* capo->s
  page,      \* capo->cache->data
  at,        \* node: where the parser is; 0 is the start
  tries,     \* the counter of those that count something else than items
  list,      \* result_list
  url,       \* the memory of lookup_url: "none", "static", "heap", "freed"
             \* or "torn", a literal that was passed to g_free()
  exit       \* query->signal_exit

capo == <<provider, query, page, url>>
vars == <<pc, at, tries, list, exit, capo>>

\* What the library knows of a provider (MetaDataSource).
MetaDataSource(name, key, type, quality, speed, free_url) ==
  [name |-> name, key |-> key, type |-> type, quality |-> quality,
   speed |-> speed, free_url |-> free_url, lang_aware |-> FALSE]

-----------------------------------------------------------------------------
\* Everything that may be found before the search stops; an image job gets
\* some more, and so does one that may find old acquaintances.
Limit ==
  query.number + (IF query.imagejob THEN query.number \div 3 ELSE 0)
               + (IF query.local_db THEN query.number ELSE 0)

\* Variants: off by one; the signal is not looked at.
continue_search_more(current) ==
  /\ ~exit
  /\ current + query.itemctr <= Limit
  /\ query.plugmax = -1 \/ current < query.plugmax

continue_search_on(current) ==
  /\ current + query.itemctr < Limit
  /\ query.plugmax = -1 \/ current < query.plugmax

continue_search(current) ==
  /\ ~exit
  /\ current + query.itemctr < Limit
  /\ query.plugmax = -1 \/ current < query.plugmax

\* As nearly all parsers ask it.
More == continue_search(Len(list))

\* strstr (page + i, mark): where the literal is found first, 0 for NULL.
Find(mark, i) ==
  LET found == {j \in i..Len(page) : j > 0 /\ page[j].mark = mark}
  IN  IF found = {} THEN 0 ELSE Min(found)

\* What levenshtein_strnormcmp() or size_is_okay() says of the value there;
\* a NULL is never near enough, and no address either.
Is(i, text) == i # 0 /\ page[i].text = text

\* strstr() on a page of its own, which ends where the page it was found on
\* goes on with the next `border`.
FindWithin(mark, border, i) ==
  LET j == Find(mark, i)
      end == Find(border, i)
  IN  IF end # 0 /\ j > end THEN 0 ELSE j

\* The last one that is not behind i.
LastUpTo(mark, i) == Max({0} \cup {j \in 1..i : page[j].mark = mark})

\* The first name, or size, found from there on is the asked one.
Asked(mark, i) == Is(Find(mark, i), "asked")
Fits(mark, i) == Is(Find(mark, i), "fits")

\* mbid_parse_data(): the first entity of the answer with the asked name.
mbid_parse_data(entity, name) ==
  LET nodes == {n \in 1..Len(page) : page[n].mark = entity /\ Asked(name, n)}
  IN  IF nodes = {} THEN 0 ELSE Min(nodes)

\* g_list_prepend (), when there is something to prepend.
Found(condition, i) == {IF condition THEN <<i>> \o list ELSE list}

\* The same after a download_single(), which may come back with nothing.
Fetched(condition, i) == {list} \cup Found(condition, i)

-----------------------------------------------------------------------------
Parses(p) == pc = "parsing" /\ provider = p

\* The parser returns one of the lists.
Return(lists) ==
  /\ pc' = "parsed"
  /\ list' \in lists
  /\ UNCHANGED <<at, tries, exit, capo>>

\* It goes on behind node i with one of the lists.
Proceed(i, lists) ==
  /\ at' = i
  /\ list' \in lists
  /\ UNCHANGED <<pc, tries, exit, capo>>

\* The same, counting its tries.
Try(i, lists) ==
  /\ at' = i
  /\ list' \in lists
  /\ tries' = tries + 1
  /\ UNCHANGED <<pc, exit, capo>>

\* while (continue_search (...) && (node = strstr (...)) != NULL)
While(node, lists) ==
  IF More /\ node # 0 THEN Proceed(node, lists) ELSE Return({list})

\* It reads from a pointer to nowhere: the process may not survive that.
Stray ==
  /\ pc' = "lost"
  /\ UNCHANGED <<at, tries, list, exit, capo>>
=============================================================================
