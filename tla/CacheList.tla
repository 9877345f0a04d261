------------------------------ MODULE CacheList ------------------------------
(***************************************************************************)
(* The order of what the metadata database answers: add_to_cache_list()    *)
(* (src/lib/cache.c) sorts the rows of a SELECT into a list as they come,   *)
(* and the list goes through the hands of the "local" provider, of         *)
(* execute_query() and of glyr_get().                                      *)
(*                                                                         *)
(* The doubly linked list and the GLists are sequences.  A row is a rating  *)
(* and the time of insertion; caches without data, whose columns           *)
(* insert_cache_data() mixes up, are left out.                             *)
(***************************************************************************)
EXTENDS Integers, SequencesExt

CONSTANTS
  Rating,  \* the ratings an application gives
  Time,    \* the times of insertion
  Number   \* query->number, the LIMIT of the SELECT

ASSUME ListAssumption ==
  /\ Rating \subseteq Int
  /\ Time \subseteq Nat
  /\ Number \in Nat \ {0}

VARIABLES
  stage,   \* who holds the list
  list,    \* the list
  found,   \* history: the list as glyr_db_lookup() returned it
  timely   \* history: have all rows come in the order of their insertion

vars == <<stage, list, found, timely>>

-----------------------------------------------------------------------------
Row == [rating : Rating, time : Time]

\* Variant: equal ratings are walked past as well.
FirstNotBetterStrict(s, c) ==
  IF \E i \in DOMAIN s : s[i].rating < c.rating
  THEN CHOOSE i \in DOMAIN s : /\ s[i].rating < c.rating
                               /\ \A j \in 1..(i - 1) : s[j].rating >= c.rating
  ELSE Len(s) + 1

\* The first loop: head is the first element whose rating is not above the new one's.
FirstNotBetter(s, c) ==
  IF \E i \in DOMAIN s : s[i].rating <= c.rating
  THEN CHOOSE i \in DOMAIN s : /\ s[i].rating <= c.rating
                               /\ \A j \in 1..(i - 1) : s[j].rating > c.rating
  ELSE Len(s) + 1

\* Variant: older elements are walked past.
YoungerReversed(x, c) == x.time < c.time

\* The second loop walks past elements that are younger than the new one, ...
Younger(x, c) == x.time > c.time

\* ... but only past those that have the rating of the element at h, where it starts,
\* and if the group is followed by another one it stops at its last element.
WalkEnds(s, c, h, k) ==
  /\ \A i \in h..(k - 1) : /\ s[i].rating = s[h].rating
                           /\ Younger(s[i], c)
  /\ \/ k = Len(s) + 1
     \/ /\ s[k].rating = s[h].rating
        /\ \/ ~Younger(s[k], c)
           \/ k < Len(s) /\ s[k + 1].rating # s[h].rating

Place(s, c) ==
  LET h == FirstNotBetter(s, c)
  IN  IF h = Len(s) + 1 THEN h
      ELSE CHOOSE k \in h..(Len(s) + 1) :
             WalkEnds(s, c, h, k) /\ \A i \in h..(k - 1) : ~WalkEnds(s, c, h, i)

\* add_to_cache_list()
Added(s, c) == InsertAt(s, Place(s, c), c)

-----------------------------------------------------------------------------
Init ==
  /\ stage = "lookup"
  /\ list = << >>
  /\ found = << >>
  /\ timely = TRUE

\* The LIMIT of the SELECT, and once more in select_callback().
Room == Len(list) < Number

\* select_callback() for one more row.  The SELECT has no ORDER BY, so that this may be
\* any row.
SelectRow(c) ==
  /\ stage = "lookup"
  /\ Room
  /\ list' = Added(list, c)
  /\ timely' = (timely /\ \A i \in DOMAIN list : list[i].time <= c.time)
  /\ UNCHANGED <<stage, found>>

\* glyr_db_lookup() returns.
LookupEnds ==
  /\ stage = "lookup"
  /\ stage' = "provider"
  /\ found' = list
  /\ UNCHANGED <<list, timely>>

\* Variant: a loop that appends.
Appended(s) == s

\* A loop that prepends every element of a list to a new one.
Prepended(s) == Reverse(s)

\* local_provider_parse()
ProviderConverts ==
  /\ stage = "provider"
  /\ stage' = "offline"
  /\ list' = Prepended(list)
  /\ UNCHANGED <<found, timely>>

\* The loop of execute_query() over the items of an offline provider; the callback
\* of the application accepts all of them.
OfflineAccepts ==
  /\ stage = "offline"
  /\ stage' = "commit"
  /\ list' = Prepended(list)
  /\ UNCHANGED <<found, timely>>

\* The end of execute_query(): from sub_result_list to result_list, which glyr_get()
\* links in its order and returns.
Commit ==
  /\ stage = "commit"
  /\ stage' = "answer"
  /\ list' = Prepended(list)
  /\ UNCHANGED <<found, timely>>

Pass == LookupEnds \/ ProviderConverts \/ OfflineAccepts \/ Commit

Next == (\E c \in Row : SelectRow(c)) \/ Pass

Spec == Init /\ [][Next]_vars

-----------------------------------------------------------------------------
TypeOK ==
  /\ stage \in {"lookup", "provider", "offline", "commit", "answer"}
  /\ list \in Seq(Row)
  /\ found \in Seq(Row)
  /\ timely \in BOOLEAN
  /\ Len(list) <= Number

\* Better rated before worse rated, and among equals younger before older.
Sorted(s) ==
  \A i, j \in DOMAIN s :
    i < j => \/ s[i].rating > s[j].rating
             \/ s[i].rating = s[j].rating /\ s[i].time >= s[j].time

\* If rows come in the order of their insertion, what the lookup returns is sorted by
\* rating and time (test_sorted_rating in spec/capi/check_dbc.c).
LookupSorted == timely => Sorted(found) /\ (stage = "lookup" => Sorted(list))

\* If the application never rates anything it is sorted by time, in whatever order the
\* rows came.
UnratedSorted ==
  (\A i, j \in DOMAIN found : found[i].rating = found[j].rating) => Sorted(found)

\* glyr_get() answers from the database with what glyr_db_lookup() returns, the worst
\* rated and the oldest first.
AnswerReversed == stage = "answer" => list = Reverse(found)
=============================================================================
