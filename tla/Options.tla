------------------------------ MODULE Options -------------------------------
(***************************************************************************)
(* A GlyrQuery and its options (src/lib/glyr.c).  What is given as a       *)
(* string is copied, and the copy remembered in info[], so that            *)
(* glyr_query_destroy() can free it; the other options are plain values.   *)
(*                                                                         *)
(* A call of glyr_opt_<name>() is a record of name, value (truth values    *)
(* are 0 and 1) and list, the tokens of glyr_opt_from().  Of all other     *)
(* strings only the copies matter: query->artist and the rest point to     *)
(* their own copy, or to the default.                                      *)
(***************************************************************************)
EXTENDS Selection

CONSTANT INT_MAX

\* Where in info[] the copies are.
Slot == [artist |-> 0, album |-> 1, title |-> 2, proxy |-> 3, from |-> 4,
         allowed_formats |-> 5, useragent |-> 6, lang |-> 7,
         musictree_path |-> 8]
InfoSlots == 0..9

VARIABLES
  query,     \* the GlyrQuery
  strings    \* strings[at]: how many copies made for info[at] are not freed

\* set_query_on_defaults(); the quality ratio is in percent.
set_query_on_defaults ==
  [type |-> "unknown", info |-> {}, from |-> <<[sign |-> "", text |-> "all"]>>,
   number |-> 1, parallel |-> 0, redirects |-> 3, timeout |-> 20,
   verbosity |-> 0, plugmax |-> -1, fuzzyness |-> 4, qsratio |-> 85,
   img_min_size |-> 130, img_max_size |-> -1, download |-> 1, force_utf8 |-> 0,
   lang_aware_only |-> FALSE, imagejob |-> FALSE, normalization |-> 3,
   db_autowrite |-> 1, local_db |-> 0, callback |-> FALSE, q_errno |-> "ok",
   signal_exit |-> FALSE, itemctr |-> 0, is_initalized |-> TRUE]

\* glyr_set_info(), on q.
glyr_set_info(q, at) ==
  /\ query' = [q EXCEPT !.info = @ \cup {at}]
  /\ strings' = [strings EXCEPT ![at] = IF at \in q.info THEN @ ELSE @ + 1]

Assign(q) == query' = q /\ UNCHANGED strings

\* glyr_query_init() does not look at what was there.
glyr_query_init == Assign(set_query_on_defaults)

glyr_query_destroy ==
  IF ~query.is_initalized THEN UNCHANGED <<query, strings>>
  ELSE /\ strings' = [at \in InfoSlots |->
                        IF at \in query.info THEN strings[at] - 1
                        ELSE strings[at]]
       /\ query' = set_query_on_defaults

\* The value that is stored.
Setting(o) ==
  CASE o.name = "number" /\ o.value = 0 -> INT_MAX
    [] o.name = "qsratio" -> Clamp(o.value, 0, 100)
    [] o.name \in {"img_min_size", "img_max_size"} /\ o.value < -1 -> -1
    [] o.name = "plugmax" /\ o.value < 0 -> query.plugmax
    [] OTHER -> o.value

Plain == {"number", "parallel", "redirects", "timeout", "verbosity", "plugmax",
          "fuzzyness", "qsratio", "img_min_size", "img_max_size", "download",
          "force_utf8", "normalization"}

\* glyr_opt_<name>(); glyr_opt_lang() stores what guess_language() says when
\* it is "auto".
glyr_opt(o) ==
  \/ /\ o.name \in DOMAIN Slot
     /\ glyr_set_info(IF o.name = "from" THEN [query EXCEPT !.from = o.list]
                      ELSE query, Slot[o.name])
  \/ /\ o.name \in Plain
     /\ Assign([query EXCEPT ![o.name] = Setting(o)])
  \/ /\ o.name = "lang_aware_only"
     /\ Assign([query EXCEPT !.lang_aware_only = TRUE])

\* glyr_opt_type()
glyr_opt_type(type) ==
  Assign(IF type = "unknown" THEN query ELSE [query EXCEPT !.type = type])

\* glyr_opt_db_autowrite(), glyr_opt_lookup_db()
glyr_opt_lookup_db(db) ==
  Assign([query EXCEPT !.db_autowrite = 1,
                       !.local_db = IF db = 0 THEN @ ELSE db])

\* glyr_opt_dlcallback()
glyr_opt_dlcallback == [query EXCEPT !.callback = TRUE]

\* glyr_signal_exit()
glyr_signal_exit == Assign([query EXCEPT !.signal_exit = TRUE])
=============================================================================
