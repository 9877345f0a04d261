------------------------------ MODULE Registry ------------------------------
(***************************************************************************)
(* glyr_init() and glyr_cleanup() (src/lib/glyr.c): the lists of fetchers  *)
(* and of sources (src/lib/register_plugins.c), and the table of blocked   *)
(* addresses (src/lib/blacklist.c).                                        *)
(***************************************************************************)
EXTENDS Selection

CONSTANTS
  Fetcher,   \* the MetaDataFetchers, in the order they are registered in
  Source,    \* the MetaDataSources, likewise
  G_MAXINT   \* the largest int

ASSUME RegistryAssumption ==
  /\ Fetcher \in Seq([name : STRING, type : STRING, full_data : BOOLEAN,
                      reqs : SUBSET {"artist", "album", "title"},
                      default_parallel : Nat])
  /\ Source \in Seq([name : STRING, key : STRING, type : STRING,
                     quality : Int, speed : Int, free_url : BOOLEAN,
                     lang_aware : BOOLEAN])
  /\ IsInjective([i \in DOMAIN Fetcher |-> Fetcher[i].type])
  /\ G_MAXINT \in Nat

VARIABLES
  is_initalized,
  FList,         \* glyrMetaDataPluginList
  SList,         \* glyrMetaDataSourceList, positions of Source
  provider,      \* provider[f]: fetch->provider, likewise
  data_type,     \* data_type[s]: the fetcher whose type a source has, 0 for
                 \* GLYR_TYPE_UNKNOWN
  lookup_table   \* "NULL", "built" or "dangling"

registryVars ==
  <<is_initalized, FList, SList, provider, data_type, lookup_table>>

Of(fetcher, source) == source.type \in {fetcher.type, "any"}

\* quality * speed, in 32 bits: the square of the largest int is 1.
Priority(source) ==
  IF source.quality = G_MAXINT /\ source.speed = G_MAXINT THEN 1
  ELSE source.quality * source.speed

\* get_list_from_type(): what fits is prepended, one after the other, to what
\* is there; then g_list_sort() by compare_by_priority().
get_list_from_type(fetcher, list, sources) ==
  LET fits == {i \in DOMAIN sources : Of(fetcher, Source[sources[i]])}
      rated == {<<Priority(Source[sources[i]]), -i>> : i \in fits}
                 \cup {<<Priority(Source[list[i]]), i>> : i \in DOMAIN list}
      order == Ranked(rated)
  IN  [k \in 1..Cardinality(rated) |->
         LET i == order[k][2] IN IF i < 0 THEN sources[-i] ELSE list[i]]

\* The first fetcher that takes the source gives it its type.
init_data_type(s) ==
  LET takers == {f \in DOMAIN Fetcher : Of(Fetcher[f], Source[s])}
  IN  IF data_type[s] # 0 \/ takers = {} THEN data_type[s] ELSE Min(takers)

RegistryInit ==
  /\ is_initalized = FALSE
  /\ FList = <<>> /\ SList = <<>>
  /\ provider = [f \in DOMAIN Fetcher |-> <<>>]
  /\ data_type = [s \in DOMAIN Source |-> 0]
  /\ lookup_table = "NULL"

\* glyr_init(), once: register_fetcher_plugins() and blacklist_build().
glyr_init ==
  IF is_initalized THEN UNCHANGED registryVars
  ELSE /\ is_initalized' = TRUE
       /\ FList' = [f \in DOMAIN Fetcher |-> f]
       /\ SList' = Reverse([s \in DOMAIN Source |-> s]) \o SList
       /\ provider' = [f \in DOMAIN Fetcher |->
                         get_list_from_type(Fetcher[f], provider[f], SList')]
       /\ data_type' = [s \in DOMAIN Source |-> init_data_type(s)]
       /\ lookup_table' = "built"

\* glyr_cleanup(): the list of sources is only freed when there is none, and
\* the pointer to the table stays.
glyr_cleanup ==
  IF ~is_initalized THEN UNCHANGED registryVars
  ELSE /\ is_initalized' = FALSE
       /\ FList' = <<>>
       /\ provider' = [f \in DOMAIN Fetcher |-> <<>>]
       /\ lookup_table' = "dangling"
       /\ UNCHANGED <<SList, data_type>>

\* get_plugin_info(): the fetchers, each with the sources that are its own.
get_plugin_info ==
  [f \in DOMAIN FList |->
     [name |-> Fetcher[f].name, type |-> Fetcher[f].type,
      reqs |-> Fetcher[f].reqs,
      head |-> SelectSeq(SList, LAMBDA s : Source[s].type = Fetcher[f].type)]]
=============================================================================
