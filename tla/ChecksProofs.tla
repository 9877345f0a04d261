---------------------------- MODULE ChecksProofs -----------------------------
(***************************************************************************)
(* Proofs about Checks.tla, for all pages of all servers, all queries and  *)
(* every answer of the format threads: call_provider_callback() returns    *)
(* exactly the items that pass, frees the others once, and frees none that *)
(* a thread still reads.                                                   *)
(***************************************************************************)
EXTENDS Checks, TLAPS

\* Before the parser's list is looked at, nothing is left of the last one.
Before == {"idle", "asked", "parsing", "parsed"}

QuietInv ==
  pc \in Before =>
    /\ data = <<>>
    /\ raw = {} /\ allowed = {} /\ refused = {}

\* Nothing is freed twice, and what is on the list is not freed.
MemoryInv ==
  /\ data = [i \in Items |-> data[i]]
  /\ raw \subseteq Items
  /\ \A i \in Items : data[i] \in {"null", "live", "freed"}
  /\ \A i \in Items : Live(i) => i \in raw \cup parsed
  /\ \A i \in raw : data[i] # "freed"

\* What has not been refused so far is still there.
Good(i) == data[i] # "null" /\ i \notin refused

CheckInv ==
  /\ pc = "raw" => refused = {} /\ \A i \in Items : i \in raw
  /\ pc \in {"raw", "unique", "formats", "text"} => allowed = {}
  /\ pc \in {"raw", "unique", "formats", "text", "keep"} =>
       \A i \in Items : Live(i) <=> Good(i)
  /\ pc \notin {"done"} => parsed = {} /\ stop = FALSE

\* While threads run, an item is good as far as is known, or refused already.
ThreadInv ==
  /\ pc # "joining" => DOMAIN thread = {}
  /\ pc = "joining" =>
       /\ \A i \in Items : Good(i) <=> i \in allowed \cup DOMAIN thread
       /\ allowed \cap DOMAIN thread = {}
       /\ \A i \in allowed \cup DOMAIN thread : i \in Items /\ Live(i)

IInv == QuietInv /\ MemoryInv /\ CheckInv /\ ThreadInv /\ ChecksAreExact

-----------------------------------------------------------------------------
\* Wherever a parser goes, it goes on, returns or is lost.
Walk ==
  /\ pc = "parsing" /\ pc' \in {"parsing", "parsed", "lost"}
  /\ UNCHANGED <<provider, query, url, exit>>

LEMMA LyricsWalk == LyricsParse => Walk
<1> USE DEF Walk, Parses, While, Return, Proceed, Try, Stray, capo
<1>1. CASE lyrics_chartlyrics_parse \/ lyrics_elyrics_parse
  BY <1>1 DEF lyrics_chartlyrics_parse, lyrics_elyrics_parse
<1>2. CASE lyrics_lipwalk_parse
  BY <1>2 DEF lyrics_lipwalk_parse
<1>3. CASE lyrics_lyrdb_parse \/ lyrics_lyricsreg_parse
  BY <1>3 DEF lyrics_lyrdb_parse, lyrics_lyricsreg_parse
<1>4. CASE lyrics_lyricstime_parse
  BY <1>4 DEF lyrics_lyricstime_parse
<1>5. CASE lyrics_lyricsvip_parse \/ lyrics_metallum_parse
  BY <1>5 DEF lyrics_lyricsvip_parse, lyrics_metallum_parse
<1>6. CASE lyrics_lyricswiki_parse \/ lyrics_lyricswiki_page
  BY <1>6 DEF lyrics_lyricswiki_parse, lyrics_lyricswiki_page
<1>7. CASE lyrics_lyrixat_parse
  BY <1>7 DEF lyrics_lyrixat_parse
<1>8. CASE lyrics_magistrix_parse
  BY <1>8 DEF lyrics_magistrix_parse
<1>9. CASE lyrics_vagalume_parse
  BY <1>9 DEF lyrics_vagalume_parse
<1>10. CASE guitartabs_chordie_parse
  BY <1>10 DEF guitartabs_chordie_parse
<1> QED
  BY <1>1, <1>2, <1>3, <1>4, <1>5, <1>6, <1>7, <1>8, <1>9, <1>10 DEF LyricsParse

LEMMA PictureWalk == PictureParse => Walk
<1> USE DEF Walk, Parses, While, Return, Proceed, Try, Stray, capo
<1>1. CASE cover_coverartarchive_parse \/ parse_archive_json
  BY <1>1 DEF cover_coverartarchive_parse, parse_archive_json
<1>2. CASE cover_discogs_parse \/ photos_discogs_parse
  BY <1>2 DEF cover_discogs_parse, photos_discogs_parse
<1>3. CASE cover_google_parse \/ photos_google_parse
  BY <1>3 DEF cover_google_parse, photos_google_parse, generic_google_parse
<1>4. CASE cover_jamendo_parse \/ cover_lastfm_parse
  BY <1>4 DEF cover_jamendo_parse, cover_lastfm_parse
<1>5. CASE cover_lyricswiki_parse
  BY <1>5 DEF cover_lyricswiki_parse
<1>6. CASE cover_musicbrainz_parse
  BY <1>6 DEF cover_musicbrainz_parse
<1>7. CASE cover_picsearch_parse \/ photos_picsearch_parse
  BY <1>7 DEF cover_picsearch_parse, photos_picsearch_parse,
     generic_picsearch_parse
<1>8. CASE cover_rhapsody_parse
  BY <1>8 DEF cover_rhapsody_parse
<1>9. CASE cover_slothradio_parse
  BY <1>9 DEF cover_slothradio_parse
<1>10. CASE photos_bbcmusic_parse \/ photos_flickr_parse \/ photos_lastfm_parse
  BY <1>10 DEF photos_bbcmusic_parse, photos_flickr_parse, photos_lastfm_parse
<1>11. CASE photos_rhapsody_parse
  BY <1>11 DEF photos_rhapsody_parse
<1>12. CASE photos_singerpictures_parse \/ backdrops_htbackdrops_parse
  BY <1>12 DEF photos_singerpictures_parse, backdrops_htbackdrops_parse
<1> QED
  BY <1>1, <1>2, <1>3, <1>4, <1>5, <1>6, <1>7, <1>8, <1>9, <1>10, <1>11, <1>12
  DEF PictureParse

LEMMA MusicbrainzWalk ==
  ASSUME pc = "parsing", generic_musicbrainz_parse
  PROVE  Walk
BY DEF generic_musicbrainz_parse, Walk, Return, Stray, capo

LEMMA InfoWalk == InfoParse => Walk
<1> USE DEF Walk, Parses, While, Return, Proceed, Try, Stray, capo
<1>1. CASE ainfo_bbcmusic_parse \/ ainfo_echonest_parse
  BY <1>1 DEF ainfo_bbcmusic_parse, ainfo_echonest_parse
<1>2. CASE ainfo_lastfm_parse
  BY <1>2 DEF ainfo_lastfm_parse
<1>3. CASE ainfo_lyricsreg_parse \/ albumlist_musicbrainz_parse
  BY <1>3 DEF ainfo_lyricsreg_parse, albumlist_musicbrainz_parse
<1>4. CASE review_echonest_parse
  BY <1>4 DEF review_echonest_parse
<1>5. CASE review_metallum_parse
  BY <1>5 DEF review_metallum_parse
<1>6. CASE relations_musicbrainz_parse \/ tags_musicbrainz_parse
  BY <1>6, MusicbrainzWalk DEF relations_musicbrainz_parse, tags_musicbrainz_parse
<1>7. CASE relations_generated_parse
  BY <1>7 DEF relations_generated_parse
<1>8. CASE similar_lastfm_parse \/ similar_song_lastfm_parse
  BY <1>8 DEF similar_lastfm_parse, similar_song_lastfm_parse
<1>9. CASE tracklist_musicbrainz_parse
  BY <1>9 DEF tracklist_musicbrainz_parse
<1>10. CASE traverse_xml
  BY <1>10 DEF traverse_xml
<1> QED
  BY <1>1, <1>2, <1>3, <1>4, <1>5, <1>6, <1>7, <1>8, <1>9, <1>10 DEF InfoParse

-----------------------------------------------------------------------------
\* Freeing items that live, once.
LEMMA Freed ==
  ASSUME MemoryInv, NEW items \in SUBSET Items, \A i \in items : Live(i),
         data' = DL_free(items)
  PROVE  /\ data' = [i \in Items' |-> data'[i]]
         /\ Items' = Items
         /\ \A i \in Items : data'[i] = IF i \in items THEN "freed" ELSE data[i]
         /\ \A i \in Items : Live(i)' <=> Live(i) /\ i \notin items
BY DEF DL_free, MemoryInv, Live, Items

LEMMA FirstOfSubset == \A items, room : FirstOf(items, room) \subseteq items
BY DEF FirstOf

LEMMA Initially == CheckInit => IInv
<1> SUFFICES ASSUME CheckInit PROVE IInv
  OBVIOUS
<1>1. data = <<>> /\ Items = {} /\ pc = "idle"
  BY DEF CheckInit, Init, Items
<1>2. MemoryInv
  BY <1>1 DEF CheckInit, MemoryInv, Items
<1>3. QuietInv /\ CheckInv /\ ThreadInv /\ ChecksAreExact
  BY <1>1 DEF CheckInit, QuietInv, CheckInv, ThreadInv, ChecksAreExact, Before
<1> QED
  BY <1>2, <1>3 DEF IInv

\* While the parser works there is nothing to check.
LEMMA Quiet ==
  ASSUME IInv, pc \in Before, pc' \in Before \cup {"lost"}, UNCHANGED checkVars
  PROVE  IInv'
<1>1. data = <<>> /\ Items = {} /\ Items' = {}
  BY DEF IInv, QuietInv, checkVars, Items
<1>2. MemoryInv'
  BY <1>1 DEF IInv, MemoryInv, checkVars, Items, Live
<1>3. QuietInv' /\ CheckInv' /\ ThreadInv' /\ ChecksAreExact'
  BY <1>1 DEF IInv, QuietInv, CheckInv, ThreadInv, ChecksAreExact, Before, checkVars
<1> QED
  BY <1>2, <1>3 DEF IInv

LEMMA TakeStep == IInv /\ Take => IInv'
<1> SUFFICES ASSUME IInv, Take PROVE IInv'
  OBVIOUS
<1>1. /\ pc = "parsed" /\ pc' = "raw"
      /\ raw' = DOMAIN list
      /\ data' = [i \in DOMAIN list |-> IF list[i] = 0 THEN "null" ELSE "live"]
      /\ UNCHANGED <<thread, allowed, parsed, stop, refused>>
  BY DEF Take
<1>2. raw' = Items' /\ refused' = {} /\ allowed' = {}
  BY <1>1 DEF IInv, QuietInv, Before, Items
<1>3. MemoryInv'
  BY <1>1, <1>2 DEF MemoryInv, Items, Live
<1>4. \A i \in Items' : Live(i)' <=> Good(i)'
  BY <1>1, <1>2 DEF Items, Live, Good
<1>5. QuietInv' /\ CheckInv' /\ ThreadInv' /\ ChecksAreExact'
  BY <1>1, <1>2, <1>4 DEF IInv, QuietInv, CheckInv, ThreadInv, ChecksAreExact, Before
<1> QED
  BY <1>3, <1>5 DEF IInv

LEMMA DupesStep == ASSUME IInv, NEW sum, delete_dupes(sum) PROVE IInv'
<1> DEFINE items == Duplicates(sum)
<1>1. /\ pc = "raw" /\ pc' = "unique"
      /\ raw' = raw \ items /\ data' = DL_free(items)
      /\ refused' = items
      /\ UNCHANGED <<thread, allowed, parsed, stop>>
  BY DEF delete_dupes, Delete, Duplicates
<1>2. items \subseteq raw /\ \A i \in items : Live(i)
  BY DEF Duplicates
<1> HIDE DEF items
<1>3. items \in SUBSET Items /\ MemoryInv
  BY <1>2 DEF IInv, MemoryInv
<1>4. /\ data' = [i \in Items' |-> data'[i]]
      /\ Items' = Items
      /\ \A i \in Items : data'[i] = IF i \in items THEN "freed" ELSE data[i]
      /\ \A i \in Items : Live(i)' <=> Live(i) /\ i \notin items
  BY <1>1, <1>2, <1>3, Freed
<1>5. MemoryInv'
  BY <1>1, <1>2, <1>3, <1>4 DEF MemoryInv
<1>6. \A i \in Items' : Live(i)' <=> Good(i)'
  BY <1>1, <1>2, <1>4 DEF IInv, CheckInv, Good, Live
<1>7. QuietInv' /\ CheckInv' /\ ThreadInv' /\ ChecksAreExact'
  BY <1>1, <1>6 DEF IInv, QuietInv, CheckInv, ThreadInv, ChecksAreExact, Before
<1> QED
  BY <1>5, <1>7 DEF IInv

LEMMA KnownStep ==
  ASSUME IInv, NEW known \in SUBSET {i \in raw : Live(i)},
         delete_already_cached_items(known)
  PROVE  IInv'
<1> DEFINE items == Known(known)
<1>1. /\ pc = "unique" /\ pc' \in {"done", "formats", "text"}
      /\ pc' = "done" => raw' = {}
      /\ raw' = raw \ items /\ data' = DL_free(items)
      /\ refused' = refused \cup items
      /\ UNCHANGED <<thread, allowed, parsed, stop>>
  BY DEF delete_already_cached_items, Delete, Known
<1>2. items \subseteq raw /\ \A i \in items : Live(i)
  BY DEF Known
<1> HIDE DEF items
<1>3. items \in SUBSET Items /\ MemoryInv
  BY <1>2 DEF IInv, MemoryInv
<1>4. /\ data' = [i \in Items' |-> data'[i]]
      /\ Items' = Items
      /\ \A i \in Items : data'[i] = IF i \in items THEN "freed" ELSE data[i]
      /\ \A i \in Items : Live(i)' <=> Live(i) /\ i \notin items
  BY <1>1, <1>2, <1>3, Freed
<1>5. MemoryInv'
  BY <1>1, <1>2, <1>3, <1>4 DEF MemoryInv
<1>6. \A i \in Items' : Live(i)' <=> Good(i)'
  BY <1>1, <1>2, <1>4 DEF IInv, CheckInv, Good, Live
<1>7. QuietInv' /\ CheckInv' /\ ThreadInv'
  BY <1>1, <1>6 DEF IInv, QuietInv, CheckInv, ThreadInv, Before
<1>8. ASSUME pc' = "done" PROVE ChecksAreExact'
  <2>1. raw' = {} /\ parsed' = {} /\ stop' = FALSE
    BY <1>1, <1>8 DEF IInv, CheckInv
  <2>2. \A i \in Items' : ~Live(i)' /\ ~Good(i)'
    BY <1>5, <1>6, <2>1 DEF MemoryInv
  <2>3. "torn" \notin Range(data)'
    BY <1>5 DEF MemoryInv, Range, Items
  <2>4. {i \in Items' : data'[i] # "null"} \ refused' = {}
    BY <2>2 DEF Good
  <2>5. {i \in Items' : Live(i)'} = {}
    BY <2>2
  <2> QED
    BY <2>1, <2>3, <2>4, <2>5, FirstOfSubset DEF ChecksAreExact
<1> QED
  BY <1>1, <1>5, <1>7, <1>8 DEF IInv, ChecksAreExact

LEMMA StartThreadsStep == IInv /\ StartThreads => IInv'
<1> SUFFICES ASSUME IInv, StartThreads PROVE IInv'
  OBVIOUS
<1>1. /\ pc = "formats" /\ pc' = "joining"
      /\ DOMAIN thread' = {i \in raw : Live(i)}
      /\ UNCHANGED <<raw, data, allowed, parsed, stop, refused>>
  BY DEF StartThreads
<1>2. MemoryInv' /\ Items' = Items
  BY <1>1 DEF IInv, MemoryInv, Items, Live
<1>3. /\ allowed' = {}
      /\ \A i \in Items : Good(i)' <=> i \in DOMAIN thread'
      /\ \A i \in DOMAIN thread' : i \in Items /\ Live(i)'
  BY <1>1 DEF IInv, CheckInv, MemoryInv, Good, Live
<1>4. QuietInv' /\ CheckInv' /\ ThreadInv' /\ ChecksAreExact'
  BY <1>1, <1>2, <1>3 DEF IInv, QuietInv, CheckInv, ThreadInv, ChecksAreExact, Before
<1> QED
  BY <1>2, <1>4 DEF IInv

LEMMA ThreadEndsStep ==
  ASSUME IInv, NEW i \in DOMAIN thread, ThreadEnds(i)
  PROVE  IInv'
<1>1. /\ DOMAIN thread' = DOMAIN thread
      /\ UNCHANGED <<pc, query, raw, data, allowed, parsed, stop, refused>>
  BY DEF ThreadEnds, capo
<1>2. MemoryInv' /\ Items' = Items
  BY <1>1 DEF IInv, MemoryInv, Items, Live
<1>3. QuietInv' /\ CheckInv' /\ ThreadInv'
  BY <1>1, <1>2 DEF IInv, QuietInv, CheckInv, ThreadInv, Before, Good, Live
<1>4. ChecksAreExact'
  BY <1>1, <1>2 DEF IInv, ChecksAreExact, Live
<1> QED
  BY <1>2, <1>3, <1>4 DEF IInv

LEMMA JoinStep == IInv /\ Join => IInv'
<1> SUFFICES ASSUME IInv, Join PROVE IInv'
  OBVIOUS
<1>1. PICK i \in DOMAIN thread :
        /\ allowed' = IF thread[i] = "allowed" THEN allowed \cup {i} ELSE allowed
        /\ refused' = IF thread[i] = "allowed" THEN refused ELSE refused \cup {i}
        /\ thread' = [j \in DOMAIN thread \ {i} |-> thread[j]]
  BY DEF Join
<1>2. /\ pc = "joining" /\ pc' = pc
      /\ UNCHANGED <<raw, data, parsed, stop>>
  BY DEF Join
<1>3. DOMAIN thread' = DOMAIN thread \ {i}
  BY <1>1
<1>4. MemoryInv' /\ Items' = Items
  BY <1>2 DEF IInv, MemoryInv, Items, Live
<1>5. /\ allowed' \cap DOMAIN thread' = {}
      /\ \A j \in allowed' \cup DOMAIN thread' : j \in Items /\ Live(j)'
  BY <1>1, <1>2, <1>3 DEF IInv, ThreadInv, Live
<1>6. \A j \in Items : Good(j)' <=> j \in allowed' \cup DOMAIN thread'
  <2>1. Good(i) /\ i \notin allowed
    BY <1>2 DEF IInv, ThreadInv
  <2>2. CASE thread[i] = "allowed"
    BY <1>1, <1>2, <1>3, <2>1, <2>2 DEF IInv, ThreadInv, Good
  <2>3. CASE thread[i] # "allowed"
    BY <1>1, <1>2, <1>3, <2>1, <2>3 DEF IInv, ThreadInv, Good
  <2> QED
    BY <2>2, <2>3
<1>7. QuietInv' /\ CheckInv' /\ ThreadInv' /\ ChecksAreExact'
  BY <1>2, <1>4, <1>5, <1>6
  DEF IInv, QuietInv, CheckInv, ThreadInv, ChecksAreExact, Before
<1> QED
  BY <1>4, <1>7 DEF IInv

LEMMA FormatsStep == IInv /\ delete_wrong_formats => IInv'
<1> SUFFICES ASSUME IInv, delete_wrong_formats PROVE IInv'
  OBVIOUS
<1> DEFINE items == {i \in raw : Live(i) /\ i \notin allowed}
<1>1. /\ pc = "joining" /\ pc' = "keep" /\ DOMAIN thread = {}
      /\ raw' = raw \ items /\ data' = DL_free(items)
      /\ UNCHANGED <<thread, allowed, parsed, stop, refused>>
  BY DEF delete_wrong_formats, Delete, Joined
<1>2. items \subseteq raw /\ \A i \in items : Live(i)
  OBVIOUS
<1>3. \A i \in raw : i \in items <=> Live(i) /\ i \notin allowed
  OBVIOUS
<1> HIDE DEF items
<1>4. items \in SUBSET Items /\ MemoryInv
  BY <1>2 DEF IInv, MemoryInv
<1>5. /\ data' = [i \in Items' |-> data'[i]]
      /\ Items' = Items
      /\ \A i \in Items : data'[i] = IF i \in items THEN "freed" ELSE data[i]
      /\ \A i \in Items : Live(i)' <=> Live(i) /\ i \notin items
  BY <1>1, <1>2, <1>4, Freed
<1>6. MemoryInv'
  BY <1>1, <1>2, <1>4, <1>5 DEF MemoryInv
<1>7. \A i \in Items : Good(i)' <=> Good(i)
  BY <1>1, <1>2, <1>5 DEF Good, Live
<1>8. \A i \in Items : Live(i) => i \in raw
  BY <1>1, <1>4 DEF IInv, CheckInv, MemoryInv
<1>9. \A i \in Items' : Live(i)' <=> Good(i)'
  BY <1>1, <1>3, <1>5, <1>7, <1>8 DEF IInv, ThreadInv
<1>10. QuietInv' /\ CheckInv' /\ ThreadInv' /\ ChecksAreExact'
  BY <1>1, <1>9 DEF IInv, QuietInv, CheckInv, ThreadInv, ChecksAreExact, Before
<1> QED
  BY <1>6, <1>10 DEF IInv

LEMMA TextStep ==
  ASSUME IInv, NEW invalid \in SUBSET {i \in raw : Live(i)}, CheckText(invalid)
  PROVE  IInv'
<1>1. CASE pc' = "lost" /\ UNCHANGED <<raw, data, refused>>
  <2>1. pc = "text" /\ UNCHANGED <<thread, allowed, parsed, stop>>
    BY DEF CheckText
  <2>2. MemoryInv' /\ Items' = Items
    BY <1>1, <2>1 DEF IInv, MemoryInv, Items, Live
  <2>3. QuietInv' /\ CheckInv' /\ ThreadInv' /\ ChecksAreExact'
    BY <1>1, <2>1 DEF IInv, QuietInv, CheckInv, ThreadInv, ChecksAreExact, Before
  <2> QED
    BY <2>2, <2>3 DEF IInv
<1>2. CASE ~(pc' = "lost" /\ UNCHANGED <<raw, data, refused>>)
  <2> DEFINE items == IF query.force_utf8 THEN invalid ELSE {}
  <2>1. /\ pc = "text" /\ pc' = "keep"
        /\ raw' = raw \ items /\ data' = DL_free(items)
        /\ refused' = refused \cup items
        /\ UNCHANGED <<thread, allowed, parsed, stop>>
    BY <1>2 DEF CheckText, Delete
  <2>2. items \subseteq raw /\ \A i \in items : Live(i)
    OBVIOUS
  <2> HIDE DEF items
  <2>3. items \in SUBSET Items /\ MemoryInv
    BY <2>2 DEF IInv, MemoryInv
  <2>4. /\ data' = [i \in Items' |-> data'[i]]
        /\ Items' = Items
        /\ \A i \in Items : data'[i] = IF i \in items THEN "freed" ELSE data[i]
        /\ \A i \in Items : Live(i)' <=> Live(i) /\ i \notin items
    BY <2>1, <2>2, <2>3, Freed
  <2>5. MemoryInv'
    BY <2>1, <2>2, <2>3, <2>4 DEF MemoryInv
  <2>6. \A i \in Items' : Live(i)' <=> Good(i)'
    BY <2>1, <2>2, <2>4 DEF IInv, CheckInv, Good, Live
  <2>7. QuietInv' /\ CheckInv' /\ ThreadInv' /\ ChecksAreExact'
    BY <2>1, <2>6 DEF IInv, QuietInv, CheckInv, ThreadInv, ChecksAreExact, Before
  <2> QED
    BY <2>5, <2>7 DEF IInv
<1> QED
  BY <1>1, <1>2

LEMMA KeepStep == IInv /\ Keep => IInv'
<1> SUFFICES ASSUME IInv, Keep PROVE IInv'
  OBVIOUS
<1> DEFINE good == {i \in raw : Live(i)}
           room == query.number - query.itemctr
           items == good \ parsed'
<1>1. /\ pc = "keep" /\ pc' = "done"
      /\ parsed' = FirstOf(good, room)
      /\ data' = DL_free(items)
      /\ stop' = (good # parsed')
      /\ raw' = {}
      /\ UNCHANGED <<query, thread, allowed, refused>>
  BY DEF Keep, capo
<1>2. parsed' \subseteq good
  BY <1>1, FirstOfSubset
<1>3. items \subseteq raw /\ \A i \in items : Live(i)
  OBVIOUS
<1>4. ASSUME NEW i \in Items
      PROVE  /\ i \in good <=> Live(i)
             /\ Live(i) <=> Good(i)
             /\ i \in items <=> i \in good /\ i \notin parsed'
  <2>1. Live(i) => i \in raw
    BY <1>1 DEF IInv, CheckInv, MemoryInv
  <2>2. Live(i) <=> Good(i)
    BY <1>1 DEF IInv, CheckInv
  <2> QED
    BY <2>1, <2>2
<1>5. good \subseteq Items
  BY DEF IInv, MemoryInv
<1> HIDE DEF items, good
<1>6. items \in SUBSET Items /\ MemoryInv
  BY <1>3 DEF IInv, MemoryInv
<1>7. /\ data' = [i \in Items' |-> data'[i]]
      /\ Items' = Items
      /\ \A i \in Items : data'[i] = IF i \in items THEN "freed" ELSE data[i]
      /\ \A i \in Items : Live(i)' <=> Live(i) /\ i \notin items
  BY <1>1, <1>3, <1>6, Freed
<1>8. ASSUME NEW i \in Items PROVE Live(i)' <=> i \in parsed'
  BY <1>2, <1>4, <1>7
<1>9. MemoryInv'
  BY <1>1, <1>6, <1>7, <1>8 DEF MemoryInv
<1>10. ChecksAreExact'
  <2>1. ASSUME NEW i \in Items
        PROVE  i \in good <=> data'[i] # "null" /\ i \notin refused'
    <3>1. data'[i] # "null" <=> data[i] # "null"
      BY <1>4, <1>7 DEF Live
    <3> QED
      BY <1>1, <1>4, <3>1 DEF Good
  <2>2. {i \in Items' : data'[i] # "null"} \ refused' = good
    BY <1>5, <1>7, <2>1
  <2>3. {i \in Items' : Live(i)'} = parsed'
    BY <1>2, <1>5, <1>7, <1>8
  <2>4. "torn" \notin Range(data)'
    BY <1>9 DEF MemoryInv, Range, Items
  <2>5. stop' <=> parsed' # good
    BY <1>1
  <2> QED
    BY <1>1, <2>2, <2>3, <2>4, <2>5 DEF ChecksAreExact
<1>11. QuietInv' /\ CheckInv' /\ ThreadInv'
  BY <1>1 DEF IInv, QuietInv, CheckInv, ThreadInv, Before
<1> QED
  BY <1>9, <1>10, <1>11 DEF IInv

LEMMA HandStep == IInv /\ Hand => IInv'
<1> SUFFICES ASSUME IInv, Hand PROVE IInv'
  OBVIOUS
<1>1. /\ pc' = "idle" /\ raw' = {} /\ data' = <<>> /\ thread' = <<>>
      /\ allowed' = {} /\ parsed' = {} /\ refused' = {} /\ stop' = FALSE
  BY DEF Hand
<1>2. Items' = {}
  BY <1>1 DEF Items
<1>3. MemoryInv'
  BY <1>1, <1>2 DEF MemoryInv
<1>4. QuietInv' /\ CheckInv' /\ ThreadInv' /\ ChecksAreExact'
  BY <1>1, <1>2 DEF QuietInv, CheckInv, ThreadInv, ChecksAreExact, Before
<1> QED
  BY <1>3, <1>4 DEF IInv

\* Nothing that the checks look at changes.
LEMMA SameStep ==
  ASSUME IInv, UNCHANGED <<pc, query, checkVars>>
  PROVE  IInv'
<1> USE DEF checkVars
<1>1. Items' = Items /\ MemoryInv'
  BY DEF IInv, MemoryInv, Items, Live
<1>2. QuietInv' /\ CheckInv' /\ ThreadInv'
  BY <1>1 DEF IInv, QuietInv, CheckInv, ThreadInv, Before, Good, Live
<1>3. ChecksAreExact'
  BY <1>1 DEF IInv, ChecksAreExact, Live
<1> QED
  BY <1>1, <1>2, <1>3 DEF IInv

LEMMA Inductive == IInv /\ [Next]_allVars => IInv'
<1> SUFFICES ASSUME IInv, [Next]_allVars PROVE IInv'
  OBVIOUS
<1>1. CASE Ask /\ UNCHANGED checkVars
  <2>1. pc = "idle" /\ pc' \in {"asked", "parsing", "parsed"}
    BY <1>1 DEF Ask
  <2> QED
    BY <1>1, <2>1, Quiet DEF Before
<1>2. CASE Arrive /\ UNCHANGED checkVars
  <2>1. pc = "asked" /\ pc' \in {"parsing", "parsed"}
    BY <1>2 DEF Arrive
  <2> QED
    BY <1>2, <2>1, Quiet DEF Before
<1>3. CASE Parse /\ UNCHANGED checkVars
  <2>1. Walk
    BY <1>3, LyricsWalk, PictureWalk, InfoWalk DEF Parse
  <2> QED
    BY <1>3, <2>1, Quiet DEF Walk, Before
<1>4. CASE SignalExit /\ UNCHANGED checkVars
  BY <1>4, SameStep DEF SignalExit, capo
<1>5. CASE Take
  BY <1>5, TakeStep
<1>6. CASE \E sum \in [raw -> Sum] : delete_dupes(sum)
  BY <1>6, DupesStep
<1>7. CASE \E items \in SUBSET {i \in raw : Live(i)} :
             delete_already_cached_items(items) \/ CheckText(items)
  BY <1>7, KnownStep, TextStep
<1>8. CASE StartThreads \/ Join \/ delete_wrong_formats
  BY <1>8, StartThreadsStep, JoinStep, FormatsStep
<1>9. CASE Keep \/ Hand
  BY <1>9, KeepStep, HandStep
<1>10. CASE Threads
  BY <1>10, ThreadEndsStep DEF Threads
<1>11. CASE UNCHANGED allVars
  BY <1>11, SameStep DEF allVars, vars, capo
<1> QED
  BY <1>1, <1>2, <1>3, <1>4, <1>5, <1>6, <1>7, <1>8, <1>9, <1>10, <1>11
  DEF Next, Check

LEMMA Invariance == Spec => []IInv
<1> QED
  BY Initially, Inductive, PTL DEF Spec

-----------------------------------------------------------------------------
\* For every page, every query and whatever delete_dupes(), the database,
\* the servers of the pictures and the check for UTF-8 say of its items:
\* call_provider_callback() returns the first items that pass, as many as
\* there is room for, frees every other one exactly once, and asks for the
\* other downloads to be stopped just when there was one too many.
THEOREM ChecksExact == Spec => []ChecksAreExact
<1>1. IInv => ChecksAreExact
  BY DEF IInv
<1> QED
  BY <1>1, Invariance, PTL

\* However long the threads of check_all_types_in_url_list() take, each one
\* reads the address of an item that is not freed, and all are joined before
\* the list goes on.
THEOREM ThreadItems == Spec => []ThreadsHaveTheirItem
<1>1. IInv => ThreadsHaveTheirItem
  BY DEF IInv, ThreadInv, ThreadsHaveTheirItem
<1> QED
  BY <1>1, Invariance, PTL
-----------------------------------------------------------------------------
\* Every provider whose address is allocated has free_url set, and no other.
LEMMA Owned ==
  ASSUME NEW q, NEW p \in DOMAIN sources
  PROVE  /\ get_url(q)[p] \in {"none", "offline", "heap", "static"}
         /\ get_url(q)[p] = "heap" => sources[p].free_url
         /\ get_url(q)[p] = "static" => ~sources[p].free_url
BY DEF sources, get_url, MetaDataSource, please_what_type, generic_google_url,
     generic_picsearch_url, generic_musicbrainz_url,
     ainfo_bbcmusic_src, ainfo_bbcmusic_url, ainfo_echonest_src,
     ainfo_echonest_url, ainfo_lastfm_src, ainfo_lastfm_url,
     ainfo_lyricsreg_src, ainfo_lyricsreg_url, albumlist_musicbrainz_src,
     albumlist_musicbrainz_url, backdrops_htbackdrops_src,
     backdrops_htbackdrops_url, cover_coverartarchive_src,
     cover_coverartarchive_url, cover_discogs_src, cover_discogs_url,
     cover_google_src, cover_google_url, cover_jamendo_src, cover_jamendo_url,
     cover_lastfm_src, cover_lastfm_url, cover_lyricswiki_src,
     cover_lyricswiki_url, cover_musicbrainz_src, cover_musicbrainz_url,
     cover_picsearch_src, cover_picsearch_url, cover_rhapsody_src,
     cover_rhapsody_url, cover_slothradio_src, cover_slothradio_url,
     guitartabs_chordie_src, guitartabs_chordie_url, lyrics_chartlyrics_src,
     lyrics_chartlyrics_url, lyrics_elyrics_src, lyrics_elyrics_url,
     lyrics_lipwalk_src, lyrics_lipwalk_url, lyrics_lyrdb_src,
     lyrics_lyrdb_url, lyrics_lyricsreg_src, lyrics_lyricsreg_url,
     lyrics_lyricstime_src, lyrics_lyricstime_url, lyrics_lyricsvip_src,
     lyrics_lyricsvip_url, lyrics_lyricswiki_src, lyrics_lyricswiki_url,
     lyrics_lyrix_src, lyrics_lyrixat_url, lyrics_magistrix_src,
     lyrics_magistrix_url, lyrics_metallum_src, lyrics_metallum_url,
     lyrics_vagalume_src, lyrics_vagalume_url, photos_bbcmusic_src,
     photos_bbcmusic_url, photos_discogs_src, photos_discogs_url,
     photos_flickr_src, photos_flickr_url, photos_google_src,
     photos_google_url, photos_lastfm_src, photos_lastfm_url,
     photos_picsearch_src, photos_picsearch_url, photos_rhapsody_src,
     photos_rhapsody_url, photos_singerpictures_src,
     photos_singerpictures_url, relations_generated_src,
     relations_generated_url, relations_musicbrainz_src,
     relations_musicbrainz_url, review_echonest_src, review_echonest_url,
     review_metallum_src, review_metallum_url, similar_artist_lastfm_src,
     similar_lastfm_url, similar_song_lastfm_src, similar_song_lastfm_url,
     tags_musicbrainz_src, tags_musicbrainz_url, tracklist_musicbrainz_src,
     tracklist_musicbrainz_url

UrlInv == provider \in Provider /\ url \in {"none", "static", "freed"}

LEMMA UrlInvariance == Spec => []UrlInv
<1>1. CheckInit => UrlInv
  BY DEF CheckInit, Init, UrlInv
<1>2. UrlInv /\ [Next]_allVars => UrlInv'
  <2> SUFFICES ASSUME UrlInv, [Next]_allVars PROVE UrlInv'
    OBVIOUS
  <2>1. CASE Ask
    <3> DEFINE memory == get_url(query)[provider]
    <3>1. /\ url' = IF memory \in {"none", "offline"} THEN "none"
                    ELSE IF ~sources[provider].free_url THEN memory
                    ELSE IF memory = "heap" THEN "freed" ELSE "torn"
          /\ provider' = provider
      BY <2>1 DEF Ask
    <3>2. provider \in DOMAIN sources
      BY ProviderAssumption DEF UrlInv
    <3>3. /\ memory \in {"none", "offline", "heap", "static"}
          /\ memory = "heap" => sources[provider].free_url
          /\ memory = "static" => ~sources[provider].free_url
      BY <3>2, Owned
    <3> HIDE DEF memory
    <3> QED
      BY <3>1, <3>3 DEF UrlInv
  <2>2. CASE Parse
    BY <2>2, LyricsWalk, PictureWalk, InfoWalk DEF Parse, Walk, UrlInv
  <2>3. CASE Arrive \/ SignalExit
    BY <2>3 DEF Arrive, SignalExit, capo, UrlInv
  <2>4. CASE Take \/ StartThreads \/ Join \/ delete_wrong_formats \/ Keep \/ Hand
    BY <2>4
    DEF Take, StartThreads, Join, delete_wrong_formats, Keep, Hand, capo, UrlInv
  <2>5. CASE \E sum \in [raw -> Sum] : delete_dupes(sum)
    BY <2>5 DEF delete_dupes, capo, UrlInv
  <2>6. CASE \E items \in SUBSET {i \in raw : Live(i)} :
               delete_already_cached_items(items) \/ CheckText(items)
    BY <2>6 DEF delete_already_cached_items, CheckText, capo, UrlInv
  <2>7. CASE Threads
    BY <2>7 DEF Threads, ThreadEnds, capo, UrlInv
  <2>8. CASE UNCHANGED allVars
    BY <2>8 DEF allVars, vars, capo, UrlInv
  <2> QED
    BY <2>1, <2>2, <2>3, <2>4, <2>5, <2>6, <2>7, <2>8 DEF Next, Check
<1> QED
  BY <1>1, <1>2, PTL DEF Spec

\* Whichever provider is asked, whatever the query is about: the memory of
\* its address is given back when the address was copied, and no literal is
\* ever passed to g_free().
THEOREM AddressesHaveOneOwner == Spec => []AddressesOwned
<1>1. UrlInv => AddressesOwned
  BY DEF UrlInv, AddressesOwned
<1> QED
  BY <1>1, UrlInvariance, PTL
=============================================================================
