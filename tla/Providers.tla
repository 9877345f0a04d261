----------------------------- MODULE Providers ------------------------------
(***************************************************************************)
(* A provider is asked for the address of its page and, when the page      *)
(* arrives, given the page to parse (execute_query() and                   *)
(* call_provider_callback(), src/lib/core.c), while any thread may call    *)
(* glyr_signal_exit().  Checks.tla has what happens to the list.           *)
(***************************************************************************)
EXTENDS LyricsProviders, PictureProviders, InfoProviders

\* register_provider_plugins(), without the two that have no page at all and
\* are modelled elsewhere or not (local, musictree).
sources ==
  [ainfo_lastfm |-> ainfo_lastfm_src, ainfo_lyricsreg |-> ainfo_lyricsreg_src,
   ainfo_bbcmusic |-> ainfo_bbcmusic_src,
   ainfo_echonest |-> ainfo_echonest_src,
   albumlist_musicbrainz |-> albumlist_musicbrainz_src,
   cover_coverartarchive |-> cover_coverartarchive_src,
   cover_discogs |-> cover_discogs_src, cover_google |-> cover_google_src,
   cover_lastfm |-> cover_lastfm_src, cover_jamendo |-> cover_jamendo_src,
   cover_lyricswiki |-> cover_lyricswiki_src,
   cover_rhapsody |-> cover_rhapsody_src,
   cover_picsearch |-> cover_picsearch_src,
   cover_musicbrainz |-> cover_musicbrainz_src,
   cover_slothradio |-> cover_slothradio_src,
   lyrics_lipwalk |-> lyrics_lipwalk_src, lyrics_lyrdb |-> lyrics_lyrdb_src,
   lyrics_lyricsreg |-> lyrics_lyricsreg_src,
   lyrics_lyricstime |-> lyrics_lyricstime_src,
   lyrics_lyricsvip |-> lyrics_lyricsvip_src,
   lyrics_lyricswiki |-> lyrics_lyricswiki_src,
   lyrics_lyrix |-> lyrics_lyrix_src,
   lyrics_magistrix |-> lyrics_magistrix_src,
   lyrics_metallum |-> lyrics_metallum_src,
   lyrics_elyrics |-> lyrics_elyrics_src,
   lyrics_vagalume |-> lyrics_vagalume_src,
   lyrics_chartlyrics |-> lyrics_chartlyrics_src,
   photos_flickr |-> photos_flickr_src, photos_google |-> photos_google_src,
   photos_lastfm |-> photos_lastfm_src, photos_discogs |-> photos_discogs_src,
   photos_singerpictures |-> photos_singerpictures_src,
   photos_rhapsody |-> photos_rhapsody_src,
   photos_picsearch |-> photos_picsearch_src,
   photos_bbcmusic |-> photos_bbcmusic_src,
   relations_musicbrainz |-> relations_musicbrainz_src,
   review_metallum |-> review_metallum_src,
   review_echonest |-> review_echonest_src,
   similar_artist_lastfm |-> similar_artist_lastfm_src,
   similar_song_lastfm |-> similar_song_lastfm_src,
   tags_musicbrainz |-> tags_musicbrainz_src,
   tracklist_musicbrainz |-> tracklist_musicbrainz_src,
   guitartabs_chordie |-> guitartabs_chordie_src,
   backdrops_htbackdrops |-> backdrops_htbackdrops_src,
   relations_generated |-> relations_generated_src]

\* item->get_url (query): whose memory the address is.
get_url(q) ==
  [ainfo_lastfm |-> ainfo_lastfm_url, ainfo_lyricsreg |-> ainfo_lyricsreg_url,
   ainfo_bbcmusic |-> ainfo_bbcmusic_url,
   ainfo_echonest |-> ainfo_echonest_url,
   albumlist_musicbrainz |-> albumlist_musicbrainz_url,
   cover_coverartarchive |-> cover_coverartarchive_url,
   cover_discogs |-> cover_discogs_url, cover_google |-> cover_google_url,
   cover_lastfm |-> cover_lastfm_url, cover_jamendo |-> cover_jamendo_url,
   cover_lyricswiki |-> cover_lyricswiki_url(q),
   cover_rhapsody |-> cover_rhapsody_url,
   cover_picsearch |-> cover_picsearch_url,
   cover_musicbrainz |-> cover_musicbrainz_url,
   cover_slothradio |-> cover_slothradio_url,
   lyrics_lipwalk |-> lyrics_lipwalk_url, lyrics_lyrdb |-> lyrics_lyrdb_url,
   lyrics_lyricsreg |-> lyrics_lyricsreg_url,
   lyrics_lyricstime |-> lyrics_lyricstime_url,
   lyrics_lyricsvip |-> lyrics_lyricsvip_url,
   lyrics_lyricswiki |-> lyrics_lyricswiki_url,
   lyrics_lyrix |-> lyrics_lyrixat_url,
   lyrics_magistrix |-> lyrics_magistrix_url,
   lyrics_metallum |-> lyrics_metallum_url,
   lyrics_elyrics |-> lyrics_elyrics_url,
   lyrics_vagalume |-> lyrics_vagalume_url,
   lyrics_chartlyrics |-> lyrics_chartlyrics_url,
   photos_flickr |-> photos_flickr_url(q),
   photos_google |-> photos_google_url, photos_lastfm |-> photos_lastfm_url,
   photos_discogs |-> photos_discogs_url,
   photos_singerpictures |-> photos_singerpictures_url,
   photos_rhapsody |-> photos_rhapsody_url(q),
   photos_picsearch |-> photos_picsearch_url,
   photos_bbcmusic |-> photos_bbcmusic_url,
   relations_musicbrainz |-> relations_musicbrainz_url(q),
   review_metallum |-> review_metallum_url,
   review_echonest |-> review_echonest_url,
   similar_artist_lastfm |-> similar_lastfm_url,
   similar_song_lastfm |-> similar_song_lastfm_url,
   tags_musicbrainz |-> tags_musicbrainz_url(q),
   tracklist_musicbrainz |-> tracklist_musicbrainz_url,
   guitartabs_chordie |-> guitartabs_chordie_url,
   backdrops_htbackdrops |-> backdrops_htbackdrops_url,
   relations_generated |-> relations_generated_url]

ImageTypes == {"cover", "photos", "backdrops"}

ASSUME ProviderAssumption == Provider \subseteq DOMAIN sources

-----------------------------------------------------------------------------
Init ==
  /\ pc = "idle"
  /\ provider \in Provider
  /\ query \in Query
  /\ page = <<>> /\ list = <<>>
  /\ at = 0 /\ tries = 0
  /\ url = "none"
  /\ exit = FALSE

\* The address is looked up; the copy that prepare_url() makes of it is what
\* is downloaded, so that the address itself can go.
Ask ==
  /\ pc = "idle"
  /\ LET memory == get_url(query)[provider] IN
       /\ pc' = CASE memory = "none" -> "parsed"
                  [] memory # "offline" -> "asked"
                  [] query.itemctr < query.number -> "parsing"
                  [] OTHER -> "parsed"
       /\ url' = IF memory \in {"none", "offline"} THEN "none"
                 ELSE IF ~sources[provider].free_url THEN memory
                 ELSE IF memory = "heap" THEN "freed" ELSE "torn"
  /\ query' = [query EXCEPT !.imagejob = sources[provider].type \in ImageTypes]
  /\ UNCHANGED <<provider, page, at, tries, list, exit>>

\* Without limits there is no size that does not fit.
Sensible(p) ==
  query.img_min = -1 /\ query.img_max = -1 =>
    \A i \in 1..Len(p) : p[i].text # "misfit"

\* The page was downloaded; or the download came to nothing, or others have
\* found enough by now and the page is not looked at.
Arrive ==
  /\ pc = "asked"
  /\ \/ /\ query.itemctr < query.number
        /\ page' \in {p \in Site[provider] : Sensible(p)}
        /\ pc' = "parsing"
     \/ /\ pc' = "parsed"
        /\ UNCHANGED page
  /\ UNCHANGED <<provider, query, at, tries, list, url, exit>>

Parse == LyricsParse \/ PictureParse \/ InfoParse

\* glyr_signal_exit()
SignalExit ==
  /\ pc # "lost"
  /\ exit' = TRUE
  /\ UNCHANGED <<pc, at, tries, list, capo>>

-----------------------------------------------------------------------------
\* Parsers with a loop that does not ask continue_search() at all, or counts
\* something else than the items of its list.
Unlimited == {"cover_coverartarchive", "ainfo_echonest", "review_echonest",
              "relations_musicbrainz", "relations_generated",
              "tags_musicbrainz"}

\* The one item more that is made after the loop.
Bonus == IF provider = "cover_rhapsody" THEN 1 ELSE 0

Room ==
  LET wanted == IF Limit > query.itemctr THEN Limit - query.itemctr ELSE 0
  IN  IF query.plugmax = -1 \/ wanted < query.plugmax THEN wanted
      ELSE query.plugmax

\* A provider never returns more items than there is room for in the query,
\* itself and all others together, nor more than glyr_opt_plugmax() allows:
\* but the single item of a page is taken unseen, as is the first of
\* slothradio.
NotBeyondLimit ==
  provider \notin Unlimited =>
    Len(list) <= Bonus + (IF Room = 0 THEN 1 ELSE Room)

\* The page is cut into entries, each of them in one piece, all with the same
\* fields.
Uniform ==
  LET places == 1..Len(page)
      marks(k) == {page[j].mark : j \in {i \in places : page[i].entry = k}}
      entries == {page[i].entry : i \in places} \ {0}
  IN  /\ \A k, l \in entries : marks(k) = marks(l)
      /\ \A i, j, k \in places :
           i <= j /\ j <= k /\ page[i].entry = page[k].entry /\ page[i].entry # 0
             => page[j].entry = page[i].entry

\* The parsers that take what stands somewhere behind a node and go on behind
\* the node, whatever is between the two.
Behind ==
  [lyrics_chartlyrics |-> [node |-> "<SearchLyricResult>", field |-> "<LyricId>"],
   lyrics_lyrix |-> [node |-> "<!-- start of result", field |-> "<a href='/t/"],
   lyrics_magistrix |-> [node |-> "<div class='title'", field |-> "&ndash;"],
   cover_lastfm |-> [node |-> "<album>", field |-> "<image size="],
   cover_lyricswiki |-> [node |-> "timestamp=", field |-> "url="],
   cover_rhapsody |-> [node |-> "<img ", field |-> "src="],
   photos_rhapsody |-> [node |-> "<img ", field |-> "src="],
   cover_slothradio |-> [node |-> "<!-- RESULT ITEM", field |-> "img src="],
   backdrops_htbackdrops |-> [node |-> "<image>", field |-> "<id>"]]

\* None of these literals stands outside of the entries, or before the node of
\* its entry.
Regular(node, literals) ==
  LET places == 1..Len(page)
  IN  /\ Uniform
      /\ \A i \in places : page[i].mark \in literals => page[i].entry # 0
      /\ \A i, j \in places :
           /\ page[i].mark = node /\ page[j].mark \in literals
           /\ page[i].entry = page[j].entry
           => i <= j

\* So that what is found behind a node is its own.
Tidy ==
  provider \in DOMAIN Behind =>
    LET node == Behind[provider].node
    IN  Regular(node, {node, Behind[provider].field})

\* Nothing is taken twice: the search for the next entry never starts before
\* the last one, and what stands behind a node is its own if the page is as
\* it should be.  But flickr's does, and echonest takes the last review once
\* more when another object ends the page.
NoneTwice ==
  provider \notin {"photos_flickr", "review_echonest"} /\ Tidy =>
    \A i, j \in 1..Len(list) : list[i] = list[j] => i = j

\* What a parser wants of an entry that begins with the node before it takes
\* the field: words of some literals.  singerpictures looks at sizes only if
\* there are limits.
Form(node, field, words) == [node |-> node, field |-> field, words |-> words]

BbcForm == Form("<artist ", "<artist ", {<<"<artist ", "live">>, <<"<name>", "asked">>})
GoogleForm == Form("/imgres?imgurl=", "/imgres?imgurl=", {<<"&amp;usg=", "fits">>})
DiscogsForm ==
  Form("\"thumb\":", "\"thumb\":", {<<"\"thumb\":", "live">>, <<"\"title\":", "asked">>})
RhapsodyForm == Form("<img ", "src=", {<<"width=", "fits">>})

Wants ==
  [lyrics_chartlyrics |->
     Form("<SearchLyricResult>", "<LyricId>",
          {<<"<Artist>", "asked">>, <<"<Song>", "asked">>, <<"<LyricId>", "live">>}),
   lyrics_elyrics |->
     Form("<div class='ly'", "<div class='ly'", {<<"<div class='ly'", "lyrics">>}),
   lyrics_lipwalk |->
     Form("<li class=", "<li class=",
          {<<"<li class=", "live">>, <<"description", "asked">>}),
   lyrics_lyrix |->
     Form("<a href='/t/", "<a href='/t/",
          {<<"<a href='/t/", "live">>, <<"title", "asked">>}),
   lyrics_vagalume |-> Form("type", "text", {<<"type", "exact">>}),
   guitartabs_chordie |->
     Form("<a class=", "<a class=", {<<"<a class=", "live">>, <<"name", "asked">>}),
   cover_coverartarchive |->
     Form("<release ", "\"image\":", {<<"<title>", "asked">>}),
   cover_discogs |-> DiscogsForm, cover_google |-> GoogleForm,
   cover_jamendo |-> Form("\n", "\n", {<<"\n", "asked">>}),
   cover_lastfm |->
     Form("<album>", "<image size=",
          {<<"<artist>", "asked">>, <<"<name>", "asked">>, <<"<image size=", "live">>}),
   cover_lyricswiki |-> Form("_-_", "url=", {<<"_-_", "asked">>}),
   cover_musicbrainz |->
     Form("<release ", "<release ",
          {<<"<release ", "live">>, <<"<title>", "asked">>, <<"<name>", "asked">>}),
   cover_rhapsody |-> RhapsodyForm,
   cover_slothradio |->
     Form("<!-- RESULT ITEM", "img src=", {<<"width=", "fits">>}),
   photos_bbcmusic |-> BbcForm, photos_discogs |-> DiscogsForm, photos_google |-> GoogleForm,
   photos_lastfm |-> Form("<size name=", "<size name=", {<<"<size name=", "fits">>}),
   photos_rhapsody |-> RhapsodyForm,
   photos_singerpictures |->
     Form("<img src=", "<img src=",
          IF query.img_min = -1 /\ query.img_max = -1 THEN {}
          ELSE {<<"</a><br>", "fits">>}),
   backdrops_htbackdrops |->
     Form("<image>", "<id>", {<<"<dimensions>", "fits">>, <<"<mb_name>", "asked">>}),
   ainfo_bbcmusic |-> BbcForm,
   albumlist_musicbrainz |->
     Form("<release ", "<title>", {<<"<release ", "official">>, <<"<name>", "asked">>}),
   review_echonest |-> Form("{", "summary", {<<"release", "asked">>}),
   relations_musicbrainz |-> Form("<entity ", "<relation ", {<<"<name>", "asked">>}),
   tags_musicbrainz |-> Form("<entity ", "<tag", {<<"<name>", "asked">>})]

\* The entries have each of these literals once; not all braces of echonest's
\* page are those of a review, and lyricswiki's address is behind a timestamp.
WellFormed ==
  LET form == Wants[provider]
      compared == {w[1] : w \in form.words}
      passed == CASE provider = "review_echonest" -> {}
                  [] provider = "cover_lyricswiki" -> {form.node, "timestamp="}
                  [] OTHER -> {form.node}
  IN  /\ Tidy
      /\ Regular(form.node, compared \cup {form.field} \cup passed)
      /\ \A i, j \in 1..Len(page) :
           /\ page[i].mark \in compared /\ page[j].mark = page[i].mark
           /\ page[i].entry = page[j].entry
           => i = j

\* The entry of this place is what the query asked for.
AsAsked(place) ==
  \A i \in 1..Len(page), w \in Wants[provider].words :
    page[i].entry = page[place].entry /\ page[i].mark = w[1] => page[i].text = w[2]

\* Nothing is taken from an entry about someone else, or of a picture of the
\* wrong size: what strstr() finds behind an entry's beginning belongs to that
\* entry.  lyricstime looks at the name of the entry before, and lyricswiki
\* and magistrix have no names in their entries.
OnlyAsked ==
  provider \in DOMAIN Wants /\ WellFormed =>
    \A item \in Range(list) :
      LET place == IF item < 0 THEN -item ELSE item
      IN  place # 0 /\ page[place].mark = Wants[provider].field => AsAsked(place)

\* free_url is set for the providers that allocate their address, and only
\* for them: none is leaked, and no literal is freed.
AddressesOwned == url \notin {"heap", "torn"}

\* A parser that has found something and is told to stop adds nothing to it.
StopsAdding ==
  [][exit /\ pc = "parsing" /\ list # <<>>
       /\ provider \notin Unlimited \cup {"cover_rhapsody"}
     => Len(list') <= Len(list)]_vars
=============================================================================
