--------------------------- MODULE InfoProviders ----------------------------
(***************************************************************************)
(* The providers of src/lib/intern/ainfo, albumlist, review, relations,    *)
(* similar_artist, similar_song, tags and tracklist that                   *)
(* register_plugins.c registers, with common/musicbrainz.c that two of     *)
(* them share.                                                             *)
(***************************************************************************)
EXTENDS Parsing

ainfo_bbcmusic_parse ==
  /\ Parses("ainfo_bbcmusic")
  /\ LET artist == mbid_parse_data("<artist ", "<name>")
     IN  Return(Fetched(Is(artist, "live"), artist))

ainfo_bbcmusic_url == "static"
ainfo_bbcmusic_src == MetaDataSource("bbcmusic", "b", "ainfo", 95, 85, FALSE)

\* Every "text" of the answer that is long enough, however many there are.
ainfo_echonest_parse ==
  /\ Parses("ainfo_echonest")
  /\ LET text == Find("text", at + 1)
     IN  IF text # 0 THEN Proceed(text, Found(Is(text, "long"), text))
         ELSE Return({list})

ainfo_echonest_url == "static"
ainfo_echonest_src == MetaDataSource("echonest", "e", "ainfo", 95, 85, FALSE)

\* The end is looked for from the start of the page, CDATA from <content>:
\* nothing makes the one follow the other before the text between them is
\* copied.
ainfo_lastfm_parse ==
  /\ Parses("ainfo_lastfm")
  /\ LET content == Find("<content>", 1)
         credits == Find("User-contributed text", 1)
         endin == IF credits # 0 THEN credits ELSE Find("</content>", 1)
         cdata == Find("<![CDATA[", content)
         begin == IF cdata # 0 THEN cdata ELSE content
     IN  IF content # 0 /\ endin # 0 /\ endin < begin THEN Stray
         ELSE Return(Found(content # 0 /\ endin # 0, begin))

ainfo_lastfm_url == "heap"
ainfo_lastfm_src ==
  [MetaDataSource("lastfm", "l", "ainfo", 85, 85, TRUE) EXCEPT !.lang_aware = TRUE]

ainfo_lyricsreg_parse ==
  /\ Parses("ainfo_lyricsreg")
  /\ LET start == Find("<div id=content", 1)
         option == Find("Biography:", start)
         begin == IF option # 0 THEN option ELSE start
     IN  Return(Found(/\ start # 0 /\ Is(begin, "long")
                      /\ Find("</div>", begin) # 0, begin))

ainfo_lyricsreg_url == "static"
ainfo_lyricsreg_src == MetaDataSource("lyricsreg", "r", "ainfo", 35, 50, FALSE)

\* Official releases of the artist, each title once (is_in_list).
albumlist_musicbrainz_parse ==
  /\ Parses("albumlist_musicbrainz")
  /\ LET node == Find("<release ", at + 1)
         title == Find("<title>", node)
         known == {page[i].text : i \in Range(list)}
     IN  While(node, Found(/\ Is(node, "official") /\ Asked("<name>", node)
                           /\ title # 0 /\ page[title].text \notin known,
                           title))

albumlist_musicbrainz_url == "static"
albumlist_musicbrainz_src ==
  MetaDataSource("musicbrainz", "m", "albumlist", 95, 95, FALSE)

\* Each object closes the one before it: what was read last of url, summary
\* and release makes a review, and so it does once more at the end.
review_echonest_parse ==
  /\ Parses("review_echonest")
  /\ LET object == Find("{", at + 1)
         i == IF object # 0 THEN object ELSE Len(page)
         summary == LastUpTo("summary", i)
         lists == Found(/\ LastUpTo("url", i) # 0
                        /\ Is(LastUpTo("release", i), "asked")
                        /\ Is(summary, "long"), summary)
     IN  IF object # 0 THEN Proceed(object, lists) ELSE Return(lists)

review_echonest_url == "static"
review_echonest_src == MetaDataSource("echonest", "e", "review", 70, 85, FALSE)

\* Variant: that there is no other link is overlooked.
review_metallum_last ==
  /\ Parses("review_metallum")
  /\ LET node == Find("<a href=", at + 1)
         review == FindWithin("<div class=reviewContent", "<a href=", at + 1)
         after == Find("<a href=", node + 1)
         odd == (tries + 1) % 2 # 0
     IN  IF More /\ review # 0
         THEN Proceed(review, Found(TRUE, review))
         ELSE IF node = 0 THEN Return({list})
         ELSE Try(after - 1, {list}) \/ (~odd /\ Try(node, {list}))

\* Every second link leads to a page with reviews (parse_review_site); only
\* there is it asked whether to continue.
review_metallum_parse ==
  /\ Parses("review_metallum")
  /\ LET node == Find("<a href=", at + 1)
         review == FindWithin("<div class=reviewContent", "<a href=", at + 1)
         after == Find("<a href=", node + 1)
         skipped == IF after = 0 THEN Len(page) ELSE after - 1
         odd == (tries + 1) % 2 # 0
     IN  IF More /\ review # 0
         THEN Proceed(review, Found(TRUE, review))
         ELSE IF node = 0 THEN Return({list})
         ELSE Try(skipped, {list}) \/ (~odd /\ Try(node, {list}))

review_metallum_url == "static"
review_metallum_src == MetaDataSource("metallum", "e", "review", 95, 70, FALSE)

-----------------------------------------------------------------------------
\* please_what_type(): what the query is about.
please_what_type(q) ==
  IF "title" \in q.names THEN (IF q.names = {"album", "title"} THEN "none"
                               ELSE "track")
  ELSE IF "album" \in q.names THEN "release"
  ELSE IF "artist" \in q.names THEN "artist"
  ELSE "none"

generic_musicbrainz_url(q) ==
  IF please_what_type(q) = "none" THEN "none" ELSE "heap"

\* get_mbid_from_xml(), called until the page of information of an entity
\* with the asked name arrives: that one, or the next one, and so on.  The
\* marker kept for the next call is computed from NULL when the last entity of
\* the page was looked at and found to be the one.
generic_musicbrainz_parse ==
  LET entities == {n \in (at + 1)..Len(page) : page[n].mark = "<entity "}
      named == {n \in entities : Asked("<name>", n)}
      void == \/ at # 0 /\ entities = {}
              \/ named # {} /\ Max(named) = Max(entities)
  IN  \/ /\ at' \in named
         /\ tries' = 0
         /\ UNCHANGED <<pc, list, exit, capo>>
      \/ IF void THEN Stray ELSE Return({list})

\* The next token of the page of information the parser is in, 0 outside.
info_node(mark) == IF at = 0 THEN 0 ELSE FindWithin(mark, "<entity ", at + 1)

\* The relations of each entity, counted anew for each.
relations_musicbrainz_parse ==
  /\ Parses("relations_musicbrainz")
  /\ LET node == info_node("<relation ")
     IN  IF continue_search(tries) /\ node # 0
         THEN IF Is(node, "live") THEN Try(node, Found(TRUE, node))
              ELSE Proceed(node, {list})
         ELSE IF More THEN generic_musicbrainz_parse
         ELSE Return({list})

relations_musicbrainz_url(q) == generic_musicbrainz_url(q)
relations_musicbrainz_src ==
  MetaDataSource("musicbrainz", "m", "relations", 80, 80, TRUE)

\* Without a page: search addresses for what the query names.
relations_generated_parse ==
  /\ Parses("relations_generated")
  /\ LET first == CASE {"album", "title"} \subseteq query.names -> 1
                    [] "album" \in query.names /\ "title" \notin query.names
                         -> 2
                    [] OTHER -> 4
     IN  Return({[i \in 1..(7 - first) |-> first + i - 1]})

relations_generated_url == "offline"
relations_generated_src ==
  MetaDataSource("generated", "g", "relations", 100, 100, FALSE)

\* All tags of each entity: inside its page nothing is counted.
tags_musicbrainz_parse ==
  /\ Parses("tags_musicbrainz")
  /\ LET node == info_node("<tag")
     IN  IF node # 0 THEN Proceed(node, Found(Is(node, "live"), node))
         ELSE IF More THEN generic_musicbrainz_parse
         ELSE Return({list})

tags_musicbrainz_url(q) == generic_musicbrainz_url(q)
tags_musicbrainz_src == MetaDataSource("musicbrainz", "m", "tags", 90, 90, TRUE)

-----------------------------------------------------------------------------
\* Each round reverses the whole list, not only the last one.
similar_lastfm_parse ==
  /\ Parses("similar_artist_lastfm")
  /\ LET node == Find("<artist>", at + 1)
     IN  While(node, {Reverse(<<node>> \o list)})

similar_lastfm_url == "static"
similar_artist_lastfm_src ==
  MetaDataSource("lastfm", "l", "similar_artists", 90, 90, FALSE)

\* Variant: begin is moved behind the first <name> only when there are two.
similar_song_lastfm_again ==
  /\ Parses("similar_song_lastfm")
  /\ LET begin == Find("<track>", at + (IF list = <<>> THEN 1 ELSE 0))
         artist == Find("<artist>", begin)
     IN  While(begin, Found(/\ Find("<name>", begin) # 0
                            /\ artist # 0 /\ Find("<name>", artist) # 0, begin))

\* A name for the track, and one behind <artist>.
similar_song_lastfm_parse ==
  /\ Parses("similar_song_lastfm")
  /\ LET begin == Find("<track>", at + 1)
         artist == Find("<artist>", begin)
     IN  While(begin, Found(/\ Find("<name>", begin) # 0
                            /\ artist # 0 /\ Find("<name>", artist) # 0, begin))

similar_song_lastfm_url == "static"
similar_song_lastfm_src ==
  MetaDataSource("lastfm", "l", "similar_songs", 90, 90, FALSE)

\* The first release leads to its tracks.
tracklist_musicbrainz_parse ==
  /\ Parses("tracklist_musicbrainz") /\ at = 0
  /\ LET id == Find("id=", 1)
     IN  Return({list}) \/ (id # 0 /\ Proceed(id, {list}))

\* Variant: the next title is looked for where the last one was found.
traverse_xml_stays ==
  /\ Parses("tracklist_musicbrainz") /\ at # 0
  /\ LET beg == IF page[at].mark = "id=" THEN Find("<title>", at + 1) ELSE at
         title == Find("<title>", beg)
         dy == Find("</duration>", title)
     IN  IF More /\ beg = 0 THEN Stray
         ELSE IF ~More \/ title = 0 THEN Return({Reverse(list)})
         ELSE Proceed(IF dy = 0 THEN title ELSE dy, Found(dy # 0, title))

\* The title of the album is skipped, and should be there.  Of every other one
\* the search goes on behind the next duration, wherever that is, or behind
\* the title itself, which is not taken when there is none.
traverse_xml ==
  /\ Parses("tracklist_musicbrainz") /\ at # 0
  /\ LET beg == IF page[at].mark = "id=" THEN Find("<title>", at + 1) ELSE at
         title == Find("<title>", beg + 1)
         dy == Find("</duration>", title)
     IN  IF More /\ beg = 0 THEN Stray
         ELSE IF ~More \/ title = 0 THEN Return({Reverse(list)})
         ELSE Proceed(IF dy = 0 THEN title ELSE dy, Found(dy # 0, title))

tracklist_musicbrainz_url == "static"
tracklist_musicbrainz_src ==
  MetaDataSource("musicbrainz", "m", "tracklist", 90, 90, FALSE)

-----------------------------------------------------------------------------
InfoParse ==
  \/ ainfo_bbcmusic_parse \/ ainfo_echonest_parse \/ ainfo_lastfm_parse
  \/ ainfo_lyricsreg_parse \/ albumlist_musicbrainz_parse
  \/ review_echonest_parse \/ review_metallum_parse
  \/ relations_musicbrainz_parse \/ relations_generated_parse
  \/ tags_musicbrainz_parse \/ similar_lastfm_parse
  \/ similar_song_lastfm_parse \/ tracklist_musicbrainz_parse \/ traverse_xml
=============================================================================
