-------------------------- MODULE LyricsProviders ---------------------------
(***************************************************************************)
(* The providers of src/lib/intern/lyrics and src/lib/intern/guitartabs    *)
(* that register_plugins.c registers: where they look (get_url), how their *)
(* parsers walk over the page, and what the rest of the library knows of   *)
(* them.  Addresses lead to pages with the text ("live") or without it.    *)
(***************************************************************************)
EXTENDS Parsing

-----------------------------------------------------------------------------
\* Variant: the title of the song is not compared.
lyrics_chartlyrics_untitled ==
  /\ Parses("lyrics_chartlyrics")
  /\ LET node == Find("<SearchLyricResult>", at + 1)
         id == Find("<LyricId>", node)
     IN  While(node, Fetched(Asked("<Artist>", node) /\ Is(id, "live"), id))

\* Names of a result node first; a nested page has the text.
lyrics_chartlyrics_parse ==
  /\ Parses("lyrics_chartlyrics")
  /\ LET node == Find("<SearchLyricResult>", at + 1)
         id == Find("<LyricId>", node)
     IN  While(node, Fetched(/\ Asked("<Artist>", node)
                             /\ Asked("<Song>", node)
                             /\ Is(id, "live"), id))

lyrics_chartlyrics_url == "static"
lyrics_chartlyrics_src ==
  MetaDataSource("chartlyrics", "c", "lyrics", 75, 25, FALSE)

\* The first lyrics box, unless it only says that they were removed.
lyrics_elyrics_parse ==
  /\ Parses("lyrics_elyrics")
  /\ LET begin == Find("<div class='ly'", 1)
     IN  Return(Found(Is(begin, "lyrics") /\ Find("</div>", begin) # 0, begin))

lyrics_elyrics_url == "heap"
lyrics_elyrics_src == MetaDataSource("elyrics", "e", "lyrics", 75, 75, TRUE)

\* The song's page itself, where a missing text becomes a NULL item, or the
\* page of search results.
lyrics_lipwalk_parse ==
  /\ Parses("lyrics_lipwalk")
  /\ IF Find("<title>Search results", 1) = 0
     THEN LET start == Find("</script>", 1)
              good == Is(start, "lyrics") /\ Find("<h5", start) # 0
          IN  Return({<<IF good THEN start ELSE 0>> \o list})
     ELSE LET node == Find("<li class=", at + 1)
          IN  While(node, Fetched(/\ Is(node, "live")
                                  /\ Asked("description", node), node))

lyrics_lipwalk_url == "static"
lyrics_lipwalk_src == MetaDataSource("lipwalk", "z", "lyrics", 80, 60, FALSE)

\* The id before the first backslash leads to the text.
lyrics_lyrdb_parse ==
  /\ Parses("lyrics_lyrdb")
  /\ LET slash == Find("\\", 1) IN Return(Fetched(Is(slash, "live"), slash))

lyrics_lyrdb_url == "static"
lyrics_lyrdb_src == MetaDataSource("lyrdb", "d", "lyrics", 75, 75, FALSE)

lyrics_lyricsreg_parse ==
  /\ Parses("lyrics_lyricsreg")
  /\ LET start == Find("</div><div", 1)
     IN  Return(Found(start # 0 /\ Find("<a href=", start) # 0, start))

lyrics_lyricsreg_url == "static"
lyrics_lyricsreg_src ==
  MetaDataSource("lyricsreg", "r", "lyrics", 42, 90, FALSE)

\* Links stand behind the first </div>.  validate_artist() begins at the
\* backpointer, which is the node before: the name found is that one's.
lyrics_lyricstime_parse ==
  /\ Parses("lyrics_lyricstime")
  /\ LET node == Find("<li><a href=", at + 1)
     IN  IF node # 0 /\ Find("</div>", 1) >= node THEN Return({list})
         ELSE While(node, Fetched(/\ Asked("<b>", at)
                                  /\ Is(node, "live"), node))

lyrics_lyricstime_url == "static"
lyrics_lyricstime_src ==
  MetaDataSource("lyricstime", "y", "lyrics", 70, 60, FALSE)

lyrics_lyricsvip_parse ==
  /\ Parses("lyrics_lyricsvip")
  /\ LET start == Find("phone2.gif", 1)
     IN  Return(Found(start # 0 /\ Find("<br />", start) # 0, start))

lyrics_lyricsvip_url == "heap"
lyrics_lyricsvip_src == MetaDataSource("lyricsvip", "v", "lyrics", 60, 85, TRUE)

\* The answer of the api names a page of the wiki.
lyrics_lyricswiki_parse ==
  /\ Parses("lyrics_lyricswiki") /\ at = 0
  /\ LET link == Find("<url>", 1)
     IN  \/ Return({list})
         \/ /\ Find("Not found", 1) = 0
            /\ Asked("<artist>", 1) /\ Asked("<song>", 1)
            /\ link # 0
            /\ Proceed(link, {list})

\* Every box of that page with lyrics in it, or any box at all when the page
\* goes on to say that the song is an instrumental.
lyrics_lyricswiki_page ==
  /\ Parses("lyrics_lyricswiki") /\ at # 0
  /\ LET node == Find("<div class='lyricbox", at + 1)
     IN  While(node, Found(\/ Is(node, "lyrics")
                           \/ Find("Category:Instrumental", node) # 0, node))

lyrics_lyricswiki_url == "static"
lyrics_lyricswiki_src ==
  MetaDataSource("lyricswiki", "w", "lyrics", 95, 75, FALSE)

\* if (MAX_TRIES >= ctr++) allows one more than MAX_TRIES.
MAX_TRIES == 5

lyrics_lyrixat_parse ==
  /\ Parses("lyrics_lyrix")
  /\ LET node == Find("<!-- start of result", at + 1)
         link == Find("<a href='/t/", node)
     IN  IF More /\ node # 0 /\ MAX_TRIES >= tries
         THEN Try(node, Fetched(/\ Is(link, "live")
                                /\ Asked("title", link), link))
         ELSE Return({list})

lyrics_lyrixat_url == "static"
lyrics_lyrix_src == MetaDataSource("lyrix", "a", "lyrics", 70, 50, FALSE)

\* The song's page, or the table of search results (which names nobody).
lyrics_magistrix_parse ==
  /\ Parses("lyrics_magistrix")
  /\ LET text == Find("id='songtext'", 1)
         first == Find("<table class=", 1)
         node == Find("<div class='title'", IF at = 0 THEN first + 1 ELSE at + 1)
         link == Find("&ndash;", node)
         results == first # 0 /\ Find("</table>", first) # 0
     IN  IF Find("keine Songtexte", 1) # 0 THEN Return({list})
         ELSE IF Find("Songtext-Suche", 1) = 0
         THEN Return(Found(text # 0, text))
         ELSE IF results THEN While(node, Fetched(Is(link, "live"), link))
         ELSE Return({list})

lyrics_magistrix_url == "static"
lyrics_magistrix_src ==
  MetaDataSource("magistrix", "x", "lyrics", 60, 75, FALSE)

\* The downloaded page becomes the item itself.
lyrics_metallum_parse ==
  /\ Parses("lyrics_metallum")
  /\ LET id == Find("lyricsLink_", 1) IN Return(Fetched(Is(id, "live"), id))

lyrics_metallum_url == "static"
lyrics_metallum_src == MetaDataSource("metallum", "u", "lyrics", 55, 70, FALSE)

\* found_song(): the first "type" must be "exact"; get_text_token() goes on
\* from there to the first "text".
lyrics_vagalume_parse ==
  /\ Parses("lyrics_vagalume")
  /\ LET type == Find("type", 1)
         text == Find("text", type)
     IN  Return(Found(Is(type, "exact") /\ text # 0, text))

lyrics_vagalume_url == "static"
lyrics_vagalume_src == MetaDataSource("vagalume", "g", "lyrics", 90, 90, FALSE)

\* Nodes between the two comments; artist and title stand in the link's text.
guitartabs_chordie_parse ==
  /\ Parses("guitartabs_chordie")
  /\ LET begin == Find("<!--results start-->", 1)
         ending == Find("<!--results end-->", begin)
         node == Find("<a class=", IF at = 0 THEN begin + 1 ELSE at + 1)
     IN  IF begin = 0 \/ ending = 0 \/ node > ending THEN Return({list})
         ELSE While(node, Fetched(/\ Is(node, "live")
                                  /\ Asked("name", node), node))

guitartabs_chordie_url == "static"
guitartabs_chordie_src ==
  MetaDataSource("chordie", "c", "guitartabs", 95, 75, FALSE)

-----------------------------------------------------------------------------
LyricsParse ==
  \/ lyrics_chartlyrics_parse \/ lyrics_elyrics_parse \/ lyrics_lipwalk_parse
  \/ lyrics_lyrdb_parse \/ lyrics_lyricsreg_parse \/ lyrics_lyricstime_parse
  \/ lyrics_lyricsvip_parse \/ lyrics_lyricswiki_parse
  \/ lyrics_lyricswiki_page \/ lyrics_lyrixat_parse \/ lyrics_magistrix_parse
  \/ lyrics_metallum_parse \/ lyrics_vagalume_parse \/ guitartabs_chordie_parse
=============================================================================
