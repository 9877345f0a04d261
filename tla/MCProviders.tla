---------------------------- MODULE MCProviders -----------------------------
(***************************************************************************)
(* Pages for every provider: up to two entries, every field of them with   *)
(* each value that makes a difference, or missing.                         *)
(***************************************************************************)
EXTENDS Checks

\* Fields: a literal, and what may follow it.
Node(mark) == <<mark, {"-"}>>
Maybe(mark) == <<mark, {"-", "absent"}>>
Link(mark) == <<mark, {"live", "empty"}>>
Name(mark) == <<mark, {"asked", "other", "absent"}>>
Size(mark) == <<mark, {"fits", "misfit", "absent"}>>
Text(mark, values) == <<mark, values>>

\* The tokens of entry k, for every choice of values.
Entries(shape, k) ==
  LET values == UNION {shape[i][2] : i \in DOMAIN shape}
      choices == {f \in [DOMAIN shape -> values] :
                    \A i \in DOMAIN shape : f[i] \in shape[i][2]}
      token(f, i) == [mark |-> shape[i][1], text |-> f[i], entry |-> k]
      present(t) == t.text # "absent"
  IN  {SelectSeq([i \in DOMAIN shape |-> token(f, i)], present) : f \in choices}

\* Pages of up to two such entries between a head and a foot.
Pages(head, shape, foot) ==
  LET first == Entries(shape, 1)
      second == Entries(shape, 2)
  IN  {h \o m \o f : h \in Entries(head, 0), f \in Entries(foot, 0),
         m \in {<<>>} \cup first \cup {a \o b : a \in first, b \in second}}

List(shape) == Pages(<<>>, shape, <<>>)
Single(shape) == Entries(shape, 1)

Google == List(<<Node("/imgres?imgurl="), Maybe("&amp;imgrefurl="),
                 Size("&amp;usg=")>>)
Picsearch == Pages(<<Maybe("<div id=results_table"), Node("<a href=")>>,
                   <<Link("<a href=")>>, <<>>)
Bbc == List(<<Link("<artist "), Name("<name>")>>)
Art == Pages(<<Maybe("<art>")>>,
             <<Node("<img "), Size("width="), Text("src=", {"live", "170x170"})>>,
             <<Maybe("</art>")>>)
Musicbrainz(mark) ==
  List(<<Node("<entity "), Name("<name>"), Link(mark), Link(mark)>>)

MCSite ==
  [lyrics_chartlyrics |->
     List(<<Node("<SearchLyricResult>"), Name("<Artist>"), Name("<Song>"),
            Text("<LyricId>", {"live", "empty", "absent"})>>),
   lyrics_elyrics |->
     Single(<<Text("<div class='ly'", {"lyrics", "removed", "absent"}),
              Maybe("</div>")>>),
   lyrics_lipwalk |->
     Pages(<<Node("<title>Search results")>>,
           <<Link("<li class="), Name("description")>>, <<>>)
     \cup Single(<<Text("</script>", {"lyrics", "short", "absent"}), Maybe("<h5")>>),
   lyrics_lyrdb |-> Single(<<Text("\\", {"live", "empty", "absent"})>>),
   lyrics_lyricsreg |-> Single(<<Maybe("</div><div"), Maybe("<a href=")>>),
   lyrics_lyricstime |->
     Pages(<<Maybe("</div>")>>, <<Link("<li><a href="), Name("<b>")>>,
           <<Maybe("</div>")>>),
   lyrics_lyricsvip |-> Single(<<Maybe("phone2.gif"), Maybe("<br />")>>),
   lyrics_lyricswiki |->
     Pages(<<Maybe("Not found"), Name("<artist>"), Name("<song>"), Maybe("<url>")>>,
           <<Text("<div class='lyricbox", {"lyrics", "blank"})>>,
           <<Maybe("Category:Instrumental")>>),
   lyrics_lyrix |->
     List(<<Node("<!-- start of result"), Link("<a href='/t/"), Name("title")>>)
     \cup {[i \in 1..7 |-> [mark |-> "<!-- start of result", text |-> "-",
                            entry |-> i]]},
   lyrics_magistrix |->
     Pages(<<Maybe("keine Songtexte"), Maybe("Songtext-Suche"), Maybe("id='songtext'"),
             Maybe("<table class=")>>,
           <<Node("<div class='title'"), Text("&ndash;", {"live", "absent"})>>,
           <<Maybe("</table>")>>),
   lyrics_metallum |-> Single(<<Text("lyricsLink_", {"live", "empty", "absent"})>>),
   lyrics_vagalume |->
     Single(<<Text("type", {"exact", "aprox", "absent"}), Maybe("text")>>),
   guitartabs_chordie |->
     Pages(<<Maybe("<!--results start-->")>>,
           <<Link("<a class="), Name("name")>>, <<Maybe("<!--results end-->")>>),
   cover_coverartarchive |->
     List(<<Node("<release "), Name("<title>"), Maybe("\"image\":"),
            Maybe("\"image\":")>>),
   cover_discogs |-> List(<<Link("\"thumb\":"), Name("\"title\":")>>),
   cover_google |-> Google,
   cover_jamendo |-> List(<<Text("\n", {"asked", "other"})>>),
   cover_lastfm |->
     List(<<Node("<album>"), Name("<artist>"), Name("<name>"),
            Text("<image size=", {"live", "default", "absent"})>>),
   cover_lyricswiki |->
     List(<<Maybe("<img name="), Text("_-_", {"asked", "other"}),
            Maybe("timestamp="), Maybe("url=")>>),
   cover_musicbrainz |->
     List(<<Link("<release "), Name("<title>"), Name("<name>")>>),
   cover_picsearch |-> Picsearch,
   cover_rhapsody |-> Art,
   cover_slothradio |->
     Pages(<<Maybe("<!-- RESULT LIST START")>>,
           <<Node("<!-- RESULT ITEM"), Maybe("img src="), Size("width=")>>,
           <<Maybe("<!-- RESULT LIST END")>>),
   photos_bbcmusic |-> Bbc,
   photos_discogs |-> List(<<Link("\"thumb\":"), Name("\"title\":")>>),
   photos_flickr |-> List(<<Node("<photo id="), Maybe("/>")>>),
   photos_google |-> Google,
   photos_lastfm |->
     List(<<Text("<size name=", {"fits", "misfit", "original"}), Maybe("</size>")>>),
   photos_picsearch |-> Picsearch,
   photos_rhapsody |-> Art,
   photos_singerpictures |-> List(<<Node("<img src="), Size("</a><br>")>>),
   backdrops_htbackdrops |->
     Pages(<<Node("<images>")>>,
           <<Node("<image>"), Size("<dimensions>"), Name("<mb_name>"), Maybe("<id>")>>,
           <<>>),
   ainfo_bbcmusic |-> Bbc,
   ainfo_echonest |-> List(<<Text("text", {"long", "short"})>>),
   ainfo_lastfm |->
     Single(<<Maybe("</content>"), Maybe("<content>"), Maybe("<![CDATA["),
              Maybe("User-contributed text"), Maybe("</content>"),
              Maybe("<![CDATA[")>>),
   ainfo_lyricsreg |->
     Single(<<Text("<div id=content", {"long", "short"}),
              Text("Biography:", {"long", "short", "absent"}), Maybe("</div>")>>),
   albumlist_musicbrainz |->
     List(<<Text("<release ", {"official", "bootleg"}), Name("<name>"),
            Text("<title>", {"first", "second", "absent"})>>),
   review_echonest |->
     Pages(<<Node("{")>>,
           <<Node("{"), Maybe("url"), Text("summary", {"long", "short", "absent"}),
             Name("release")>>, <<Maybe("{")>>),
   review_metallum |->
     List(<<Node("<a href="), Node("<a href="), Maybe("<div class=reviewContent"),
            Maybe("<div class=reviewContent")>>),
   relations_musicbrainz |-> Musicbrainz("<relation "),
   relations_generated |-> {<<>>},
   similar_artist_lastfm |->
     Pages(<<Maybe("<artist>")>>, <<Node("<artist>")>>, <<Maybe("<artist>")>>),
   similar_song_lastfm |->
     List(<<Node("<track>"), Maybe("<name>"), Maybe("<artist>"), Maybe("<name>")>>),
   tags_musicbrainz |-> Musicbrainz("<tag"),
   tracklist_musicbrainz |->
     Pages(<<Maybe("id="), Maybe("<title>")>>,
           <<Maybe("<title>"), Maybe("</duration>")>>, <<>>)]

Sums == {1, 2}

Plain == [number |-> 1, plugmax |-> -1, imagejob |-> FALSE, local_db |-> FALSE,
          db_autoread |-> TRUE, force_utf8 |-> FALSE, itemctr |-> 0, img_min |-> -1, img_max |-> -1,
          names |-> {"artist", "album", "title"}]

\* One item; a database and one item already; two items but one at most from
\* each provider; room for one item or two pictures; a database that is
\* only written, and a query without an artist, for pictures of a certain size.
MCQuery ==
  LET queries ==
        {Plain,
         [Plain EXCEPT !.local_db = TRUE, !.number = 2, !.itemctr = 1,
                       !.force_utf8 = TRUE],
         [Plain EXCEPT !.number = 2, !.plugmax = 1, !.names = {"artist"}],
         [Plain EXCEPT !.number = 4, !.itemctr = 3, !.img_min = 100],
         [Plain EXCEPT !.number = 2, !.local_db = TRUE, !.db_autoread = FALSE,
                       !.img_min = 700, !.img_max = 100,
                       !.names = {"album", "title"}]}
  IN  {[q EXCEPT !.imagejob = image] : q \in queries, image \in BOOLEAN}
=============================================================================
