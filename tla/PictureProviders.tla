-------------------------- MODULE PictureProviders --------------------------
(***************************************************************************)
(* The providers of src/lib/intern/cover, photos and backdrops that        *)
(* register_plugins.c registers, with the code they share in               *)
(* src/lib/intern/common.  What they find are addresses of pictures.       *)
(***************************************************************************)
EXTENDS Parsing

\* Each result of google has its size behind it.
generic_google_parse(p) ==
  /\ Parses(p)
  /\ LET node == Find("/imgres?imgurl=", at + 1)
     IN  While(node, Found(/\ Find("&amp;imgrefurl=", node) # 0
                           /\ Fits("&amp;usg=", node), node))

generic_google_url == "heap"

\* The loop finds a link, leaps over it, and takes the next one; that the
\* table of results is there at all is taken for granted.
generic_picsearch_parse(p) ==
  /\ Parses(p)
  /\ LET start == IF at = 0 THEN Find("<div id=results_table", 1) ELSE at
         node == Find("<a href=", start + 1)
         link == Find("<a href=", node + 1)
     IN  IF More /\ start = 0 THEN Stray
         ELSE IF More /\ node # 0 /\ tries < query.number * 4
         THEN Try(node, Fetched(Is(link, "live"), link))
         ELSE Return({list})

generic_picsearch_url == "heap"

-----------------------------------------------------------------------------
\* The release of that title leads to a list of images, all of them taken.
cover_coverartarchive_parse ==
  /\ Parses("cover_coverartarchive") /\ at = 0
  /\ LET release == mbid_parse_data("<release ", "<title>")
     IN  Return({list}) \/ (release # 0 /\ Proceed(release, {list}))

parse_archive_json ==
  /\ Parses("cover_coverartarchive") /\ at # 0
  /\ LET node == FindWithin("\"image\":", "<release ", at + 1)
     IN  IF node # 0 THEN Proceed(node, Found(TRUE, node)) ELSE Return({list})

cover_coverartarchive_url == "static"
cover_coverartarchive_src ==
  MetaDataSource("coverartarchive", "z", "cover", 90, 80, FALSE)

\* "Artist - Album" is looked for behind the thumb that begins the node.
cover_discogs_parse ==
  /\ Parses("cover_discogs")
  /\ LET node == Find("\"thumb\":", at + 1)
     IN  While(node, Found(Asked("\"title\":", node) /\ Is(node, "live"), node))

cover_discogs_url == "static"
cover_discogs_src == MetaDataSource("discogs", "d", "cover", 60, 70, FALSE)

cover_google_parse == generic_google_parse("cover_google")
cover_google_url == generic_google_url
cover_google_src ==
  [MetaDataSource("google", "g", "cover", 10, 80, TRUE) EXCEPT !.lang_aware = TRUE]

\* One line for each album, its artist and title in columns.
cover_jamendo_parse ==
  /\ Parses("cover_jamendo")
  /\ LET line == Find("\n", at + 1)
     IN  While(line, Found(Is(line, "asked"), line))

cover_jamendo_url == "static"
cover_jamendo_src == MetaDataSource("jamendo", "j", "cover", 90, 75, FALSE)

\* An image of the wanted size, but not the default image.
cover_lastfm_parse ==
  /\ Parses("cover_lastfm")
  /\ LET node == Find("<album>", at + 1)
         image == Find("<image size=", node)
     IN  While(node, Found(/\ Asked("<artist>", node) /\ Asked("<name>", node)
                           /\ Is(image, "live"), image))

cover_lastfm_url == "static"
cover_lastfm_src == MetaDataSource("lastfm", "l", "cover", 90, 75, FALSE)

\* Whatever becomes of a name, the search goes on at the next <img>, if any.
cover_lyricswiki_parse ==
  /\ Parses("cover_lyricswiki")
  /\ LET find == Find("_-_", at + 1)
         endTag == Find("timestamp=", find)
         link == Find("url=", endTag)
         next == Find("<img name=", endTag)
         lists == Found(Is(find, "asked") /\ link # 0, link)
     IN  IF ~More \/ find = 0 THEN Return({list})
         ELSE IF endTag = 0 THEN Proceed(find, {list})
         ELSE IF next # 0 THEN Proceed(next, lists)
         ELSE Return(lists)

cover_lyricswiki_url(q) == IF q.img_min < 650 THEN "static" ELSE "none"
cover_lyricswiki_src ==
  MetaDataSource("lyricswiki", "w", "cover", 75, 85, FALSE)

cover_musicbrainz_parse ==
  /\ Parses("cover_musicbrainz")
  /\ LET node == Find("<release ", at + 1)
     IN  While(node, Fetched(/\ Asked("<title>", node) /\ Asked("<name>", node)
                             /\ Is(node, "live"), node))

cover_musicbrainz_url == "static"
cover_musicbrainz_src ==
  MetaDataSource("musicbrainz", "z", "cover", 85, 70, FALSE)

cover_picsearch_parse == generic_picsearch_parse("cover_picsearch")
cover_picsearch_url == generic_picsearch_url
cover_picsearch_src == MetaDataSource("picsearch", "p", "cover", 50, 60, TRUE)

\* The images between <art> and </art>; when one of them is a HACK_SIZE, the
\* same address with the HIGH_SIZE is put in front, limit or not.
cover_rhapsody_parse ==
  /\ Parses("cover_rhapsody")
  /\ LET delim_beg == Find("<art>", 1)
         delim_end == Find("</art>", 1)
         node == Find("<img ", IF at = 0 THEN delim_beg + 1 ELSE at + 1)
         src == Find("src=", node)
         special == {i \in Range(list) : page[i].text = "170x170"}
     IN  IF /\ delim_beg # 0 /\ delim_end # 0
            /\ More /\ node # 0 /\ node < delim_end
         THEN Proceed(node, Found(Fits("width=", node) /\ src # 0, src))
         ELSE Return({IF special = {} THEN list
                      ELSE <<-Max(special)>> \o list})

cover_rhapsody_url == "heap"
cover_rhapsody_src == MetaDataSource("rhapsody", "r", "cover", 50, 80, TRUE)

\* Whether to continue is asked at the end of the loop.
cover_slothradio_parse ==
  /\ Parses("cover_slothradio")
  /\ LET start == Find("<!-- RESULT LIST START", 1)
         end == Find("<!-- RESULT LIST END", start)
         node == Find("<!-- RESULT ITEM", IF at = 0 THEN start + 1 ELSE at + 1)
         src == Find("img src=", node)
     IN  IF \/ start = 0 \/ end = 0
            \/ node = 0 \/ node >= end
            \/ at # 0 /\ ~More
         THEN Return({list})
         ELSE Proceed(node, Found(src # 0 /\ Fits("width=", node), src))

cover_slothradio_url == "heap"
cover_slothradio_src == MetaDataSource("slothradio", "s", "cover", 80, 80, TRUE)

-----------------------------------------------------------------------------
photos_bbcmusic_parse ==
  /\ Parses("photos_bbcmusic")
  /\ LET artist == mbid_parse_data("<artist ", "<name>")
     IN  Return(Fetched(Is(artist, "live"), artist))

photos_bbcmusic_url == "static"
photos_bbcmusic_src == MetaDataSource("bbcmusic", "b", "photos", 80, 60, FALSE)

photos_discogs_parse ==
  /\ Parses("photos_discogs")
  /\ LET node == Find("\"thumb\":", at + 1)
     IN  While(node, Found(Asked("\"title\":", node) /\ Is(node, "live"), node))

photos_discogs_url == "static"
photos_discogs_src == MetaDataSource("discogs", "d", "photos", 60, 70, FALSE)

\* ph_begin is never moved on: the photo that was found is found again.
photos_flickr_parse ==
  /\ Parses("photos_flickr")
  /\ LET ph_begin == Find("<photo id=", at)
     IN  While(ph_begin, Found(Find("/>", ph_begin) # 0, ph_begin))

photos_flickr_url(q) ==
  IF q.img_max <= 175 /\ q.img_max # -1 THEN "none" ELSE "heap"
photos_flickr_src == MetaDataSource("flickr", "f", "photos", 40, 65, TRUE)

photos_google_parse == generic_google_parse("photos_google")
photos_google_url == generic_google_url
photos_google_src ==
  [MetaDataSource("google", "g", "photos", 10, 90, TRUE) EXCEPT !.lang_aware = TRUE]

\* Every size of every image, judged by its own attributes.
photos_lastfm_parse ==
  /\ Parses("photos_lastfm")
  /\ LET root == Find("<size name=", at + 1)
     IN  While(root, Found(Is(root, "fits") /\ Find("</size>", root) # 0, root))

photos_lastfm_url == "static"
photos_lastfm_src == MetaDataSource("lastfm", "l", "photos", 90, 80, FALSE)

photos_picsearch_parse == generic_picsearch_parse("photos_picsearch")
photos_picsearch_url == generic_picsearch_url
photos_picsearch_src == MetaDataSource("picsearch", "p", "photos", 50, 60, TRUE)

photos_rhapsody_parse ==
  /\ Parses("photos_rhapsody")
  /\ LET delim_beg == Find("<art>", 1)
         delim_end == Find("</art>", 1)
         node == Find("<img ", IF at = 0 THEN delim_beg + 1 ELSE at + 1)
         src == Find("src=", node)
     IN  IF delim_beg = 0 \/ delim_end = 0 \/ node >= delim_end
         THEN Return({list})
         ELSE While(node, Found(Fits("width=", node) /\ src # 0, src))

photos_rhapsody_url(q) == IF q.img_min <= 135 THEN "heap" ELSE "none"

\* Variant: free_url is not set.
photos_rhapsody_leak == MetaDataSource("rhapsody", "r", "photos", 50, 80, FALSE)
photos_rhapsody_src == MetaDataSource("rhapsody", "r", "photos", 50, 80, TRUE)

\* Without limits no size is looked at.
photos_singerpictures_parse ==
  /\ Parses("photos_singerpictures")
  /\ LET node == Find("<img src=", at + 1)
         anysize == query.img_min = -1 /\ query.img_max = -1
     IN  While(node, Found(anysize \/ Fits("</a><br>", node), node))

photos_singerpictures_url == "heap"
photos_singerpictures_src ==
  MetaDataSource("singerpictures", "s", "photos", 75, 60, TRUE)

backdrops_htbackdrops_parse ==
  /\ Parses("backdrops_htbackdrops")
  /\ LET images == Find("<images>", 1)
         node == Find("<image>", IF at = 0 THEN images + 1 ELSE at + 1)
         id == Find("<id>", node)
     IN  IF images = 0 THEN Return({list})
         ELSE While(node, Found(/\ Fits("<dimensions>", node)
                                /\ Asked("<mb_name>", node) /\ id # 0, id))

backdrops_htbackdrops_url == "heap"
backdrops_htbackdrops_src ==
  MetaDataSource("htbackdrops", "h", "backdrops", 80, 80, TRUE)

-----------------------------------------------------------------------------
PictureParse ==
  \/ cover_coverartarchive_parse \/ parse_archive_json \/ cover_discogs_parse
  \/ cover_google_parse \/ cover_jamendo_parse \/ cover_lastfm_parse
  \/ cover_lyricswiki_parse \/ cover_musicbrainz_parse
  \/ cover_picsearch_parse \/ cover_rhapsody_parse \/ cover_slothradio_parse
  \/ photos_bbcmusic_parse \/ photos_discogs_parse \/ photos_flickr_parse
  \/ photos_google_parse \/ photos_lastfm_parse \/ photos_picsearch_parse
  \/ photos_rhapsody_parse \/ photos_singerpictures_parse
  \/ backdrops_htbackdrops_parse
=============================================================================
