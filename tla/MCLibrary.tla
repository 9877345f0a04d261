----------------------------- MODULE MCLibrary ------------------------------
(***************************************************************************)
(* All fetchers and all providers of the library, and command lines for    *)
(* each way through main().                                                *)
(***************************************************************************)
EXTENDS Glyrc

\* Of Providers.tla only the table is needed.
P == INSTANCE Providers WITH
  Site <- <<>>, Query <- {}, page <- <<>>, list <- <<>>, tries <- 0,
  url <- "none", exit <- FALSE

Fetch(name, type, reqs, full_data, default_parallel) ==
  [name |-> name, type |-> type, reqs |-> reqs, full_data |-> full_data,
   default_parallel |-> default_parallel]

MCFetcher ==
  <<Fetch("cover", "cover", {"artist", "album"}, FALSE, 3),
    Fetch("lyrics", "lyrics", {"artist", "title"}, TRUE, 1),
    Fetch("artistphoto", "photos", {"artist"}, FALSE, 2),
    Fetch("artistbio", "ainfo", {"artist"}, TRUE, 2),
    Fetch("similarartists", "similar_artists", {"artist"}, TRUE, 0),
    Fetch("similarsongs", "similar_songs", {"artist", "title"}, TRUE, 0),
    Fetch("albumreview", "review", {"artist", "album"}, TRUE, 2),
    Fetch("albumlist", "albumlist", {"artist"}, TRUE, 0),
    Fetch("tags", "tags", {"artist"}, TRUE, 0),
    Fetch("relations", "relations", {"artist"}, TRUE, 0),
    Fetch("tracklist", "tracklist", {"artist", "album"}, TRUE, 0),
    Fetch("guitartabs", "guitartabs", {"artist", "title"}, TRUE, 0),
    Fetch("backdrops", "backdrops", {"artist"}, FALSE, 0)>>

\* local_src and musictree_src, for all types.
local_src == P!MetaDataSource("local", "l", "any", 4200, 4200, FALSE)
musictree_src == P!MetaDataSource("musictree", "t", "any", G_MAXINT, G_MAXINT, FALSE)

\* In the order of register_provider_plugins().
MCSource ==
  <<P!sources.ainfo_lastfm, P!sources.ainfo_lyricsreg,
    P!sources.ainfo_bbcmusic, P!sources.ainfo_echonest,
    P!sources.albumlist_musicbrainz, P!sources.cover_coverartarchive,
    P!sources.cover_discogs, P!sources.cover_google, P!sources.cover_lastfm,
    P!sources.cover_jamendo, P!sources.cover_lyricswiki,
    P!sources.cover_rhapsody, P!sources.cover_picsearch,
    P!sources.cover_musicbrainz, P!sources.cover_slothradio,
    P!sources.lyrics_lipwalk, P!sources.lyrics_lyrdb,
    P!sources.lyrics_lyricsreg, P!sources.lyrics_lyricstime,
    P!sources.lyrics_lyricsvip, P!sources.lyrics_lyricswiki,
    P!sources.lyrics_lyrix, P!sources.lyrics_magistrix,
    P!sources.lyrics_metallum, P!sources.lyrics_elyrics,
    P!sources.lyrics_vagalume, P!sources.lyrics_chartlyrics,
    P!sources.photos_flickr, P!sources.photos_google, P!sources.photos_lastfm,
    P!sources.photos_discogs, P!sources.photos_singerpictures,
    P!sources.photos_rhapsody, P!sources.photos_picsearch,
    P!sources.photos_bbcmusic, P!sources.relations_musicbrainz,
    P!sources.review_metallum, P!sources.review_echonest,
    P!sources.similar_artist_lastfm, P!sources.similar_song_lastfm,
    P!sources.tags_musicbrainz, P!sources.tracklist_musicbrainz,
    P!sources.guitartabs_chordie, P!sources.backdrops_htbackdrops,
    P!sources.relations_generated, local_src, musictree_src>>

\* Options.
Plainly(name, value) == [name |-> name, value |-> value, list |-> <<>>]
Word(name) == Plainly(name, 1)
ListOf(tokens) == [name |-> "from", value |-> 1, list |-> tokens]
Token(sign, text) == [sign |-> sign, text |-> text]

A == Word("artist")
B == Word("album")
T == Word("title")

Line(mode, fetch, options) ==
  [mode |-> mode, fetcher |-> fetch, options |-> options]
Search(fetch, options) == Line("search", fetch, options)

MCCommand ==
  {Search("cover", <<A, B, Plainly("number", 2)>>),
   Search("cover", <<A, B, ListOf(<<Token("", "all"), Token("-", "lastfm")>>),
                     Plainly("parallel", 4), Plainly("img_min_size", -7)>>),
   Search("cover", <<Word("lang_aware_only"), A, A, B>>),
   Search("artistphoto",
          <<A, ListOf(<<Token("+", "google"), Token("", "x"),
                        Token("", "flickr"), Token("-", "lastfm")>>),
            Word("as-one"), Plainly("qsratio", 150)>>),
   Search("lyrics", <<A, T, Word("as-one"), Plainly("number", 3),
                      Plainly("write", 2), Plainly("parallel", 5)>>),
   Search("lyrics",
          <<A, T, ListOf(<<Token("", "lyricswiki"), Token("+", "elyrics"),
                           Token("-", "vagalume")>>), Plainly("number", 0)>>),
   Search("lyrics", <<A, T, Plainly("qsratio", 0), Plainly("number", 3),
                      Plainly("parallel", 3), Plainly("plugmax", -3)>>),
   Search("lyrics", <<A, Word("lang")>>),
   Search("artistbio",
          <<A, Plainly("lang_aware_only", 1), Plainly("number", 0)>>),
   Search("artistbio", <<A, ListOf(<<Token("", "z"), Token("-", "local"),
                                     Token("", "all")>>)>>),
   Search("guitartabs", <<A, T, Plainly("qsratio", 6)>>),
   Search("guitartabs", <<A, T, ListOf(<<Token("", "nosuch")>>)>>),
   Search("guitartabs", <<A, T, ListOf(<<Token("", "all"), Token("-", "l"),
                                         Token("", "l"), Token("-", "local")>>)>>),
   Search("tracklist", <<A, B, Word("as-one"), Word("cache"), Word("cache")>>),
   Search("similarartists", <<A, Word("cache"), Plainly("download", 0)>>),
   Search("tags", <<A, Word("proxy"), Word("allowed_formats"), Word("useragent"),
                    Word("lang"), Word("lang"), Word("musictree_path"), B, T>>),
   Search("none", <<A>>),
   Search("nothing", <<A>>),
   Search("cover", <<A, Plainly("write", 0)>>),
   Search("cover", <<A, Word("help")>>),
   Search("cover", <<Word("version")>>),
   Search("cover", <<Word("list")>>),
   Search("cover", <<Plainly("?", 0)>>),
   Line("list", "", <<Word("cache")>>),
   Line("select", "lyrics", <<A, T, Word("cache")>>),
   Line("select", "-a", <<A>>),
   Line("delete", "cover", <<A, B, Word("cache")>>),
   Line("incomplete", "", <<>>), Line("update", "", <<>>),
   Line("version", "", <<>>), Line("overview", "", <<>>), Line("help", "", <<>>)}
=============================================================================
