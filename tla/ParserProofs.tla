---------------------------- MODULE ParserProofs -----------------------------
(***************************************************************************)
(* Proofs about the parsers (Parsing.tla and the provider modules), for    *)
(* all pages of all servers: none returns more than there is room for,     *)
(* what it has found stays as it is when it is told to stop, none leaves   *)
(* its page, none takes anything twice, and none takes what was not asked  *)
(* for.                                                                    *)
(***************************************************************************)
EXTENDS ChecksProofs, OrderProofs

\* Parsers whose number of items is bound by the query.
Limited == provider \notin Unlimited

IsList(s) == \E S : s \in Seq(S)

\* Parsers without a loop, at least for such a page.
Single == {"lyrics_elyrics", "lyrics_lyrdb", "lyrics_lyricsreg",
           "lyrics_lyricsvip", "lyrics_metallum", "lyrics_vagalume",
           "photos_bbcmusic", "ainfo_bbcmusic", "ainfo_lastfm",
           "ainfo_lyricsreg"}
OneShot ==
  \/ provider \in Single
  \/ provider = "lyrics_lipwalk" /\ Find("<title>Search results", 1) = 0
  \/ provider = "lyrics_magistrix" /\ Find("Songtext-Suche", 1) = 0

QueryInv ==
  query \in [number : Nat \ {0}, plugmax : Nat \cup {-1}, imagejob : BOOLEAN,
            local_db : BOOLEAN, db_autoread : BOOLEAN, force_utf8 : BOOLEAN,
            itemctr : Nat, img_min : Int, img_max : Int,
            names : SUBSET {"artist", "album", "title"}]

\* Between two queries there is no list.
NewInv == pc \notin {"parsing", "parsed", "lost"} => list = <<>> /\ tries = 0 /\ at = 0

\* What a parser without a loop, or one before its first turn, has found.
FirstInv ==
  pc = "parsing" =>
    /\ OneShot => list = <<>>
    /\ provider = "cover_slothradio" /\ at = 0 => list = <<>>

Most == IF Room = 0 THEN 1 ELSE Room

LengthInv ==
  /\ IsList(list)
  /\ Len(list) <= Most + (IF pc = "parsing" THEN 0 ELSE Bonus)

LInv == QueryInv /\ NewInv /\ (Limited => FirstInv /\ LengthInv)

-----------------------------------------------------------------------------
LEMMA Nothing == IsList(<<>>) /\ Len(<<>>) = 0
<1>1. <<>> \in Seq({})
  OBVIOUS
<1> QED
  BY <1>1 DEF IsList

LEMMA Longer ==
  ASSUME NEW s, NEW i, IsList(s)
  PROVE  IsList(<<i>> \o s) /\ Len(s) \in Nat /\ Len(<<i>> \o s) = Len(s) + 1
<1>1. PICK S : s \in Seq(S)
  BY DEF IsList
<1>2. s \in Seq(S \cup {i}) /\ <<i>> \in Seq(S \cup {i})
  BY <1>1
<1>3. <<i>> \o s \in Seq(S \cup {i}) /\ Len(<<i>> \o s) = Len(<<i>>) + Len(s)
  BY <1>2
<1> QED
  BY <1>1, <1>2, <1>3 DEF IsList

LEMMA Turned ==
  ASSUME NEW s, IsList(s)
  PROVE  IsList(Reverse(s)) /\ Len(Reverse(s)) = Len(s)
<1>1. PICK S : s \in Seq(S)
  BY DEF IsList
<1>2. Reverse(s) \in Seq(S) /\ Len(Reverse(s)) = Len(s)
  BY <1>1 DEF Reverse
<1> QED
  BY <1>2 DEF IsList

\* What continue_search() lets pass is less than there is room for.
LEMMA Limits ==
  ASSUME QueryInv
  PROVE  /\ Room \in Nat /\ Most \in Nat \ {0} /\ Bonus \in {0, 1}
         /\ \A n \in Nat : continue_search(n) => n < Room
         /\ \A m, n \in Nat : continue_search(n) /\ m <= n => continue_search(m)
<1>1. Limit \in Nat
  BY DEF Limit, QueryInv
<1>2. Room \in Nat /\ Most \in Nat \ {0}
  BY <1>1 DEF Room, Most, QueryInv
<1>3. ASSUME NEW n \in Nat, continue_search(n) PROVE n < Room
  BY <1>1, <1>3 DEF continue_search, Room, QueryInv
<1>4. ASSUME NEW m \in Nat, NEW n \in Nat, continue_search(n), m <= n
      PROVE  continue_search(m)
  BY <1>1, <1>4 DEF continue_search, QueryInv
<1> QED
  BY <1>2, <1>3, <1>4 DEF Bonus

-----------------------------------------------------------------------------
\* One turn of a parser: at most one item more, and that only when it is the
\* first one or the search goes on; or the one that rhapsody adds at its end.
Adds ==
  /\ IsList(list')
  /\ \/ Len(list') = Len(list)
     \/ /\ Len(list') = Len(list) + 1
        /\ list = <<>> \/ More
     \/ /\ Len(list') = Len(list) + 1
        /\ provider = "cover_rhapsody" /\ pc' = "parsed"

Turn == Limited => Adds /\ FirstInv'

\* What a parser starts from.
Ready == QueryInv /\ (Limited => FirstInv /\ IsList(list))

\* Of most parsers there is nothing else to know.
Plain == provider \notin Single \cup {"lyrics_lipwalk", "lyrics_magistrix",
                                      "cover_slothradio"}

LEMMA PlainTurn == ASSUME Plain, UNCHANGED capo, Limited => Adds PROVE Turn
BY DEF Turn, Plain, FirstInv, OneShot, capo

\* One that returns had nothing to begin with.
LEMMA ReturnTurn ==
  ASSUME UNCHANGED capo, pc' # "parsing", Limited => Adds
  PROVE  Turn
BY DEF Turn, FirstInv

\* The list as it is, or with an item in front.
LEMMA Longest ==
  ASSUME Ready, Limited
  PROVE  /\ IsList(list)
         /\ \A i : /\ IsList(<<i>> \o list)
                  /\ Len(<<i>> \o list) = Len(list) + 1
BY Longer DEF Ready

LEMMA LyricsTurn == Ready /\ pc = "parsing" /\ LyricsParse => Turn
<1> SUFFICES ASSUME Ready, pc = "parsing", LyricsParse PROVE Turn
  OBVIOUS
<1> USE DEF Parses, While, Return, Proceed, Try, Found, Fetched
<1>1. CASE lyrics_chartlyrics_parse
  <2>1. Plain /\ UNCHANGED capo
    BY <1>1 DEF lyrics_chartlyrics_parse, Plain, Single
  <2>2. Limited => Adds
    BY <1>1, Longest DEF lyrics_chartlyrics_parse, Adds
  <2> QED
    BY <2>1, <2>2, PlainTurn
<1>2. CASE lyrics_elyrics_parse
  <2>1. UNCHANGED capo /\ pc' # "parsing"
    BY <1>2 DEF lyrics_elyrics_parse
  <2>2. ASSUME Limited PROVE Adds
    <3>1. list = <<>>
      BY <1>2, <2>2 DEF lyrics_elyrics_parse, Ready, FirstInv, OneShot, Single
    <3> QED
      BY <1>2, <2>2, <3>1, Longest DEF lyrics_elyrics_parse, Adds
  <2> QED
    BY <2>1, <2>2, ReturnTurn
<1>3. CASE lyrics_lipwalk_parse
  <2>1. UNCHANGED capo
    BY <1>3 DEF lyrics_lipwalk_parse
  <2>2. CASE Find("<title>Search results", 1) = 0
    <3>1. pc' # "parsing"
      BY <1>3, <2>2 DEF lyrics_lipwalk_parse
    <3>2. ASSUME Limited PROVE Adds
      <4>1. list = <<>>
        BY <1>3, <2>2, <3>2 DEF lyrics_lipwalk_parse, Ready, FirstInv, OneShot
      <4> QED
        BY <1>3, <2>2, <3>2, <4>1, Longest DEF lyrics_lipwalk_parse, Adds
    <3> QED
      BY <2>1, <3>1, <3>2, ReturnTurn
  <2>3. CASE ~(Find("<title>Search results", 1) = 0)
    <3>1. Limited => Adds
      BY <1>3, <2>3, Longest DEF lyrics_lipwalk_parse, Adds
    <3>2. FirstInv'
      BY <1>3, <2>1, <2>3
      DEF lyrics_lipwalk_parse, FirstInv, OneShot, Single, Find, capo
    <3> QED
      BY <3>1, <3>2 DEF Turn
  <2> QED
    BY <2>2, <2>3
<1>4. CASE lyrics_lyrdb_parse
  <2>1. UNCHANGED capo /\ pc' # "parsing"
    BY <1>4 DEF lyrics_lyrdb_parse
  <2>2. ASSUME Limited PROVE Adds
    <3>1. list = <<>>
      BY <1>4, <2>2 DEF lyrics_lyrdb_parse, Ready, FirstInv, OneShot, Single
    <3> QED
      BY <1>4, <2>2, <3>1, Longest DEF lyrics_lyrdb_parse, Adds
  <2> QED
    BY <2>1, <2>2, ReturnTurn
<1>5. CASE lyrics_lyricsreg_parse
  <2>1. UNCHANGED capo /\ pc' # "parsing"
    BY <1>5 DEF lyrics_lyricsreg_parse
  <2>2. ASSUME Limited PROVE Adds
    <3>1. list = <<>>
      BY <1>5, <2>2 DEF lyrics_lyricsreg_parse, Ready, FirstInv, OneShot, Single
    <3> QED
      BY <1>5, <2>2, <3>1, Longest DEF lyrics_lyricsreg_parse, Adds
  <2> QED
    BY <2>1, <2>2, ReturnTurn
<1>6. CASE lyrics_lyricstime_parse
  <2>1. Plain /\ UNCHANGED capo
    BY <1>6 DEF lyrics_lyricstime_parse, Plain, Single
  <2>2. Limited => Adds
    BY <1>6, Longest DEF lyrics_lyricstime_parse, Adds
  <2> QED
    BY <2>1, <2>2, PlainTurn
<1>7. CASE lyrics_lyricsvip_parse
  <2>1. UNCHANGED capo /\ pc' # "parsing"
    BY <1>7 DEF lyrics_lyricsvip_parse
  <2>2. ASSUME Limited PROVE Adds
    <3>1. list = <<>>
      BY <1>7, <2>2 DEF lyrics_lyricsvip_parse, Ready, FirstInv, OneShot, Single
    <3> QED
      BY <1>7, <2>2, <3>1, Longest DEF lyrics_lyricsvip_parse, Adds
  <2> QED
    BY <2>1, <2>2, ReturnTurn
<1>8. CASE lyrics_lyricswiki_parse
  <2>1. Plain /\ UNCHANGED capo
    BY <1>8 DEF lyrics_lyricswiki_parse, Plain, Single
  <2>2. Limited => Adds
    BY <1>8, Longest DEF lyrics_lyricswiki_parse, Adds
  <2> QED
    BY <2>1, <2>2, PlainTurn
<1>9. CASE lyrics_lyricswiki_page
  <2>1. Plain /\ UNCHANGED capo
    BY <1>9 DEF lyrics_lyricswiki_page, Plain, Single
  <2>2. Limited => Adds
    BY <1>9, Longest DEF lyrics_lyricswiki_page, Adds
  <2> QED
    BY <2>1, <2>2, PlainTurn
<1>10. CASE lyrics_lyrixat_parse
  <2>1. Plain /\ UNCHANGED capo
    BY <1>10 DEF lyrics_lyrixat_parse, Plain, Single
  <2>2. Limited => Adds
    BY <1>10, Longest DEF lyrics_lyrixat_parse, Adds
  <2> QED
    BY <2>1, <2>2, PlainTurn
<1>11. CASE lyrics_magistrix_parse
  <2>1. UNCHANGED capo
    BY <1>11 DEF lyrics_magistrix_parse
  <2>2. CASE Find("Songtext-Suche", 1) = 0
    <3>1. pc' # "parsing"
      BY <1>11, <2>2 DEF lyrics_magistrix_parse
    <3>2. ASSUME Limited PROVE Adds
      <4>1. list = <<>>
        BY <1>11, <2>2, <3>2 DEF lyrics_magistrix_parse, Ready, FirstInv, OneShot
      <4> QED
        BY <1>11, <2>2, <3>2, <4>1, Longest DEF lyrics_magistrix_parse, Adds
    <3> QED
      BY <2>1, <3>1, <3>2, ReturnTurn
  <2>3. CASE ~(Find("Songtext-Suche", 1) = 0)
    <3>1. Limited => Adds
      BY <1>11, <2>3, Longest DEF lyrics_magistrix_parse, Adds
    <3>2. FirstInv'
      BY <1>11, <2>1, <2>3
      DEF lyrics_magistrix_parse, FirstInv, OneShot, Single, Find, capo
    <3> QED
      BY <3>1, <3>2 DEF Turn
  <2> QED
    BY <2>2, <2>3
<1>12. CASE lyrics_metallum_parse
  <2>1. UNCHANGED capo /\ pc' # "parsing"
    BY <1>12 DEF lyrics_metallum_parse
  <2>2. ASSUME Limited PROVE Adds
    <3>1. list = <<>>
      BY <1>12, <2>2 DEF lyrics_metallum_parse, Ready, FirstInv, OneShot, Single
    <3> QED
      BY <1>12, <2>2, <3>1, Longest DEF lyrics_metallum_parse, Adds
  <2> QED
    BY <2>1, <2>2, ReturnTurn
<1>13. CASE lyrics_vagalume_parse
  <2>1. UNCHANGED capo /\ pc' # "parsing"
    BY <1>13 DEF lyrics_vagalume_parse
  <2>2. ASSUME Limited PROVE Adds
    <3>1. list = <<>>
      BY <1>13, <2>2 DEF lyrics_vagalume_parse, Ready, FirstInv, OneShot, Single
    <3> QED
      BY <1>13, <2>2, <3>1, Longest DEF lyrics_vagalume_parse, Adds
  <2> QED
    BY <2>1, <2>2, ReturnTurn
<1>14. CASE guitartabs_chordie_parse
  <2>1. Plain /\ UNCHANGED capo
    BY <1>14 DEF guitartabs_chordie_parse, Plain, Single
  <2>2. Limited => Adds
    BY <1>14, Longest DEF guitartabs_chordie_parse, Adds
  <2> QED
    BY <2>1, <2>2, PlainTurn
<1> QED
  BY <1>1, <1>2, <1>3, <1>4, <1>5, <1>6, <1>7, <1>8, <1>9, <1>10, <1>11, <1>12, <1>13, <1>14
  DEF LyricsParse

LEMMA PictureTurn == Ready /\ pc = "parsing" /\ PictureParse => Turn
<1> SUFFICES ASSUME Ready, pc = "parsing", PictureParse PROVE Turn
  OBVIOUS
<1> USE DEF Parses, While, Return, Proceed, Try, Found, Fetched, Stray
<1>1. CASE cover_coverartarchive_parse
  BY <1>1 DEF cover_coverartarchive_parse, Turn, Limited, Unlimited
<1>2. CASE parse_archive_json
  BY <1>2 DEF parse_archive_json, Turn, Limited, Unlimited
<1>3. CASE cover_discogs_parse
  <2>1. Plain /\ UNCHANGED capo
    BY <1>3 DEF cover_discogs_parse, Plain, Single
  <2>2. Limited => Adds
    BY <1>3, Longest DEF cover_discogs_parse, Adds
  <2> QED
    BY <2>1, <2>2, PlainTurn
<1>4. CASE cover_google_parse
  <2>1. Plain /\ UNCHANGED capo
    BY <1>4 DEF cover_google_parse, generic_google_parse, Plain, Single
  <2>2. Limited => Adds
    BY <1>4, Longest DEF cover_google_parse, generic_google_parse, Adds
  <2> QED
    BY <2>1, <2>2, PlainTurn
<1>5. CASE cover_jamendo_parse
  <2>1. Plain /\ UNCHANGED capo
    BY <1>5 DEF cover_jamendo_parse, Plain, Single
  <2>2. Limited => Adds
    BY <1>5, Longest DEF cover_jamendo_parse, Adds
  <2> QED
    BY <2>1, <2>2, PlainTurn
<1>6. CASE cover_lastfm_parse
  <2>1. Plain /\ UNCHANGED capo
    BY <1>6 DEF cover_lastfm_parse, Plain, Single
  <2>2. Limited => Adds
    BY <1>6, Longest DEF cover_lastfm_parse, Adds
  <2> QED
    BY <2>1, <2>2, PlainTurn
<1>7. CASE cover_lyricswiki_parse
  <2>1. Plain /\ UNCHANGED capo
    BY <1>7 DEF cover_lyricswiki_parse, Plain, Single
  <2>2. Limited => Adds
    BY <1>7, Longest DEF cover_lyricswiki_parse, Adds
  <2> QED
    BY <2>1, <2>2, PlainTurn
<1>8. CASE cover_musicbrainz_parse
  <2>1. Plain /\ UNCHANGED capo
    BY <1>8 DEF cover_musicbrainz_parse, Plain, Single
  <2>2. Limited => Adds
    BY <1>8, Longest DEF cover_musicbrainz_parse, Adds
  <2> QED
    BY <2>1, <2>2, PlainTurn
<1>9. CASE cover_picsearch_parse
  <2>1. Plain /\ UNCHANGED capo
    BY <1>9 DEF cover_picsearch_parse, generic_picsearch_parse, Plain, Single
  <2>2. Limited => Adds
    BY <1>9, Longest DEF cover_picsearch_parse, generic_picsearch_parse, Adds
  <2> QED
    BY <2>1, <2>2, PlainTurn
<1>10. CASE cover_rhapsody_parse
  <2>1. Plain /\ UNCHANGED capo
    BY <1>10 DEF cover_rhapsody_parse, Plain, Single
  <2>2. Limited => Adds
    BY <1>10, Longest DEF cover_rhapsody_parse, Adds
  <2> QED
    BY <2>1, <2>2, PlainTurn
<1>11. CASE cover_slothradio_parse
  <2>1. UNCHANGED capo /\ (pc' = "parsing" => at' # 0)
    BY <1>11 DEF cover_slothradio_parse
  <2>2. ASSUME Limited PROVE Adds
    <3>1. at = 0 => list = <<>>
      BY <1>11, <2>2 DEF cover_slothradio_parse, Ready, FirstInv
    <3> QED
      BY <1>11, <2>2, <3>1, Longest DEF cover_slothradio_parse, Adds
  <2>3. FirstInv'
    BY <1>11, <2>1
    DEF cover_slothradio_parse, FirstInv, OneShot, Single, capo
  <2> QED
    BY <2>2, <2>3 DEF Turn
<1>12. CASE photos_bbcmusic_parse
  <2>1. UNCHANGED capo /\ pc' # "parsing"
    BY <1>12 DEF photos_bbcmusic_parse
  <2>2. ASSUME Limited PROVE Adds
    <3>1. list = <<>>
      BY <1>12, <2>2 DEF photos_bbcmusic_parse, Ready, FirstInv, OneShot, Single
    <3> QED
      BY <1>12, <2>2, <3>1, Longest DEF photos_bbcmusic_parse, Adds
  <2> QED
    BY <2>1, <2>2, ReturnTurn
<1>13. CASE photos_discogs_parse
  <2>1. Plain /\ UNCHANGED capo
    BY <1>13 DEF photos_discogs_parse, Plain, Single
  <2>2. Limited => Adds
    BY <1>13, Longest DEF photos_discogs_parse, Adds
  <2> QED
    BY <2>1, <2>2, PlainTurn
<1>14. CASE photos_flickr_parse
  <2>1. Plain /\ UNCHANGED capo
    BY <1>14 DEF photos_flickr_parse, Plain, Single
  <2>2. Limited => Adds
    BY <1>14, Longest DEF photos_flickr_parse, Adds
  <2> QED
    BY <2>1, <2>2, PlainTurn
<1>15. CASE photos_google_parse
  <2>1. Plain /\ UNCHANGED capo
    BY <1>15 DEF photos_google_parse, generic_google_parse, Plain, Single
  <2>2. Limited => Adds
    BY <1>15, Longest DEF photos_google_parse, generic_google_parse, Adds
  <2> QED
    BY <2>1, <2>2, PlainTurn
<1>16. CASE photos_lastfm_parse
  <2>1. Plain /\ UNCHANGED capo
    BY <1>16 DEF photos_lastfm_parse, Plain, Single
  <2>2. Limited => Adds
    BY <1>16, Longest DEF photos_lastfm_parse, Adds
  <2> QED
    BY <2>1, <2>2, PlainTurn
<1>17. CASE photos_picsearch_parse
  <2>1. Plain /\ UNCHANGED capo
    BY <1>17 DEF photos_picsearch_parse, generic_picsearch_parse, Plain, Single
  <2>2. Limited => Adds
    BY <1>17, Longest DEF photos_picsearch_parse, generic_picsearch_parse, Adds
  <2> QED
    BY <2>1, <2>2, PlainTurn
<1>18. CASE photos_rhapsody_parse
  <2>1. Plain /\ UNCHANGED capo
    BY <1>18 DEF photos_rhapsody_parse, Plain, Single
  <2>2. Limited => Adds
    BY <1>18, Longest DEF photos_rhapsody_parse, Adds
  <2> QED
    BY <2>1, <2>2, PlainTurn
<1>19. CASE photos_singerpictures_parse
  <2>1. Plain /\ UNCHANGED capo
    BY <1>19 DEF photos_singerpictures_parse, Plain, Single
  <2>2. Limited => Adds
    BY <1>19, Longest DEF photos_singerpictures_parse, Adds
  <2> QED
    BY <2>1, <2>2, PlainTurn
<1>20. CASE backdrops_htbackdrops_parse
  <2>1. Plain /\ UNCHANGED capo
    BY <1>20 DEF backdrops_htbackdrops_parse, Plain, Single
  <2>2. Limited => Adds
    BY <1>20, Longest DEF backdrops_htbackdrops_parse, Adds
  <2> QED
    BY <2>1, <2>2, PlainTurn
<1> QED
  BY <1>1, <1>2, <1>3, <1>4, <1>5, <1>6, <1>7, <1>8, <1>9, <1>10, <1>11, <1>12, <1>13, <1>14, <1>15, <1>16, <1>17, <1>18, <1>19, <1>20
  DEF PictureParse

LEMMA InfoTurn == Ready /\ pc = "parsing" /\ InfoParse => Turn
<1> SUFFICES ASSUME Ready, pc = "parsing", InfoParse PROVE Turn
  OBVIOUS
<1> USE DEF Parses, While, Return, Proceed, Try, Found, Fetched, Stray
<1>1. CASE ainfo_bbcmusic_parse
  <2>1. UNCHANGED capo /\ pc' # "parsing"
    BY <1>1 DEF ainfo_bbcmusic_parse
  <2>2. ASSUME Limited PROVE Adds
    <3>1. list = <<>>
      BY <1>1, <2>2 DEF ainfo_bbcmusic_parse, Ready, FirstInv, OneShot, Single
    <3> QED
      BY <1>1, <2>2, <3>1, Longest DEF ainfo_bbcmusic_parse, Adds
  <2> QED
    BY <2>1, <2>2, ReturnTurn
<1>2. CASE ainfo_echonest_parse
  BY <1>2 DEF ainfo_echonest_parse, Turn, Limited, Unlimited
<1>3. CASE ainfo_lastfm_parse
  <2>1. UNCHANGED capo /\ pc' # "parsing"
    BY <1>3 DEF ainfo_lastfm_parse, Stray
  <2>2. ASSUME Limited PROVE Adds
    <3>1. list = <<>>
      BY <1>3, <2>2 DEF ainfo_lastfm_parse, Stray, Ready, FirstInv, OneShot, Single
    <3> QED
      BY <1>3, <2>2, <3>1, Longest DEF ainfo_lastfm_parse, Stray, Adds
  <2> QED
    BY <2>1, <2>2, ReturnTurn
<1>4. CASE ainfo_lyricsreg_parse
  <2>1. UNCHANGED capo /\ pc' # "parsing"
    BY <1>4 DEF ainfo_lyricsreg_parse
  <2>2. ASSUME Limited PROVE Adds
    <3>1. list = <<>>
      BY <1>4, <2>2 DEF ainfo_lyricsreg_parse, Ready, FirstInv, OneShot, Single
    <3> QED
      BY <1>4, <2>2, <3>1, Longest DEF ainfo_lyricsreg_parse, Adds
  <2> QED
    BY <2>1, <2>2, ReturnTurn
<1>5. CASE albumlist_musicbrainz_parse
  <2>1. Plain /\ UNCHANGED capo
    BY <1>5 DEF albumlist_musicbrainz_parse, Plain, Single
  <2>2. Limited => Adds
    BY <1>5, Longest DEF albumlist_musicbrainz_parse, Adds
  <2> QED
    BY <2>1, <2>2, PlainTurn
<1>6. CASE review_echonest_parse
  BY <1>6 DEF review_echonest_parse, Turn, Limited, Unlimited
<1>7. CASE review_metallum_parse
  <2>1. Plain /\ UNCHANGED capo
    BY <1>7 DEF review_metallum_parse, Plain, Single
  <2>2. Limited => Adds
    BY <1>7, Longest DEF review_metallum_parse, Adds
  <2> QED
    BY <2>1, <2>2, PlainTurn
<1>8. CASE relations_musicbrainz_parse
  BY <1>8 DEF relations_musicbrainz_parse, Turn, Limited, Unlimited
<1>9. CASE relations_generated_parse
  BY <1>9 DEF relations_generated_parse, Turn, Limited, Unlimited
<1>10. CASE tags_musicbrainz_parse
  BY <1>10 DEF tags_musicbrainz_parse, Turn, Limited, Unlimited
<1>11. CASE similar_lastfm_parse
  <2>1. Plain /\ UNCHANGED capo
    BY <1>11 DEF similar_lastfm_parse, Plain, Single
  <2>2. ASSUME Limited PROVE Adds
    <3>1. \A i : /\ IsList(Reverse(<<i>> \o list))
                 /\ Len(Reverse(<<i>> \o list)) = Len(list) + 1
      BY <2>2, Longest, Turned
    <3> QED
      BY <1>11, <2>2, <3>1, Longest DEF similar_lastfm_parse, Adds
  <2> QED
    BY <2>1, <2>2, PlainTurn
<1>12. CASE similar_song_lastfm_parse
  <2>1. Plain /\ UNCHANGED capo
    BY <1>12 DEF similar_song_lastfm_parse, Plain, Single
  <2>2. Limited => Adds
    BY <1>12, Longest DEF similar_song_lastfm_parse, Adds
  <2> QED
    BY <2>1, <2>2, PlainTurn
<1>13. CASE tracklist_musicbrainz_parse
  <2>1. Plain /\ UNCHANGED capo
    BY <1>13 DEF tracklist_musicbrainz_parse, Plain, Single
  <2>2. Limited => Adds
    BY <1>13, Longest DEF tracklist_musicbrainz_parse, Adds
  <2> QED
    BY <2>1, <2>2, PlainTurn
<1>14. CASE traverse_xml
  <2>1. Plain /\ UNCHANGED capo
    BY <1>14 DEF traverse_xml, Plain, Single
  <2>2. ASSUME Limited PROVE Adds
    <3>1. IsList(Reverse(list)) /\ Len(Reverse(list)) = Len(list)
      BY <2>2, Longest, Turned
    <3> QED
      BY <1>14, <2>2, <3>1, Longest DEF traverse_xml, Adds
  <2> QED
    BY <2>1, <2>2, PlainTurn
<1> QED
  BY <1>1, <1>2, <1>3, <1>4, <1>5, <1>6, <1>7, <1>8, <1>9, <1>10, <1>11, <1>12, <1>13, <1>14
  DEF InfoParse

LEMMA ParseTurn == Ready /\ pc = "parsing" /\ Parse => Turn
BY LyricsTurn, PictureTurn, InfoTurn DEF Parse

-----------------------------------------------------------------------------
LEMMA ListInitially == CheckInit => LInv
<1> SUFFICES ASSUME CheckInit PROVE LInv
  OBVIOUS
<1>1. query \in Query /\ pc = "idle" /\ list = <<>> /\ tries = 0 /\ at = 0
  BY DEF CheckInit, Init
<1>2. QueryInv
  BY <1>1, QueryAssumption DEF QueryInv
<1>3. FirstInv /\ NewInv
  BY <1>1 DEF FirstInv, NewInv
<1>4. LengthInv
  BY <1>1, <1>2, Nothing, Limits DEF LengthInv
<1> QED
  BY <1>2, <1>3, <1>4 DEF LInv

LEMMA SameQuery ==
  ASSUME QueryInv, UNCHANGED <<query, provider>>
  PROVE  QueryInv' /\ Room' = Room /\ Most' = Most /\ Bonus' = Bonus
                   /\ Limited' = Limited
BY DEF QueryInv, Room, Limit, Most, Bonus, Limited

\* Outside of a parser the list stays, or is taken away.
LEMMA RestStep ==
  ASSUME LInv, UNCHANGED <<query, provider>>, pc' # "parsing",
         \/ UNCHANGED <<list, tries, at>> /\ (NewInv => NewInv')
         \/ list' = <<>> /\ tries' = 0 /\ at' = 0
  PROVE  LInv'
<1>1. QueryInv' /\ Room' = Room /\ Most' = Most /\ Bonus' = Bonus /\ Limited' = Limited
  BY SameQuery DEF LInv
<1>2. NewInv' /\ FirstInv'
  BY DEF NewInv, FirstInv, LInv
<1>3. Most \in Nat /\ Bonus \in {0, 1}
  BY Limits DEF LInv
<1>4. ASSUME Limited PROVE LengthInv'
  BY <1>1, <1>3, <1>4, Nothing DEF LInv, LengthInv
<1> QED
  BY <1>1, <1>2, <1>4 DEF LInv

\* In a parser only the parser changes the list.
LEMMA OnlyParse ==
  ASSUME [Next]_allVars, pc = "parsing"
  PROVE  Parse \/ UNCHANGED list
<1>1. ~Ask /\ ~Arrive /\ ~Check
  BY DEF Ask, Arrive, Check, Take, StartThreads, Join, delete_wrong_formats,
         Keep, Hand, delete_dupes, delete_already_cached_items, CheckText
<1>2. SignalExit \/ Threads \/ UNCHANGED allVars => UNCHANGED list
  BY DEF SignalExit, Threads, ThreadEnds, allVars, vars
<1> QED
  BY <1>1, <1>2 DEF Next

LEMMA SameListStep ==
  ASSUME LInv, pc' = pc, query' = query, provider' = provider, page' = page,
         list' = list, tries' = tries, at' = at
  PROVE  LInv'
<1>1. /\ QueryInv /\ NewInv /\ QueryInv'
      /\ Most' = Most /\ Bonus' = Bonus /\ Limited' = Limited
  BY SameQuery DEF LInv
<1>2. NewInv'
  BY <1>1 DEF NewInv
<1>3. ASSUME Limited PROVE FirstInv' /\ LengthInv'
  <2>1. FirstInv /\ LengthInv
    BY <1>3 DEF LInv
  <2>2. FirstInv'
    BY <2>1 DEF FirstInv, OneShot, Find
  <2>3. LengthInv'
    BY <1>1, <2>1 DEF LengthInv
  <2> QED
    BY <2>2, <2>3
<1> QED
  BY <1>1, <1>2, <1>3 DEF LInv

LEMMA ListInductive == LInv /\ [Next]_allVars => LInv'
<1> SUFFICES ASSUME LInv, [Next]_allVars PROVE LInv'
  OBVIOUS
<1>1. CASE Ask
  <2>1. /\ pc = "idle" /\ UNCHANGED <<provider, at, tries, list>>
        /\ query' = [query EXCEPT !.imagejob =
                       sources[provider].type \in ImageTypes]
    BY <1>1 DEF Ask
  <2>2. QueryInv'
    <3>1. (sources[provider].type \in ImageTypes) \in BOOLEAN
      OBVIOUS
    <3>2. query \in [number : Nat \ {0}, plugmax : Nat \cup {-1}, imagejob : BOOLEAN,
                     local_db : BOOLEAN, db_autoread : BOOLEAN,
                     force_utf8 : BOOLEAN, itemctr : Nat, img_min : Int,
                     img_max : Int, names : SUBSET {"artist", "album", "title"}]
      BY DEF LInv, QueryInv
    <3> DEFINE job == sources[provider].type \in ImageTypes
    <3>3. query' = [query EXCEPT !.imagejob = job] /\ job \in BOOLEAN
      BY <2>1, <3>1
    <3> HIDE DEF job
    <3> QED
      BY <3>2, <3>3 DEF QueryInv
  <2>3. list = <<>> /\ tries = 0 /\ at = 0
    BY <2>1 DEF LInv, NewInv
  <2>4. NewInv' /\ FirstInv'
    BY <2>1, <2>3, Nothing DEF NewInv, FirstInv
  <2>5. Limit' \in Nat
    BY <2>2 DEF QueryInv, Limit
  <2>6. Most' \in Nat /\ Bonus' \in {0, 1}
    BY <2>2, <2>5 DEF QueryInv, Most, Room, Bonus
  <2>7. LengthInv'
    BY <2>1, <2>3, <2>6, Nothing DEF LengthInv
  <2> QED
    BY <2>2, <2>4, <2>7 DEF LInv
<1>2. CASE Arrive
  <2>1. /\ pc = "asked" /\ UNCHANGED <<provider, query, at, tries, list>>
        /\ pc' \in {"parsing", "parsed"}
    BY <1>2 DEF Arrive
  <2>3. list = <<>> /\ tries = 0 /\ at = 0
    BY <2>1 DEF LInv, NewInv
  <2>4. NewInv' /\ FirstInv'
    BY <2>1, <2>3, Nothing DEF NewInv, FirstInv
  <2>5. QueryInv' /\ Most' = Most /\ Bonus' = Bonus
    BY <2>1, SameQuery DEF LInv
  <2>6. LengthInv'
    BY <2>1, <2>3, <2>5, Nothing, Limits DEF LInv, LengthInv
  <2> QED
    BY <2>4, <2>5, <2>6 DEF LInv
<1>3. CASE Parse
  <2>1. UNCHANGED <<query, provider>> /\ pc = "parsing"
        /\ pc' \in {"parsing", "parsed", "lost"}
    BY <1>3, LyricsWalk, PictureWalk, InfoWalk DEF Parse, Walk
  <2>2. Turn
    BY <1>3, <2>1, ParseTurn DEF Ready, LInv, LengthInv
  <2>3. /\ QueryInv' /\ Room' = Room /\ Most' = Most /\ Bonus' = Bonus
        /\ Limited' = Limited
    BY <2>1, SameQuery DEF LInv
  <2>4. NewInv'
    BY <2>1 DEF NewInv
  <2>5. ASSUME Limited PROVE LengthInv'
    <3>1. /\ Len(list) \in Nat /\ Len(list) <= Most
          /\ Most \in Nat \ {0} /\ Bonus \in {0, 1} /\ Room \in Nat
      BY <2>1, <2>5, Longer, Limits DEF LInv, LengthInv
    <3>2. CASE Len(list') = Len(list)
      BY <2>2, <2>3, <2>5, <3>1, <3>2 DEF Turn, Adds, LengthInv
    <3>3. CASE Len(list') = Len(list) + 1 /\ list = <<>>
      BY <2>2, <2>3, <2>5, <3>1, <3>3, Nothing DEF Turn, Adds, LengthInv
    <3>4. CASE Len(list') = Len(list) + 1 /\ More
      <4>1. Len(list) < Room
        BY <3>1, <3>4, Limits DEF More, LInv
      <4> QED
        BY <2>2, <2>3, <2>5, <3>1, <3>4, <4>1 DEF Turn, Adds, LengthInv, Most
    <3>5. CASE /\ Len(list') = Len(list) + 1
               /\ provider = "cover_rhapsody" /\ pc' = "parsed"
      BY <2>2, <2>3, <2>5, <3>1, <3>5 DEF Turn, Adds, LengthInv, Bonus
    <3> QED
      BY <2>2, <2>5, <3>2, <3>3, <3>4, <3>5 DEF Turn, Adds
  <2> QED
    BY <2>2, <2>3, <2>4, <2>5 DEF LInv, Turn
<1>4. CASE SignalExit
  <2>1. /\ pc' = pc /\ query' = query /\ provider' = provider /\ page' = page
        /\ list' = list /\ tries' = tries /\ at' = at
    BY <1>4 DEF SignalExit, capo
  <2> QED
    BY <2>1, SameListStep
<1>5. CASE Check
  <2>1. /\ pc' # "parsing" /\ UNCHANGED <<query, provider>>
        /\ pc \notin {"parsing", "lost"}
        /\ \/ UNCHANGED <<list, tries, at>> /\ pc # "parsed"
           \/ list' = <<>> /\ tries' = 0 /\ at' = 0
    <3>1. CASE Take
      BY <3>1 DEF Take
    <3>2. CASE StartThreads \/ Join \/ delete_wrong_formats \/ Keep \/ Hand
      BY <3>2 DEF StartThreads, Join, delete_wrong_formats, Keep, Hand, capo
    <3>3. CASE \E sum \in [raw -> Sum] : delete_dupes(sum)
      BY <3>3 DEF delete_dupes, capo
    <3>4. CASE \E items \in SUBSET {i \in raw : Live(i)} :
                 delete_already_cached_items(items) \/ CheckText(items)
      BY <3>4 DEF delete_already_cached_items, CheckText, capo
    <3> QED
      BY <1>5, <3>1, <3>2, <3>3, <3>4 DEF Check
  <2> QED
    BY <2>1, RestStep DEF NewInv
<1>6. CASE Threads
  <2>1. /\ pc' = pc /\ query' = query /\ provider' = provider /\ page' = page
        /\ list' = list /\ tries' = tries /\ at' = at
    BY <1>6 DEF Threads, ThreadEnds, capo
  <2> QED
    BY <2>1, SameListStep
<1>7. CASE UNCHANGED allVars
  <2>1. /\ pc' = pc /\ query' = query /\ provider' = provider /\ page' = page
        /\ list' = list /\ tries' = tries /\ at' = at
    BY <1>7 DEF allVars, vars, capo
  <2> QED
    BY <2>1, SameListStep
<1> QED
  BY <1>1, <1>2, <1>3, <1>4, <1>5, <1>6, <1>7 DEF Next

LEMMA ListInvariance == Spec => []LInv
<1> QED
  BY ListInitially, ListInductive, PTL DEF Spec

-----------------------------------------------------------------------------
\* Whatever a page has: a provider returns no more items than there is room
\* for in the query and than glyr_opt_plugmax() allows, but for the one that
\* is taken unseen, and those providers that count something else.
THEOREM ParsersKeepTheLimit == Spec => []NotBeyondLimit
<1>1. LInv => NotBeyondLimit
  BY Longer, Limits
  DEF LInv, LengthInv, NotBeyondLimit, Limited, Most, Bonus
<1> QED
  BY <1>1, ListInvariance, PTL

\* After glyr_signal_exit() a parser that has found something returns with
\* it, or goes on without adding to it, wherever in the page it is.
THEOREM ParsersStopAdding == Spec => StopsAdding
<1>1. LInv /\ [Next]_allVars =>
        [exit /\ pc = "parsing" /\ list # <<>>
           /\ provider \notin Unlimited \cup {"cover_rhapsody"}
         => Len(list') <= Len(list)]_vars
  <2> SUFFICES ASSUME LInv, [Next]_allVars,
                      exit, pc = "parsing", list # <<>>,
                      provider \notin Unlimited \cup {"cover_rhapsody"}
               PROVE  Len(list') <= Len(list)
    OBVIOUS
  <2>1. Len(list) \in Nat
    BY Longer DEF LInv, LengthInv, Limited
  <2>2. CASE Parse
    <3>1. Adds
      BY <2>2, ParseTurn DEF Ready, LInv, LengthInv, Turn, Limited
    <3> QED
      BY <2>1, <3>1 DEF Adds, More, continue_search
  <2>3. CASE UNCHANGED list
    BY <2>1, <2>3
  <2>4. Parse \/ UNCHANGED list
    BY OnlyParse
  <2> QED
    BY <2>2, <2>3, <2>4
<1> QED
  BY <1>1, ListInvariance, PTL DEF Spec, StopsAdding
-----------------------------------------------------------------------------
\* A place on the page, or none; a number; a list of items.
Spot(i) == i \in 0..Len(page)
Number(i) == i \in Int
Numbers(s) == s \in Seq(Int)

\* What a parser works on.
Work ==
  /\ page \in Seq(Token) /\ Numbers(list) /\ tries \in Nat
  /\ Spot(at)

\* strstr() finds a place of the page, or nothing.
LEMMA FindPlace ==
  ASSUME page \in Seq(Token)
  PROVE  /\ Len(page) \in Nat
         /\ \A mark : \A i \in Int : Find(mark, i) \in 0..Len(page)
<1>1. Len(page) \in Nat
  OBVIOUS
<1>2. ASSUME NEW mark, NEW i \in Int
      PROVE  Find(mark, i) \in 0..Len(page)
  <2> DEFINE found == {j \in i..Len(page) : j > 0 /\ page[j].mark = mark}
  <2>1. found \in SUBSET (0..Len(page))
    BY <1>1
  <2>2. Find(mark, i) = IF found = {} THEN 0 ELSE Min(found)
    BY DEF Find
  <2> HIDE DEF found
  <2>3. found # {} => Min(found) \in found
    BY <1>1, <2>1, WithinFacts DEF Within
  <2>4. 0 \in 0..Len(page)
    BY <1>1
  <2> QED
    BY <2>1, <2>2, <2>3, <2>4
<1> QED
  BY <1>1, <1>2

\* A turn of a parser.
Moves ==
  /\ UNCHANGED capo
  /\ Numbers(list') /\ tries' \in Nat
  /\ Spot(at')

LEMMA MovesWork == Work /\ Moves => Work'
BY DEF Work, Moves, capo, Spot, Numbers

LEMMA EntityPlace ==
  ASSUME page \in Seq(Token), NEW entity, NEW name
  PROVE  mbid_parse_data(entity, name) \in 0..Len(page)
<1> DEFINE nodes == {n \in 1..Len(page) : page[n].mark = entity /\ Asked(name, n)}
<1>1. nodes \in SUBSET (0..Len(page)) /\ Len(page) \in Nat
  OBVIOUS
<1>2. mbid_parse_data(entity, name) = IF nodes = {} THEN 0 ELSE Min(nodes)
  BY DEF mbid_parse_data
<1> HIDE DEF nodes
<1>3. nodes # {} => Min(nodes) \in nodes
  BY <1>1, WithinFacts DEF Within
<1>4. 0 \in 0..Len(page)
  BY <1>1
<1> QED
  BY <1>1, <1>2, <1>3, <1>4

LEMMA LastPlace ==
  ASSUME NEW i \in Nat, NEW mark
  PROVE  LastUpTo(mark, i) \in Int
<1> DEFINE last == {0} \cup {j \in 1..i : page[j].mark = mark}
<1>1. last \in SUBSET (0..i) /\ last # {}
  OBVIOUS
<1>2. LastUpTo(mark, i) = Max(last)
  BY DEF LastUpTo
<1> HIDE DEF last
<1>3. Max(last) \in last
  BY <1>1, WithinFacts DEF Within
<1>4. last \subseteq Int
  BY <1>1
<1> QED
  BY <1>2, <1>3, <1>4

LEMMA SpecialItem ==
  ASSUME NEW s, Numbers(s), NEW S \in SUBSET Range(s), S # {}
  PROVE  Max(S) \in S /\ Number(-Max(S))
<1> USE DEF Numbers
<1>1. IsFiniteSet(DOMAIN s) /\ Range(s) \subseteq Int
  <2>1. Len(s) \in Nat /\ DOMAIN s = 1..Len(s) /\ \A i \in DOMAIN s : s[i] \in Int
    OBVIOUS
  <2> QED
    BY <2>1, FS_Interval DEF Range
<1>2. s \in Surjection(DOMAIN s, Range(s))
  BY DEF Surjection, Range
<1>3. IsFiniteSet(Range(s))
  BY <1>1, <1>2, FS_Surjection
<1>4. IsFiniteSet(S) /\ S \in SUBSET Int
  BY <1>1, <1>3, FS_Subset
<1>5. Max(S) \in S /\ Max(S) \in Int
  BY <1>4, MaxFacts
<1> QED
  BY <1>5 DEF Number

\* What a parser may do with the page and the list.
LEMMA Places ==
  ASSUME Work
  PROVE  /\ Number(0) /\ Number(1) /\ Number(at + 1) /\ Number(at)
         /\ Spot(0) /\ Spot(Len(page)) /\ tries + 1 \in Nat
         /\ \A i : Spot(i) => Number(i) /\ Number(i + 1)
         /\ \A i : Spot(i) /\ i # 0 => Spot(i - 1)
         /\ \A s : Numbers(s) => Numbers(Reverse(s))
         /\ \A mark, i : Number(i) => Spot(Find(mark, i))
         /\ \A entity, name : Spot(mbid_parse_data(entity, name))
         /\ \A mark, i : Spot(i) => Number(LastUpTo(mark, i))
         /\ \A i : Number(i) => Numbers(<<i>> \o list)
<1>1. Len(page) \in Nat /\ at \in Int
  BY FindPlace DEF Work, Spot
<1>2. Number(0) /\ Number(1) /\ Number(at + 1) /\ Number(at)
  BY <1>1 DEF Number
<1>3. \A i : Spot(i) => Number(i) /\ Number(i + 1)
  BY <1>1 DEF Spot, Number
<1>4. \A mark, i : Number(i) => Spot(Find(mark, i))
  BY FindPlace DEF Work, Spot, Number
<1>5. \A entity, name : Spot(mbid_parse_data(entity, name))
  BY EntityPlace DEF Work, Spot
<1>6. ASSUME NEW i, Number(i) PROVE Numbers(<<i>> \o list)
  BY <1>6 DEF Work, Number, Numbers
<1>7. Spot(0) /\ Spot(Len(page)) /\ tries + 1 \in Nat
  BY <1>1 DEF Spot, Work
<1>8. \A i : Spot(i) /\ i # 0 => Spot(i - 1)
  BY <1>1 DEF Spot
<1>9. ASSUME NEW s, Numbers(s) PROVE Numbers(Reverse(s))
  BY <1>9 DEF Numbers, Reverse
<1>10. ASSUME NEW mark, NEW i, Spot(i) PROVE Number(LastUpTo(mark, i))
  <2>1. i \in Nat
    BY <1>1, <1>10 DEF Spot
  <2> QED
    BY <2>1, LastPlace DEF Number
<1> QED
  BY <1>2, <1>3, <1>4, <1>5, <1>6, <1>7, <1>8, <1>9, <1>10

LEMMA EntityMoves ==
  ASSUME Work, generic_musicbrainz_parse
  PROVE  Moves
<1>0. Len(page) \in Nat /\ at \in Int /\ at + 1 >= 0
  BY FindPlace DEF Work, Spot
<1> DEFINE entities == {n \in (at + 1)..Len(page) : page[n].mark = "<entity "}
           named == {n \in entities : Asked("<name>", n)}
<1>1. ASSUME NEW n \in named PROVE Spot(n)
  <2>1. n \in (at + 1)..Len(page)
    OBVIOUS
  <2> HIDE DEF named, entities
  <2>2. n \in Int /\ n >= at + 1 /\ n <= Len(page)
    BY <1>0, <2>1
  <2> QED
    BY <1>0, <2>2 DEF Spot
<1>2. \/ at' \in named /\ tries' = 0 /\ UNCHANGED <<list, capo>>
      \/ UNCHANGED <<at, tries, list, capo>>
  BY DEF generic_musicbrainz_parse, Stray, Return
<1> HIDE DEF named
<1>3. CASE at' \in named /\ tries' = 0 /\ UNCHANGED <<list, capo>>
  BY <1>1, <1>3 DEF Work, Moves
<1>4. CASE UNCHANGED <<at, tries, list, capo>>
  BY <1>4 DEF Work, Moves
<1> QED
  BY <1>2, <1>3, <1>4

LEMMA LyricsWork == Work /\ LyricsParse => Moves
<1> SUFFICES ASSUME Work, LyricsParse PROVE Moves
  OBVIOUS
<1> USE Places DEF Parses, While, Return, Proceed, Try, Stray, Found, Fetched, Work, Moves
<1>1. CASE lyrics_chartlyrics_parse
  BY <1>1 DEF lyrics_chartlyrics_parse
<1>2. CASE lyrics_elyrics_parse
  BY <1>2 DEF lyrics_elyrics_parse
<1>3. CASE lyrics_lipwalk_parse
  BY <1>3 DEF lyrics_lipwalk_parse
<1>4. CASE lyrics_lyrdb_parse
  BY <1>4 DEF lyrics_lyrdb_parse
<1>5. CASE lyrics_lyricsreg_parse
  BY <1>5 DEF lyrics_lyricsreg_parse
<1>6. CASE lyrics_lyricstime_parse
  BY <1>6 DEF lyrics_lyricstime_parse
<1>7. CASE lyrics_lyricsvip_parse
  BY <1>7 DEF lyrics_lyricsvip_parse
<1>8. CASE lyrics_lyricswiki_parse
  BY <1>8 DEF lyrics_lyricswiki_parse
<1>9. CASE lyrics_lyricswiki_page
  BY <1>9 DEF lyrics_lyricswiki_page
<1>10. CASE lyrics_lyrixat_parse
  BY <1>10 DEF lyrics_lyrixat_parse
<1>11. CASE lyrics_magistrix_parse
  BY <1>11 DEF lyrics_magistrix_parse
<1>12. CASE lyrics_metallum_parse
  BY <1>12 DEF lyrics_metallum_parse
<1>13. CASE lyrics_vagalume_parse
  BY <1>13 DEF lyrics_vagalume_parse
<1>14. CASE guitartabs_chordie_parse
  BY <1>14 DEF guitartabs_chordie_parse
<1> QED
  BY <1>1, <1>2, <1>3, <1>4, <1>5, <1>6, <1>7, <1>8, <1>9, <1>10, <1>11, <1>12, <1>13, <1>14
  DEF LyricsParse

LEMMA PictureWork == Work /\ PictureParse => Moves
<1> SUFFICES ASSUME Work, PictureParse PROVE Moves
  OBVIOUS
<1> USE Places DEF Parses, While, Return, Proceed, Try, Stray, Found, Fetched, Work, Moves
<1>1. CASE cover_coverartarchive_parse
  BY <1>1 DEF cover_coverartarchive_parse
<1>2. CASE parse_archive_json
  BY <1>2 DEF parse_archive_json, FindWithin
<1>3. CASE cover_discogs_parse
  BY <1>3 DEF cover_discogs_parse
<1>4. CASE cover_google_parse
  BY <1>4 DEF cover_google_parse, generic_google_parse
<1>5. CASE cover_jamendo_parse
  BY <1>5 DEF cover_jamendo_parse
<1>6. CASE cover_lastfm_parse
  BY <1>6 DEF cover_lastfm_parse
<1>7. CASE cover_lyricswiki_parse
  BY <1>7 DEF cover_lyricswiki_parse
<1>8. CASE cover_musicbrainz_parse
  BY <1>8 DEF cover_musicbrainz_parse
<1>9. CASE cover_picsearch_parse
  BY <1>9 DEF cover_picsearch_parse, generic_picsearch_parse
<1>10. CASE cover_rhapsody_parse
  <2> DEFINE special == {i \in Range(list) : page[i].text = "170x170"}
  <2>1. special # {} => Number(-Max(special))
    BY SpecialItem
  <2>2. \/ UNCHANGED <<at, tries, capo>> /\ list' \in {list, <<-Max(special)>> \o list}
           /\ (special = {} => list' = list)
        \/ \E node, src : /\ Spot(node) /\ Number(src)
                          /\ at' = node /\ list' \in {list, <<src>> \o list}
                          /\ UNCHANGED <<tries, capo>>
    BY <1>10 DEF cover_rhapsody_parse
  <2> HIDE DEF special
  <2> QED
    BY <2>1, <2>2
<1>11. CASE cover_slothradio_parse
  BY <1>11 DEF cover_slothradio_parse
<1>12. CASE photos_bbcmusic_parse
  BY <1>12 DEF photos_bbcmusic_parse
<1>13. CASE photos_discogs_parse
  BY <1>13 DEF photos_discogs_parse
<1>14. CASE photos_flickr_parse
  BY <1>14 DEF photos_flickr_parse
<1>15. CASE photos_google_parse
  BY <1>15 DEF photos_google_parse, generic_google_parse
<1>16. CASE photos_lastfm_parse
  BY <1>16 DEF photos_lastfm_parse
<1>17. CASE photos_picsearch_parse
  BY <1>17 DEF photos_picsearch_parse, generic_picsearch_parse
<1>18. CASE photos_rhapsody_parse
  BY <1>18 DEF photos_rhapsody_parse
<1>19. CASE photos_singerpictures_parse
  BY <1>19 DEF photos_singerpictures_parse
<1>20. CASE backdrops_htbackdrops_parse
  BY <1>20 DEF backdrops_htbackdrops_parse
<1> QED
  BY <1>1, <1>2, <1>3, <1>4, <1>5, <1>6, <1>7, <1>8, <1>9, <1>10, <1>11, <1>12, <1>13, <1>14, <1>15, <1>16, <1>17, <1>18, <1>19, <1>20
  DEF PictureParse

LEMMA InfoWork == Work /\ InfoParse => Moves
<1> SUFFICES ASSUME Work, InfoParse PROVE Moves
  OBVIOUS
<1> USE Places DEF Parses, While, Return, Proceed, Try, Stray, Found, Fetched, Work, Moves
<1>1. CASE ainfo_bbcmusic_parse
  BY <1>1 DEF ainfo_bbcmusic_parse
<1>2. CASE ainfo_echonest_parse
  BY <1>2 DEF ainfo_echonest_parse
<1>3. CASE ainfo_lastfm_parse
  BY <1>3 DEF ainfo_lastfm_parse
<1>4. CASE ainfo_lyricsreg_parse
  BY <1>4 DEF ainfo_lyricsreg_parse
<1>5. CASE albumlist_musicbrainz_parse
  BY <1>5 DEF albumlist_musicbrainz_parse
<1>6. CASE review_echonest_parse
  BY <1>6 DEF review_echonest_parse
<1>7. CASE review_metallum_parse
  BY <1>7 DEF review_metallum_parse, FindWithin
<1>8. CASE relations_musicbrainz_parse
  BY <1>8, EntityMoves DEF relations_musicbrainz_parse, info_node, FindWithin
<1>9. CASE relations_generated_parse
  <2>1. PICK first \in {1, 2, 4} :
          list' = [i \in 1..(7 - first) |-> first + i - 1]
    BY <1>9 DEF relations_generated_parse
  <2>2. 7 - first \in Nat /\ Numbers(list')
    BY <2>1 DEF Numbers
  <2> QED
    BY <1>9, <2>2 DEF relations_generated_parse
<1>10. CASE tags_musicbrainz_parse
  BY <1>10, EntityMoves DEF tags_musicbrainz_parse, info_node, FindWithin
<1>11. CASE similar_lastfm_parse
  BY <1>11 DEF similar_lastfm_parse
<1>12. CASE similar_song_lastfm_parse
  BY <1>12 DEF similar_song_lastfm_parse
<1>13. CASE tracklist_musicbrainz_parse
  BY <1>13 DEF tracklist_musicbrainz_parse
<1>14. CASE traverse_xml
  BY <1>14 DEF traverse_xml
<1> QED
  BY <1>1, <1>2, <1>3, <1>4, <1>5, <1>6, <1>7, <1>8, <1>9, <1>10, <1>11, <1>12, <1>13, <1>14
  DEF InfoParse

LEMMA ParseMoves == Work /\ Parse => Moves
BY LyricsWork, PictureWork, InfoWork DEF Parse

ItemInv ==
  /\ \E n \in Nat : Items = 1..n
  /\ parsed \subseteq Items /\ allowed \subseteq Items /\ refused \subseteq Items
  /\ DOMAIN thread \subseteq Items
  /\ \A i \in DOMAIN thread :
       thread[i] \in {"running", "allowed", "other", "failed"}

VarInv ==
  /\ pc \in {"idle", "asked", "parsing", "parsed", "raw", "unique", "formats",
             "joining", "text", "keep", "done", "lost"}
  /\ query \in Query
  /\ exit \in BOOLEAN /\ stop \in BOOLEAN

TInv == VarInv /\ Work /\ ItemInv

LEMMA TypeInitially == CheckInit => TInv
<1> SUFFICES ASSUME CheckInit PROVE TInv
  OBVIOUS
<1>1. VarInv
  BY DEF CheckInit, Init, VarInv
<1>2. <<>> \in Seq(Token) /\ <<>> \in Seq(Int) /\ Len(<<>>) = 0
  OBVIOUS
<1>3. Work
  BY <1>2 DEF CheckInit, Init, Work, Numbers, Spot
<1>4. Items = 1..0 /\ DOMAIN thread = {}
  BY DEF CheckInit, Items
<1>5. ItemInv
  BY <1>4 DEF CheckInit, ItemInv
<1> QED
  BY <1>1, <1>3, <1>5 DEF TInv

\* The checks neither look at the page nor at the place in it.
LEMMA WorkStays ==
  ASSUME Work, UNCHANGED <<page, list, tries, at, provider>>
  PROVE  Work'
BY DEF Work, Spot, Numbers

\* Items are freed; those that are kept or refused are some of them.
LEMMA ItemStep ==
  ASSUME ItemInv, Items' = Items,
         parsed' \subseteq Items, allowed' \subseteq Items, refused' \subseteq Items,
         DOMAIN thread' \subseteq Items,
         \A i \in DOMAIN thread' :
           thread'[i] \in {"running", "allowed", "other", "failed"}
  PROVE  ItemInv'
BY DEF ItemInv

LEMMA TypeStep == TInv /\ IInv /\ LInv /\ UrlInv /\ [Next]_allVars => TInv'
<1> SUFFICES ASSUME TInv, IInv, LInv, UrlInv, [Next]_allVars PROVE TInv'
  OBVIOUS
<1>0. /\ ItemInv /\ Work /\ raw \subseteq Items
      /\ \A items : items \subseteq raw => items \subseteq Items
  BY DEF TInv, IInv, MemoryInv
<1>1. ASSUME UNCHANGED checkVars PROVE ItemInv'
  BY <1>0, <1>1 DEF checkVars, ItemInv, Items
<1>2. CASE Ask /\ UNCHANGED checkVars
  <2> DEFINE image == sources[provider].type \in ImageTypes
  <2>1. /\ pc' \in {"asked", "parsing", "parsed"}
        /\ query' = [query EXCEPT !.imagejob = image]
        /\ UNCHANGED <<page, list, tries, at, provider, exit>>
    BY <1>2 DEF Ask
  <2>2. image \in BOOLEAN
    OBVIOUS
  <2>3. query \in Query
    BY DEF TInv, VarInv
  <2> HIDE DEF image
  <2>4. query' \in Query
    BY <2>1, <2>2, <2>3, QueryAssumption
  <2>5. VarInv'
    BY <1>2, <2>1, <2>4 DEF TInv, VarInv, checkVars
  <2> QED
    BY <1>0, <1>1, <1>2, <2>1, <2>5, WorkStays DEF TInv
<1>3. CASE Arrive /\ UNCHANGED checkVars
  <2>1. /\ pc = "asked" /\ pc' \in {"parsing", "parsed"}
        /\ page' = page \/ page' \in Site[provider]
        /\ UNCHANGED <<query, list, tries, at, provider, exit>>
    BY <1>3 DEF Arrive
  <2>2. at = 0
    BY <2>1 DEF LInv, NewInv
  <2>3. page' \in Seq(Token)
    BY <1>0, <2>1, SiteAssumption DEF Work, UrlInv
  <2>4. Work'
    BY <1>0, <2>1, <2>2, <2>3 DEF Work, Spot, Numbers
  <2>5. VarInv'
    BY <1>3, <2>1 DEF TInv, VarInv, checkVars
  <2> QED
    BY <1>1, <1>3, <2>4, <2>5 DEF TInv
<1>4. CASE Parse /\ UNCHANGED checkVars
  <2>1. Walk /\ Moves
    BY <1>0, <1>4, ParseMoves, LyricsWalk, PictureWalk, InfoWalk DEF Parse
  <2>2. VarInv'
    BY <1>4, <2>1 DEF TInv, VarInv, checkVars, Walk
  <2> QED
    BY <1>0, <1>1, <1>4, <2>1, <2>2, MovesWork DEF TInv
<1>5. CASE SignalExit /\ UNCHANGED checkVars
  <2>1. UNCHANGED <<pc, page, list, tries, at, provider, query>> /\ exit' = TRUE
    BY <1>5 DEF SignalExit, capo
  <2>2. VarInv'
    BY <1>5, <2>1 DEF TInv, VarInv, checkVars
  <2> QED
    BY <1>0, <1>1, <1>5, <2>1, <2>2, WorkStays DEF TInv
<1>6. CASE Take
  <2>1. /\ pc' = "raw" /\ page' = <<>> /\ list' = <<>> /\ at' = 0 /\ tries' = 0
        /\ Items' = DOMAIN list
        /\ UNCHANGED <<provider, query, exit, thread, allowed, parsed, stop, refused>>
        /\ pc = "parsed"
    BY <1>6 DEF Take, Items
  <2>2. VarInv'
    BY <2>1 DEF TInv, VarInv
  <2>3. <<>> \in Seq(Token) /\ <<>> \in Seq(Int) /\ Len(<<>>) = 0
    OBVIOUS
  <2>4. Work'
    BY <2>1, <2>3 DEF Work, Numbers, Spot
  <2>5. Len(list) \in Nat /\ Items' = 1..Len(list)
    BY <1>0, <2>1 DEF Work, Numbers
  <2>6. parsed = {} /\ allowed = {} /\ refused = {} /\ DOMAIN thread = {}
    BY <2>1 DEF IInv, QuietInv, Before, CheckInv, ThreadInv
  <2>7. ItemInv'
    BY <2>1, <2>5, <2>6 DEF ItemInv
  <2> QED
    BY <2>2, <2>4, <2>7 DEF TInv
<1>7. CASE \E sum \in [raw -> Sum] : delete_dupes(sum)
  <2>1. /\ pc' = "unique" /\ Items' = Items /\ refused' \subseteq raw
        /\ UNCHANGED <<page, list, tries, at, provider, query, exit, thread,
                       allowed, parsed, stop>>
    BY <1>7 DEF delete_dupes, Delete, DL_free, Items, capo
  <2>2. VarInv' /\ Work'
    BY <1>0, <2>1, WorkStays DEF TInv, VarInv
  <2>3. ItemInv'
    BY <1>0, <2>1, ItemStep DEF ItemInv
  <2> QED
    BY <2>2, <2>3 DEF TInv
<1>8. CASE \E items \in SUBSET {i \in raw : Live(i)} :
             delete_already_cached_items(items) \/ CheckText(items)
  <2>1. PICK items \in SUBSET raw : delete_already_cached_items(items) \/ CheckText(items)
    BY <1>8
  <2>2. /\ pc' \in {"done", "formats", "text", "keep", "lost"}
        /\ Items' = Items /\ refused' \subseteq refused \cup items
        /\ UNCHANGED <<page, list, tries, at, provider, query, exit, thread,
                       allowed, parsed, stop>>
    BY <2>1 DEF delete_already_cached_items, CheckText, Delete, DL_free, Items, capo
  <2>3. VarInv' /\ Work'
    BY <1>0, <2>2, WorkStays DEF TInv, VarInv
  <2>4. ItemInv'
    BY <1>0, <2>1, <2>2, ItemStep DEF ItemInv
  <2> QED
    BY <2>3, <2>4 DEF TInv
<1>9. CASE StartThreads \/ delete_wrong_formats
  <2>1. /\ pc' \in {"joining", "keep"} /\ Items' = Items
        /\ thread' = thread \/ thread' = [i \in {j \in raw : Live(j)} |-> "running"]
        /\ UNCHANGED <<page, list, tries, at, provider, query, exit, allowed,
                       parsed, stop, refused>>
    BY <1>9 DEF StartThreads, delete_wrong_formats, Delete, DL_free, Items, capo
  <2>2. VarInv' /\ Work'
    BY <1>0, <2>1, WorkStays DEF TInv, VarInv
  <2>3. ItemInv'
    BY <1>0, <2>1, ItemStep DEF ItemInv
  <2> QED
    BY <2>2, <2>3 DEF TInv
<1>10. CASE Join
  <2>1. PICK i \in DOMAIN thread :
          /\ allowed' \subseteq allowed \cup {i}
          /\ refused' \subseteq refused \cup {i}
          /\ thread' = [j \in DOMAIN thread \ {i} |-> thread[j]]
    BY <1>10 DEF Join
  <2>2. /\ pc' = pc /\ Items' = Items
        /\ UNCHANGED <<page, list, tries, at, provider, query, exit, parsed, stop>>
    BY <1>10 DEF Join, Items, capo
  <2>3. VarInv' /\ Work'
    BY <1>0, <2>2, WorkStays DEF TInv, VarInv
  <2>4. ItemInv'
    BY <1>0, <2>1, <2>2, ItemStep DEF ItemInv
  <2> QED
    BY <2>3, <2>4 DEF TInv
<1>11. CASE Keep
  <2>1. parsed' \subseteq raw
    BY <1>11, FirstOfSubset DEF Keep
  <2>2. /\ pc' = "done" /\ Items' = Items /\ stop' \in BOOLEAN
        /\ UNCHANGED <<page, list, tries, at, provider, query, exit, thread,
                       allowed, refused>>
    BY <1>11 DEF Keep, DL_free, Items, capo
  <2>3. VarInv' /\ Work'
    BY <1>0, <2>2, WorkStays DEF TInv, VarInv
  <2>4. ItemInv'
    BY <1>0, <2>1, <2>2, ItemStep DEF ItemInv
  <2> QED
    BY <2>3, <2>4 DEF TInv
<1>12. CASE Hand
  <2>1. /\ pc' = "idle" /\ Items' = 1..0 /\ stop' = FALSE /\ exit' = FALSE
        /\ parsed' = {} /\ allowed' = {} /\ refused' = {} /\ DOMAIN thread' = {}
        /\ UNCHANGED <<page, list, tries, at, provider, query>>
    BY <1>12 DEF Hand, Items, capo
  <2>2. VarInv' /\ Work'
    BY <1>0, <2>1, WorkStays DEF TInv, VarInv
  <2>3. ItemInv'
    BY <2>1 DEF ItemInv
  <2> QED
    BY <2>2, <2>3 DEF TInv
<1>13. CASE Threads
  <2>1. /\ DOMAIN thread' = DOMAIN thread
        /\ \A i \in DOMAIN thread : thread'[i] \in {thread[i], "allowed", "other", "failed"}
    BY <1>13 DEF Threads, ThreadEnds
  <2>2. UNCHANGED <<pc, page, list, tries, at, provider, query, exit, data,
                    allowed, parsed, stop, refused>>
    BY <1>13 DEF Threads, ThreadEnds, capo
  <2>3. VarInv' /\ Work' /\ Items' = Items
    BY <1>0, <2>2, WorkStays DEF TInv, VarInv, Items
  <2>4. ItemInv'
    BY <1>0, <2>1, <2>2, <2>3, ItemStep DEF ItemInv
  <2> QED
    BY <2>3, <2>4 DEF TInv
<1>14. CASE UNCHANGED allVars
  BY <1>0, <1>1, <1>14, WorkStays DEF TInv, VarInv, allVars, vars, capo, checkVars
<1> QED
  BY <1>2, <1>3, <1>4, <1>5, <1>6, <1>7, <1>8, <1>9, <1>10, <1>11, <1>12, <1>13, <1>14
  DEF Next, Check

LEMMA TypeInvariance == Spec => []TInv
<1> QED
  BY TypeInitially, TypeStep, Invariance, ListInvariance, UrlInvariance, PTL DEF Spec

\* Whatever the pages, the queries and the answers are: every variable has its
\* type.  Above all, every parser, wherever its searches end, stands on its page.
THEOREM ChecksTypes == Spec => []TypeOK
<1>1. TInv /\ IInv /\ UrlInv => TypeOK
  <2> SUFFICES ASSUME TInv, IInv, UrlInv PROVE TypeOK
    OBVIOUS
  <2>1. data \in Seq({"null", "live", "freed", "torn"})
    BY DEF TInv, ItemInv, IInv, MemoryInv, Items
  <2>2. /\ list \in Seq(Int) /\ tries \in Nat
        /\ at \in 0..Len(page)
    BY DEF TInv, Work, Spot, Numbers
  <2> QED
    BY <2>1, <2>2 DEF TypeOK, TInv, VarInv, ItemInv, UrlInv, IInv, MemoryInv
<1> QED
  BY <1>1, TypeInvariance, Invariance, UrlInvariance, PTL

-----------------------------------------------------------------------------
Distinct(s) == \A i, j \in 1..Len(s) : s[i] = s[j] => i = j

\* Parsers whose items are all up to where they stand.
Searched == {"cover_picsearch", "photos_picsearch"}
Walks == provider \notin DOMAIN Behind \cup Searched
                           \cup {"albumlist_musicbrainz", "photos_flickr",
                                 "review_echonest"}

\* What was taken is not found any more from where the parser stands.
WalkAhead == \A x \in Range(list) : x <= at
SearchAhead ==
  \A x \in Range(list), y \in 1..Len(page) :
    y > at /\ page[y].mark = "<a href=" => x <= y
FieldAhead ==
  \A x \in Range(list) :
    /\ x \in 1..Len(page)
    /\ \A y \in 1..Len(page) :
         y > at /\ page[y].mark = Behind[provider].node => page[y].entry # page[x].entry

Clean ==
  /\ provider \notin {"photos_flickr", "review_echonest"}
  /\ Tidy

TwiceInv ==
  Clean =>
    /\ Distinct(list)
    /\ pc = "parsing" =>
         /\ Walks => WalkAhead
         /\ provider \in Searched => SearchAhead
         /\ provider \in DOMAIN Behind => FieldAhead

-----------------------------------------------------------------------------
\* strstr() finds the first place from there on.
LEMMA FindFirst ==
  ASSUME page \in Seq(Token), NEW mark, NEW i \in Int, Find(mark, i) # 0
  PROVE  /\ Find(mark, i) \in 1..Len(page) /\ Find(mark, i) >= i
         /\ page[Find(mark, i)].mark = mark
         /\ \A y \in 1..Len(page) : y >= i /\ page[y].mark = mark => Find(mark, i) <= y
<1> DEFINE found == {j \in i..Len(page) : j > 0 /\ page[j].mark = mark}
<1>1. Len(page) \in Nat /\ found \in SUBSET (0..Len(page))
  OBVIOUS
<1>2. Find(mark, i) = IF found = {} THEN 0 ELSE Min(found)
  BY DEF Find
<1>3. IsFiniteSet(found) /\ found \in SUBSET Int
  <2> HIDE DEF found
  <2> QED
    BY <1>1, WithinFacts DEF Within
<1>4. found # {} => Min(found) \in found /\ \A y \in found : Min(found) <= y
  <2> HIDE DEF found
  <2> QED
    BY <1>3, MinFacts
<1>5. Find(mark, i) \in found /\ \A y \in found : Find(mark, i) <= y
  BY <1>2, <1>4
<1>6. \A y \in 1..Len(page) : y >= i /\ page[y].mark = mark => y \in found
  BY <1>1
<1> QED
  BY <1>1, <1>5, <1>6

\* As the parsers use it.
Later(i, j) == j = 0 \/ (j \in 1..Len(page) /\ j >= i)

LEMMA FindLater ==
  ASSUME Work
  PROVE  \A mark : \A i \in Int : Find(mark, i) \in Int /\ Later(i, Find(mark, i))
<1> SUFFICES ASSUME NEW mark, NEW i \in Int
             PROVE  Find(mark, i) \in Int /\ Later(i, Find(mark, i))
  OBVIOUS
<1>1. page \in Seq(Token) /\ Len(page) \in Nat
  BY FindPlace DEF Work
<1>2. Find(mark, i) \in Int
  BY <1>1, FindPlace
<1> QED
  BY <1>1, <1>2, FindFirst DEF Later

LEMMA Prepended ==
  ASSUME Numbers(list), NEW i \in Int
  PROVE  /\ Numbers(<<i>> \o list)
         /\ Range(<<i>> \o list) = Range(list) \cup {i}
         /\ Distinct(list) /\ i \notin Range(list) => Distinct(<<i>> \o list)
<1> DEFINE s == <<i>> \o list
<1>1. /\ Len(list) \in Nat /\ s \in Seq(Int) /\ Len(s) = Len(list) + 1
      /\ s[1] = i /\ \A k \in 2..Len(s) : s[k] = list[k - 1] /\ k - 1 \in 1..Len(list)
      /\ \A k \in 1..Len(list) : list[k] = s[k + 1] /\ k + 1 \in 1..Len(s)
      /\ 1 \in 1..Len(s)
      /\ DOMAIN s = 1..Len(s) /\ DOMAIN list = 1..Len(list)
  BY DEF Numbers
<1> HIDE DEF s
<1>2. Range(s) = Range(list) \cup {i}
  <2>1. \A k \in 1..Len(s) : s[k] = i \/ \E l \in 1..Len(list) : s[k] = list[l]
    <3>1. \A k \in 1..Len(s) : k = 1 \/ k \in 2..Len(s)
      BY <1>1
    <3> QED
      BY <1>1, <3>1
  <2>2. \A l \in 1..Len(list) : \E k \in 1..Len(s) : s[k] = list[l]
    BY <1>1
  <2>3. \E k \in 1..Len(s) : s[k] = i
    BY <1>1
  <2>4. /\ Range(s) = {s[k] : k \in 1..Len(s)}
        /\ Range(list) = {list[k] : k \in 1..Len(list)}
    BY <1>1 DEF Range
  <2> QED
    BY <2>1, <2>2, <2>3, <2>4
<1>3. ASSUME Distinct(list), i \notin Range(list) PROVE Distinct(s)
  <2> SUFFICES ASSUME NEW j \in 1..Len(s), NEW k \in 1..Len(s), s[j] = s[k]
               PROVE  j = k
    BY DEF Distinct
  <2>1. \A l \in 1..Len(list) : list[l] # i
    BY <1>1, <1>3 DEF Range
  <2>2. CASE j = 1 /\ k = 1
    BY <2>2
  <2>3. CASE j \in 2..Len(s) /\ k \in 2..Len(s)
    <3>1. list[j - 1] = list[k - 1] /\ j - 1 \in 1..Len(list) /\ k - 1 \in 1..Len(list)
      BY <1>1, <2>3
    <3>2. j - 1 = k - 1
      BY <1>3, <3>1 DEF Distinct
    <3> QED
      BY <3>2
  <2>4. CASE \/ j = 1 /\ k \in 2..Len(s)
             \/ k = 1 /\ j \in 2..Len(s)
    BY <1>1, <2>1, <2>4
  <2> QED
    BY <1>1, <2>2, <2>3, <2>4
<1> QED
  BY <1>1, <1>2, <1>3 DEF s, Numbers

LEMMA Reversed ==
  ASSUME NEW s, Numbers(s)
  PROVE  /\ Numbers(Reverse(s)) /\ Range(Reverse(s)) = Range(s)
         /\ Distinct(s) => Distinct(Reverse(s))
<1> DEFINE r == Reverse(s)
           n == Len(s)
<1>1. /\ n \in Nat /\ r \in Seq(Int) /\ Len(r) = n
      /\ DOMAIN s = 1..n /\ DOMAIN r = 1..n
      /\ \A k \in 1..n : r[k] = s[n + 1 - k] /\ n + 1 - k \in 1..n
      /\ \A k \in 1..n : s[k] = r[n + 1 - k]
  BY DEF Numbers, Reverse
<1> HIDE DEF r, n
<1>2. Range(r) = Range(s)
  <2>1. /\ \A k \in 1..n : \E l \in 1..n : r[k] = s[l]
        /\ \A k \in 1..n : \E l \in 1..n : s[k] = r[l]
    BY <1>1
  <2>2. Range(r) = {r[k] : k \in 1..n} /\ Range(s) = {s[k] : k \in 1..n}
    BY <1>1 DEF Range
  <2> QED
    BY <2>1, <2>2
<1>3. ASSUME Distinct(s) PROVE Distinct(r)
  <2> SUFFICES ASSUME NEW j \in 1..n, NEW k \in 1..n, r[j] = r[k] PROVE j = k
    BY <1>1 DEF Distinct
  <2>1. n + 1 - j = n + 1 - k
    BY <1>1, <1>3 DEF Distinct, n
  <2> QED
    BY <1>1, <2>1
<1> QED
  BY <1>1, <1>2, <1>3 DEF r, Numbers

\* A turn leaves the list, or puts something in front of it; some turn it.
Leaves == list' \in {list, Reverse(list)}
Puts(i) == list' \in {<<i>> \o list, Reverse(<<i>> \o list)}

LEMMA Lists ==
  ASSUME Numbers(list), Distinct(list)
  PROVE  /\ Leaves => Distinct(list') /\ Range(list') = Range(list)
         /\ \A i \in Int : Puts(i) =>
              /\ Range(list') = Range(list) \cup {i}
              /\ i \notin Range(list) => Distinct(list')
<1>1. ASSUME Leaves PROVE Distinct(list') /\ Range(list') = Range(list)
  BY <1>1, Reversed DEF Leaves
<1>2. ASSUME NEW i \in Int, Puts(i)
      PROVE  /\ Range(list') = Range(list) \cup {i}
             /\ i \notin Range(list) => Distinct(list')
  BY <1>2, Prepended, Reversed DEF Puts
<1> QED
  BY <1>1, <1>2

-----------------------------------------------------------------------------
\* Of what comes behind where it stands nothing is on the list.
Past(i) == i \in Int /\ i > at
Reaches(i) == at' \in Int /\ at' >= i

WalkTurn ==
  \/ Leaves /\ (pc' # "parsing" \/ Past(at'))
  \/ \E i : /\ Past(i) /\ Puts(i)
            /\ pc' # "parsing" \/ at' = i \/ Reaches(i)
  \/ pc' # "parsing" /\ list = <<>> /\ \E i : Number(i) /\ Puts(i)
  \/ pc' # "parsing" /\ Distinct(list')

Alone == OneShot => list = <<>>

LEMMA WalkKeeps ==
  ASSUME Work, Distinct(list), WalkAhead, WalkTurn
  PROVE  Distinct(list') /\ (pc' = "parsing" => WalkAhead')
<1>1. Numbers(list) /\ at \in Int /\ \A x \in Range(list) : x \in Int
  <2>1. at \in Int
    BY FindPlace DEF Work, Spot
  <2> QED
    BY <2>1 DEF Work, Numbers, Range
<1>2. CASE Leaves /\ (pc' # "parsing" \/ Past(at'))
  BY <1>1, <1>2, Lists DEF WalkAhead, Past
<1>3. ASSUME NEW i, Past(i), Puts(i),
             pc' # "parsing" \/ at' = i \/ Reaches(i)
      PROVE  Distinct(list') /\ (pc' = "parsing" => WalkAhead')
  <2>1. i \in Int /\ i > at /\ \A x \in Range(list) : x <= at
    BY <1>3 DEF WalkAhead, Past
  <2>2. i \notin Range(list)
    BY <1>1, <2>1
  <2>3. Distinct(list') /\ Range(list') = Range(list) \cup {i}
    BY <1>1, <1>3, <2>1, <2>2, Lists
  <2>4. pc' = "parsing" => at' \in Int /\ at' >= i
    BY <1>3, <2>1 DEF Reaches
  <2>5. \A x \in Range(list') : x \in Int /\ x <= i
    <3>1. \A x \in Range(list) : x \in Int /\ x <= i
      BY <1>1, <2>1
    <3> QED
      BY <2>1, <2>3, <3>1
  <2>6. ASSUME pc' = "parsing" PROVE \A x \in Range(list') : x <= at'
    BY <2>4, <2>5, <2>6, <2>1
  <2> QED
    BY <2>3, <2>6 DEF WalkAhead
<1>4. ASSUME pc' # "parsing", list = <<>>, NEW i, Number(i), Puts(i)
      PROVE  Distinct(list')
  <2>1. Range(list) = {}
    BY <1>4 DEF Range
  <2> QED
    BY <1>1, <1>4, <2>1, Lists DEF Number
<1> QED
  BY <1>2, <1>3, <1>4 DEF WalkTurn

\* What is found from the next place on is past it; at the start, whatever is found.
LEMMA Ahead ==
  ASSUME Work
  PROVE  /\ \A mark : Find(mark, at + 1) = 0 \/ Past(Find(mark, at + 1))
         /\ at = 0 => \A mark : Find(mark, 1) = 0 \/ Past(Find(mark, 1))
         /\ at = 0 => \A mark, first : LET i == Find(mark, Find(first, 1) + 1)
                                      IN  i = 0 \/ Past(i)
         /\ at = 0 => \A entity, name : LET i == mbid_parse_data(entity, name)
                                       IN  i = 0 \/ Past(i)
<1>1. at \in Int /\ Len(page) \in Nat
  BY FindPlace DEF Work, Spot
<1>2. ASSUME NEW mark, NEW i \in Int, i > at
      PROVE  Find(mark, i) = 0 \/ Past(Find(mark, i))
  BY <1>1, <1>2, FindLater DEF Later, Past
<1>3. ASSUME at = 0, NEW mark, NEW first
      PROVE  LET i == Find(mark, Find(first, 1) + 1) IN i = 0 \/ Past(i)
  <2>1. Find(first, 1) \in Nat
    BY <1>1, FindPlace DEF Work
  <2> QED
    BY <1>2, <1>3, <2>1
<1>4. ASSUME at = 0, NEW entity, NEW name
      PROVE  LET i == mbid_parse_data(entity, name) IN i = 0 \/ Past(i)
  BY <1>1, <1>4, EntityPlace DEF Work, Past
<1> QED
  BY <1>1, <1>2, <1>3, <1>4

LEMMA LyricsWalks ==
  ASSUME Work, Alone, Walks, LyricsParse
  PROVE  WalkTurn
<1> USE Ahead DEF Parses, While, Return, Proceed, Try, Stray, Found, Fetched,
        WalkTurn, Leaves, Puts
<1>1. CASE lyrics_chartlyrics_parse
  BY <1>1 DEF lyrics_chartlyrics_parse, Walks, Behind, Searched
<1>2. CASE lyrics_elyrics_parse
  BY <1>2, Places DEF lyrics_elyrics_parse, Alone, OneShot, Single
<1>3. CASE lyrics_lipwalk_parse
  BY <1>3, Places DEF lyrics_lipwalk_parse, Alone, OneShot, Single
<1>4. CASE lyrics_lyrdb_parse
  BY <1>4, Places DEF lyrics_lyrdb_parse, Alone, OneShot, Single
<1>5. CASE lyrics_lyricsreg_parse
  BY <1>5, Places DEF lyrics_lyricsreg_parse, Alone, OneShot, Single
<1>6. CASE lyrics_lyricstime_parse
  BY <1>6 DEF lyrics_lyricstime_parse
<1>7. CASE lyrics_lyricsvip_parse
  BY <1>7, Places DEF lyrics_lyricsvip_parse, Alone, OneShot, Single
<1>8. CASE lyrics_lyricswiki_parse
  BY <1>8 DEF lyrics_lyricswiki_parse
<1>9. CASE lyrics_lyricswiki_page
  BY <1>9 DEF lyrics_lyricswiki_page
<1>10. CASE lyrics_lyrixat_parse
  BY <1>10 DEF lyrics_lyrixat_parse, Walks, Behind, Searched
<1>11. CASE lyrics_magistrix_parse
  BY <1>11 DEF lyrics_magistrix_parse, Alone, OneShot, Walks, Behind, Searched
<1>12. CASE lyrics_metallum_parse
  BY <1>12, Places DEF lyrics_metallum_parse, Alone, OneShot, Single
<1>13. CASE lyrics_vagalume_parse
  BY <1>13, Places DEF lyrics_vagalume_parse, Alone, OneShot, Single
<1>14. CASE guitartabs_chordie_parse
  BY <1>14 DEF guitartabs_chordie_parse
<1> QED
  BY <1>1, <1>2, <1>3, <1>4, <1>5, <1>6, <1>7, <1>8, <1>9, <1>10, <1>11, <1>12, <1>13, <1>14
  DEF LyricsParse

LEMMA PictureWalks ==
  ASSUME Work, Alone, Walks, PictureParse
  PROVE  WalkTurn
<1> USE Ahead DEF Parses, While, Return, Proceed, Try, Stray, Found, Fetched,
        WalkTurn, Leaves, Puts
<1>1. CASE cover_coverartarchive_parse
  BY <1>1 DEF cover_coverartarchive_parse
<1>2. CASE parse_archive_json
  BY <1>2 DEF parse_archive_json, FindWithin
<1>3. CASE cover_discogs_parse
  BY <1>3 DEF cover_discogs_parse
<1>4. CASE cover_google_parse
  BY <1>4 DEF cover_google_parse, generic_google_parse
<1>5. CASE cover_jamendo_parse
  BY <1>5 DEF cover_jamendo_parse
<1>6. CASE cover_lastfm_parse
  BY <1>6 DEF cover_lastfm_parse, Walks, Behind, Searched
<1>7. CASE cover_lyricswiki_parse
  BY <1>7 DEF cover_lyricswiki_parse, Walks, Behind, Searched
<1>8. CASE cover_musicbrainz_parse
  BY <1>8 DEF cover_musicbrainz_parse
<1>9. CASE cover_picsearch_parse
  BY <1>9 DEF cover_picsearch_parse, generic_picsearch_parse, Walks, Behind, Searched
<1>10. CASE cover_rhapsody_parse
  BY <1>10 DEF cover_rhapsody_parse, Walks, Behind, Searched
<1>11. CASE cover_slothradio_parse
  BY <1>11 DEF cover_slothradio_parse, Walks, Behind, Searched
<1>12. CASE photos_bbcmusic_parse
  BY <1>12, Places DEF photos_bbcmusic_parse, Alone, OneShot, Single
<1>13. CASE photos_discogs_parse
  BY <1>13 DEF photos_discogs_parse
<1>14. CASE photos_flickr_parse
  BY <1>14 DEF photos_flickr_parse, Walks, Behind, Searched
<1>15. CASE photos_google_parse
  BY <1>15 DEF photos_google_parse, generic_google_parse
<1>16. CASE photos_lastfm_parse
  BY <1>16 DEF photos_lastfm_parse
<1>17. CASE photos_picsearch_parse
  BY <1>17 DEF photos_picsearch_parse, generic_picsearch_parse, Walks, Behind, Searched
<1>18. CASE photos_rhapsody_parse
  BY <1>18 DEF photos_rhapsody_parse, Walks, Behind, Searched
<1>19. CASE photos_singerpictures_parse
  BY <1>19 DEF photos_singerpictures_parse
<1>20. CASE backdrops_htbackdrops_parse
  BY <1>20 DEF backdrops_htbackdrops_parse, Walks, Behind, Searched
<1> QED
  BY <1>1, <1>2, <1>3, <1>4, <1>5, <1>6, <1>7, <1>8, <1>9, <1>10, <1>11, <1>12, <1>13, <1>14, <1>15, <1>16, <1>17, <1>18, <1>19, <1>20
  DEF PictureParse

LEMMA EntityWalks ==
  ASSUME Work, generic_musicbrainz_parse
  PROVE  /\ list' = list
         /\ pc' # "parsing" \/ Past(at')
<1>1. at \in Int /\ at + 1 > at /\ Len(page) \in Nat
  BY FindPlace DEF Work, Spot
<1>2. ASSUME NEW n \in (at + 1)..Len(page) PROVE Past(n)
  BY <1>1 DEF Past
<1> QED
  BY <1>2 DEF generic_musicbrainz_parse, Stray, Return

\* What is before the next but one, or the end of the page, is past it, too.
LEMMA SkippedPast ==
  ASSUME Work, NEW mark, Find(mark, at + 1) # 0
  PROVE  LET after == Find(mark, Find(mark, at + 1) + 1)
         IN  Past(IF after = 0 THEN Len(page) ELSE after - 1)
<1> DEFINE node == Find(mark, at + 1)
           after == Find(mark, node + 1)
<1>1. at \in Int /\ Len(page) \in Nat
  BY FindPlace DEF Work, Spot
<1>2. node \in Int /\ node > at /\ node <= Len(page)
  BY <1>1, FindLater DEF Later
<1>3. after \in Int /\ Later(node + 1, after)
  <2> HIDE DEF node
  <2> QED
    BY <1>2, FindLater
<1>4. Past(IF after = 0 THEN Len(page) ELSE after - 1)
  <2> HIDE DEF node, after
  <2> QED
    BY <1>1, <1>2, <1>3 DEF Later, Past
<1> QED
  BY <1>4

LEMMA InfoWalks ==
  ASSUME Work, Alone, Walks, InfoParse
  PROVE  WalkTurn
<1> USE Ahead DEF Parses, While, Return, Proceed, Try, Stray, Found, Fetched,
        WalkTurn, Leaves, Puts
<1>1. CASE ainfo_bbcmusic_parse
  BY <1>1, Places DEF ainfo_bbcmusic_parse, Alone, OneShot, Single
<1>2. CASE ainfo_echonest_parse
  BY <1>2 DEF ainfo_echonest_parse
<1>3. CASE ainfo_lastfm_parse
  BY <1>3, Places DEF ainfo_lastfm_parse, Alone, OneShot, Single
<1>4. CASE ainfo_lyricsreg_parse
  BY <1>4, Places DEF ainfo_lyricsreg_parse, Alone, OneShot, Single
<1>5. CASE albumlist_musicbrainz_parse
  BY <1>5 DEF albumlist_musicbrainz_parse, Walks, Behind, Searched
<1>6. CASE review_echonest_parse
  BY <1>6 DEF review_echonest_parse, Walks, Behind, Searched
<1>7. CASE review_metallum_parse
  <2> DEFINE node == Find("<a href=", at + 1)
             after == Find("<a href=", node + 1)
             skipped == IF after = 0 THEN Len(page) ELSE after - 1
  <2>1. node # 0 => Past(skipped)
    BY SkippedPast
  <2> HIDE DEF skipped
  <2>2. \/ \E review : /\ review = Find("<div class=reviewContent", at + 1) /\ review # 0
                       /\ Puts(review) /\ at' = review
        \/ list' = list /\ pc' # "parsing"
        \/ node # 0 /\ list' = list /\ at' \in {node, skipped}
    BY <1>7 DEF review_metallum_parse, FindWithin, skipped
  <2>3. node # 0 => Past(node)
    OBVIOUS
  <2> HIDE DEF node
  <2> QED
    BY <2>1, <2>2, <2>3
<1>8. CASE relations_musicbrainz_parse
  BY <1>8, EntityWalks DEF relations_musicbrainz_parse, info_node, FindWithin
<1>9. CASE relations_generated_parse
  <2>1. PICK first \in {1, 2, 4} :
          list' = [i \in 1..(7 - first) |-> first + i - 1]
    BY <1>9 DEF relations_generated_parse
  <2>2. Distinct(list')
    BY <2>1 DEF Distinct
  <2> QED
    BY <1>9, <2>2 DEF relations_generated_parse
<1>10. CASE tags_musicbrainz_parse
  BY <1>10, EntityWalks DEF tags_musicbrainz_parse, info_node, FindWithin
<1>11. CASE similar_lastfm_parse
  BY <1>11 DEF similar_lastfm_parse
<1>12. CASE similar_song_lastfm_parse
  BY <1>12 DEF similar_song_lastfm_parse
<1>13. CASE tracklist_musicbrainz_parse
  BY <1>13 DEF tracklist_musicbrainz_parse
<1>14. CASE traverse_xml
  <2> DEFINE beg == IF page[at].mark = "id=" THEN Find("<title>", at + 1) ELSE at
             title == Find("<title>", beg + 1)
             dy == Find("</duration>", title)
  <2>1. at \in Int /\ (beg = 0 \/ (beg \in Int /\ beg >= at))
    BY FindPlace, FindLater DEF Work, Spot, Later
  <2>2. beg # 0 /\ title # 0 => Past(title)
    <3> HIDE DEF beg
    <3> QED
      BY <2>1, FindLater DEF Later, Past
  <2>3. beg # 0 /\ title # 0 => dy = 0 \/ (dy \in Int /\ dy >= title)
    <3> HIDE DEF beg, title
    <3> QED
      BY <2>2, FindLater DEF Later, Past
  <2>4. \/ pc' # "parsing" /\ list' \in {list, Reverse(list)}
        \/ /\ beg # 0 /\ title # 0
           /\ dy = 0 => at' = title /\ list' = list
           /\ dy # 0 => at' = dy /\ list' = <<title>> \o list
    BY <1>14 DEF traverse_xml
  <2> HIDE DEF beg, title, dy
  <2> QED
    BY <2>2, <2>3, <2>4 DEF Reaches
<1> QED
  BY <1>1, <1>2, <1>3, <1>4, <1>5, <1>6, <1>7, <1>8, <1>9, <1>10, <1>11, <1>12, <1>13, <1>14
  DEF InfoParse

-----------------------------------------------------------------------------
\* A node behind the place where a parser stands, and what it takes from there.
NodeAt(mark, n) == n \in 1..Len(page) /\ n > at /\ page[n].mark = mark
From(n, i) == i = Find(Behind[provider].field, n) /\ i # 0
UpTo(n, i) == i \in Int /\ i >= n

FieldTurn ==
  \/ Leaves /\ (pc' # "parsing" \/ UpTo(at, at'))
  \/ \E n, i : /\ NodeAt(Behind[provider].node, n) /\ From(n, i) /\ Puts(i)
               /\ pc' # "parsing" \/ UpTo(n, at')
  \/ pc' # "parsing" /\ \E S \in SUBSET Range(list) : S # {} /\ Puts(-Max(S))
  \/ pc' # "parsing" /\ list = <<>> /\ \E i : Number(i) /\ Puts(i)

\* A place of the page with that literal.
HasMark(mark, n) == n \in 1..Len(page) /\ page[n].mark = mark

\* What is found behind a node belongs to the node's entry.
LEMMA OwnEntry ==
  ASSUME page \in Seq(Token), NEW node, NEW literals, Regular(node, literals),
         node \in literals, NEW field \in literals,
         NEW n, HasMark(node, n), Find(field, n) # 0
  PROVE  /\ HasMark(field, Find(field, n))
         /\ page[Find(field, n)].entry = page[n].entry
<1> DEFINE places == 1..Len(page)
           i == Find(field, n)
<1>1. Len(page) \in Nat /\ n \in places /\ n \in Int /\ page[n].mark = node
  BY DEF HasMark
<1>2. /\ i \in places /\ i >= n /\ page[i].mark = field
      /\ \A y \in places : y >= n /\ page[y].mark = field => i <= y
  BY <1>1, FindFirst
<1>3. page[n].entry # 0 /\ page[i].entry # 0
  BY <1>1, <1>2 DEF Regular
<1>4. PICK j \in places : page[j].mark = field /\ page[j].entry = page[n].entry
  <2> DEFINE marks(k) == {page[l].mark : l \in {m \in places : page[m].entry = k}}
             entries == {page[l].entry : l \in places} \ {0}
  <2>1. \A k, l \in entries : marks(k) = marks(l)
    BY DEF Regular, Uniform
  <2>2. page[n].entry \in entries /\ page[i].entry \in entries
    BY <1>1, <1>2, <1>3
  <2>3. field \in marks(page[i].entry)
    BY <1>2
  <2>4. field \in marks(page[n].entry)
    BY <2>1, <2>2, <2>3
  <2> QED
    BY <2>4
<1>5. n <= j /\ i <= j
  <2>1. n <= j
    BY <1>1, <1>4 DEF Regular
  <2> QED
    BY <1>1, <1>2, <1>4, <2>1
<1>6. page[i].entry = page[n].entry
  BY <1>1, <1>2, <1>3, <1>4, <1>5 DEF Regular, Uniform
<1> QED
  BY <1>2, <1>6 DEF HasMark

\* So does the field of those that take one, and no node of that entry is left.
LEMMA FieldOfNode ==
  ASSUME Work, provider \in DOMAIN Behind, Tidy,
         NEW n, NodeAt(Behind[provider].node, n), NEW i, From(n, i)
  PROVE  /\ i \in 1..Len(page)
         /\ page[i].entry = page[n].entry
         /\ \A y \in 1..Len(page) :
              y > n /\ page[y].mark = Behind[provider].node
                => page[y].entry # page[i].entry
<1> DEFINE node == Behind[provider].node
           field == Behind[provider].field
           literals == {node, field}
<1>1. Regular(node, literals) /\ node \in literals /\ field \in literals
  BY DEF Tidy
<1>2. page \in Seq(Token) /\ Len(page) \in Nat
  BY DEF Work
<1>3. /\ n \in 1..Len(page) /\ n \in Int /\ page[n].mark = node /\ HasMark(node, n)
      /\ i = Find(field, n) /\ i # 0
  BY <1>2 DEF NodeAt, HasMark, From
<1> HIDE DEF node, field, literals
<1>4. HasMark(field, i) /\ page[i].entry = page[n].entry
  BY <1>1, <1>2, <1>3, OwnEntry
<1>5. ASSUME NEW y \in 1..Len(page), y > n, page[y].mark = node
      PROVE  page[y].entry # page[n].entry
  BY <1>1, <1>2, <1>3, <1>5 DEF Regular
<1> QED
  BY <1>4, <1>5 DEF HasMark, node

LEMMA FieldKeeps ==
  ASSUME Work, UNCHANGED capo, provider \in DOMAIN Behind, Tidy, Distinct(list),
         FieldAhead, FieldTurn
  PROVE  Distinct(list') /\ (pc' = "parsing" => FieldAhead')
<1>1. /\ Numbers(list) /\ at \in Int /\ Len(page) \in Nat
      /\ page' = page /\ provider' = provider
  BY FindPlace DEF Work, Spot, capo
<1>2. CASE Leaves /\ (pc' # "parsing" \/ UpTo(at, at'))
  <2>1. Distinct(list') /\ Range(list') = Range(list)
    BY <1>1, <1>2, Lists
  <2> QED
    BY <1>1, <1>2, <2>1 DEF FieldAhead, UpTo
<1>3. ASSUME NEW n, NEW i, NodeAt(Behind[provider].node, n), From(n, i), Puts(i),
             pc' # "parsing" \/ UpTo(n, at')
      PROVE  Distinct(list') /\ (pc' = "parsing" => FieldAhead')
  <2>1. /\ i \in 1..Len(page)
        /\ page[i].entry = page[n].entry
        /\ \A y \in 1..Len(page) :
             y > n /\ page[y].mark = Behind[provider].node
               => page[y].entry # page[i].entry
    BY <1>3, FieldOfNode
  <2>2. n \in 1..Len(page) /\ n > at /\ page[n].mark = Behind[provider].node
    BY <1>3 DEF NodeAt
  <2>3. i \notin Range(list)
    BY <2>1, <2>2 DEF FieldAhead
  <2>4. Distinct(list') /\ Range(list') = Range(list) \cup {i}
    BY <1>1, <1>3, <2>1, <2>3, Lists
  <2>5. ASSUME pc' = "parsing", NEW x \in Range(list') PROVE
          /\ x \in 1..Len(page)
          /\ \A y \in 1..Len(page) :
               y > at' /\ page[y].mark = Behind[provider].node
                 => page[y].entry # page[x].entry
    <3>1. at' \in Int /\ at' >= n
      BY <1>3, <2>5 DEF UpTo
    <3>2. \A y \in 1..Len(page) : y > at' => y > n /\ y > at
      BY <1>1, <2>2, <3>1
    <3> QED
      BY <2>1, <2>4, <2>5, <3>2 DEF FieldAhead
  <2> QED
    BY <1>1, <2>4, <2>5 DEF FieldAhead
<1>4. ASSUME pc' # "parsing", NEW S \in SUBSET Range(list), S # {}, Puts(-Max(S))
      PROVE  Distinct(list')
  <2>1. /\ Max(S) \in S /\ Number(-Max(S))
        /\ \A x \in Range(list) : x \in Int /\ x > 0
    <3>1. \A x \in Range(list) : x \in Int /\ x > 0
      BY <1>1 DEF FieldAhead
    <3> QED
      BY <1>1, <1>4, <3>1, SpecialItem
  <2>2. -Max(S) \in Int /\ -Max(S) \notin Range(list)
    BY <2>1
  <2> QED
    BY <1>1, <1>4, <2>2, Lists
<1>5. ASSUME pc' # "parsing", list = <<>>, NEW i, Number(i), Puts(i)
      PROVE  Distinct(list')
  <2>1. Range(list) = {}
    BY <1>5 DEF Range
  <2> QED
    BY <1>1, <1>5, <2>1, Lists DEF Number
<1> QED
  BY <1>2, <1>3, <1>4, <1>5 DEF FieldTurn

\* What the parsers with such nodes find.
LEMMA NodesAhead ==
  ASSUME Work
  PROVE  /\ UpTo(at, at)
         /\ \A mark : LET n == Find(mark, at + 1)
                     IN  n = 0 \/ (NodeAt(mark, n) /\ UpTo(n, n) /\ UpTo(at, n))
         /\ at = 0 => \A mark, first : LET n == Find(mark, Find(first, 1) + 1)
                                      IN  n = 0 \/ (NodeAt(mark, n) /\ UpTo(n, n) /\ UpTo(at, n))
         /\ \A mark, first : LET f == Find(first, at + 1)
                                n == Find(mark, f)
                            IN  /\ f = 0 \/ UpTo(at, f)
                                /\ f # 0 => n = 0 \/ NodeAt(mark, n)
                                /\ f # 0 /\ n # 0 =>
                                     \A next : LET i == Find(next, n)
                                                IN  i = 0 \/ (UpTo(n, i) /\ UpTo(at, i))
<1>1. at \in Int /\ Len(page) \in Nat /\ page \in Seq(Token)
  BY FindPlace DEF Work, Spot
<1>2. ASSUME NEW mark, NEW i \in Int, i > at, Find(mark, i) # 0
      PROVE  /\ NodeAt(mark, Find(mark, i)) /\ UpTo(at, Find(mark, i))
             /\ UpTo(Find(mark, i), Find(mark, i))
  BY <1>1, <1>2, FindFirst DEF NodeAt, UpTo
<1>3. ASSUME at = 0, NEW mark, NEW first
      PROVE  LET n == Find(mark, Find(first, 1) + 1)
             IN  n = 0 \/ (NodeAt(mark, n) /\ UpTo(n, n) /\ UpTo(at, n))
  <2>1. Find(first, 1) \in Nat
    BY <1>1, FindPlace
  <2> QED
    BY <1>2, <1>3, <2>1
<1>4. ASSUME NEW mark, NEW first, Find(first, at + 1) # 0
      PROVE  LET f == Find(first, at + 1)
                 n == Find(mark, f)
             IN  /\ UpTo(at, f)
                 /\ n = 0 \/ NodeAt(mark, n)
                 /\ n # 0 => \A next : LET i == Find(next, n)
                                      IN  i = 0 \/ (UpTo(n, i) /\ UpTo(at, i))
  <2> DEFINE f == Find(first, at + 1)
             n == Find(mark, f)
  <2>1. f \in Int /\ f > at /\ UpTo(at, f)
    BY <1>1, <1>4, FindFirst DEF UpTo
  <2>2. n = 0 \/ (NodeAt(mark, n) /\ n \in Int /\ n > at)
    <3> HIDE DEF f
    <3> QED
      BY <1>1, <1>2, <2>1, FindPlace DEF NodeAt
  <2>3. ASSUME n # 0, NEW next
        PROVE  LET i == Find(next, n) IN i = 0 \/ (UpTo(n, i) /\ UpTo(at, i))
    <3>1. n \in Int /\ n > at
      BY <2>2, <2>3
    <3> HIDE DEF n
    <3> QED
      BY <1>1, <3>1, FindLater DEF Later, UpTo
  <2> QED
    BY <2>1, <2>2, <2>3
<1>5. UpTo(at, at)
  BY <1>1 DEF UpTo
<1> QED
  BY <1>1, <1>2, <1>3, <1>4, <1>5

LEMMA FieldTurns ==
  ASSUME Work, Alone, provider \in DOMAIN Behind, Parse
  PROVE  FieldTurn
<1> USE NodesAhead DEF Parses, While, Return, Proceed, Try, Found, Fetched,
        FieldTurn, Leaves, Puts, From
<1>1. CASE lyrics_chartlyrics_parse
  <2>1. /\ Behind[provider].node = "<SearchLyricResult>"
        /\ Behind[provider].field = "<LyricId>"
    BY <1>1 DEF lyrics_chartlyrics_parse, Behind
  <2> QED
    BY <1>1, <2>1 DEF lyrics_chartlyrics_parse, Is
<1>2. CASE lyrics_lyrixat_parse
  <2>1. /\ Behind[provider].node = "<!-- start of result"
        /\ Behind[provider].field = "<a href='/t/"
    BY <1>2 DEF lyrics_lyrixat_parse, Behind
  <2> QED
    BY <1>2, <2>1 DEF lyrics_lyrixat_parse, Is
<1>3. CASE cover_lastfm_parse
  <2>1. /\ Behind[provider].node = "<album>"
        /\ Behind[provider].field = "<image size="
    BY <1>3 DEF cover_lastfm_parse, Behind
  <2> QED
    BY <1>3, <2>1 DEF cover_lastfm_parse, Is
<1>4. CASE cover_lyricswiki_parse
  <2>1. /\ Behind[provider].node = "timestamp="
        /\ Behind[provider].field = "url="
    BY <1>4 DEF cover_lyricswiki_parse, Behind
  <2> QED
    BY <1>4, <2>1 DEF cover_lyricswiki_parse
<1>5. CASE photos_rhapsody_parse
  <2>1. /\ Behind[provider].node = "<img "
        /\ Behind[provider].field = "src="
    BY <1>5 DEF photos_rhapsody_parse, Behind
  <2> QED
    BY <1>5, <2>1 DEF photos_rhapsody_parse
<1>6. CASE cover_slothradio_parse
  <2>1. /\ Behind[provider].node = "<!-- RESULT ITEM"
        /\ Behind[provider].field = "img src="
    BY <1>6 DEF cover_slothradio_parse, Behind
  <2> QED
    BY <1>6, <2>1 DEF cover_slothradio_parse
<1>7. CASE backdrops_htbackdrops_parse
  <2>1. /\ Behind[provider].node = "<image>"
        /\ Behind[provider].field = "<id>"
    BY <1>7 DEF backdrops_htbackdrops_parse, Behind
  <2> QED
    BY <1>7, <2>1 DEF backdrops_htbackdrops_parse
<1>8. CASE lyrics_magistrix_parse
  <2>1. /\ Behind[provider].node = "<div class='title'"
        /\ Behind[provider].field = "&ndash;"
    BY <1>8 DEF lyrics_magistrix_parse, Behind
  <2> QED
    BY <1>8, <2>1, Places DEF lyrics_magistrix_parse, Is, Alone, OneShot
<1>9. CASE cover_rhapsody_parse
  <2>1. /\ Behind[provider].node = "<img "
        /\ Behind[provider].field = "src="
    BY <1>9 DEF cover_rhapsody_parse, Behind
  <2> QED
    BY <1>9, <2>1 DEF cover_rhapsody_parse
<1>10. CASE LyricsParse
  BY <1>10, <1>1, <1>2, <1>8
  DEF Behind, LyricsParse,
      lyrics_elyrics_parse, lyrics_lipwalk_parse, lyrics_lyrdb_parse,
      lyrics_lyricsreg_parse, lyrics_lyricstime_parse, lyrics_lyricsvip_parse,
      lyrics_lyricswiki_parse, lyrics_lyricswiki_page, lyrics_metallum_parse,
      lyrics_vagalume_parse, guitartabs_chordie_parse
<1>11. CASE PictureParse
  BY <1>11, <1>3, <1>4, <1>9, <1>6, <1>5, <1>7
  DEF Behind, PictureParse,
      cover_coverartarchive_parse, parse_archive_json, cover_discogs_parse,
      cover_google_parse, cover_jamendo_parse, cover_musicbrainz_parse,
      cover_picsearch_parse, photos_bbcmusic_parse, photos_discogs_parse,
      photos_flickr_parse, photos_google_parse, photos_lastfm_parse,
      photos_picsearch_parse, photos_singerpictures_parse, generic_google_parse,
      generic_picsearch_parse
<1>12. CASE InfoParse
  BY <1>12
  DEF Behind, InfoParse,
      ainfo_bbcmusic_parse, ainfo_echonest_parse, ainfo_lastfm_parse,
      ainfo_lyricsreg_parse, albumlist_musicbrainz_parse, review_echonest_parse,
      review_metallum_parse, relations_musicbrainz_parse, relations_generated_parse,
      tags_musicbrainz_parse, similar_lastfm_parse, similar_song_lastfm_parse,
      tracklist_musicbrainz_parse, traverse_xml
<1> QED
  BY <1>10, <1>11, <1>12 DEF Parse

-----------------------------------------------------------------------------
\* The two that are neither the one nor the other.
LEMMA OwnParser ==
  ASSUME Parse
  PROVE  /\ provider \in Searched => cover_picsearch_parse \/ photos_picsearch_parse
         /\ provider = "albumlist_musicbrainz" => albumlist_musicbrainz_parse
<1> USE DEF Searched, Parses
<1>1. CASE LyricsParse
  BY <1>1
  DEF LyricsParse,
      lyrics_chartlyrics_parse, lyrics_elyrics_parse, lyrics_lipwalk_parse,
      lyrics_lyrdb_parse, lyrics_lyricsreg_parse, lyrics_lyricstime_parse,
      lyrics_lyricsvip_parse, lyrics_lyricswiki_parse, lyrics_lyricswiki_page,
      lyrics_lyrixat_parse, lyrics_magistrix_parse, lyrics_metallum_parse,
      lyrics_vagalume_parse, guitartabs_chordie_parse
<1>2. CASE PictureParse
  <2> USE <1>2
      DEF PictureParse, generic_google_parse, generic_picsearch_parse,
          cover_coverartarchive_parse, parse_archive_json, cover_discogs_parse,
          cover_google_parse, cover_jamendo_parse, cover_lastfm_parse,
          cover_lyricswiki_parse, cover_musicbrainz_parse, cover_rhapsody_parse,
          cover_slothradio_parse, photos_bbcmusic_parse, photos_discogs_parse,
          photos_flickr_parse, photos_google_parse, photos_lastfm_parse,
          photos_rhapsody_parse, photos_singerpictures_parse,
          backdrops_htbackdrops_parse
  <2>1. provider \in Searched => cover_picsearch_parse \/ photos_picsearch_parse
    OBVIOUS
  <2>2. provider # "albumlist_musicbrainz"
    BY DEF cover_picsearch_parse, photos_picsearch_parse
  <2> QED
    BY <2>1, <2>2
<1>3. CASE InfoParse
  <2> USE <1>3
      DEF InfoParse,
          ainfo_bbcmusic_parse, ainfo_echonest_parse, ainfo_lastfm_parse,
          ainfo_lyricsreg_parse, review_echonest_parse, review_metallum_parse,
          relations_musicbrainz_parse, relations_generated_parse,
          tags_musicbrainz_parse, similar_lastfm_parse, similar_song_lastfm_parse,
          tracklist_musicbrainz_parse, traverse_xml
  <2>1. provider \notin Searched
    BY DEF albumlist_musicbrainz_parse
  <2>2. provider = "albumlist_musicbrainz" => albumlist_musicbrainz_parse
    OBVIOUS
  <2> QED
    BY <2>1, <2>2
<1> QED
  BY <1>1, <1>2, <1>3 DEF Parse

LEMMA SearchKeeps ==
  ASSUME Work, UNCHANGED capo, Distinct(list), SearchAhead, provider \in Searched, Parse
  PROVE  Distinct(list') /\ (pc' = "parsing" => SearchAhead')
<1> DEFINE mark == "<a href="
           start == IF at = 0 THEN Find("<div id=results_table", 1) ELSE at
           node == Find(mark, start + 1)
           link == Find(mark, node + 1)
<1>1. /\ at \in Int /\ at >= 0 /\ Len(page) \in Nat /\ page \in Seq(Token)
      /\ Numbers(list) /\ page' = page /\ \A x \in Range(list) : x \in Int
  <2>1. Numbers(list) /\ \A x \in Range(list) : x \in Int
    BY DEF Work, Numbers, Range
  <2> QED
    BY <2>1, FindPlace DEF Work, Spot, capo
<1>2. start \in Int /\ start >= at
  <2> HIDE DEF mark, node, link
  <2>1. \A first : Find(first, 1) \in Nat
    BY <1>1, FindPlace
  <2>2. CASE at = 0
    <3>1. start \in Nat
      BY <2>1, <2>2
    <3> HIDE DEF start
    <3> QED
      BY <2>2, <3>1
  <2>3. CASE at # 0
    BY <1>1, <2>3
  <2> QED
    BY <2>2, <2>3
<1>3. \/ Leaves /\ pc' # "parsing"
      \/ node # 0 /\ at' = node /\ (Leaves \/ (link # 0 /\ Puts(link)))
  <2>1. PICK p \in Searched : generic_picsearch_parse(p)
    BY OwnParser DEF cover_picsearch_parse, photos_picsearch_parse, Searched
  <2>2. \/ list' = list /\ pc' # "parsing"
        \/ node # 0 /\ at' = node
             /\ (list' = list \/ (Is(link, "live") /\ list' = <<link>> \o list))
    <3> USE DEF generic_picsearch_parse, Try, Fetched, Found, Return, Stray
    <3> QED
      BY <2>1
  <2> HIDE DEF node, link
  <2> QED
    BY <2>2 DEF Is, Leaves, Puts
<1>4. node # 0 => /\ node \in 1..Len(page) /\ node > at /\ page[node].mark = mark
  <2> HIDE DEF start, mark
  <2> QED
    BY <1>1, <1>2, FindFirst
<1>5. node # 0 /\ link # 0 =>
        /\ link \in Int /\ link > node
        /\ \A y \in 1..Len(page) : y > node /\ page[y].mark = mark => link <= y
  <2> HIDE DEF node, mark
  <2> QED
    BY <1>1, <1>4, FindFirst
<1> HIDE DEF node, link, start, mark
<1>6. CASE Leaves /\ (pc' = "parsing" => node # 0 /\ at' = node)
  <2>1. Distinct(list') /\ Range(list') = Range(list)
    BY <1>1, <1>6, Lists
  <2>2. ASSUME pc' = "parsing" PROVE \A y \in 1..Len(page) : y > at' => y > at
    BY <1>1, <1>4, <1>6, <2>2
  <2> QED
    BY <1>1, <2>1, <2>2 DEF SearchAhead, mark
<1>7. CASE node # 0 /\ at' = node /\ link # 0 /\ Puts(link)
  <2>1. \A x \in Range(list) : x <= node
    BY <1>4, <1>7 DEF SearchAhead, mark
  <2>2. link \in Int /\ link \notin Range(list)
    BY <1>1, <1>4, <1>5, <1>7, <2>1
  <2>3. Distinct(list') /\ Range(list') = Range(list) \cup {link}
    BY <1>1, <1>7, <2>2, Lists
  <2>4. \A y \in 1..Len(page) : y > node => y > at
    BY <1>1, <1>4, <1>7
  <2> QED
    BY <1>1, <1>5, <1>7, <2>3, <2>4 DEF SearchAhead, mark
<1> QED
  BY <1>3, <1>6, <1>7

\* is_in_list() compares the titles, and the same place has the same title.
LEMMA AlbumsDiffer ==
  ASSUME Work, Distinct(list), provider = "albumlist_musicbrainz", Parse
  PROVE  Distinct(list')
<1>1. Numbers(list) /\ at + 1 \in Int
  BY FindPlace DEF Work, Spot
<1>2. Leaves \/ \E node : LET title == Find("<title>", node)
                         IN  /\ node = Find("<release ", at + 1)
                             /\ page[title].text \notin {page[i].text : i \in Range(list)}
                             /\ Puts(title)
  BY OwnParser
  DEF albumlist_musicbrainz_parse, While, Found, Return, Proceed, Leaves, Puts
<1>3. CASE Leaves
  BY <1>1, <1>3, Lists
<1>4. ASSUME NEW node, node = Find("<release ", at + 1), NEW title,
             title = Find("<title>", node),
             page[title].text \notin {page[i].text : i \in Range(list)}, Puts(title)
      PROVE  Distinct(list')
  <2>1. title \in Int
    BY <1>1, <1>4, FindLater
  <2>2. title \notin Range(list)
    BY <1>4
  <2> QED
    BY <1>1, <1>4, <2>1, <2>2, Lists
<1> QED
  BY <1>2, <1>3, <1>4

LEMMA SameTidy ==
  ASSUME page' = page, provider' = provider
  PROVE  /\ Tidy' <=> Tidy
         /\ \A node, literals : Regular(node, literals)' <=> Regular(node, literals)
<1>1. Uniform' <=> Uniform
  BY DEF Uniform
<1>2. \A node, literals : Regular(node, literals)' <=> Regular(node, literals)
  BY <1>1 DEF Regular
<1> QED
  BY <1>2 DEF Tidy

LEMMA SamePage ==
  ASSUME page' = page, provider' = provider
  PROVE  (Clean' <=> Clean) /\ (Walks' <=> Walks)
<1>1. Walks' <=> Walks
  BY DEF Walks
<1> QED
  BY <1>1, SameTidy DEF Clean

LEMMA ParseKeeps ==
  ASSUME Work, LInv, TwiceInv, Parse
  PROVE  TwiceInv'
<1> SUFFICES ASSUME Clean'
             PROVE  /\ Distinct(list')
                    /\ pc' = "parsing" =>
                         /\ Walks' => WalkAhead'
                         /\ provider' \in Searched => SearchAhead'
                         /\ provider' \in DOMAIN Behind => FieldAhead'
  BY DEF TwiceInv
<1>1. pc = "parsing" /\ UNCHANGED capo
  BY LyricsWalk, PictureWalk, InfoWalk, ParseMoves DEF Parse, Walk, Moves
<1>2. page' = page /\ provider' = provider
  BY <1>1 DEF capo
<1>3. Clean /\ (Walks' <=> Walks)
  BY <1>2, SamePage
<1>4. Alone
  <2>1. OneShot => Limited
    BY DEF OneShot, Single, Limited, Unlimited
  <2> QED
    BY <1>1, <2>1 DEF LInv, FirstInv, Alone
<1>5. CASE Walks
  <2>1. WalkTurn
    BY <1>4, <1>5, LyricsWalks, PictureWalks, InfoWalks DEF Parse
  <2>2. Distinct(list') /\ (pc' = "parsing" => WalkAhead')
    BY <1>1, <1>3, <1>5, <2>1, WalkKeeps DEF TwiceInv
  <2> QED
    BY <1>2, <1>5, <2>2 DEF Walks
<1>6. CASE provider \in Searched
  <2>1. Distinct(list') /\ (pc' = "parsing" => SearchAhead')
    BY <1>1, <1>3, <1>6, SearchKeeps DEF TwiceInv
  <2>2. provider \notin DOMAIN Behind /\ ~Walks
    BY <1>6 DEF Searched, Behind, Walks
  <2> QED
    BY <1>2, <1>3, <2>1, <2>2
<1>7. CASE provider \in DOMAIN Behind
  <2>1. FieldTurn /\ Tidy
    BY <1>3, <1>4, <1>7, FieldTurns DEF Clean
  <2>2. Distinct(list') /\ (pc' = "parsing" => FieldAhead')
    BY <1>1, <1>3, <1>7, <2>1, FieldKeeps DEF TwiceInv
  <2>3. provider \notin Searched /\ ~Walks
    BY <1>7 DEF Searched, Behind, Walks
  <2> QED
    BY <1>2, <1>3, <2>2, <2>3
<1>8. CASE provider = "albumlist_musicbrainz"
  <2>1. Distinct(list')
    BY <1>3, <1>8, AlbumsDiffer DEF TwiceInv
  <2>2. provider \notin Searched \cup DOMAIN Behind /\ ~Walks
    BY <1>8 DEF Searched, Behind, Walks
  <2> QED
    BY <1>2, <1>3, <2>1, <2>2
<1> QED
  BY <1>3, <1>5, <1>6, <1>7, <1>8 DEF Clean, Walks

LEMMA NothingTwice == Distinct(<<>>) /\ Range(<<>>) = {}
BY DEF Distinct, Range

LEMMA TwiceStep == TInv /\ LInv /\ TwiceInv /\ [Next]_allVars => TwiceInv'
<1> SUFFICES ASSUME TInv, LInv, TwiceInv, [Next]_allVars PROVE TwiceInv'
  OBVIOUS
<1>0. Work
  BY DEF TInv
<1>1. ASSUME list' = <<>> PROVE TwiceInv'
  BY <1>1, NothingTwice DEF TwiceInv, WalkAhead, SearchAhead, FieldAhead
<1>2. ASSUME UNCHANGED <<list, at, page, provider>>, pc' # "parsing" \/ pc' = pc
      PROVE  TwiceInv'
  <2>1. (Clean' <=> Clean) /\ (Walks' <=> Walks)
    BY <1>2, SamePage
  <2>2. /\ Distinct(list') <=> Distinct(list)
        /\ WalkAhead' <=> WalkAhead
        /\ SearchAhead' <=> SearchAhead
        /\ FieldAhead' <=> FieldAhead
    BY <1>2 DEF WalkAhead, SearchAhead, FieldAhead
  <2> QED
    BY <1>2, <2>1, <2>2 DEF TwiceInv
<1>3. CASE Parse
  BY <1>0, <1>3, ParseKeeps
<1>4. CASE Ask \/ Arrive
  BY <1>1, <1>4 DEF Ask, Arrive, LInv, NewInv
<1>5. CASE SignalExit
  BY <1>2, <1>5 DEF SignalExit, capo
<1>6. CASE Threads
  BY <1>2, <1>6 DEF Threads, ThreadEnds, capo
<1>7. CASE Check
  <2>1. CASE Take
    BY <1>1, <2>1 DEF Take
  <2>2. CASE StartThreads \/ Join \/ delete_wrong_formats \/ Keep \/ Hand
    BY <1>2, <2>2 DEF StartThreads, Join, delete_wrong_formats, Keep, Hand, capo
  <2>3. CASE \E sum \in [raw -> Sum] : delete_dupes(sum)
    BY <1>2, <2>3 DEF delete_dupes, capo
  <2>4. CASE \E items \in SUBSET {i \in raw : Live(i)} :
               delete_already_cached_items(items) \/ CheckText(items)
    BY <1>2, <2>4 DEF delete_already_cached_items, CheckText, capo
  <2> QED
    BY <1>7, <2>1, <2>2, <2>3, <2>4 DEF Check
<1>8. CASE UNCHANGED allVars
  BY <1>2, <1>8 DEF allVars, vars, capo
<1> QED
  BY <1>3, <1>4, <1>5, <1>6, <1>7, <1>8 DEF Next

\* Whatever the pages, the queries and the answers are: no place of a page is
\* taken twice.  The nine parsers that take a field from behind a node and go
\* on behind the node (Behind) need a page that is as it should be for that;
\* flickr's and echonest's parsers do not keep to it at all.
THEOREM NothingIsTakenTwice == Spec => []NoneTwice
<1>1. CheckInit => TwiceInv
  BY NothingTwice
  DEF CheckInit, Init, TwiceInv, WalkAhead, SearchAhead, FieldAhead
<1>2. TwiceInv => NoneTwice
  BY DEF TwiceInv, NoneTwice, Clean, Distinct
<1> QED
  BY <1>1, <1>2, TwiceStep, TypeInvariance, ListInvariance, PTL DEF Spec

-----------------------------------------------------------------------------
\* What a parser has compared, from place n on.
Compared(n, words) == \A w \in words : Is(Find(w[1], n), w[2])

\* An item that OnlyAsked allows.
Fitting(item) ==
  LET place == IF item < 0 THEN -item ELSE item
  IN  place # 0 /\ page[place].mark = Wants[provider].field => AsAsked(place)
Taken(item) == item \in Int /\ Fitting(item)

Asking == provider \in DOMAIN Wants /\ WellFormed

\* Parsers that go through a list of their own behind each node.
Nested == {"cover_coverartarchive", "relations_musicbrainz", "tags_musicbrainz"}

\* Where such a list stands: behind a node with the asked name, and the next
\* node is still to come.
Stands(place) ==
  \E r \in 1..Len(page) :
    /\ page[r].mark = Wants[provider].node /\ r <= place
    /\ Compared(r, Wants[provider].words)
    /\ \A y \in 1..Len(page) : r < y /\ y <= place => page[y].mark # Wants[provider].node

\* What is on the list may be there, and those that go through a list of
\* their own are where all is as asked.
AskedInv ==
  Asking =>
    /\ \A item \in Range(list) : Fitting(item)
    /\ pc = "parsing" /\ provider \in Nested /\ at # 0 => Stands(at)

\* A literal is found where the search for it starts.
LEMMA FindHere ==
  ASSUME page \in Seq(Token), NEW mark, NEW n, HasMark(mark, n)
  PROVE  Find(mark, n) = n
<1>1. n \in 1..Len(page) /\ n \in Int /\ Len(page) \in Nat /\ page[n].mark = mark
  BY DEF HasMark
<1>2. Find(mark, n) # 0
  <2> DEFINE found == {j \in n..Len(page) : j > 0 /\ page[j].mark = mark}
  <2>1. n \in found /\ found \in SUBSET (0..Len(page)) /\ 0 \notin found
    BY <1>1
  <2>2. Find(mark, n) = IF found = {} THEN 0 ELSE Min(found)
    BY DEF Find
  <2> HIDE DEF found
  <2>3. Min(found) \in found
    BY <1>1, <2>1, WithinFacts DEF Within
  <2> QED
    BY <2>1, <2>2, <2>3
<1> QED
  BY <1>1, <1>2, FindFirst

\* What WellFormed says to all but echonest.
LEMMA Formed ==
  ASSUME Asking, provider # "review_echonest"
  PROVE  LET form == Wants[provider]
         IN  \E literals :
               /\ Regular(form.node, literals)
               /\ form.node \in literals /\ form.field \in literals
               /\ provider = "cover_lyricswiki" => "timestamp=" \in literals
               /\ \A w \in form.words : w[1] \in literals
<1> DEFINE form == Wants[provider]
           compared == {w[1] : w \in form.words}
           passed == CASE provider = "review_echonest" -> {}
                       [] provider = "cover_lyricswiki" -> {form.node, "timestamp="}
                       [] OTHER -> {form.node}
           literals == compared \cup {form.field} \cup passed
<1>1. Regular(form.node, literals)
  BY DEF Asking, WellFormed
<1>2. form.node \in passed /\ (provider = "cover_lyricswiki" => "timestamp=" \in passed)
  OBVIOUS
<1>3. \A w \in form.words : w[1] \in compared
  OBVIOUS
<1> HIDE DEF form, compared, passed
<1> QED
  BY <1>1, <1>2, <1>3 DEF form

\* And of the words, once in each entry.
LEMMA Once ==
  ASSUME Asking, NEW w \in Wants[provider].words,
         NEW i \in 1..Len(page), NEW j \in 1..Len(page),
         page[i].mark = w[1], page[j].mark = w[1], page[i].entry = page[j].entry
  PROVE  i = j
<1> DEFINE compared == {v[1] : v \in Wants[provider].words}
<1>1. \A k, l \in 1..Len(page) :
        /\ page[k].mark \in compared /\ page[l].mark = page[k].mark
        /\ page[k].entry = page[l].entry
        => k = l
  BY DEF Asking, WellFormed
<1>2. page[i].mark \in compared
  OBVIOUS
<1> HIDE DEF compared
<1> QED
  BY <1>1, <1>2

\* A node where everything is as the query wants it is that of an entry which
\* is as asked.
LEMMA NodeAsked ==
  ASSUME page \in Seq(Token), Asking, provider # "review_echonest",
         NEW n, HasMark(Wants[provider].node, n), Compared(n, Wants[provider].words)
  PROVE  AsAsked(n)
<1> DEFINE form == Wants[provider]
<1>1. PICK literals :
        /\ Regular(form.node, literals) /\ form.node \in literals
        /\ \A w \in form.words : w[1] \in literals
  BY Formed
<1>2. SUFFICES ASSUME NEW j \in 1..Len(page), NEW w \in form.words,
                      page[j].entry = page[n].entry, page[j].mark = w[1]
               PROVE  page[j].text = w[2]
  BY DEF AsAsked
<1>3. n \in 1..Len(page) /\ page[n].mark = form.node /\ Len(page) \in Nat /\ n \in Int
  BY DEF HasMark
<1>4. n <= j /\ page[n].entry # 0
  BY <1>1, <1>2, <1>3 DEF Regular
<1> DEFINE b == Find(w[1], n)
<1>5. b # 0 /\ page[b].text = w[2]
  BY DEF Compared, Is
<1>6. /\ b \in 1..Len(page) /\ b >= n /\ page[b].mark = w[1] /\ b <= j
  BY <1>2, <1>3, <1>4, <1>5, FindFirst
<1> HIDE DEF b
<1>7. page[b].entry = page[n].entry
  BY <1>1, <1>2, <1>3, <1>4, <1>6 DEF Regular, Uniform
<1>8. b = j
  BY <1>2, <1>6, <1>7, Once
<1> QED
  BY <1>5, <1>8

\* Every place of an entry says the same of it.
LEMMA EntryAsked ==
  ASSUME NEW n, NEW i, page[i].entry = page[n].entry, AsAsked(n)
  PROVE  AsAsked(i)
BY DEF AsAsked

LEMMA FittingPlace ==
  ASSUME NEW i, i \in Int, i >= 0,
         i # 0 /\ page[i].mark = Wants[provider].field => AsAsked(i)
  PROVE  Taken(i)
BY DEF Taken, Fitting

\* So the field found behind such a node may be taken.
LEMMA TakenBehind ==
  ASSUME Work, Asking, provider # "review_echonest",
         NEW n, HasMark(Wants[provider].node, n), Compared(n, Wants[provider].words)
  PROVE  /\ Find(Wants[provider].field, n) = 0 \/ Taken(Find(Wants[provider].field, n))
         /\ Taken(n)
<1> DEFINE form == Wants[provider]
           i == Find(form.field, n)
<1>0. page \in Seq(Token) /\ Len(page) \in Nat /\ n \in Int /\ n >= 0
  BY DEF Work, HasMark
<1>1. AsAsked(n)
  BY <1>0, NodeAsked
<1>2. ASSUME i # 0 PROVE Taken(i)
  <2>1. PICK literals :
          /\ Regular(form.node, literals)
          /\ form.node \in literals /\ form.field \in literals
    BY Formed
  <2>2. HasMark(form.field, i) /\ page[i].entry = page[n].entry
    BY <1>0, <1>2, <2>1, OwnEntry
  <2>3. AsAsked(i) /\ i \in Int /\ i >= 0
    <3> HIDE DEF i
    <3> QED
      BY <1>0, <1>1, <2>2, EntryAsked DEF HasMark
  <2> HIDE DEF i
  <2> QED
    BY <2>3, FittingPlace
<1> QED
  BY <1>0, <1>1, <1>2, FittingPlace

\* lyricswiki goes from the name to a timestamp, and from there to the address.
LEMMA TakenBehindStamp ==
  ASSUME Work, Asking, provider = "cover_lyricswiki",
         NEW n, HasMark("_-_", n), Is(n, "asked"),
         Find("timestamp=", n) # 0, Find("url=", Find("timestamp=", n)) # 0
  PROVE  Taken(Find("url=", Find("timestamp=", n)))
<1> DEFINE form == Wants[provider]
           stamp == Find("timestamp=", n)
           link == Find("url=", stamp)
<1>0. page \in Seq(Token) /\ Len(page) \in Nat /\ n \in Int
  BY DEF Work, HasMark
<1>1. form.node = "_-_" /\ form.field = "url=" /\ form.words = {<<"_-_", "asked">>}
  BY DEF Wants, Form
<1>2. PICK literals :
        /\ Regular(form.node, literals)
        /\ form.node \in literals /\ form.field \in literals
        /\ "timestamp=" \in literals
  BY Formed
<1>3. HasMark("timestamp=", stamp) /\ page[stamp].entry = page[n].entry
  BY <1>0, <1>1, <1>2, OwnEntry
<1>4. Regular("timestamp=", {"timestamp=", "url="})
  <2>1. provider \in DOMAIN Behind /\ Behind[provider].node = "timestamp="
        /\ Behind[provider].field = "url="
    BY DEF Behind
  <2> QED
    BY <2>1 DEF Asking, WellFormed, Tidy
<1>5. HasMark("url=", link) /\ page[link].entry = page[stamp].entry
  <2> DEFINE both == {"timestamp=", "url="}
  <2>1. "timestamp=" \in both /\ "url=" \in both /\ Regular("timestamp=", both)
    BY <1>4
  <2>2. Find("url=", stamp) # 0
    OBVIOUS
  <2> HIDE DEF stamp, both
  <2> QED
    BY <1>0, <1>3, <2>1, <2>2, OwnEntry
<1>6. AsAsked(n)
  <2>1. Find("_-_", n) = n
    BY <1>0, FindFirst, FindHere
  <2>2. \A w \in {<<"_-_", "asked">>} : w[1] = "_-_" /\ w[2] = "asked"
    OBVIOUS
  <2>3. Compared(n, {<<"_-_", "asked">>})
    BY <2>1, <2>2 DEF Compared
  <2> QED
    BY <1>0, <1>1, <2>3, NodeAsked
<1>7. AsAsked(link) /\ link \in Int /\ link >= 0
  <2> HIDE DEF link, stamp
  <2>1. page[link].entry = page[n].entry
    BY <1>3, <1>5
  <2> QED
    BY <1>0, <1>5, <1>6, <2>1, EntryAsked DEF HasMark
<1> HIDE DEF link, stamp
<1>8. Taken(link)
  BY <1>7, FittingPlace
<1> QED
  BY <1>8 DEF link, stamp

\* And so may all that stands between such a node and the next.
LEMMA TakenWithin ==
  ASSUME Work, Asking, provider # "review_echonest",
         NEW r \in 1..Len(page), page[r].mark = Wants[provider].node,
         Compared(r, Wants[provider].words),
         NEW i \in 1..Len(page), i >= r, page[i].mark = Wants[provider].field,
         \A y \in 1..Len(page) : r < y /\ y <= i => page[y].mark # Wants[provider].node
  PROVE  Taken(i)
<1> DEFINE form == Wants[provider]
           places == 1..Len(page)
<1>0. page \in Seq(Token) /\ Len(page) \in Nat /\ r \in Int /\ i \in Int
  BY DEF Work
<1>1. PICK literals :
        /\ Regular(form.node, literals)
        /\ form.node \in literals /\ form.field \in literals
  BY Formed
<1>2. page[r].entry # 0 /\ page[i].entry # 0
  BY <1>1 DEF Regular
<1>3. PICK y \in places : page[y].mark = form.node /\ page[y].entry = page[i].entry
  <2> DEFINE marks(k) == {page[l].mark : l \in {m \in places : page[m].entry = k}}
             entries == {page[l].entry : l \in places} \ {0}
  <2>1. \A k, l \in entries : marks(k) = marks(l)
    BY <1>1 DEF Regular, Uniform
  <2>2. page[r].entry \in entries /\ page[i].entry \in entries
    BY <1>2
  <2>3. form.node \in marks(page[r].entry)
    OBVIOUS
  <2>4. form.node \in marks(page[i].entry)
    BY <2>1, <2>2, <2>3
  <2> QED
    BY <2>4
<1>4. y <= i /\ y <= r
  <2>1. y <= i
    BY <1>1, <1>3 DEF Regular
  <2> QED
    BY <1>0, <1>3, <2>1
<1>5. page[r].entry = page[i].entry
  BY <1>0, <1>1, <1>2, <1>3, <1>4 DEF Regular, Uniform
<1>6. AsAsked(r)
  BY <1>0, NodeAsked DEF HasMark
<1>7. AsAsked(i)
  BY <1>5, <1>6, EntryAsked
<1> QED
  BY <1>0, <1>7, FittingPlace

-----------------------------------------------------------------------------
\* The last one is what it is called.
LEMMA LastFirst ==
  ASSUME page \in Seq(Token), NEW mark, NEW i \in 0..Len(page), LastUpTo(mark, i) # 0
  PROVE  /\ HasMark(mark, LastUpTo(mark, i)) /\ LastUpTo(mark, i) <= i
         /\ \A y \in 1..i : page[y].mark = mark => y <= LastUpTo(mark, i)
<1> DEFINE last == {0} \cup {j \in 1..i : page[j].mark = mark}
<1>1. last \in SUBSET (0..i) /\ last # {} /\ i \in Nat /\ Len(page) \in Nat
  OBVIOUS
<1>2. LastUpTo(mark, i) = Max(last)
  BY DEF LastUpTo
<1>3. IsFiniteSet(last) /\ last \in SUBSET Int
  <2> HIDE DEF last
  <2> QED
    BY <1>1, WithinFacts DEF Within
<1>4. Max(last) \in last /\ \A y \in last : y <= Max(last)
  <2> HIDE DEF last
  <2> QED
    BY <1>1, <1>3, MaxFacts
<1>5. Max(last) \in {j \in 1..i : page[j].mark = mark}
  BY <1>2, <1>4
<1>6. \A y \in 1..i : page[y].mark = mark => y \in last
  OBVIOUS
<1> HIDE DEF last
<1> QED
  BY <1>1, <1>2, <1>4, <1>5, <1>6 DEF HasMark

\* What echonest has read last of summary and release is of one entry.
LEMMA TakenBefore ==
  ASSUME Work, Asking, provider = "review_echonest",
         NEW i, Spot(i), i = Len(page) \/ HasMark(Wants[provider].node, i),
         Is(LastUpTo("release", i), "asked"), LastUpTo("summary", i) # 0
  PROVE  Taken(LastUpTo("summary", i))
<1> DEFINE places == 1..Len(page)
           summary == LastUpTo("summary", i)
           release == LastUpTo("release", i)
           brace == Wants[provider].node
<1>0. page \in Seq(Token) /\ Len(page) \in Nat /\ i \in Nat
  <2>1. page \in Seq(Token) /\ Len(page) \in Nat
    BY DEF Work
  <2> QED
    BY <2>1 DEF Spot
<1>1. /\ Wants[provider].field = "summary" /\ brace \notin {"release", "summary"}
      /\ Wants[provider].words = {<<"release", "asked">>}
  BY DEF Wants, Form
<1>2. /\ Regular(brace, {"release", "summary"})
      /\ \A w \in {<<"release", "asked">>} : w \in Wants[provider].words
  <2>1. {w[1] : w \in {<<"release", "asked">>}} = {"release"}
    OBVIOUS
  <2>2. Regular(brace, {"release"} \cup {"summary"} \cup {})
    BY <1>1, <2>1 DEF Asking, WellFormed
  <2>3. {"release"} \cup {"summary"} \cup {} = {"release", "summary"}
    OBVIOUS
  <2> QED
    BY <1>1, <2>2, <2>3
<1>3. release # 0 /\ page[release].text = "asked"
  BY DEF Is
<1>4. /\ HasMark("summary", summary) /\ summary <= i
      /\ \A y \in 1..i : page[y].mark = "summary" => y <= summary
  BY <1>0, LastFirst DEF Spot
<1>5. /\ HasMark("release", release) /\ release <= i
      /\ \A y \in 1..i : page[y].mark = "release" => y <= release
  BY <1>0, <1>3, LastFirst DEF Spot
<1> HIDE DEF summary, release, brace
<1>6. /\ summary \in places /\ release \in places /\ summary \in Int /\ release \in Int
      /\ page[summary].mark = "summary" /\ page[release].mark = "release"
      /\ page[summary].entry # 0 /\ page[release].entry # 0
  BY <1>0, <1>2, <1>4, <1>5 DEF HasMark, Regular
\* The rest of an entry does not begin behind the brace after it.
<1>7. ASSUME NEW x \in places, NEW y \in places, x <= i, page[x].entry = page[y].entry,
             page[x].mark \in {"release", "summary"}
      PROVE  y \in 1..i
  <2>1. CASE y > i
    <3>1. HasMark(brace, i)
      BY <1>0, <1>7, <2>1 DEF brace
    <3>2. i \in places /\ page[i].mark = brace /\ page[x].entry # 0
      BY <1>2, <1>7, <3>1 DEF HasMark, Regular
    <3>3. page[i].entry = page[x].entry
      BY <1>0, <1>2, <1>7, <2>1, <3>2 DEF Regular, Uniform
    <3>4. i <= x
      BY <1>2, <1>7, <3>2, <3>3 DEF Regular
    <3>5. i = x
      BY <1>0, <1>7, <3>4
    <3> QED
      BY <1>1, <1>7, <3>2, <3>5
  <2> QED
    BY <1>0, <2>1
<1>8. ASSUME NEW j \in places, page[j].mark = "release",
             page[j].entry = page[summary].entry
      PROVE  j = release
  <2>1. j \in 1..i /\ j <= release
    BY <1>4, <1>5, <1>6, <1>7, <1>8
  <2>2. CASE page[release].entry = page[summary].entry
    <3>1. <<"release", "asked">>[1] = "release"
      OBVIOUS
    <3> QED
      BY <1>2, <1>6, <1>8, <2>2, <3>1, Once
  <2>3. CASE page[release].entry # page[summary].entry
    <3>1. summary < release
      <4>1. ASSUME release < summary PROVE FALSE
        BY <1>0, <1>2, <1>6, <1>8, <2>1, <2>3, <4>1 DEF Regular, Uniform
      <4> QED
        BY <1>6, <4>1
    <3>2. PICK y \in places : page[y].mark = "summary" /\ page[y].entry = page[release].entry
      <4> DEFINE marks(k) == {page[l].mark : l \in {m \in places : page[m].entry = k}}
                 entries == {page[l].entry : l \in places} \ {0}
      <4>1. \A k, l \in entries : marks(k) = marks(l)
        BY <1>2 DEF Regular, Uniform
      <4>2. page[summary].entry \in entries /\ page[release].entry \in entries
        BY <1>6
      <4>3. "summary" \in marks(page[summary].entry)
        BY <1>6
      <4>4. "summary" \in marks(page[release].entry)
        BY <4>1, <4>2, <4>3
      <4> QED
        BY <4>4
    <3>3. y \in 1..i /\ y <= summary
      BY <1>4, <1>5, <1>6, <1>7, <3>2
    <3> QED
      BY <1>0, <1>2, <1>6, <2>3, <3>1, <3>2, <3>3 DEF Regular, Uniform
  <2> QED
    BY <2>2, <2>3
<1>9. AsAsked(summary)
  BY <1>1, <1>3, <1>8 DEF AsAsked
<1>10. Taken(summary)
  BY <1>6, <1>9, FittingPlace
<1> QED
  BY <1>10 DEF summary

-----------------------------------------------------------------------------
\* A turn of a parser that takes what it may.
AskedTurn ==
  \/ Leaves
  \/ \E i : Taken(i) /\ Puts(i)
  \/ \E S \in SUBSET Range(list) : S # {} /\ Puts(-Max(S))

\* The first entity of that name is one.
LEMMA EntityFirst ==
  ASSUME page \in Seq(Token), NEW entity, NEW name, mbid_parse_data(entity, name) # 0
  PROVE  /\ HasMark(entity, mbid_parse_data(entity, name))
         /\ Asked(name, mbid_parse_data(entity, name))
<1> DEFINE nodes == {n \in 1..Len(page) : page[n].mark = entity /\ Asked(name, n)}
<1>1. nodes \in SUBSET (0..Len(page)) /\ Len(page) \in Nat
  OBVIOUS
<1>2. mbid_parse_data(entity, name) = IF nodes = {} THEN 0 ELSE Min(nodes)
  BY DEF mbid_parse_data
<1>3. mbid_parse_data(entity, name) \in nodes
  <2> HIDE DEF nodes
  <2>1. nodes # {} => Min(nodes) \in nodes
    BY <1>1, WithinFacts DEF Within
  <2> QED
    BY <1>2, <2>1
<1> QED
  BY <1>3 DEF HasMark

\* What the parsers find.
LEMMA Finds ==
  ASSUME Work
  PROVE  /\ \A mark, i : Number(i) => Find(mark, i) = 0 \/ HasMark(mark, Find(mark, i))
         /\ \A mark, n : HasMark(mark, n) => Find(mark, n) = n /\ Number(n) /\ n # 0
         /\ \A entity, name : LET i == mbid_parse_data(entity, name)
                             IN  i = 0 \/ (HasMark(entity, i) /\ Is(Find(name, i), "asked"))
<1>1. page \in Seq(Token) /\ Len(page) \in Nat
  BY DEF Work
<1>2. ASSUME NEW mark, NEW i, Number(i), Find(mark, i) # 0
      PROVE  HasMark(mark, Find(mark, i))
  BY <1>1, <1>2, FindFirst DEF HasMark, Number
<1>3. ASSUME NEW mark, NEW n, HasMark(mark, n)
      PROVE  Find(mark, n) = n /\ Number(n) /\ n # 0
  <2>1. n \in Int /\ n # 0
    BY <1>1, <1>3 DEF HasMark
  <2> QED
    BY <1>1, <1>3, <2>1, FindHere DEF Number
<1>4. ASSUME NEW entity, NEW name, mbid_parse_data(entity, name) # 0
      PROVE  /\ HasMark(entity, mbid_parse_data(entity, name))
             /\ Is(Find(name, mbid_parse_data(entity, name)), "asked")
  BY <1>1, <1>4, EntityFirst DEF Asked
<1> QED
  BY <1>2, <1>3, <1>4

\* What a parser may take when it finds these words behind node n, or at it.
Asks(node, field, words) == Wants[provider] = Form(node, field, words)
MayTake(field, n) == Taken(n) /\ (Find(field, n) = 0 \/ Taken(Find(field, n)))
Says(node, n, word) ==
  Is(Find(word[1], n), word[2]) \/ (word[1] = node /\ Is(n, word[2]))

LEMMA Accepts ==
  ASSUME Work, Asking, provider # "review_echonest",
         NEW node, NEW field, NEW words, Asks(node, field, words)
  PROVE  \A n : HasMark(node, n) /\ (\A w \in words : Says(node, n, w)) => MayTake(field, n)
<1>1. /\ Wants[provider].node = node /\ Wants[provider].field = field
      /\ Wants[provider].words = words
  BY DEF Asks, Form
<1>2. ASSUME NEW n, HasMark(node, n), \A w \in words : Says(node, n, w)
      PROVE  Compared(n, words)
  BY <1>2, Finds DEF Says, Compared
<1> QED
  BY <1>1, <1>2, TakenBehind DEF MayTake

LEMMA NoWord ==
  ASSUME Work, Asking, provider # "review_echonest",
         NEW node, NEW field, Asks(node, field, {})
  PROVE  \A n : HasMark(node, n) => MayTake(field, n)
BY Accepts

LEMMA OneWord ==
  ASSUME Work, Asking, provider # "review_echonest",
         NEW node, NEW field, NEW v, Asks(node, field, {v})
  PROVE  \A n : HasMark(node, n) /\ Says(node, n, v) => MayTake(field, n)
<1>1. \A n : Says(node, n, v) => \A w \in {v} : Says(node, n, w)
  OBVIOUS
<1> QED
  BY <1>1, Accepts

LEMMA TwoWords ==
  ASSUME Work, Asking, provider # "review_echonest", NEW node, NEW field,
         NEW u, NEW v, Asks(node, field, {u, v})
  PROVE  \A n : HasMark(node, n) /\ Says(node, n, u) /\ Says(node, n, v)
                 => MayTake(field, n)
<1>1. \A n : Says(node, n, u) /\ Says(node, n, v) => \A w \in {u, v} : Says(node, n, w)
  OBVIOUS
<1> QED
  BY <1>1, Accepts

LEMMA ThreeWords ==
  ASSUME Work, Asking, provider # "review_echonest", NEW node, NEW field,
         NEW t, NEW u, NEW v, Asks(node, field, {t, u, v})
  PROVE  \A n : HasMark(node, n) /\ Says(node, n, t) /\ Says(node, n, u) /\ Says(node, n, v)
                 => MayTake(field, n)
<1>1. \A n : Says(node, n, t) /\ Says(node, n, u) /\ Says(node, n, v)
              => \A w \in {t, u, v} : Says(node, n, w)
  OBVIOUS
<1> QED
  BY <1>1, Accepts

\* A word is a pair.
LEMMA Spoken ==
  \A node, n, a, b : /\ Is(Find(a, n), b) => Says(node, n, <<a, b>>)
                     /\ Is(n, b) => Says(node, n, <<node, b>>)
<1>1. \A a, b : <<a, b>>[1] = a /\ <<a, b>>[2] = b
  OBVIOUS
<1> QED
  BY <1>1 DEF Says

\* These compare nothing that OnlyAsked is about.
LEMMA NotAsking ==
  Asking => provider \notin
    {"lyrics_lyrdb", "lyrics_lyricsreg", "lyrics_lyricstime", "lyrics_lyricsvip",
     "lyrics_lyricswiki", "lyrics_magistrix", "lyrics_metallum", "cover_picsearch",
     "photos_picsearch", "photos_flickr", "ainfo_echonest", "ainfo_lastfm",
     "ainfo_lyricsreg", "review_metallum", "relations_generated",
     "similar_artist_lastfm", "similar_song_lastfm", "tracklist_musicbrainz"}
BY DEF Asking, Wants

\* The list stays as it is, or what may be taken is put in front of it.
LEMMA Turns ==
  /\ list' = list => AskedTurn
  /\ \A i : Taken(i) /\ list' = <<i>> \o list => AskedTurn
  /\ \A text : ~Is(0, text)
BY DEF AskedTurn, Leaves, Puts, Is

\* Anything else than the field may be taken, too.
LEMMA TakenOther ==
  ASSUME Work, NEW node, NEW field, NEW words, Asks(node, field, words),
         NEW mark, mark # field
  PROVE  \A n : n = 0 \/ HasMark(mark, n) => Taken(n)
<1>1. Wants[provider].field = field /\ Len(page) \in Nat
  BY DEF Asks, Form, Work
<1>2. ASSUME NEW n, HasMark(mark, n) PROVE Taken(n)
  <2>1. n \in Int /\ n >= 0 /\ page[n].mark = mark
    BY <1>1, <1>2 DEF HasMark
  <2> QED
    BY <1>1, <2>1, FittingPlace
<1>3. Taken(0)
  BY FittingPlace
<1> QED
  BY <1>2, <1>3

LEMMA LyricsAsked ==
  ASSUME Work, Asking, provider \notin Nested \cup {"review_echonest"}, LyricsParse
  PROVE  AskedTurn
<1> USE Turns DEF Parses, While, Return, Proceed, Try, Found, Fetched, Asked, Fits, MayTake
<1>0. Work /\ Asking /\ provider \notin Nested /\ provider # "review_echonest"
  OBVIOUS
<1>1. CASE lyrics_chartlyrics_parse
  <2>1. Asks("<SearchLyricResult>", "<LyricId>",
             {<<"<Artist>", "asked">>, <<"<Song>", "asked">>, <<"<LyricId>", "live">>})
    BY <1>1 DEF lyrics_chartlyrics_parse, Parses, Asks, Wants
  <2>2. \A n : /\ HasMark("<SearchLyricResult>", n)
              /\ Says("<SearchLyricResult>", n, <<"<Artist>", "asked">>)
              /\ Says("<SearchLyricResult>", n, <<"<Song>", "asked">>)
              /\ Says("<SearchLyricResult>", n, <<"<LyricId>", "live">>)
              => MayTake("<LyricId>", n)
    BY <1>0, <2>1, ThreeWords
  <2>3. \A n : /\ HasMark("<SearchLyricResult>", n)
              /\ Is(Find("<Artist>", n), "asked")
              /\ Is(Find("<Song>", n), "asked")
              /\ Is(Find("<LyricId>", n), "live")
              => MayTake("<LyricId>", n)
    BY <2>2, Spoken
  <2> QED
    BY <1>1, <2>3, Finds, Places DEF lyrics_chartlyrics_parse
<1>2. CASE lyrics_elyrics_parse
  <2>1. Asks("<div class='ly'", "<div class='ly'",
             {<<"<div class='ly'", "lyrics">>})
    BY <1>2 DEF lyrics_elyrics_parse, Parses, Asks, Wants
  <2>2. \A n : /\ HasMark("<div class='ly'", n)
              /\ Is(n, "lyrics")
              => MayTake("<div class='ly'", n)
    BY <1>0, <2>1, OneWord, Spoken
  <2> QED
    BY <1>2, <2>2, Finds, Places DEF lyrics_elyrics_parse
<1>3. CASE lyrics_lipwalk_parse
  <2>1. Asks("<li class=", "<li class=",
             {<<"<li class=", "live">>, <<"description", "asked">>})
    BY <1>3 DEF lyrics_lipwalk_parse, Parses, Asks, Wants
  <2>2. \A n : /\ HasMark("<li class=", n)
              /\ Says("<li class=", n, <<"<li class=", "live">>)
              /\ Says("<li class=", n, <<"description", "asked">>)
              => MayTake("<li class=", n)
    BY <1>0, <2>1, TwoWords
  <2>3. \A n : HasMark("<li class=", n) /\ Is(n, "live") /\ Is(Find("description", n), "asked")
              => MayTake("<li class=", n)
    BY <2>2, Spoken
  <2>4. \A n : n = 0 \/ HasMark("</script>", n) => Taken(n)
    BY <1>0, <2>1, TakenOther
  <2> QED
    BY <1>3, <2>3, <2>4, Finds, Places DEF lyrics_lipwalk_parse
<1>4. CASE lyrics_lyrdb_parse
  BY <1>0, <1>4, NotAsking DEF lyrics_lyrdb_parse, Parses
<1>5. CASE lyrics_lyricsreg_parse
  BY <1>0, <1>5, NotAsking DEF lyrics_lyricsreg_parse, Parses
<1>6. CASE lyrics_lyricstime_parse
  BY <1>0, <1>6, NotAsking DEF lyrics_lyricstime_parse, Parses
<1>7. CASE lyrics_lyricsvip_parse
  BY <1>0, <1>7, NotAsking DEF lyrics_lyricsvip_parse, Parses
<1>8. CASE lyrics_lyricswiki_parse
  BY <1>0, <1>8, NotAsking DEF lyrics_lyricswiki_parse, Parses
<1>9. CASE lyrics_lyricswiki_page
  BY <1>0, <1>9, NotAsking DEF lyrics_lyricswiki_page, Parses
<1>10. CASE lyrics_lyrixat_parse
  <2>1. Asks("<a href='/t/", "<a href='/t/",
             {<<"<a href='/t/", "live">>, <<"title", "asked">>})
    BY <1>10 DEF lyrics_lyrixat_parse, Parses, Asks, Wants
  <2>2. \A n : /\ HasMark("<a href='/t/", n)
              /\ Says("<a href='/t/", n, <<"<a href='/t/", "live">>)
              /\ Says("<a href='/t/", n, <<"title", "asked">>)
              => MayTake("<a href='/t/", n)
    BY <1>0, <2>1, TwoWords
  <2>3. \A n : /\ HasMark("<a href='/t/", n)
              /\ Is(n, "live")
              /\ Is(Find("title", n), "asked")
              => MayTake("<a href='/t/", n)
    BY <2>2, Spoken
  <2> QED
    BY <1>10, <2>3, Finds, Places DEF lyrics_lyrixat_parse
<1>11. CASE lyrics_magistrix_parse
  BY <1>0, <1>11, NotAsking DEF lyrics_magistrix_parse, Parses
<1>12. CASE lyrics_metallum_parse
  BY <1>0, <1>12, NotAsking DEF lyrics_metallum_parse, Parses
<1>13. CASE lyrics_vagalume_parse
  <2>1. Asks("type", "text", {<<"type", "exact">>})
    BY <1>13 DEF lyrics_vagalume_parse, Parses, Asks, Wants
  <2>2. \A n : /\ HasMark("type", n)
              /\ Is(n, "exact")
              => MayTake("text", n)
    BY <1>0, <2>1, OneWord, Spoken
  <2> QED
    BY <1>13, <2>2, Finds, Places DEF lyrics_vagalume_parse
<1>14. CASE guitartabs_chordie_parse
  <2>1. Asks("<a class=", "<a class=",
             {<<"<a class=", "live">>, <<"name", "asked">>})
    BY <1>14 DEF guitartabs_chordie_parse, Parses, Asks, Wants
  <2>2. \A n : /\ HasMark("<a class=", n)
              /\ Says("<a class=", n, <<"<a class=", "live">>)
              /\ Says("<a class=", n, <<"name", "asked">>)
              => MayTake("<a class=", n)
    BY <1>0, <2>1, TwoWords
  <2>3. \A n : /\ HasMark("<a class=", n)
              /\ Is(n, "live")
              /\ Is(Find("name", n), "asked")
              => MayTake("<a class=", n)
    BY <2>2, Spoken
  <2> QED
    BY <1>14, <2>3, Finds, Places DEF guitartabs_chordie_parse
<1> QED
  BY <1>1, <1>2, <1>3, <1>4, <1>5, <1>6, <1>7, <1>8, <1>9, <1>10, <1>11, <1>12, <1>13, <1>14
  DEF LyricsParse

LEMMA PictureAsked ==
  ASSUME Work, Asking, provider \notin Nested \cup {"review_echonest"}, PictureParse
  PROVE  AskedTurn
<1> USE Turns DEF Parses, While, Return, Proceed, Try, Found, Fetched, Asked, Fits, MayTake
<1>0. Work /\ Asking /\ provider \notin Nested /\ provider # "review_echonest"
  OBVIOUS
<1>1. CASE cover_coverartarchive_parse
  BY <1>0, <1>1 DEF Nested, cover_coverartarchive_parse, Parses
<1>2. CASE parse_archive_json
  BY <1>0, <1>2 DEF Nested, parse_archive_json, Parses
<1>3. CASE cover_discogs_parse
  <2>1. Asks("\"thumb\":", "\"thumb\":",
             {<<"\"thumb\":", "live">>, <<"\"title\":", "asked">>})
    BY <1>3 DEF cover_discogs_parse, Parses, Asks, Wants, DiscogsForm
  <2>2. \A n : /\ HasMark("\"thumb\":", n)
              /\ Says("\"thumb\":", n, <<"\"thumb\":", "live">>)
              /\ Says("\"thumb\":", n, <<"\"title\":", "asked">>)
              => MayTake("\"thumb\":", n)
    BY <1>0, <2>1, TwoWords
  <2>3. \A n : /\ HasMark("\"thumb\":", n)
              /\ Is(n, "live")
              /\ Is(Find("\"title\":", n), "asked")
              => MayTake("\"thumb\":", n)
    BY <2>2, Spoken
  <2> QED
    BY <1>3, <2>3, Finds, Places DEF cover_discogs_parse
<1>4. CASE cover_google_parse
  <2>1. Asks("/imgres?imgurl=", "/imgres?imgurl=", {<<"&amp;usg=", "fits">>})
    BY <1>4 DEF cover_google_parse, generic_google_parse, Parses, Asks, Wants, GoogleForm
  <2>2. \A n : /\ HasMark("/imgres?imgurl=", n)
              /\ Is(Find("&amp;usg=", n), "fits")
              => MayTake("/imgres?imgurl=", n)
    BY <1>0, <2>1, OneWord, Spoken
  <2> QED
    BY <1>4, <2>2, Finds, Places DEF cover_google_parse, generic_google_parse
<1>5. CASE cover_jamendo_parse
  <2>1. Asks("\n", "\n", {<<"\n", "asked">>})
    BY <1>5 DEF cover_jamendo_parse, Parses, Asks, Wants
  <2>2. \A n : /\ HasMark("\n", n)
              /\ Is(n, "asked")
              => MayTake("\n", n)
    BY <1>0, <2>1, OneWord, Spoken
  <2> QED
    BY <1>5, <2>2, Finds, Places DEF cover_jamendo_parse
<1>6. CASE cover_lastfm_parse
  <2>1. Asks("<album>", "<image size=",
             {<<"<artist>", "asked">>, <<"<name>", "asked">>, <<"<image size=", "live">>})
    BY <1>6 DEF cover_lastfm_parse, Parses, Asks, Wants
  <2>2. \A n : /\ HasMark("<album>", n)
              /\ Says("<album>", n, <<"<artist>", "asked">>)
              /\ Says("<album>", n, <<"<name>", "asked">>)
              /\ Says("<album>", n, <<"<image size=", "live">>)
              => MayTake("<image size=", n)
    BY <1>0, <2>1, ThreeWords
  <2>3. \A n : /\ HasMark("<album>", n)
              /\ Is(Find("<artist>", n), "asked")
              /\ Is(Find("<name>", n), "asked")
              /\ Is(Find("<image size=", n), "live")
              => MayTake("<image size=", n)
    BY <2>2, Spoken
  <2>4. \/ list' = list
        \/ \E n : /\ HasMark("<album>", n) /\ Is(Find("<artist>", n), "asked")
                  /\ Is(Find("<name>", n), "asked") /\ Is(Find("<image size=", n), "live")
                  /\ list' = <<Find("<image size=", n)>> \o list
    BY <1>6, Finds, Places DEF cover_lastfm_parse
  <2> QED
    BY <2>3, <2>4
<1>7. CASE cover_lyricswiki_parse
  <2>1. \A n : LET stamp == Find("timestamp=", n)
                 link == Find("url=", stamp)
             IN  HasMark("_-_", n) /\ Is(n, "asked") /\ stamp # 0 /\ link # 0 => Taken(link)
    BY <1>0, <1>7, TakenBehindStamp DEF cover_lyricswiki_parse
  <2> QED
    BY <1>7, <2>1, Finds, Places DEF cover_lyricswiki_parse
<1>8. CASE cover_musicbrainz_parse
  <2>1. Asks("<release ", "<release ",
             {<<"<release ", "live">>, <<"<title>", "asked">>, <<"<name>", "asked">>})
    BY <1>8 DEF cover_musicbrainz_parse, Parses, Asks, Wants
  <2>2. \A n : /\ HasMark("<release ", n)
              /\ Says("<release ", n, <<"<release ", "live">>)
              /\ Says("<release ", n, <<"<title>", "asked">>)
              /\ Says("<release ", n, <<"<name>", "asked">>)
              => MayTake("<release ", n)
    BY <1>0, <2>1, ThreeWords
  <2>3. \A n : /\ HasMark("<release ", n)
              /\ Is(n, "live")
              /\ Is(Find("<title>", n), "asked")
              /\ Is(Find("<name>", n), "asked")
              => MayTake("<release ", n)
    BY <2>2, Spoken
  <2> QED
    BY <1>8, <2>3, Finds, Places DEF cover_musicbrainz_parse
<1>9. CASE cover_picsearch_parse
  BY <1>0, <1>9, NotAsking DEF cover_picsearch_parse, generic_picsearch_parse, Parses
<1>10. CASE cover_rhapsody_parse
  <2>1. Asks("<img ", "src=", {<<"width=", "fits">>})
    BY <1>10 DEF cover_rhapsody_parse, Parses, Asks, Wants, RhapsodyForm
  <2>2. \A n : /\ HasMark("<img ", n)
              /\ Is(Find("width=", n), "fits")
              => MayTake("src=", n)
    BY <1>0, <2>1, OneWord, Spoken
  <2> DEFINE special == {i \in Range(list) : page[i].text = "170x170"}
  <2>3. special # {} /\ list' = <<-Max(special)>> \o list => AskedTurn
    BY DEF AskedTurn, Puts
  <2> HIDE DEF special
  <2>4. \/ list' = list \/ (special # {} /\ list' = <<-Max(special)>> \o list)
        \/ \E n : /\ HasMark("<img ", n) /\ Is(Find("width=", n), "fits")
                  /\ Find("src=", n) # 0 /\ list' = <<Find("src=", n)>> \o list
    BY <1>10, Finds, Places DEF cover_rhapsody_parse, special
  <2> QED
    BY <2>2, <2>3, <2>4
<1>11. CASE cover_slothradio_parse
  <2>1. Asks("<!-- RESULT ITEM", "img src=", {<<"width=", "fits">>})
    BY <1>11 DEF cover_slothradio_parse, Parses, Asks, Wants
  <2>2. \A n : /\ HasMark("<!-- RESULT ITEM", n)
              /\ Is(Find("width=", n), "fits")
              => MayTake("img src=", n)
    BY <1>0, <2>1, OneWord, Spoken
  <2> QED
    BY <1>11, <2>2, Finds, Places DEF cover_slothradio_parse
<1>12. CASE photos_bbcmusic_parse
  <2>1. Asks("<artist ", "<artist ",
             {<<"<artist ", "live">>, <<"<name>", "asked">>})
    BY <1>12 DEF photos_bbcmusic_parse, Parses, Asks, Wants, BbcForm
  <2>2. \A n : /\ HasMark("<artist ", n)
              /\ Says("<artist ", n, <<"<artist ", "live">>)
              /\ Says("<artist ", n, <<"<name>", "asked">>)
              => MayTake("<artist ", n)
    BY <1>0, <2>1, TwoWords
  <2>3. \A n : /\ HasMark("<artist ", n)
              /\ Is(n, "live")
              /\ Is(Find("<name>", n), "asked")
              => MayTake("<artist ", n)
    BY <2>2, Spoken
  <2> QED
    BY <1>12, <2>3, Finds, Places DEF photos_bbcmusic_parse
<1>13. CASE photos_discogs_parse
  <2>1. Asks("\"thumb\":", "\"thumb\":",
             {<<"\"thumb\":", "live">>, <<"\"title\":", "asked">>})
    BY <1>13 DEF photos_discogs_parse, Parses, Asks, Wants, DiscogsForm
  <2>2. \A n : /\ HasMark("\"thumb\":", n)
              /\ Says("\"thumb\":", n, <<"\"thumb\":", "live">>)
              /\ Says("\"thumb\":", n, <<"\"title\":", "asked">>)
              => MayTake("\"thumb\":", n)
    BY <1>0, <2>1, TwoWords
  <2>3. \A n : /\ HasMark("\"thumb\":", n)
              /\ Is(n, "live")
              /\ Is(Find("\"title\":", n), "asked")
              => MayTake("\"thumb\":", n)
    BY <2>2, Spoken
  <2> QED
    BY <1>13, <2>3, Finds, Places DEF photos_discogs_parse
<1>14. CASE photos_flickr_parse
  BY <1>0, <1>14, NotAsking DEF photos_flickr_parse, Parses
<1>15. CASE photos_google_parse
  <2>1. Asks("/imgres?imgurl=", "/imgres?imgurl=", {<<"&amp;usg=", "fits">>})
    BY <1>15 DEF photos_google_parse, generic_google_parse, Parses, Asks, Wants, GoogleForm
  <2>2. \A n : /\ HasMark("/imgres?imgurl=", n)
              /\ Is(Find("&amp;usg=", n), "fits")
              => MayTake("/imgres?imgurl=", n)
    BY <1>0, <2>1, OneWord, Spoken
  <2> QED
    BY <1>15, <2>2, Finds, Places DEF photos_google_parse, generic_google_parse
<1>16. CASE photos_lastfm_parse
  <2>1. Asks("<size name=", "<size name=", {<<"<size name=", "fits">>})
    BY <1>16 DEF photos_lastfm_parse, Parses, Asks, Wants
  <2>2. \A n : /\ HasMark("<size name=", n)
              /\ Is(n, "fits")
              => MayTake("<size name=", n)
    BY <1>0, <2>1, OneWord, Spoken
  <2> QED
    BY <1>16, <2>2, Finds, Places DEF photos_lastfm_parse
<1>17. CASE photos_picsearch_parse
  BY <1>0, <1>17, NotAsking DEF photos_picsearch_parse, generic_picsearch_parse, Parses
<1>18. CASE photos_rhapsody_parse
  <2>1. Asks("<img ", "src=", {<<"width=", "fits">>})
    BY <1>18 DEF photos_rhapsody_parse, Parses, Asks, Wants, RhapsodyForm
  <2>2. \A n : /\ HasMark("<img ", n)
              /\ Is(Find("width=", n), "fits")
              => MayTake("src=", n)
    BY <1>0, <2>1, OneWord, Spoken
  <2> QED
    BY <1>18, <2>2, Finds, Places DEF photos_rhapsody_parse
<1>19. CASE photos_singerpictures_parse
  <2> DEFINE anysize == query.img_min = -1 /\ query.img_max = -1
  <2>1. Asks("<img src=", "<img src=", IF anysize THEN {} ELSE {<<"</a><br>", "fits">>})
    BY <1>19 DEF photos_singerpictures_parse, Parses, Asks, Wants
  <2> HIDE DEF anysize
  <2>2. \A n : HasMark("<img src=", n) /\ (anysize \/ Is(Find("</a><br>", n), "fits"))
              => MayTake("<img src=", n)
    BY <1>0, <2>1, NoWord, OneWord, Spoken
  <2> QED
    BY <1>19, <2>2, Finds, Places DEF photos_singerpictures_parse, anysize
<1>20. CASE backdrops_htbackdrops_parse
  <2>1. Asks("<image>", "<id>",
             {<<"<dimensions>", "fits">>, <<"<mb_name>", "asked">>})
    BY <1>20 DEF backdrops_htbackdrops_parse, Parses, Asks, Wants
  <2>2. \A n : /\ HasMark("<image>", n)
              /\ Says("<image>", n, <<"<dimensions>", "fits">>)
              /\ Says("<image>", n, <<"<mb_name>", "asked">>)
              => MayTake("<id>", n)
    BY <1>0, <2>1, TwoWords
  <2>3. \A n : /\ HasMark("<image>", n)
              /\ Is(Find("<dimensions>", n), "fits")
              /\ Is(Find("<mb_name>", n), "asked")
              => MayTake("<id>", n)
    BY <2>2, Spoken
  <2> QED
    BY <1>20, <2>3, Finds, Places DEF backdrops_htbackdrops_parse
<1> QED
  BY <1>1, <1>2, <1>3, <1>4, <1>5, <1>6, <1>7, <1>8, <1>9, <1>10, <1>11, <1>12, <1>13, <1>14, <1>15, <1>16, <1>17, <1>18, <1>19, <1>20
  DEF PictureParse

LEMMA InfoAsked ==
  ASSUME Work, Asking, provider \notin Nested \cup {"review_echonest"}, InfoParse
  PROVE  AskedTurn
<1> USE Turns DEF Parses, While, Return, Proceed, Try, Found, Fetched, Asked, Fits, MayTake
<1>0. Work /\ Asking /\ provider \notin Nested /\ provider # "review_echonest"
  OBVIOUS
<1>1. CASE ainfo_bbcmusic_parse
  <2>1. Asks("<artist ", "<artist ",
             {<<"<artist ", "live">>, <<"<name>", "asked">>})
    BY <1>1 DEF ainfo_bbcmusic_parse, Parses, Asks, Wants, BbcForm
  <2>2. \A n : /\ HasMark("<artist ", n)
              /\ Says("<artist ", n, <<"<artist ", "live">>)
              /\ Says("<artist ", n, <<"<name>", "asked">>)
              => MayTake("<artist ", n)
    BY <1>0, <2>1, TwoWords
  <2>3. \A n : /\ HasMark("<artist ", n)
              /\ Is(n, "live")
              /\ Is(Find("<name>", n), "asked")
              => MayTake("<artist ", n)
    BY <2>2, Spoken
  <2> QED
    BY <1>1, <2>3, Finds, Places DEF ainfo_bbcmusic_parse
<1>2. CASE ainfo_echonest_parse
  BY <1>0, <1>2, NotAsking DEF ainfo_echonest_parse, Parses
<1>3. CASE ainfo_lastfm_parse
  BY <1>0, <1>3, NotAsking DEF ainfo_lastfm_parse, Parses
<1>4. CASE ainfo_lyricsreg_parse
  BY <1>0, <1>4, NotAsking DEF ainfo_lyricsreg_parse, Parses
<1>5. CASE albumlist_musicbrainz_parse
  <2>1. Asks("<release ", "<title>",
             {<<"<release ", "official">>, <<"<name>", "asked">>})
    BY <1>5 DEF albumlist_musicbrainz_parse, Parses, Asks, Wants
  <2>2. \A n : /\ HasMark("<release ", n)
              /\ Says("<release ", n, <<"<release ", "official">>)
              /\ Says("<release ", n, <<"<name>", "asked">>)
              => MayTake("<title>", n)
    BY <1>0, <2>1, TwoWords
  <2>3. \A n : /\ HasMark("<release ", n)
              /\ Is(n, "official")
              /\ Is(Find("<name>", n), "asked")
              => MayTake("<title>", n)
    BY <2>2, Spoken
  <2> QED
    BY <1>5, <2>3, Finds, Places DEF albumlist_musicbrainz_parse
<1>6. CASE review_echonest_parse
  BY <1>0, <1>6 DEF review_echonest_parse, Parses
<1>7. CASE review_metallum_parse
  BY <1>0, <1>7, NotAsking DEF review_metallum_parse, Parses
<1>8. CASE relations_musicbrainz_parse
  BY <1>0, <1>8 DEF Nested, relations_musicbrainz_parse, Parses
<1>9. CASE relations_generated_parse
  BY <1>0, <1>9, NotAsking DEF relations_generated_parse, Parses
<1>10. CASE tags_musicbrainz_parse
  BY <1>0, <1>10 DEF Nested, tags_musicbrainz_parse, Parses
<1>11. CASE similar_lastfm_parse
  BY <1>0, <1>11, NotAsking DEF similar_lastfm_parse, Parses
<1>12. CASE similar_song_lastfm_parse
  BY <1>0, <1>12, NotAsking DEF similar_song_lastfm_parse, Parses
<1>13. CASE tracklist_musicbrainz_parse
  BY <1>0, <1>13, NotAsking DEF tracklist_musicbrainz_parse, Parses
<1>14. CASE traverse_xml
  BY <1>0, <1>14, NotAsking DEF traverse_xml, Parses
<1> QED
  BY <1>1, <1>2, <1>3, <1>4, <1>5, <1>6, <1>7, <1>8, <1>9, <1>10, <1>11, <1>12, <1>13, <1>14
  DEF InfoParse

\* These parsers are the only ones of their providers.
LEMMA OwnNested ==
  ASSUME Parse
  PROVE  /\ provider = "cover_coverartarchive" =>
              cover_coverartarchive_parse \/ parse_archive_json
         /\ provider = "relations_musicbrainz" => relations_musicbrainz_parse
         /\ provider = "tags_musicbrainz" => tags_musicbrainz_parse
         /\ provider = "review_echonest" => review_echonest_parse
<1> USE DEF Parses
<1>1. CASE LyricsParse
  BY <1>1
  DEF LyricsParse,
      lyrics_chartlyrics_parse, lyrics_elyrics_parse, lyrics_lipwalk_parse,
      lyrics_lyrdb_parse, lyrics_lyricsreg_parse, lyrics_lyricstime_parse,
      lyrics_lyricsvip_parse, lyrics_lyricswiki_parse, lyrics_lyricswiki_page,
      lyrics_lyrixat_parse, lyrics_magistrix_parse, lyrics_metallum_parse,
      lyrics_vagalume_parse, guitartabs_chordie_parse
<1>2. CASE PictureParse
  <2>1. \/ provider \notin Nested \cup {"review_echonest"}
        \/ cover_coverartarchive_parse \/ parse_archive_json
    BY <1>2
    DEF Nested, PictureParse, generic_google_parse, generic_picsearch_parse,
        cover_discogs_parse, cover_google_parse, cover_jamendo_parse,
        cover_lastfm_parse, cover_lyricswiki_parse, cover_musicbrainz_parse,
        cover_picsearch_parse, cover_rhapsody_parse, cover_slothradio_parse,
        photos_bbcmusic_parse, photos_discogs_parse, photos_flickr_parse,
        photos_google_parse, photos_lastfm_parse, photos_picsearch_parse,
        photos_rhapsody_parse, photos_singerpictures_parse,
        backdrops_htbackdrops_parse
  <2>2. cover_coverartarchive_parse \/ parse_archive_json
          => provider = "cover_coverartarchive"
    BY DEF cover_coverartarchive_parse, parse_archive_json
  <2> QED
    BY <2>1, <2>2 DEF Nested
<1>3. CASE InfoParse
  <2>1. \/ provider \notin Nested \cup {"review_echonest"}
        \/ relations_musicbrainz_parse \/ tags_musicbrainz_parse \/ review_echonest_parse
    BY <1>3
    DEF Nested, InfoParse,
        ainfo_bbcmusic_parse, ainfo_echonest_parse, ainfo_lastfm_parse,
        ainfo_lyricsreg_parse, albumlist_musicbrainz_parse, review_metallum_parse,
        relations_generated_parse, similar_lastfm_parse, similar_song_lastfm_parse,
        tracklist_musicbrainz_parse, traverse_xml
  <2>2. /\ relations_musicbrainz_parse => provider = "relations_musicbrainz"
        /\ tags_musicbrainz_parse => provider = "tags_musicbrainz"
        /\ review_echonest_parse => provider = "review_echonest"
    BY DEF relations_musicbrainz_parse, tags_musicbrainz_parse, review_echonest_parse
  <2> QED
    BY <2>1, <2>2 DEF Nested
<1> QED
  BY <1>1, <1>2, <1>3 DEF Parse

-----------------------------------------------------------------------------
\* A node with the asked name begins such a list.
LEMMA StandsThere ==
  ASSUME Work, NEW node, NEW field, NEW v, Asks(node, field, {v}),
         NEW n, HasMark(node, n), Says(node, n, v)
  PROVE  Stands(n)
<1>1. /\ Wants[provider].node = node /\ Wants[provider].words = {v}
      /\ n \in 1..Len(page) /\ n \in Int /\ page[n].mark = node
      /\ \A y \in 1..Len(page) : y \in Int
  <2>1. Len(page) \in Nat
    BY DEF Work
  <2> QED
    BY <2>1 DEF Asks, Form, HasMark
<1>2. Compared(n, {v})
  BY Finds DEF Compared, Says
<1>3. \A y \in 1..Len(page) : ~(n < y /\ y <= n)
  BY <1>1
<1>4. n <= n
  BY <1>1
<1> QED
  BY <1>1, <1>2, <1>3, <1>4 DEF Stands

\* The next of the list, if it is found before the next node.
LEMMA StandsOn ==
  ASSUME Work, Asking, provider # "review_echonest", Stands(at),
         NEW node, NEW field, NEW words, Asks(node, field, words), node # field,
         FindWithin(field, node, at + 1) # 0
  PROVE  /\ Stands(FindWithin(field, node, at + 1))
         /\ Taken(FindWithin(field, node, at + 1))
<1> DEFINE i == Find(field, at + 1)
           end == Find(node, at + 1)
           places == 1..Len(page)
<1>0. page \in Seq(Token) /\ Len(page) \in Nat /\ at \in Int /\ \A y \in places : y \in Int
  <2>1. page \in Seq(Token) /\ Len(page) \in Nat /\ at \in Int
    BY FindPlace DEF Work, Spot
  <2> QED
    BY <2>1
<1>1. FindWithin(field, node, at + 1) = i /\ i # 0 /\ ~(end # 0 /\ i > end)
  BY DEF FindWithin
<1>2. i \in places /\ i > at /\ page[i].mark = field
  BY <1>0, <1>1, FindFirst
<1>3. end # 0 => /\ end \in places /\ page[end].mark = node
                 /\ \A y \in places : y > at /\ page[y].mark = node => end <= y
  BY <1>0, FindFirst
<1>4. end = 0 => \A y \in places : y > at => page[y].mark # node
  <2> DEFINE found == {j \in (at + 1)..Len(page) : j > 0 /\ page[j].mark = node}
  <2>1. found \in SUBSET (0..Len(page)) /\ 0 \notin found
    BY <1>0
  <2>2. end = IF found = {} THEN 0 ELSE Min(found)
    BY DEF Find
  <2>3. \A y \in places : y > at /\ page[y].mark = node => y \in found
    BY <1>0
  <2> HIDE DEF found, end
  <2>4. found # {} => Min(found) \in found
    BY <1>0, <2>1, WithinFacts DEF Within
  <2> QED
    BY <2>1, <2>2, <2>3, <2>4
<1> HIDE DEF i, end
<1>5. ASSUME NEW y \in places, y > at, y <= i PROVE page[y].mark # node
  <2>1. SUFFICES ASSUME page[y].mark = node PROVE FALSE
    OBVIOUS
  <2>2. end # 0 /\ end <= y
    BY <1>3, <1>4, <1>5, <2>1
  <2>3. end = i
    BY <1>0, <1>1, <1>2, <1>3, <1>5, <2>2
  <2> QED
    BY <1>2, <1>3, <2>2, <2>3
<1>6. /\ Wants[provider].node = node /\ Wants[provider].field = field
      /\ Wants[provider].words = words
  BY DEF Asks, Form
<1>7. PICK r \in places :
        /\ page[r].mark = node /\ r <= at /\ Compared(r, words)
        /\ \A y \in places : r < y /\ y <= at => page[y].mark # node
  BY <1>6 DEF Stands
<1>8. r <= i /\ \A y \in places : r < y /\ y <= i => page[y].mark # node
  <2>1. r <= i
    BY <1>0, <1>2, <1>7
  <2>2. \A y \in places : y <= at \/ y > at
    BY <1>0
  <2> QED
    BY <1>5, <1>7, <2>1, <2>2
<1>9. Stands(i)
  BY <1>6, <1>7, <1>8 DEF Stands
<1>10. Taken(i)
  BY <1>0, <1>2, <1>6, <1>7, <1>8, TakenWithin
<1> QED
  BY <1>1, <1>9, <1>10

\* A turn of these three: it stays where it stands, or goes to another entity,
\* or takes the next of the list.
NestedTurn ==
  \/ list' = list /\ (pc' = "parsing" => at' = at \/ Stands(at'))
  \/ \E i : Taken(i) /\ Stands(i) /\ at' = i /\ list' \in {list, <<i>> \o list}

LEMMA StillAhead ==
  ASSUME Work
  PROVE  \A n \in (at + 1)..Len(page) : n \in 1..Len(page)
<1>1. Len(page) \in Nat /\ at \in 0..Len(page)
  BY FindPlace DEF Work, Spot
<1> QED
  BY <1>1

LEMMA EntityAsked ==
  ASSUME Work, NEW field, Asks("<entity ", field, {<<"<name>", "asked">>}),
         generic_musicbrainz_parse
  PROVE  list' = list /\ (pc' = "parsing" => Stands(at'))
<1>0. \A n \in (at + 1)..Len(page) : n \in 1..Len(page)
  BY StillAhead
<1>1. ASSUME NEW n \in (at + 1)..Len(page), page[n].mark = "<entity ", Asked("<name>", n)
      PROVE  Stands(n)
  <2>1. n \in 1..Len(page)
    BY <1>0
  <2>2. HasMark("<entity ", n)
    BY <1>1, <2>1 DEF HasMark
  <2>3. Says("<entity ", n, <<"<name>", "asked">>)
    BY <1>1, Spoken DEF Asked
  <2> QED
    BY <2>2, <2>3, StandsThere
<1> QED
  BY <1>0, <1>1 DEF generic_musicbrainz_parse, Stray, Return

LEMMA NestedTurns ==
  ASSUME Work, Asking, provider \in Nested, at # 0 => Stands(at), Parse
  PROVE  NestedTurn
<1>0. provider # "review_echonest"
  BY DEF Nested
<1>1. /\ list' = list /\ (pc' = "parsing" => at' = at \/ Stands(at')) => NestedTurn
      /\ \A i : Taken(i) /\ Stands(i) /\ at' = i /\ list' \in {list, <<i>> \o list}
           => NestedTurn
  BY DEF NestedTurn
<1>2. CASE provider = "cover_coverartarchive"
  <2>1. Asks("<release ", "\"image\":", {<<"<title>", "asked">>})
    BY <1>2 DEF Asks, Wants
  <2>2. cover_coverartarchive_parse \/ parse_archive_json
    BY <1>2, OwnNested
  <2>3. CASE cover_coverartarchive_parse
    <3> DEFINE release == mbid_parse_data("<release ", "<title>")
    <3>1. release # 0 => HasMark("<release ", release) /\ Is(Find("<title>", release), "asked")
      BY Finds
    <3>2. release # 0 => Stands(release)
      <4> HIDE DEF release
      <4> QED
        BY <2>1, <3>1, Spoken, StandsThere
    <3>3. list' = list /\ (pc' # "parsing" \/ (release # 0 /\ at' = release))
      BY <2>3 DEF cover_coverartarchive_parse, Return, Proceed
    <3> QED
      BY <1>1, <3>2, <3>3
  <2>4. CASE parse_archive_json
    <3> DEFINE node == FindWithin("\"image\":", "<release ", at + 1)
    <3>1. at # 0
      BY <2>4 DEF parse_archive_json
    <3>2. node # 0 => Stands(node) /\ Taken(node)
      BY <1>0, <2>1, <3>1, StandsOn
    <3>3. \/ list' = list /\ pc' # "parsing"
          \/ node # 0 /\ at' = node /\ list' = <<node>> \o list
      BY <2>4 DEF parse_archive_json, Return, Proceed, Found
    <3> QED
      BY <1>1, <3>2, <3>3
  <2> QED
    BY <2>2, <2>3, <2>4
<1>3. CASE provider = "relations_musicbrainz"
  <2>1. Asks("<entity ", "<relation ", {<<"<name>", "asked">>})
    BY <1>3 DEF Asks, Wants
  <2>2. relations_musicbrainz_parse
    BY <1>3, OwnNested
  <2> DEFINE node == info_node("<relation ")
  <2>3. node # 0 => Stands(node) /\ Taken(node)
    BY <1>0, <2>1, StandsOn DEF info_node
  <2>4. \/ node # 0 /\ at' = node /\ list' \in {list, <<node>> \o list}
        \/ generic_musicbrainz_parse
        \/ list' = list /\ pc' # "parsing"
    BY <2>2 DEF relations_musicbrainz_parse, Try, Proceed, Return, Found
  <2> QED
    BY <1>1, <2>1, <2>3, <2>4, EntityAsked
<1>4. CASE provider = "tags_musicbrainz"
  <2>1. Asks("<entity ", "<tag", {<<"<name>", "asked">>})
    BY <1>4 DEF Asks, Wants
  <2>2. tags_musicbrainz_parse
    BY <1>4, OwnNested
  <2> DEFINE node == info_node("<tag")
  <2>3. node # 0 => Stands(node) /\ Taken(node)
    BY <1>0, <2>1, StandsOn DEF info_node
  <2>4. \/ node # 0 /\ at' = node /\ list' \in {list, <<node>> \o list}
        \/ generic_musicbrainz_parse
        \/ list' = list /\ pc' # "parsing"
    BY <2>2 DEF tags_musicbrainz_parse, Proceed, Return, Found
  <2> QED
    BY <1>1, <2>1, <2>3, <2>4, EntityAsked
<1> QED
  BY <1>2, <1>3, <1>4 DEF Nested

\* echonest takes the last summary before a brace, or of the page.
LEMMA ReviewAsked ==
  ASSUME Work, Asking, provider = "review_echonest", Parse
  PROVE  AskedTurn
<1> DEFINE brace == Wants[provider].node
           object == Find(brace, at + 1)
           i == IF object # 0 THEN object ELSE Len(page)
<1>1. Number(at + 1) /\ Spot(Len(page))
  BY Places
<1>2. Spot(i) /\ (i = Len(page) \/ HasMark(brace, i))
  <2>1. object # 0 => Spot(object) /\ HasMark(brace, object)
    BY <1>1, Finds, Places
  <2> HIDE DEF object, brace
  <2> QED
    BY <1>1, <2>1
<1>3. \/ list' = list
      \/ /\ Is(LastUpTo("release", i), "asked") /\ Is(LastUpTo("summary", i), "long")
         /\ list' = <<LastUpTo("summary", i)>> \o list
  <2>1. review_echonest_parse /\ brace = "{"
    BY OwnNested DEF Wants, Form
  <2> QED
    BY <2>1 DEF review_echonest_parse, Return, Proceed, Found
<1> HIDE DEF i
<1>4. Is(LastUpTo("release", i), "asked") /\ Is(LastUpTo("summary", i), "long")
        => Taken(LastUpTo("summary", i))
  BY <1>2, TakenBefore DEF Is
<1> QED
  BY <1>3, <1>4, Turns

-----------------------------------------------------------------------------
\* The page, the query and the provider say what may be taken.
LEMMA SameForm ==
  ASSUME page' = page, provider' = provider, query' = query
  PROVE  /\ Asking' <=> Asking
         /\ \A item : Fitting(item)' <=> Fitting(item)
         /\ at' = at => (Stands(at)' <=> Stands(at))
         /\ Stands(at)' <=> Stands(at')
<1>1. Wants' = Wants
  BY DEF Wants
<1>2. Asking' <=> Asking
  <2>1. \A node, literals : Regular(node, literals)' <=> Regular(node, literals)
    BY SameTidy
  <2>2. WellFormed' <=> WellFormed
    BY <1>1, <2>1, SameTidy DEF WellFormed
  <2> QED
    BY <1>1, <2>2 DEF Asking
<1>3. \A item : Fitting(item)' <=> Fitting(item)
  <2>1. \A place : AsAsked(place)' <=> AsAsked(place)
    BY <1>1 DEF AsAsked
  <2> QED
    BY <1>1, <2>1 DEF Fitting
<1>4. \A mark, i : Find(mark, i)' = Find(mark, i)
  BY DEF Find
<1>5. \A n, words : Compared(n, words)' <=> Compared(n, words)
  BY <1>4 DEF Compared, Is
<1>6. Stands(at)' <=> Stands(at')
  BY <1>1, <1>5 DEF Stands
<1> QED
  BY <1>2, <1>3, <1>6

\* The items after a turn.
LEMMA Ranges ==
  ASSUME Numbers(list)
  PROVE  /\ Leaves => Range(list') = Range(list)
         /\ \A i \in Int : Puts(i) => Range(list') = Range(list) \cup {i}
BY Prepended, Reversed DEF Leaves, Puts

\* A larger picture is where the picture is.
LEMMA LargerFitting ==
  ASSUME NEW i \in Int, Fitting(i)
  PROVE  Fitting(-i)
<1>1. CASE i < 0
  BY <1>1 DEF Fitting
<1>2. CASE i = 0
  <2>1. -i \in Int /\ i >= -i /\ i <= -i
    BY <1>2
  <2>2. -i = i
    BY <2>1
  <2> QED
    BY <2>2
<1>3. CASE i > 0
  <2>1. -i < 0 /\ ~(i < 0) /\ -(-i) = i
    BY <1>3
  <2> QED
    BY <2>1 DEF Fitting
<1> QED
  BY <1>1, <1>2, <1>3

LEMMA ParseAsks ==
  ASSUME Work, AskedInv, Parse
  PROVE  AskedInv'
<1>1. pc = "parsing" /\ UNCHANGED capo
  BY LyricsWalk, PictureWalk, InfoWalk, ParseMoves DEF Parse, Walk, Moves
<1>2. page' = page /\ provider' = provider /\ query' = query
  BY <1>1 DEF capo
<1>3. Numbers(list)
  BY DEF Work
<1>4. SUFFICES ASSUME Asking
               PROVE  /\ \A item \in Range(list') : Fitting(item)
                      /\ pc' = "parsing" /\ provider \in Nested /\ at' # 0 => Stands(at')
  BY <1>2, SameForm DEF AskedInv
<1>5. \A item \in Range(list) : Fitting(item)
  BY <1>4 DEF AskedInv
<1>6. ASSUME NEW i, Taken(i), Puts(i) PROVE \A item \in Range(list') : Fitting(item)
  BY <1>3, <1>5, <1>6, Ranges DEF Taken
<1>7. CASE provider \in Nested
  <2>1. at # 0 => Stands(at)
    BY <1>1, <1>4, <1>7 DEF AskedInv
  <2>2. NestedTurn
    BY <1>4, <1>7, <2>1, NestedTurns
  <2>3. CASE list' = list /\ (pc' = "parsing" => at' = at \/ Stands(at'))
    BY <1>5, <2>1, <2>3
  <2>4. ASSUME NEW i, Taken(i), Stands(i), at' = i, list' \in {list, <<i>> \o list}
        PROVE  (\A item \in Range(list') : Fitting(item)) /\ Stands(at')
    BY <1>5, <1>6, <2>4 DEF Puts
  <2> QED
    BY <2>2, <2>3, <2>4 DEF NestedTurn
<1>8. CASE provider \notin Nested
  <2>1. AskedTurn
    BY <1>4, <1>8, LyricsAsked, PictureAsked, InfoAsked, ReviewAsked DEF Parse
  <2>2. CASE Leaves
    BY <1>3, <1>5, <1>8, <2>2, Ranges
  <2>3. ASSUME NEW S \in SUBSET Range(list), S # {}, Puts(-Max(S))
        PROVE  \A item \in Range(list') : Fitting(item)
    <3>1. Max(S) \in S /\ Number(-Max(S)) /\ Max(S) \in Int
      <4>1. Range(list) \subseteq Int
        BY <1>3 DEF Numbers, Range
      <4> QED
        BY <1>3, <2>3, <4>1, SpecialItem
    <3>2. Taken(-Max(S))
      BY <1>5, <3>1, LargerFitting DEF Taken, Number
    <3> QED
      BY <1>6, <2>3, <3>2
  <2> QED
    BY <1>6, <1>8, <2>1, <2>2, <2>3 DEF AskedTurn
<1> QED
  BY <1>7, <1>8

LEMMA AskedStep == TInv /\ LInv /\ AskedInv /\ [Next]_allVars => AskedInv'
<1> SUFFICES ASSUME TInv, LInv, AskedInv, [Next]_allVars PROVE AskedInv'
  OBVIOUS
<1>0. Work
  BY DEF TInv
<1>1. ASSUME list' = <<>>, pc' = "parsing" => at' = 0 PROVE AskedInv'
  BY <1>1, NothingTwice DEF AskedInv
<1>2. ASSUME UNCHANGED <<list, at, page, provider, query>>, pc' # "parsing" \/ pc' = pc
      PROVE  AskedInv'
  BY <1>2, SameForm DEF AskedInv
<1>3. CASE Parse
  BY <1>0, <1>3, ParseAsks
<1>4. CASE Ask \/ Arrive
  BY <1>1, <1>4 DEF Ask, Arrive, LInv, NewInv
<1>5. CASE SignalExit
  BY <1>2, <1>5 DEF SignalExit, capo
<1>6. CASE Threads
  BY <1>2, <1>6 DEF Threads, ThreadEnds, capo
<1>7. CASE Check
  <2>1. CASE Take
    BY <1>1, <2>1 DEF Take
  <2>2. CASE StartThreads \/ Join \/ delete_wrong_formats \/ Keep \/ Hand
    BY <1>2, <2>2 DEF StartThreads, Join, delete_wrong_formats, Keep, Hand, capo
  <2>3. CASE \E sum \in [raw -> Sum] : delete_dupes(sum)
    BY <1>2, <2>3 DEF delete_dupes, capo
  <2>4. CASE \E items \in SUBSET {i \in raw : Live(i)} :
               delete_already_cached_items(items) \/ CheckText(items)
    BY <1>2, <2>4 DEF delete_already_cached_items, CheckText, capo
  <2> QED
    BY <1>7, <2>1, <2>2, <2>3, <2>4 DEF Check
<1>8. CASE UNCHANGED allVars
  BY <1>2, <1>8 DEF allVars, vars, capo
<1> QED
  BY <1>3, <1>4, <1>5, <1>6, <1>7, <1>8 DEF Next

\* Whatever the servers send: from a page whose entries are as they should be
\* (WellFormed), no parser that compares names, sizes or links takes anything
\* of an entry that is not as the query asked for.
THEOREM OnlyTheAskedIsTaken == Spec => []OnlyAsked
<1>1. CheckInit => AskedInv
  BY NothingTwice DEF CheckInit, Init, AskedInv
<1>2. AskedInv => OnlyAsked
  BY DEF AskedInv, Asking, Fitting, OnlyAsked
<1> QED
  BY <1>1, <1>2, AskedStep, TypeInvariance, ListInvariance, PTL DEF Spec
=============================================================================
