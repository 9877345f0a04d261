------------------------------ MODULE MCMetaDB ------------------------------
(***************************************************************************)
(* Small instances of MetaDB.tla.                                          *)
(***************************************************************************)
EXTENDS MetaDB, TLC

CONSTANTS t1, t2,   \* threads
          a, b,     \* names
          p, none,  \* a provider, and the "none" of CACHE_GET_PROVIDER
          s         \* an address

Nothing == {}
ArtistAlbum == <<"artist", "album">>
Artist == {"artist"}
Album == {"album"}
Names == {a, b}
Providers == {p, none}
Sources == {s}
Sums == {1, 2}
OneThread == {t1}
TwoThreads == {t1, t2}

Ask(artist, album, from, download, number) ==
  [names |-> ("artist" :> artist) @@ ("album" :> album),
   from |-> from, download |-> download, number |-> number]

Cache(provider, kind, sum, source) ==
  [provider |-> provider, kind |-> kind, sum |-> sum, source |-> source]

\* Relations: the album is optional.  One query of an artist, one of an album of the
\* same artist that does not want provider p, one without an artist.
TextQueries == {Ask(a, Absent, {p}, TRUE, 2), Ask(a, b, {}, TRUE, 1),
                Ask(Absent, b, {p}, TRUE, 1)}
\* Caches of a provider and of the application itself.
TextItems == {Cache(p, "data", 1, Absent), Cache(Absent, "data", 2, s)}

\* Photos: an address and the picture behind it; in the run of deletes, also a picture of
\* the application itself, and a query that wants pictures of no provider but that one.
PhotoQueries == {Ask(a, Absent, {p}, TRUE, 1), Ask(b, Absent, {p}, FALSE, 1)}
MorePhotoQueries == PhotoQueries \cup {Ask(a, Absent, {}, TRUE, 2)}
PhotoItems == {Cache(p, "url", 1, s), Cache(p, "data", 2, s)}
MorePhotoItems == PhotoItems \cup {Cache(Absent, "data", 1, Absent)}
PhotoList == <<Cache(p, "data", 2, s), Cache(p, "url", 1, s)>>

NoLists == {}
TextLists == {<<Cache(Absent, "data", 2, s)>>}
PhotoLists == {PhotoList}
=============================================================================
