---------------------------- MODULE MCDownloader ----------------------------
(***************************************************************************)
(* Small instances of Downloader.tla: three addresses to download and a    *)
(* blacklisted one, up to two items on a page.                             *)
(***************************************************************************)
EXTENDS Downloader, TLC

CONSTANTS u1, u2, u3, u4, i1, i2, i3

Urls == {u1, u2, u3, u4}
OneUrl == {u1}
OneBlacklisted == {u4}
OneMarked == {u3}
Items == {i1, i2, i3}

\* One page with two items, one with one, one with none.
Pages == (u1 :> {i1, i2}) @@ (u2 :> {i3}) @@ (u3 :> {}) @@ (u4 :> {})
OnePage == u1 :> {i1, i2}
=============================================================================
