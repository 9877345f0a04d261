------------------------------ MODULE MCEngine ------------------------------
(***************************************************************************)
(* Small instances of Engine.tla.  Four providers: a and b rated equally  *)
(* and fired together, c and d (which has no address) rated lower.  Some   *)
(* items of different providers are equal, some addresses of different     *)
(* providers lead to the same picture.                                     *)
(***************************************************************************)
EXTENDS Engine, TLC

CONSTANTS a, b, c, d, x1, x2, y1, z1, z2

Providers == {a, b, c, d}
OnlyD == {d}
OnlyC == {c}
Ratings == (a :> 9) @@ (b :> 9) @@ (c :> 5) @@ (d :> 7)
Items == {x1, x2, y1, z1, z2}
Finds == (a :> {x1, x2}) @@ (b :> {y1}) @@ (c :> {z1, z2}) @@ (d :> {})

\* The text of x2 is found again at b, the one of x1 again at c.
Texts == (x1 :> 1) @@ (x2 :> 2) @@ (y1 :> 2) @@ (z1 :> 1) @@ (z2 :> 3)
\* Addresses that differ, two of which lead to the same picture.
Addresses == (x1 :> 1) @@ (x2 :> 2) @@ (y1 :> 3) @@ (z1 :> 4) @@ (z2 :> 5)
Images == (x1 :> 1) @@ (x2 :> 2) @@ (y1 :> 2) @@ (z1 :> 1) @@ (z2 :> 3)
AllAnswers == {"ok", "skip", "stop_pre", "stop_post"}
=============================================================================
