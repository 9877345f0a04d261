----------------------------- MODULE Selection ------------------------------
(***************************************************************************)
(* Which providers a query wants, and in which order they are asked:       *)
(* provider_is_enabled(), calc_rating() and get_queued() (src/lib/core.c). *)
(*                                                                         *)
(* A list of providers, the string of glyr_opt_from(), is a sequence of    *)
(* tokens, each a word with "-", "+" or nothing in front of it.            *)
(***************************************************************************)
EXTENDS Ordering, SequencesExt

Sign == {"", "-", "+"}
From == Seq([sign : Sign, text : STRING])

\* get_next_word() and what is made of the words: strncasecmp() looks at no
\* more characters of "all" than the token has, its sign included.
AllWord(token) ==
  \/ token.text = "all"
  \/ token.sign = "" /\ token.text \in {"", "a", "al"}

\* By its key, but only without a sign, or by its name.
Names(token, source) ==
  \/ token.sign = "" /\ token.text = source.key
  \/ token.text = source.name

\* q->from names the provider; and the last time with a "-".
IsNamed(q, source) == \E i \in DOMAIN q.from : Names(q.from[i], source)
IsExcluded(q, source) ==
  \E i \in DOMAIN q.from :
    /\ Names(q.from[i], source) /\ q.from[i].sign = "-"
    /\ \A j \in i + 1..Len(q.from) : ~Names(q.from[j], source)

Foreign(q, source) ==
  q.lang_aware_only /\ ~q.imagejob /\ ~source.lang_aware /\ source.name # "local"

AllOccured(q) == \E i \in DOMAIN q.from : AllWord(q.from[i])

\* Variant: "all" is all.
enabled_unless_foreign(q, source) ==
  ~Foreign(q, source)
    /\ (AllOccured(q) \/ (IsNamed(q, source) /\ ~IsExcluded(q, source)))

provider_is_enabled(q, source) ==
  /\ ~Foreign(q, source)
  /\ AllOccured(q) \/ IsNamed(q, source)
  /\ ~IsExcluded(q, source)

Clamp(x, low, high) == IF x < low THEN low ELSE IF x > high THEN high ELSE x

\* The order of quality / (1 - ratio) + speed / ratio; the ratio in percent.
calc_rating(qsratio, source) ==
  LET cratio == Clamp(qsratio, 10, 90)
  IN  cratio * source.quality + (100 - cratio) * source.speed

\* The next q.parallel positions of the providers that did not fire yet, the
\* best first, and of equals the first.
get_queued(q, providers, fired) ==
  LET left == {i \in DOMAIN providers \ fired : provider_is_enabled(q, providers[i])}
      rated == {<<-calc_rating(q.qsratio, providers[i]), i>> : i \in left}
      order == Ranked(rated)
  IN  [k \in 1..Clamp(q.parallel, 0, Cardinality(rated)) |-> order[k][2]]
=============================================================================
