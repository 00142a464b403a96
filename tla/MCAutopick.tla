----------------------------- MODULE MCAutopick -----------------------------
(***************************************************************************)
(* Three stories, two of which have one link. Two may be drafted again,    *)
(* with another event_key each time. "cut" matches the file of "fed-cut",  *)
(* "Fed" and "fed" are two keys with one slug, and "zh" is a key without   *)
(* an ASCII letter or digit, for which slugify returns the same hash as    *)
(* for the empty key.                                                      *)
(***************************************************************************)
EXTENDS AutopickProps

D(n, k, t) == [news |-> n, key |-> k, title |-> t]

Stories == {"n1", "n2", "n3"}
Headlines == [n1 |-> "h1", n2 |-> "h2", n3 |-> "h3"]
Links == [n1 |-> "u1", n2 |-> "u2", n3 |-> "u2"]
Written == {D("n1", "fed-cut", "t1"), D("n1", "fed", "t1b"), D("n1", "fed", "t1"),
            D("n2", "Fed", "t2"), D("n2", "cut", "t2b"), D("n3", "fed", "t3")}
SlugOf == [k \in {"", "fed-cut", "fed", "Fed", "cut", "zh"} |->
             CASE k \in {"", "zh"} -> "hash" [] k = "Fed" -> "fed" [] OTHER -> k]
Globs == [s \in {"hash", "fed-cut", "fed", "cut"} |->
            IF s = "cut" THEN {"cut", "fed-cut"} ELSE {s}]
NearPairs == {{"t1", "t1b"}}
AlikePairs == {{"t1", "t1b"}, {"t1b", "t2b"}}

TwoStories == {"n1", "n2"}
Foreign == {D("n1", "zh", "t1"), D("n2", "fed", "t2")}

=============================================================================
