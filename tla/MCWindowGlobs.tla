--------------------------- MODULE MCWindowGlobs ---------------------------
EXTENDS WindowGlobs

Words(chars, n) == UNION {[1 .. k -> chars] : k \in 1 .. n}

MCNames == Words({"a", "b", "_"}, 3)
MCFilters == {{}} \cup {{g} : g \in Words({"a", "_", "*"}, 3)}
=============================================================================
