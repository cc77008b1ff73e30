---------------------------- MODULE WindowGlobs ----------------------------
(***************************************************************************)
(* The two ways a source_filter is applied.  describe_sources and          *)
(* get_current_state compile it with globset                               *)
(* (crates/percept/src/mcp/registry.rs); get_window turns each glob into a *)
(* SQL LIKE pattern (glob_to_like, crates/store/src/cold/store.rs) and     *)
(* SQLite applies that.  Here a client asks both about one source.         *)
(*                                                                         *)
(* Texts and patterns are sequences of characters.                         *)
(***************************************************************************)
EXTENDS Integers, Sequences, SequencesExt

CONSTANTS
  Names,   \* source_ids
  Filters  \* filters: sets of globs (the empty set: an absent or empty array)

VARIABLES
  name, filter,  \* the source and the filter asked about
  described,     \* describe_sources has the source: "none" before the call
  scanned        \* get_window has its events

vars == <<name, filter, described, scanned>>

Init ==
  /\ name \in Names
  /\ filter \in Filters
  /\ described = "none"
  /\ scanned = "none"

\* globset, for globs of letters, "*" and "?".
GlobMatches(glob, text) ==
  LET m[i \in 0 .. Len(glob), j \in 0 .. Len(text)] ==
        IF i = 0 THEN j = 0
        ELSE IF glob[i] = "*" THEN m[i - 1, j] \/ (j > 0 /\ m[i, j - 1])
        ELSE j > 0 /\ glob[i] \in {"?", text[j]} /\ m[i - 1, j - 1]
  IN  m[Len(glob), Len(text)]

\* SQLite's LIKE without an ESCAPE clause; it ignores the case of letters.
LowerCase(c) == IF c = "A" THEN "a" ELSE c

LikeMatches(like, text) ==
  LET m[i \in 0 .. Len(like), j \in 0 .. Len(text)] ==
        IF i = 0 THEN j = 0
        ELSE IF like[i] = "%" THEN m[i - 1, j] \/ (j > 0 /\ m[i, j - 1])
        ELSE /\ j > 0
             /\ like[i] = "_" \/ LowerCase(like[i]) = LowerCase(text[j])
             /\ m[i - 1, j - 1]
  IN  m[Len(like), Len(text)]

\* replace('%', "\%"), replace('_', "\_"), replace('*', "%")
GlobToLike(glob) ==
  FlattenSeq([i \in DOMAIN glob |->
                IF glob[i] \in {"%", "_"} THEN <<"\\", glob[i]>>
                ELSE IF glob[i] = "*" THEN <<"%">>
                ELSE <<glob[i]>>])

\* DescriptorRegistry::filter: an empty filter takes everything.
Describe ==
  /\ described = "none"
  /\ described' = IF filter = {} \/ \E g \in filter : GlobMatches(g, name)
                  THEN "yes" ELSE "no"
  /\ UNCHANGED <<name, filter, scanned>>

\* query_window: glob_clause adds nothing for an empty filter.
Scan ==
  /\ scanned = "none"
  /\ scanned' = IF filter = {} \/ \E g \in filter : LikeMatches(GlobToLike(g), name)
                THEN "yes" ELSE "no"
  /\ UNCHANGED <<name, filter, described>>

Next == Describe \/ Scan

Spec == Init /\ [][Next]_vars

\* "`*_filter` args are optional shell-style glob arrays" (mcp/tools.rs, of
\* all tools): with one filter, get_window looks at the sources that
\* describe_sources lists.
OneGlobLanguage ==
  described # "none" /\ scanned # "none" => described = scanned
=============================================================================
