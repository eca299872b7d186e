------------------------------ MODULE NameFilter ------------------------------
(***************************************************************************)
(* The list of patterns that says which nodes are special                  *)
(* (src/lib/name_filter/name_filter.cc).  A line of the pattern file is a  *)
(* record: `first' is "" for an empty line, "#" for a comment, "!" for a   *)
(* negative pattern and "p" otherwise, and `matches' is the set of names   *)
(* that the regular expression after it matches.  A line of blanks is not  *)
(* empty: it is a pattern that matches names made of the same blanks.      *)
(***************************************************************************)
EXTENDS Sequences, SequencesExt

EmptyFilter == [positive |-> <<>>, negative |-> <<>>]

(* Faulty: negative patterns are added like any other.                     *)
AddPattern_AllPositive(filter, line) ==
    [filter EXCEPT !.positive = Append(@, line.matches)]

AddPattern(filter, line) ==
    IF line.first = "!"
    THEN [filter EXCEPT !.negative = Append(@, line.matches)]
    ELSE [filter EXCEPT !.positive = Append(@, line.matches)]

(* Empty lines and comments are skipped.                                   *)
AddLine(filter, line) ==
    IF line.first \in {"", "#"} THEN filter ELSE AddPattern(filter, line)

LoadPatterns(lines) == FoldLeft(AddLine, EmptyFilter, lines)

(* A name is found if a positive pattern matches it and no negative one.   *)
Search(filter, name) ==
    /\ \E i \in DOMAIN filter.positive : name \in filter.positive[i]
    /\ \A i \in DOMAIN filter.negative : name \notin filter.negative[i]
=============================================================================
