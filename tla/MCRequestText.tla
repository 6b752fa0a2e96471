--------------------------- MODULE MCRequestText ---------------------------
(* Small instances of RequestText for TLC. *)
EXTENDS RequestText

\* Every text of a path, and every text of queries behind one; values of one
\* query with every placing of commas.
Paths   == {<<"/">> \o s : s \in BoundedSeq({"/", "a", "?", "#"}, 4)}
Asking  == {<<"/", "a", "?">> \o s : s \in BoundedSeq({"&", "=", "a", "1", "#"}, 5)}
Listing == {<<"/", "a", "?", "a", "=">> \o s : s \in BoundedSeq({"a", "1", "0", ","}, 5)}

MCTargets == Paths \cup Asking \cup Listing
MCTags    == {<<"a">>, <<"1">>}
MCFlags   == <<<<"1">>, <<"a">>, <<"a", "1">>>>

\* Every header whose words are behind a comma, weights anywhere.
MCCodings == {"gzip", "deflate", "identity", "other"}
MCHeaders ==
  {s \in BoundedSeq(MCCodings \cup {";q=0", ";q=1", ", "}, 5) :
     \A n \in 2 .. Len(s) : s[n] \in MCCodings => s[n - 1] = ", "}
=============================================================================
