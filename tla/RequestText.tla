----------------------------- MODULE RequestText -----------------------------
(***************************************************************************)
(* What virthttp reads out of the text of a request: the parts and the     *)
(* queries of its target and the flags in them (include/urlparser.hpp,     *)
(* handlers/flagwork.hpp), the encodings its answer may have               *)
(* (decoder_support/compression.hpp), and the key of a result, which is    *)
(* HexId's.  A behaviour reads one such text, a match of a regular         *)
(* expression or a round of a loop at a time.                              *)
(*                                                                         *)
(* A target is a sequence of characters; an Accept-Encoding a sequence of  *)
(* words and of what stands between them.                                  *)
(***************************************************************************)
EXTENDS HexId, SequencesExt

CONSTANTS Targets,    \* the targets clients send, as handle_request() lets them pass
          Headers,    \* and their values of Accept-Encoding
          Tags,       \* the queries that hold flags or a truth value
          KnownFlags, \* EnumSetHelper::values, a sequence of words
          Codings,    \* the words that may name an encoding
          Letters     \* [A-Za-z_\-], which a fragment is made of

Comma      == ","    \* what stands between two values of a list
ZeroWeight == ";q=0" \* a weight that forbids

ASSUME TargetsAssumption == \A s \in Targets : s \in Seq(STRING) /\ s # <<>> /\ s[1] = "/"

\* The words of a header stand behind commas: without one, the `.?' of the weight
\* before a word would take its first letter.
ASSUME HeadersAssumption ==
  \A s \in Headers :
    s \in Seq(STRING) /\ \A n \in 2 .. Len(s) : s[n] \in Codings => s[n - 1] = ", "

\* The names of flags are words (EnumSetHelper::values), and any word of letters may
\* name an encoding ([a-z]+ in compression.hpp).
ASSUME FlagsAssumption ==
  /\ KnownFlags \in Seq(Seq(STRING))
  /\ \A word \in Range(KnownFlags) : word # <<>> /\ Comma \notin Range(word)
ASSUME CodingsAssumption ==
  {"gzip", "deflate", "identity"} \subseteq Codings

VARIABLES stage,    \* what is being read
          given,    \* the text
          todo,     \* what is left of the part of it that is being read
          parts,    \* TargetParser::path_parts
          query,    \* what match() returns for parse_queries()
          queries,  \* TargetParser::queries: a flatmap
          asked,    \* the query whose flags are being read, and whether they add up
          flags,    \* the bits that are set so far
          accepted, \* handle_compression()'s accepted_values: a flatmap
          out       \* the response: its Content-Encoding, its body, the result, and
                    \* whether what was compressed had room

textVars == <<stage, given, todo, parts, query, queries, asked, flags, accepted, out>>
allVars  == <<vars, textVars>>

Empty     == [n \in {} |-> n]
\* A flatmap after emplace(), which leaves an entry that is there alone, and after
\* an assignment to map[key].
Emplaced(map, key, value) ==
  [k \in DOMAIN map \cup {key} |-> IF k \in DOMAIN map THEN map[k] ELSE value]
Assigned(map, key, value) ==
  [k \in DOMAIN map \cup {key} |-> IF k = key THEN value ELSE map[k]]

PlainBody == [header |-> "none", body |-> "json", ok |-> TRUE, room |-> TRUE]

From(s, n) == SubSeq(s, n, Len(s))
\* The place of the first character in S, if there is one, and those before it.
FirstIn(s, S) == SelectInSeq(s, LAMBDA c : c \in S)
UpTo(s, S)    == IF FirstIn(s, S) = 0 THEN s ELSE SubSeq(s, 1, FirstIn(s, S) - 1)

Reading(at) ==
  /\ stage = at /\ todo = <<>> /\ parts = <<>> /\ query = <<>> /\ queries = Empty
  /\ asked = [tag |-> <<>>, composable |-> TRUE] /\ flags = {}
  /\ accepted = Empty /\ out = PlainBody

\* No key is being encoded or decoded.
NoKey == pc = "none" /\ id = Zero /\ rest = Zero /\ text = <<>> /\ next = 1 /\ ret = Zero

TextInit ==
  \/ Init /\ Reading("none") /\ given = <<>>
  \/ NoKey /\ Reading("target") /\ given \in Targets
  \/ NoKey /\ Reading("header") /\ given \in Headers

-----------------------------------------------------------------------------
\* The target.

\* target_pattern: ^($|/[^#?\s]+)?(.*?)?(#[A-Za-z_\-]+)?$
PathOf(s) == IF Len(s) > 1 /\ s[2] \notin {"#", "?"} THEN UpTo(s, {"#", "?"}) ELSE <<>>
IsFragment(s) == Len(s) > 1 /\ Head(s) = "#" /\ Range(Tail(s)) \subseteq Letters
\* The shortest text that leaves nothing or a fragment.
QueryOf(s) ==
  SubSeq(s, 1, Min({n \in 0 .. Len(s) : n = Len(s) \/ IsFragment(From(s, n + 1))}))

\* Slip: the path is all that is no query.
MatchTarget_KeepsFragment ==
  /\ stage = "target"
  /\ LET path == UpTo(given, {"?"})
     IN todo' = path /\ query' = QueryOf(From(given, Len(path) + 1))
  /\ stage' = "parts"
  /\ UNCHANGED <<given, parts, queries, asked, flags, accepted, out>>

MatchTarget ==
  /\ stage = "target"
  /\ LET path == PathOf(given)
     IN todo' = path /\ query' = QueryOf(From(given, Len(path) + 1))
  /\ stage' = "parts"
  /\ UNCHANGED <<given, parts, queries, asked, flags, accepted, out>>

\* target_path_parts: /([^/]+)
PartStarts(s) == {n \in 2 .. Len(s) : s[n - 1] = "/" /\ s[n] # "/"}

TakePart ==
  /\ stage = "parts" /\ PartStarts(todo) # {}
  /\ LET n    == Min(PartStarts(todo))
         part == UpTo(From(todo, n), {"/"})
     IN parts' = Append(parts, part) /\ todo' = From(todo, n + Len(part))
  /\ UNCHANGED <<stage, given, query, queries, asked, flags, accepted, out>>

\* What stands before the queries is taken for the question mark.
PartsDone ==
  /\ stage = "parts" /\ PartStarts(todo) = {}
  /\ todo' = IF query = <<>> THEN <<>> ELSE Tail(query)
  /\ stage' = "queries"
  /\ UNCHANGED <<given, parts, query, queries, asked, flags, accepted, out>>

\* target_queries: [&;]?([^=&;]+)=?([^=&;]*)
QueryEnds  == {"&", ";"}
Separators == QueryEnds \cup {"="}
NameStarts(s) == {n \in 1 .. Len(s) : s[n] \notin Separators}
Name(s)  == UpTo(From(s, Min(NameStarts(s))), Separators)
After(s) == From(s, Min(NameStarts(s)) + Len(Name(s)))
Value(s) == IF After(s) # <<>> /\ Head(After(s)) = "=" THEN UpTo(Tail(After(s)), Separators)
                                                      ELSE <<>>
Left(s)  == IF After(s) # <<>> /\ Head(After(s)) = "=" THEN From(After(s), 2 + Len(Value(s)))
                                                      ELSE After(s)

\* Slip: queries[s_name] = s_value.
TakeQuery_LastCounts ==
  /\ stage = "queries" /\ NameStarts(todo) # {}
  /\ queries' = Assigned(queries, Name(todo), Value(todo))
  /\ todo' = Left(todo)
  /\ UNCHANGED <<stage, given, parts, query, asked, flags, accepted, out>>

\* emplace() leaves a name that is there alone.
TakeQuery ==
  /\ stage = "queries" /\ NameStarts(todo) # {}
  /\ queries' = Emplaced(queries, Name(todo), Value(todo))
  /\ todo' = Left(todo)
  /\ UNCHANGED <<stage, given, parts, query, asked, flags, accepted, out>>

QueriesDone ==
  /\ stage = "queries" /\ NameStarts(todo) = {}
  /\ stage' = "parsed" /\ todo' = <<>>
  /\ UNCHANGED <<given, parts, query, queries, asked, flags, accepted, out>>

-----------------------------------------------------------------------------
\* Its queries.

\* TargetParser::operator[]
Lookup(tag) == IF tag \in DOMAIN queries THEN queries[tag] ELSE <<>>

\* A string_view of a query that is there is never null, an empty one included.
GetBool(tag) ==
  CASE tag \notin DOMAIN queries -> "none"
    [] tag \in DOMAIN queries /\ Lookup(tag) \in {<<>>, <<"1">>, <<"y", "e", "s">>, <<"t", "r", "u", "e">>} -> "true"
    [] Lookup(tag) \in {<<"0">>, <<"n", "o">>, <<"f", "a", "l", "s", "e">>} -> "false"
    [] OTHER -> "none"

\* CSVIterator.  Reading a value looks past the commas in front of it but returns
\* them with it; stepping on takes away one comma.
Commas(sv)  == LET n == SelectInSeq(sv, LAMBDA c : c # Comma) IN IF n = 0 THEN Len(sv) ELSE n - 1
Deref(sv)   == SubSeq(sv, 1, Commas(sv) + Len(UpTo(From(sv, Commas(sv) + 1), {Comma})))

\* Slip: stepping on looks past the commas, too.
Advance_SkipsEmpty(sv) ==
  LET tail == From(sv, 2 + Len(UpTo(sv, {Comma}))) IN From(tail, Commas(tail) + 1)

Advance(sv) == From(sv, 2 + Len(UpTo(sv, {Comma})))

\* from_string(): 1 << the position of the word.  `flags' is the set of those bits.
Bit(word)   == SelectInSeq(KnownFlags, LAMBDA w : w = word) - 1
Known(word) == word \in Range(KnownFlags)

\* target_get_composable_flag()
ReadFlags ==
  /\ stage = "parsed"
  /\ \E tag \in Tags, composable \in BOOLEAN :
       /\ asked' = [tag |-> tag, composable |-> composable]
       /\ todo' = Lookup(tag)
  /\ stage' = "flags"
  /\ UNCHANGED <<given, parts, query, queries, flags, accepted, out>>

TakeFlag ==
  /\ stage = "flags" /\ todo # <<>> /\ asked.composable
  /\ Known(Deref(todo))
  /\ flags' = flags \cup {Bit(Deref(todo))}
  /\ todo' = Advance(todo)
  /\ UNCHANGED <<stage, given, parts, query, queries, asked, accepted, out>>

TakeOnlyFlag ==
  /\ stage = "flags" /\ todo # <<>> /\ ~asked.composable
  /\ Known(Deref(todo))
  /\ flags' = {Bit(Deref(todo))}
  /\ stage' = "read" /\ todo' = <<>>
  /\ UNCHANGED <<given, parts, query, queries, asked, accepted, out>>

RefuseFlag ==
  /\ stage = "flags" /\ todo # <<>> /\ ~Known(Deref(todo))
  /\ stage' = "refused" /\ todo' = <<>>
  /\ UNCHANGED <<given, parts, query, queries, asked, flags, accepted, out>>

FlagsDone ==
  /\ stage = "flags" /\ todo = <<>>
  /\ stage' = "read"
  /\ UNCHANGED <<given, todo, parts, query, queries, asked, flags, accepted, out>>

-----------------------------------------------------------------------------
\* The encoding of the answer.

\* No Accept-Encoding: handle_compression() returns at once.
ReadHeader ==
  /\ stage = "header"
  /\ IF given = <<>> THEN stage' = "sent" /\ todo' = <<>>
                     ELSE stage' = "codings" /\ todo' = given
  /\ UNCHANGED <<given, parts, query, queries, asked, flags, accepted, out>>

\* weigthed_encodings_pattern: ([a-z]+|\*)(?:;q=([0-1].?(?:[\d]+)?)?)?(?:,\s*)?
\* A weight that does not follow at once is none; the "q" of it is a name then,
\* one that nobody asks for.
CodingStarts(s) == {n \in 1 .. Len(s) : s[n] \in Codings}
Weight(s)       == IF Len(s) > 1 /\ s[2] = ZeroWeight THEN 0 ELSE 1

\* accepted_values[name] = w
TakeCoding ==
  /\ stage = "codings" /\ CodingStarts(todo) # {}
  /\ LET s == From(todo, Min(CodingStarts(todo)))
     IN accepted' = Assigned(accepted, Head(s), Weight(s)) /\ todo' = Tail(s)
  /\ UNCHANGED <<stage, given, parts, query, queries, asked, flags, out>>

CodingsDone ==
  /\ stage = "codings" /\ CodingStarts(todo) = {}
  /\ stage' = "negotiate" /\ todo' = <<>>
  /\ UNCHANGED <<given, parts, query, queries, asked, flags, accepted, out>>

Forbidden == "identity" \in DOMAIN accepted /\ accepted["identity"] = 0

\* Slip: out_head.set() before res is known.
Compress_HeaderAnyway(coding, format) ==
  /\ stage' = "sent"
  /\ out' \in {[PlainBody EXCEPT !.header = coding, !.body = format],
              [PlainBody EXCEPT !.header = coding, !.ok = FALSE]}

\* libdeflate::compress() fails and leaves the body, or replaces it.  The buffer it
\* gives is as long as the body, the length it tells libdeflate is compress_bound():
\* a text that compresses to more is written past the end.  That may end the program;
\* else resize() puts zeros where the rest was, which spoils it unless these bytes
\* were zeros (the end of a gzip trailer is), and compress() returns true.
Compress(coding, format) ==
  \/ stage' = "sent" /\ out' = [PlainBody EXCEPT !.ok = FALSE]
  \/ stage' = "sent" /\ out' = [PlainBody EXCEPT !.header = coding, !.body = format]
  \/ /\ stage' \in {"sent", "aborted"}
     /\ \E body \in {format, "corrupt"} :
          out' = [header |-> coding, body |-> body, ok |-> TRUE, room |-> FALSE]

HandleCompression ==
  /\ stage = "negotiate"
  /\ \/ Forbidden /\ stage' = "sent" /\ out' = [PlainBody EXCEPT !.ok = FALSE]
     \/ ~Forbidden /\ "gzip" \in DOMAIN accepted /\ Compress("gzip", "gzip")
     \/ /\ ~Forbidden /\ "gzip" \notin DOMAIN accepted
        /\ "deflate" \in DOMAIN accepted /\ Compress("deflate", "zlib")
     \/ /\ ~Forbidden /\ DOMAIN accepted \cap {"gzip", "deflate"} = {}
        /\ stage' = "sent" /\ out' = PlainBody
  /\ UNCHANGED <<given, todo, parts, query, queries, asked, flags, accepted>>

-----------------------------------------------------------------------------
ReadTarget == MatchTarget \/ TakePart \/ PartsDone \/ TakeQuery \/ QueriesDone
ReadQuery  == ReadFlags \/ TakeFlag \/ TakeOnlyFlag \/ RefuseFlag \/ FlagsDone
Negotiate  == ReadHeader \/ TakeCoding \/ CodingsDone \/ HandleCompression

TextNext ==
  \/ Next /\ UNCHANGED textVars
  \/ (ReadTarget \/ ReadQuery \/ Negotiate) /\ UNCHANGED vars

TextSpec == TextInit /\ [][TextNext]_allVars

-----------------------------------------------------------------------------
\* The texts as a reader sees them.

\* The intervals of s between two separators of S, the ends included.
Fields(s, S) ==
  {i \in (1 .. Len(s) + 1) \X (0 .. Len(s)) :
     /\ i[1] <= i[2] + 1 /\ \A n \in i[1] .. i[2] : s[n] \notin S
     /\ i[1] = 1 \/ s[i[1] - 1] \in S
     /\ i[2] = Len(s) \/ s[i[2] + 1] \in S}
In(s, i) == SubSeq(s, i[1], i[2])

Parsed == stage \in {"parsed", "flags", "read", "refused"}

\* A target /path?queries#fragment.
QueryText ==
  LET n == FirstIn(given, {"?", "#"})
      s == From(given, n + 1)
  IN IF n = 0 \/ given[n] = "#" THEN <<>>
     ELSE SubSeq(s, 1, Min({m \in 0 .. Len(s) : m = Len(s) \/ IsFragment(From(s, m + 1))}))
Ordinary ==
  /\ Len(given) > 1 /\ given[2] \notin {"?", "#"}
  /\ LET n == FirstIn(given, {"?", "#"}) IN n > 0 => given[n] = "?"

\* A query name=value, or just a name.
Equals(s)    == {n \in 1 .. Len(s) : s[n] = "="}
OneQuery(s)  == Cardinality(Equals(s)) <= 1 /\ (s # <<>> => Head(s) # "=")
NameIn(s)    == IF Equals(s) = {} THEN s ELSE SubSeq(s, 1, Min(Equals(s)) - 1)
ValueIn(s)   == IF Equals(s) = {} THEN <<>> ELSE From(s, Min(Equals(s)) + 1)
Queries      == {i \in Fields(QueryText, QueryEnds) : In(QueryText, i) # <<>>}

\* The parts are what stands between the slashes of the path, the nth of them
\* the nth that is not empty, and nothing of the queries or the fragment gets
\* into them.
PartsArePath ==
  Parsed =>
    LET path  == UpTo(given, {"?", "#"})
        named == {i \in Fields(path, {"/"}) : In(path, i) # <<>>}
    IN /\ Len(parts) = Cardinality(named)
       /\ \A i \in named : parts[Cardinality({j \in named : j[1] <= i[1]})] = In(path, i)

\* "only the first appearance of `tag` within the target is considered"
\* (flagwork.hpp:26): of an ordinary target, the queries are those it names, each
\* with its first value.  One that stands alone means yes; one that is missing
\* means neither yes nor no.
FirstAppearance ==
  Parsed /\ Ordinary /\ (\A i \in Queries : OneQuery(In(QueryText, i))) =>
    /\ DOMAIN queries = {NameIn(In(QueryText, i)) : i \in Queries}
    /\ \A i \in Queries :
         LET name  == NameIn(In(QueryText, i))
             value == ValueIn(In(QueryText, i))
         IN (\A j \in Queries : j[1] < i[1] => NameIn(In(QueryText, j)) # name)
              => queries[name] = value /\ (value = <<>> => GetBool(name) = "true")
    /\ \A tag \in Tags : tag \notin DOMAIN queries => GetBool(tag) = "none"

\* "The flag values must be comma-separated": the flags are those of the words
\* between the commas, refused as a whole if one of them is none, or empty
\* unless it is the last; of flags that do not add up only the first word counts.
FlagsAsListed ==
  stage \in {"read", "refused"} =>
    LET csv   == Lookup(asked.tag)
        words == {i \in Fields(csv, {Comma}) : In(csv, i) # <<>> \/ i[2] < Len(csv)}
        read  == IF asked.composable THEN words ELSE {i \in words : i[1] = 1}
    IN /\ stage = "refused" <=> \E i \in read : ~Known(In(csv, i))
       /\ stage = "read" => flags = {Bit(In(csv, i)) : i \in read}

\* The last weight of the identity is one that forbids it.
ForbiddenBy(header) ==
  LET last == SelectLastInSeq(header, LAMBDA w : w = "identity")
  IN last > 0 /\ last < Len(header) /\ header[last + 1] = ZeroWeight

\* The answer is encoded only as its header says, and only if the client named
\* that encoding and did not forbid the identity; gzip comes before deflate.  The
\* last weight of the identity counts.  A client that decodes the body as the header
\* says gets the JSON, when compress() fails, too, but for one case: what compresses
\* to more than the length of the body has no room in the buffer of compress(), and
\* is sent as it is left, under the name of an encoding.
EncodedAsAsked ==
  stage = "sent" =>
    /\ ForbiddenBy(given) => ~out.ok
    /\ out.ok /\ out.header = "none" => Range(given) \cap {"gzip", "deflate"} = {}
    /\ out.header # "none" => out.header \in Range(given) /\ out.ok
    /\ out.header = "deflate" => "gzip" \notin Range(given)
    /\ out.room => out.body = [none |-> "json", gzip |-> "gzip", deflate |-> "zlib"][out.header]
    /\ ~out.room => out.header # "none"
=============================================================================
