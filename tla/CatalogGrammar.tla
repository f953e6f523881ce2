--------------------------- MODULE CatalogGrammar ---------------------------
(***************************************************************************)
(* The grammar of prerequisite texts the documents describe, for the       *)
(* compilation to be compared with.                                        *)
(***************************************************************************)
EXTENDS CatalogCompile

ASSUME TextsAssumption ==
  \A d \in Documents : \A c \in DOMAIN d :
    Len(d[c]) \in Nat /\ DOMAIN d[c] = 1..Len(d[c])

\* The grammar of docs/catalog-schema.md, declaratively: what the tokens from i
\* up to j can be read as.  A list may be cut at any of its separators.
Spans(t) ==
  {x \in (Lists \cup {"primary"}) \X (1..(Len(t) + 1)) \X (1..(Len(t) + 1)) : x[2] <= x[3]}

Flat(op, list) == IF Len(list) = 1 THEN list[1] ELSE [op |-> op, items |-> list]

Ahead(item, list) == <<item>> \o list

ItemReadings(read, separator, i, j) ==
  CASE separator = "OR"  -> {Flat("and", l) : l \in read[<<"AND", i, j>>]}
    [] separator = "AND" -> read[<<"primary", i, j>>]
    [] OTHER             -> {Flat("or", l) : l \in read[<<"OR", i, j>>]}

ListReadings(read, t, separator, i, j) ==
  {<<e>> : e \in ItemReadings(read, separator, i, j)} \cup
  UNION {{Ahead(e, rest) : e \in ItemReadings(read, separator, i, k),
                           rest \in read[<<separator, k + 1, j>>]} :
           k \in {m \in i..(j - 1) : t[m].kind = separator}}

PrimaryReadings(read, t, i, j) ==
  LET kind(m) == KindAt(t, m)
  IN  CASE j = i + 1 /\ kind(i) = "COURSE"  -> {Ref(t[i].value)}
        [] j = i + 1 /\ kind(i) = "CREDITS" -> {Credits(t[i].value)}
        [] j = i + 1 /\ kind(i) \in Predicates -> {Predicate(kind(i), t[i].value)}
        [] j = i + 2 /\ kind(i) = "COURSE" /\ kind(i + 1) = "GRADE" ->
             {Grade(t[i].value, t[i + 1].value)}
        [] j > i + 2 /\ kind(i) = "LPAREN" /\ kind(j - 1) = "RPAREN" ->
             {Flat("or", l) : l \in read[<<"OR", i + 1, j - 1>>]}
        [] j > i + 3 /\ kind(i) = "COREQ" /\ kind(i + 1) = "LPAREN" /\ kind(j - 1) = "RPAREN" ->
             {CoRequisite(l) : l \in read[<<"COMMA", i + 2, j - 1>>]}
        [] OTHER -> {}

SpanReadings(read, t, x) ==
  IF x[1] = "primary" THEN PrimaryReadings(read, t, x[2], x[3])
  ELSE ListReadings(read, t, x[1], x[2], x[3])

Grammar(t) == LET read[x \in Spans(t)] == SpanReadings(read, t, x) IN read

Readings(t) == {Flat("or", l) : l \in Grammar(t)[<<"OR", 1, Len(t) + 1>>]}

\* The tokens with the grades the parser finds in them.
AsRead(t) ==
  [i \in DOMAIN t |->
     IF t[i].kind = "GRADE" THEN Token("GRADE", ReadGrade(t[i].value)) ELSE t[i]]

\* catalog/parser.py reads exactly the texts of the documented grammar, and
\* reads each as the one expression the grammar gives it: OR binds weaker than
\* AND, lists stay flat, nothing that was read is lost and what is left over
\* makes the text unsupported.  (The value of a grade is GradeAsWritten.)
ParsedAsGrammar ==
  phase = "cycles" => \A c \in DOMAIN document : document[c] # <<>> =>
    Readings(AsRead(document[c])) =
      IF c \in DOMAIN expressions THEN {expressions[c]} ELSE {}

\* docs/catalog-schema.md: GRADE>=B after a course asks for a B.
GradeAsWritten ==
  phase = "cycles" => \A c \in DOMAIN expressions : document[c] # <<>> =>
    expressions[c] \in Readings(document[c])
=============================================================================
