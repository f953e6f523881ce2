--------------------------- MODULE Prerequisites ---------------------------
(***************************************************************************)
(* The prerequisite texts of a catalog: the parser of catalog/parser.py,   *)
(* as the recursive descent it is.  A text is the sequence of its tokens.  *)
(***************************************************************************)
EXTENDS PrerequisiteAst

CONSTANT Absent      \* no value of a token, no expression

Token(kind, value) == [kind |-> kind, value |-> value]

KindAt(tokens, i) == IF i <= Len(tokens) THEN tokens[i].kind ELSE "END"

Failed == [ok |-> FALSE, expr |-> Absent, index |-> 0]
Parsed(e, i) == [ok |-> TRUE, expr |-> e, index |-> i]

\* A plausible bug: OR rewritten as a conjunction.
JoinedAll(op, list) ==
  IF ~list.ok THEN Failed
  ELSE Parsed(IF Len(list.expr) = 1 THEN list.expr[1] ELSE AllOf(list.expr), list.index)

\* One item, or a node over several.
Joined(op, list) ==
  IF ~list.ok THEN Failed
  ELSE Parsed(IF Len(list.expr) = 1 THEN list.expr[1]
              ELSE [op |-> op, items |-> list.expr], list.index)

\* The grade of GRADE>=g is the first letter from A to F in the whole text of
\* the token.
ReadGrade(written) ==
  LET text == <<"G", "R", "A", "D", "E", ">", "=", written>>
      isGrade(i) == text[i] \in {"A", "B", "C", "D", "E", "F"}
  IN  text[CHOOSE i \in DOMAIN text : isGrade(i) /\ \A j \in 1..(i - 1) : ~isGrade(j)]

\* A call of the parser: the list of a disjunction, of a conjunction or of a
\* COREQ, or one item of a conjunction; and the token it begins at.
Lists == {"OR", "AND", "COMMA"}
Calls(tokens) == (Lists \cup {"primary"}) \X (1..(Len(tokens) + 1))

\* The methods of _Parser, given what the calls they make return.
ParseOr(parse, i) == Joined("or", parse[<<"OR", i>>])

ParseAnd(parse, i) == Joined("and", parse[<<"AND", i>>])

ParseItem(parse, separator, i) ==
  CASE separator = "OR"  -> ParseAnd(parse, i)
    [] separator = "AND" -> parse[<<"primary", i>>]
    [] OTHER             -> ParseOr(parse, i)

\* items = [parse()]; while accept(separator): items.append(parse())
ParseItems(parse, tokens, separator, i) ==
  LET first == ParseItem(parse, separator, i)
      rest == parse[<<separator, first.index + 1>>]
  IN  IF ~first.ok THEN Failed
      ELSE IF KindAt(tokens, first.index) # separator
      THEN Parsed(<<first.expr>>, first.index)
      ELSE IF rest.ok THEN Parsed(<<first.expr>> \o rest.expr, rest.index) ELSE Failed

\* require("RPAREN")
Closed(tokens, result) ==
  IF result.ok /\ KindAt(tokens, result.index) = "RPAREN"
  THEN Parsed(result.expr, result.index + 1) ELSE Failed

ParsePrimary(parse, tokens, i) ==
  LET kind == KindAt(tokens, i)
      items == Closed(tokens, parse[<<"COMMA", i + 2>>])
  IN  CASE kind = "LPAREN" -> Closed(tokens, ParseOr(parse, i + 1))
        [] kind = "COREQ" ->
             IF KindAt(tokens, i + 1) = "LPAREN" /\ items.ok
             THEN Parsed(CoRequisite(items.expr), items.index) ELSE Failed
        [] kind = "CREDITS" -> Parsed(Credits(tokens[i].value), i + 1)
        [] kind \in Predicates -> Parsed(Predicate(kind, tokens[i].value), i + 1)
        [] kind = "COURSE" ->
             IF KindAt(tokens, i + 1) = "GRADE"
             THEN Parsed(Grade(tokens[i].value, ReadGrade(tokens[i + 1].value)), i + 2)
             ELSE Parsed(Ref(tokens[i].value), i + 1)
        [] OTHER -> Failed

ParseCall(parse, tokens, call) ==
  IF call[1] = "primary" THEN ParsePrimary(parse, tokens, call[2])
  ELSE ParseItems(parse, tokens, call[1], call[2])

\* What each call returns.
Parser(tokens) ==
  LET parse[call \in Calls(tokens)] == ParseCall(parse, tokens, call) IN parse

\* parse_prerequisites: no text reads as a conjunction of nothing; a token
\* that is left over, or a text no token matches, makes the text unsupported.
Parse(tokens) ==
  LET result == ParseOr(Parser(tokens), 1)
  IN  IF tokens = <<>> THEN [status |-> "parsed", ast |-> AllOf(<<>>)]
      ELSE IF result.ok /\ result.index = Len(tokens) + 1
      THEN [status |-> "parsed", ast |-> result.expr]
      ELSE [status |-> "unsupported", ast |-> Absent]
=============================================================================
