-------------------------- MODULE MCCatalogCompile --------------------------
(* Small documents: all texts of a few tokens, all graphs of three courses. *)
EXTENDS CatalogGrammar, FiniteSetsExt

T(kind) == Token(kind, Absent)
C(code) == Token("COURSE", code)
Coreq(codes) == <<T("COREQ"), T("LPAREN")>> \o codes \o <<T("RPAREN")>>

MCTokens == {C(1), T("AND"), T("OR"), T("LPAREN"), T("RPAREN"), T("COMMA")}
MCAtoms == {C(2), T("COREQ"), Token("CREDITS", 3), Token("GRADE", "B"),
            Token("PERMISSION", "x"), Token("PLACEMENT", "y")}

\* All short texts of one course, and all of four tokens after COREQ and a
\* parenthesis.
ShortTexts ==
  UNION {[1..n -> MCTokens \cup MCAtoms] : n \in 1..3}
    \cup [1..5 -> MCTokens]
    \cup {<<T("COREQ"), T("LPAREN")>> \o t : t \in [1..4 -> MCTokens]}
    \cup {<<a, x, b, y, c>> : a, b, c \in {C(1), Token("CREDITS", 3), Token("PERMISSION", "x"),
                                           Token("PLACEMENT", "y")},
                              x, y \in {T("AND"), T("OR")}}

GraphTexts ==
  {<<>>, <<C(1)>>, <<C(2)>>, <<C(3)>>, Coreq(<<C(1)>>), Coreq(<<C(2)>>), Coreq(<<C(3)>>),
   <<C(1), T("AND")>> \o Coreq(<<C(2)>>), <<C(2), T("OR"), C(3)>>,
   Coreq(<<C(1), T("COMMA"), C(2)>>), <<C(3), Token("GRADE", "B"), T("OR"), C(1)>>,
   <<C(4), T("AND"), C(3)>>, <<C(1), C(2)>>}

MCDocuments == [1..1 -> ShortTexts] \cup [1..3 -> GraphTexts]

RECURSIVE Closure(_), Height(_)
Closure(e) == {e} \cup UNION {Closure(part) : part \in Parts(e)}
Height(e) == 1 + Max({0} \cup {Height(part) : part \in Parts(e)})

\* What the parser makes of all those texts.
ParsedTexts ==
  {e : e \in UNION {Closure(Parse(text).ast) :
           text \in {t \in ShortTexts \cup GraphTexts : Parse(t).status = "parsed"}}}

\* (TLC computes ParsedTexts once, and the value of a CONSTANT at each use.)
MCExpressions == ParsedTexts

MCStudents ==
  {[completed |-> done, in_term |-> {2}, earned |-> n, verified |-> v,
    grades |-> [c \in 1..4 |-> g]] :
     done \in {{}, {1}}, n \in {2, 3}, v \in {{}, {"x"}}, g \in {"C"}}
=============================================================================
