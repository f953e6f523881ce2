--------------------------- MODULE MCContributions ---------------------------
(* Two threads and up to four requests at a time.                            *)
EXTENDS Contributions, TLC

Row(account, slot, key, status, at) ==
  [account |-> account, slot |-> slot, key |-> key, status |-> status,
   shown |-> status \in {"published", "hidden"}, at |-> at]

Create(account, slot, key) ==
  [kind |-> "create", account |-> account, slot |-> slot, key |-> key, body |-> "ok"]
Vote(account, review, helpful) ==
  [kind |-> "vote", account |-> account, review |-> review, helpful |-> helpful]
Report(account, review) ==
  [kind |-> "report", account |-> account, review |-> review, reasoned |-> TRUE]
Register(email) == [kind |-> "register", email |-> email]
MoveTo(review, target) == [kind |-> "move", review |-> review, target |-> target]
ReadAll == [kind |-> "read"]

Case(table, sent) == [rows |-> table, requests |-> sent, horizon |-> 0]

Twins == Permutations(Threads)

\* Creations that share a place, a key or both, beside a review in some state.
CreateCases ==
  {Case(IF s = "none" THEN <<>> ELSE <<Row("a", 1, "k", s, 0)>>,
        <<Create("a", 1, k), Create(x, y, "k"), MoveTo(1, m)>>) :
     s \in {"draft", "submitted", "rejected", "withdrawn"}, k \in {None, "k", "j"},
     x \in {"a", "b"}, y \in {1, 2}, m \in {"rejected", "withdrawn"}}
  \cup
  {Case(<<>>, <<Create("a", 1, k), Create(x, y, "k"), Create("a", 1, j)>>) :
     k, j \in {None, "k"}, x \in {"a", "b"}, y \in {1, 2}}
  \cup
  {Case(<<>>, <<Create("a", 1, k), [Create(x, 2, k) EXCEPT !.body = b], Create("a", y, k)>>) :
     k \in {"k", ""}, x \in {"a", "b"}, y \in {1, 3}, b \in {"ok", "malformed"}}

\* More writes than the bucket holds; the limiter counts invalid ones, too.
LimitCases ==
  {[Case(<<>>, [n \in 1..m |-> [Create("a", 1, "k") EXCEPT !.body = IF n = m THEN "ok" ELSE "invalid"]])
      EXCEPT !.horizon = 8 - m] : m \in {4, 5}}

VoteCases ==
  {Case(<<Row("b", 1, None, "published", 0)>>,
        <<Vote("a", 1, TRUE), Vote("a", 1, h), Vote("a", 1, FALSE), Vote(x, r, TRUE)>>) :
     h \in BOOLEAN, x \in {"a", "b"}, r \in {1, 2}}

ReportCases ==
  {Case(<<Row("b", 1, None, "submitted", 0)>>,
        <<Report("a", 1), Report("a", 1), Report("b", 1), [Report("a", r) EXCEPT !.reasoned = b]>>) :
     r \in {1, 2}, b \in BOOLEAN}

RegisterCases == {Case(<<>>, <<Register("x"), Register("x"), Register(e)>>) : e \in {"x", "y"}}

\* Readers of five reviews, two of them of the same moment.
ReadCases ==
  {Case(<<Row("a", 1, None, "published", 0), Row("b", 1, None, "published", 1),
          Row("a", 2, None, "published", 1), Row("b", 2, None, "hidden", 1),
          Row("c", 1, None, "submitted", 2)>>,
        <<ReadAll, MoveTo(r, m), MoveTo(s, n)>>) :
     r \in {2, 3, 4}, s \in {1, 5}, m \in {"hidden", "published", "withdrawn"},
     n \in {"published", "submitted", "withdrawn"}}

MCScenarios == CreateCases \cup LimitCases \cup VoteCases \cup ReportCases \cup RegisterCases \cup ReadCases
=============================================================================
