---------------------------- MODULE Contributions ----------------------------
(***************************************************************************)
(* Threads of the web application serving what members send: new reviews,  *)
(* helpful votes, reports, registrations, transitions of a review and the  *)
(* pages of the public list.  Each request is one transaction that first   *)
(* reads and then writes; nothing is locked, and unique constraints of the *)
(* tables refuse a second row at the time of the write.                    *)
(***************************************************************************)
EXTENDS RateLimiter, Sequences, FiniteSets, SequencesExt

CONSTANTS
  Scenarios,     \* what is stored and what is sent: [rows, requests, horizon]
  Slots,         \* the courses and terms a client may name
  Offered,       \* the ones that are stored
  Keys,          \* idempotency keys
  Empty,         \* the key of an empty Idempotency-Key header
  Addresses,     \* e-mail addresses
  PageSize,
  None

Statuses == {"draft", "submitted", "published", "hidden", "rejected", "withdrawn"}

\* A row of reviews: shown tells that it has a published revision.
Review ==
  [account : Accounts, slot : Offered, key : Keys \cup {None}, status : Statuses,
   shown : BOOLEAN, at : Nat]

\* What the endpoints take from a request.  A body is malformed if a rating in
\* it is no number, invalid if it breaks a rule of ReviewInput.
Sent ==
  [kind : {"create"}, account : Accounts, slot : Slots, key : Keys \cup {None},
   body : {"ok", "invalid", "malformed"}]
  \cup [kind : {"vote"}, account : Accounts, review : Nat, helpful : BOOLEAN]
  \cup [kind : {"report"}, account : Accounts, review : Nat, reasoned : BOOLEAN]
  \cup [kind : {"register"}, email : Addresses]
  \cup [kind : {"move"}, review : Nat, target : Statuses]
  \cup [kind : {"read"}]

SameSlot(row, request) == row.account = request.account /\ row.slot = request.slot

\* The unique constraints of reviews.
UniqueReviews(table) ==
  \A r, s \in DOMAIN table : r # s =>
    ~SameSlot(table[r], table[s]) /\ (table[r].key = table[s].key => table[r].key = None)

ASSUME ContributionsAssumption ==
  /\ None \notin Keys /\ None \notin Nat /\ PageSize \in Nat \ {0}
  /\ Empty \in Keys /\ Offered \subseteq Slots
  /\ Scenarios \subseteq [rows : Seq(Review), requests : Seq(Sent), horizon : Nat]
  /\ \A s \in Scenarios : UniqueReviews(s.rows)

VARIABLES
  scenario,      \* the scenario of the behaviour; the clock stops at its horizon
  pending,       \* the ones that have not arrived
  work,          \* what each thread is doing
  rows,          \* reviews, in the order of their insertion
  votes,         \* helpful_votes
  reports,       \* review_reports; the program closes none
  emails,        \* the addresses of accounts
  answers,       \* request -> [status, value]
  begun          \* history: request -> what was there when it arrived

tables == <<rows, votes, reports, emails>>
allVars == <<limiterVars, scenario, pending, work, tables, answers, begun>>

Idle == [request |-> 0, step |-> "idle", seen |-> None]

ContributionsInit ==
  /\ LimiterInit
  /\ scenario \in Scenarios
  /\ rows = scenario.rows
  /\ pending = DOMAIN scenario.requests
  /\ work = [t \in Threads |-> Idle]
  /\ votes = <<>> /\ reports = <<>> /\ emails = <<>>
  /\ answers = <<>> /\ begun = <<>>

requests == scenario.requests

Request(t) == requests[work[t].request]

At(t, kind, step) ==
  work[t].step = step /\ Request(t).kind = kind

\* f with a value for one more argument.
With(f, x, value) == [y \in DOMAIN f \cup {x} |-> IF y = x THEN value ELSE f[y]]

Answer(t, status, value) ==
  /\ answers' = With(answers, work[t].request, [status |-> status, value |-> value])
  /\ work' = [work EXCEPT ![t] = Idle]

Proceed(t, step, seen) ==
  /\ work' = [work EXCEPT ![t].step = step, ![t].seen = seen]
  /\ UNCHANGED answers

\* _statement: the reviews a reader may see.
Public(table) ==
  {r \in DOMAIN table : table[r].shown /\ table[r].status \in {"published", "submitted", "rejected"}}

FirstStep(request) == IF request.kind = "create" THEN "limit" ELSE "read"

Arrive(t) ==
  /\ work[t] = Idle
  /\ \E i \in pending :
       /\ pending' = pending \ {i}
       /\ work' = [work EXCEPT ![t] =
            [request |-> i, step |-> FirstStep(requests[i]),
             seen |-> IF requests[i].kind = "read"
                      THEN [items |-> <<>>, cursor |-> None, steady |-> Public(rows)] ELSE None]]
       /\ begun' = With(begun, i, [rows |-> Len(rows), votes |-> Len(votes), emails |-> Len(emails),
                                   reports |-> Len(reports), answers |-> DOMAIN answers])
       /\ IF requests[i].kind = "create" THEN ReadClock(t) ELSE UNCHANGED limiterVars
  /\ UNCHANGED <<scenario, tables, answers>>

\* ----------------------------------------------------------------- create

\* The limiter comes before the body is read; int() raises for a malformed one.
\* Only a key that is not empty is looked for.
Limit(t) ==
  /\ At(t, "create", "limit")
  /\ Consume(t, Request(t).account)
  /\ IF ~Allowed(buckets[Request(t).account], stamps[t]) THEN Answer(t, "rate_limited", None)
     ELSE IF Request(t).body = "malformed" THEN Answer(t, "internal_error", None)
     ELSE IF Request(t).body = "invalid" THEN Answer(t, "invalid", None)
     ELSE Proceed(t, IF Request(t).key \in {None, Empty} THEN "policy" ELSE "key", None)
  /\ UNCHANGED <<scenario, pending, tables, begun>>

\* A plausible bug: keys are left to the unique constraint.
CheckKeySkipped(t) ==
  /\ At(t, "create", "key")
  /\ Proceed(t, "policy", None)
  /\ UNCHANGED <<limiterVars, scenario, pending, tables, begun>>

\* A repeated request gets the review its key belongs to.
CheckKey(t) ==
  /\ At(t, "create", "key")
  /\ LET owners == {r \in DOMAIN rows : rows[r].key = Request(t).key}
     IN  IF owners = {} THEN Proceed(t, "policy", None)
         ELSE \E r \in owners :
                IF rows[r].account # Request(t).account THEN Answer(t, "conflict", None)
                ELSE Answer(t, "created", r)
  /\ UNCHANGED <<limiterVars, scenario, pending, tables, begun>>

\* A plausible bug: a withdrawn review may be replaced as well.
CheckPolicyLoose(t) ==
  /\ At(t, "create", "policy")
  /\ LET others == {r \in DOMAIN rows : SameSlot(rows[r], Request(t))}
     IN  IF \E r \in others : rows[r].status \notin {"rejected", "withdrawn"}
         THEN Answer(t, "conflict", None)
         ELSE Proceed(t, "insert", {rows[r].status : r \in others})
  /\ UNCHANGED <<limiterVars, scenario, pending, tables, begun>>

\* assert_review_contribution_allowed: a rejected review may be replaced.
CheckPolicy(t) ==
  /\ At(t, "create", "policy")
  /\ LET others == {r \in DOMAIN rows : SameSlot(rows[r], Request(t))}
     IN  IF \E r \in others : rows[r].status # "rejected" THEN Answer(t, "conflict", None)
         ELSE Proceed(t, "insert", {rows[r].status : r \in others})
  /\ UNCHANGED <<limiterVars, scenario, pending, tables, begun>>

NewReview(request) ==
  [account |-> request.account, slot |-> request.slot, key |-> request.key,
   status |-> "draft", shown |-> FALSE, at |-> clock]

\* A plausible bug: a table without its unique constraints.
InsertUnchecked(t) ==
  /\ At(t, "create", "insert")
  /\ rows' = Append(rows, NewReview(Request(t)))
  /\ Answer(t, "created", Len(rows) + 1)
  /\ UNCHANGED <<limiterVars, scenario, pending, votes, reports, emails, begun>>

\* The flush and the commit; a violated constraint is an internal error, be it
\* a unique one or a foreign key of the course or the term.
Insert(t) ==
  /\ At(t, "create", "insert")
  /\ IF \/ Request(t).slot \notin Offered
        \/ \E r \in DOMAIN rows :
             SameSlot(rows[r], Request(t)) \/ (rows[r].key # None /\ rows[r].key = Request(t).key)
     THEN Answer(t, "internal_error", work[t].seen) /\ UNCHANGED rows
     ELSE /\ rows' = Append(rows, NewReview(Request(t)))
          /\ Answer(t, "created", Len(rows) + 1)
  /\ UNCHANGED <<limiterVars, scenario, pending, votes, reports, emails, begun>>

\* -------------------------------------------------------- votes and reports

\* The vote of the account, if there is one, and its value.
VoteRead(t) ==
  /\ At(t, "vote", "read")
  /\ LET mine == {v \in DOMAIN votes : /\ votes[v].account = Request(t).account
                                       /\ votes[v].review = Request(t).review}
     IN  IF Request(t).review \notin DOMAIN rows THEN Answer(t, "not_found", None)
         ELSE IF rows[Request(t).review].account = Request(t).account
         THEN Answer(t, "conflict", None)
         ELSE Proceed(t, "write", [v \in mine |-> votes[v].helpful])
  /\ UNCHANGED <<limiterVars, scenario, pending, tables, begun>>

NewVote(request) ==
  [account |-> request.account, review |-> request.review, helpful |-> request.helpful]

\* A plausible bug: a vote that exists stays as it is.
VoteWriteOnce(t) ==
  /\ At(t, "vote", "write")
  /\ LET mine == DOMAIN work[t].seen
     IN  IF mine # {} THEN Answer(t, "ok", None) /\ UNCHANGED votes
         ELSE votes' = Append(votes, NewVote(Request(t))) /\ Answer(t, "ok", None)
  /\ UNCHANGED <<limiterVars, scenario, pending, rows, reports, emails, begun>>

\* An update is only sent when the value differs from the one that was read.
VoteWrite(t) ==
  /\ At(t, "vote", "write")
  /\ LET mine == DOMAIN work[t].seen
         raced == \E v \in DOMAIN votes : /\ votes[v].account = Request(t).account
                                          /\ votes[v].review = Request(t).review
     IN  IF mine = {} /\ raced THEN Answer(t, "internal_error", None) /\ UNCHANGED votes
         ELSE /\ votes' = IF mine = {} THEN Append(votes, NewVote(Request(t)))
                          ELSE [v \in DOMAIN votes |->
                                  IF v \in mine /\ work[t].seen[v] # Request(t).helpful
                                  THEN NewVote(Request(t)) ELSE votes[v]]
              /\ Answer(t, "ok", None)
  /\ UNCHANGED <<limiterVars, scenario, pending, rows, reports, emails, begun>>

\* A plausible bug: every report is stored.
ReportReadNothing(t) ==
  /\ At(t, "report", "read")
  /\ Proceed(t, "write", None)
  /\ UNCHANGED <<limiterVars, scenario, pending, tables, begun>>

\* An open report of the same account is returned instead of a new one.
ReportRead(t) ==
  /\ At(t, "report", "read")
  /\ LET mine == {p \in DOMAIN reports : /\ reports[p].account = Request(t).account
                                         /\ reports[p].review = Request(t).review}
     IN  IF Request(t).review \notin DOMAIN rows THEN Answer(t, "not_found", None)
         ELSE IF ~Request(t).reasoned THEN Answer(t, "conflict", None)
         ELSE IF mine # {} THEN \E p \in mine : Answer(t, "created", p)
         ELSE Proceed(t, "write", None)
  /\ UNCHANGED <<limiterVars, scenario, pending, tables, begun>>

\* No constraint keeps reports apart.
ReportWrite(t) ==
  /\ At(t, "report", "write")
  /\ reports' = Append(reports, [account |-> Request(t).account, review |-> Request(t).review,
                                 request |-> work[t].request])
  /\ Answer(t, "created", Len(reports) + 1)
  /\ UNCHANGED <<limiterVars, scenario, pending, rows, votes, emails, begun>>

\* ------------------------------------------------- accounts and transitions

\* register_account looks for the address, hashes the password and inserts.
RegisterRead(t) ==
  /\ At(t, "register", "read")
  /\ IF \E n \in DOMAIN emails : emails[n] = Request(t).email THEN Answer(t, "conflict", None)
     ELSE Proceed(t, "write", None)
  /\ UNCHANGED <<limiterVars, scenario, pending, tables, begun>>

RegisterWrite(t) ==
  /\ At(t, "register", "write")
  /\ IF \E n \in DOMAIN emails : emails[n] = Request(t).email
     THEN Answer(t, "internal_error", None) /\ UNCHANGED emails
     ELSE emails' = Append(emails, Request(t).email) /\ Answer(t, "created", Len(emails) + 1)
  /\ UNCHANGED <<limiterVars, scenario, pending, rows, votes, reports, begun>>

\* TRANSITIONS
Transitions(status) ==
  CASE status = "draft"     -> {"submitted", "withdrawn"}
    [] status = "submitted" -> {"draft", "published", "rejected", "withdrawn"}
    [] status = "published" -> {"hidden", "withdrawn", "submitted"}
    [] status = "hidden"    -> {"published", "withdrawn"}
    [] status = "rejected"  -> {"draft", "submitted", "withdrawn"}
    [] OTHER                -> {}

\* A transition, as one step: its own races are the subject of Reviews.  What
\* readers can rely on shrinks to what stays public.
Move(t) ==
  /\ At(t, "move", "read")
  /\ LET r == Request(t).review
         target == Request(t).target
         moved == [rows EXCEPT ![r].status = target, ![r].shown = @ \/ target = "published"]
     IN  IF target \notin Transitions(rows[r].status)
         THEN Answer(t, "conflict", None) /\ UNCHANGED rows
         ELSE /\ rows' = moved
              /\ answers' = With(answers, work[t].request, [status |-> "ok", value |-> None])
              /\ work' = [u \in Threads |->
                   IF u = t THEN Idle
                   ELSE IF work[u] # Idle /\ Request(u).kind = "read"
                   THEN [work[u] EXCEPT !.seen.steady = @ \cap Public(moved)]
                   ELSE work[u]]
  /\ UNCHANGED <<limiterVars, scenario, pending, votes, reports, emails, begun>>

\* ------------------------------------------------------------------ reading

\* ORDER BY created_at DESC, id DESC: r stands before s.
Newer(r, s) == rows[r].at > rows[s].at \/ (rows[r].at = rows[s].at /\ r > s)

\* A plausible bug: reviews of the cursor's moment are taken for read.
PastByTime(r, cursor) == cursor # None => rows[cursor].at > rows[r].at

\* The WHERE of a cursor.
Past(r, cursor) == cursor # None => Newer(cursor, r)

\* LIMIT: the first of the reviews left, in that order; there is one such page.
Pages(left) ==
  {page \in [1..Lesser(PageSize, Cardinality(left)) -> left] :
     /\ \A k, l \in DOMAIN page : k < l => Newer(page[k], page[l])
     /\ \A k \in DOMAIN page, r \in left : r \in Range(page) \/ Newer(page[k], r)}

\* review_page: one page and whether there is another.
ReadPage(t) ==
  /\ At(t, "read", "read")
  /\ LET seen == work[t].seen
         left == {r \in Public(rows) : Past(r, seen.cursor)}
     IN  \E page \in Pages(left) :
           LET read == [seen EXCEPT !.items = @ \o page]
           IN  IF Cardinality(left) > PageSize
               THEN Proceed(t, "read", [read EXCEPT !.cursor = page[PageSize]])
               ELSE Answer(t, "ok", read)
  /\ UNCHANGED <<limiterVars, scenario, pending, tables, begun>>

\* moderation_queue: the submitted reviews, each joined with its reports.
ModerationQueue ==
  [r \in {s \in DOMAIN rows : rows[s].status = "submitted"} |->
     Cardinality({p \in DOMAIN reports : reports[p].review = r})]

TimePasses ==
  /\ clock < scenario.horizon /\ Tick
  /\ UNCHANGED <<scenario, pending, work, tables, answers, begun>>

ContributionsNext ==
  \/ TimePasses
  \/ \E t \in Threads :
       \/ Arrive(t) \/ Limit(t) \/ CheckKey(t) \/ CheckPolicy(t) \/ Insert(t)
       \/ VoteRead(t) \/ VoteWrite(t) \/ ReportRead(t) \/ ReportWrite(t)
       \/ RegisterRead(t) \/ RegisterWrite(t) \/ Move(t) \/ ReadPage(t)

ContributionsSpec == ContributionsInit /\ [][ContributionsNext]_allVars

\* ------------------------------------------------------------ properties

\* The requests that were answered before the i-th one arrived.
Earlier(i) == begun[i].answers

\* What the i-th request stored or found: two requests are answered with the
\* same review exactly if one repeats the other, by its account and its key;
\* also when both were on their way at once, where only the table keeps apart
\* what the checks before it have let through.
Created(i) == requests[i].kind = "create" /\ answers[i].status = "created"
SameReviewForSameKey ==
  \A i, j \in DOMAIN answers : i # j /\ Created(i) /\ Created(j) =>
    (answers[i].value = answers[j].value
       <=> /\ requests[i].key # None /\ requests[i].key = requests[j].key
           /\ requests[i].account = requests[j].account)

\* reviews/service.py: a client that sends a request again with its key gets
\* the review of the first answer, unless the limiter stops it or the body is
\* no longer a valid one; also when the review was moved on, or another term is
\* named, in between.  An empty key is none.
RetryGetsSameReview ==
  \A i, j \in DOMAIN answers :
    /\ requests[i].kind = "create" /\ requests[j].kind = "create" /\ i \in Earlier(j)
    /\ requests[i].key \notin {None, Empty} /\ requests[i].key = requests[j].key
    /\ requests[i].account = requests[j].account /\ answers[i].status = "created"
    /\ requests[j].body = "ok"
    => answers[j].status = "rate_limited" \/ answers[j] = answers[i]

\* A member sees an internal error only if a request that was served at the
\* same time got in first, for a new review in the place of a rejected one,
\* which the policy allows and the table refuses, or for what the endpoint does
\* not check at all: a malformed rating, an unknown course or term, and an
\* empty key, which is not looked for but stored under the unique constraint.
ErrorsExplained ==
  \A i \in DOMAIN answers : answers[i].status = "internal_error" =>
    CASE requests[i].kind = "create" ->
           \/ requests[i].body = "malformed" \/ requests[i].slot \notin Offered
           \/ requests[i].key = Empty /\ \E r \in DOMAIN rows : rows[r].key = Empty
           \/ answers[i].value = {"rejected"}
           \/ \E r \in (begun[i].rows + 1)..Len(rows) :
                SameSlot(rows[r], requests[i]) \/ rows[r].key = requests[i].key
      [] requests[i].kind = "vote" ->
           \E v \in (begun[i].votes + 1)..Len(votes) :
             votes[v].account = requests[i].account /\ votes[v].review = requests[i].review
      [] requests[i].kind = "register" ->
           \E n \in (begun[i].emails + 1)..Len(emails) : emails[n] = requests[i].email

\* The stored vote of an account on a review is one that no later vote of the
\* account followed: of votes that overlap any may win, stale as the copies are
\* that they update, but none that was answered before the last one came in.
Voted(i) == i \in DOMAIN answers /\ requests[i].kind = "vote" /\ answers[i].status = "ok"
SameVote(i, j) ==
  requests[i].account = requests[j].account /\ requests[i].review = requests[j].review
Latest(i) == Voted(i) /\ \A j \in DOMAIN answers : Voted(j) /\ SameVote(i, j) => i \notin Earlier(j)
VoteOfRecord ==
  \A i \in DOMAIN answers : Voted(i) =>
    \E j \in DOMAIN answers :
      /\ Latest(j) /\ SameVote(i, j)
      /\ \E v \in DOMAIN votes : votes[v] = NewVote(requests[j])

\* docs/api.md: a report is idempotent; the queue counts an account once, but
\* for reports that were all on their way when the first of them was stored.
QueueCountsReporters ==
  \A r \in DOMAIN ModerationQueue :
    LET of == {p \in DOMAIN reports : reports[p].review = r}
        twice == {pq \in of \X of : pq[1] < pq[2] /\ reports[pq[1]].account = reports[pq[2]].account}
    IN  /\ twice = {} => ModerationQueue[r] = Cardinality({reports[p].account : p \in of})
        /\ \A pq \in twice : begun[reports[pq[2]].request].reports < pq[1]

\* reviews/query.py: who reads all pages gets no review twice, and every review
\* that was public all the time, whatever is published or hidden meanwhile.
PagingComplete ==
  \A i \in DOMAIN answers : requests[i].kind = "read" =>
    LET read == answers[i].value
    IN  /\ IsInjective(read.items)
        /\ read.steady \subseteq Range(read.items)
=============================================================================
