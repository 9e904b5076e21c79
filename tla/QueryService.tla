----------------------------- MODULE QueryService -----------------------------
(***************************************************************************)
(* POST /api/query and the GET endpoints that read the tables.  Handlers   *)
(* are coroutines but what they call is not: from the first line after the *)
(* await of the body to the reply a request has the event loop to itself.  *)
(* Its SQL statements autocommit one by one while the ingestion thread     *)
(* adds and replaces rows, and rebuilds the full-text index, through a     *)
(* connection of its own.                                                  *)
(***************************************************************************)
EXTENDS EmailSearch, Presentation

CONSTANTS
    Requests,    \* the requests that may be sent
    Asks,        \* what a request may ask
    IntentsOf,   \* [queries -> SUBSET intents], what the LLM may answer
    Llm,         \* is_llm_available
    Fts,         \* whether DuckDB can install its fts extension
    Loaded,      \* rows in the table, and in its index, at the start
    None,        \* stands for no request
    MaxFaults    \* bound on statements that raise and servers that die

ASSUME ServiceAssumption ==
    /\ None \notin Requests
    /\ Loaded \subseteq Mail
    /\ \A m, n \in Loaded : IdOf[m] = IdOf[n] => m = n
    /\ Llm \in BOOLEAN /\ Fts \in BOOLEAN
    /\ MaxFaults \in Nat

\* A table is finite, the page asks for pages from 1 on, and the model of an intent
\* has all its fields, whose days are days.
ASSUME AskAssumption ==
    /\ IsFiniteSet(Mail)
    /\ \A ask \in Asks :
          /\ ask.page \in Nat \ {0} /\ ask.size \in Nat
          /\ \A intent \in IntentsOf[ask.query] :
                /\ DOMAIN intent = DOMAIN BlankIntent
                /\ intent.sort \in SortOrders
                /\ intent.limit \in Int
                /\ intent.since \subseteq Nat /\ intent.until \subseteq Nat

VARIABLES
    emails,     \* rows of the table
    index,      \* {} or {the rows create_fts_index saw}
    loop,       \* the request that has the event loop
    req,        \* the locals of every request and, when it is over, its reply
    audit,      \* audit_log: the sequence of [request, count]
    faults

vars == <<emails, index, loop, req, audit, faults>>

\* "about" is the message_id or the thread of a dialog.
BlankAsk == [endpoint |-> "query", query |-> BlankQuery, page |-> 1, size |-> 1,
             about |-> 0]

Details == {"email", "thread", "stats", "senders", "timeline", "health"}

BlankRequest ==
    [pc       |-> "new",
     ask      |-> BlankAsk,
     sessions |-> <<>>,     \* the session's list, in an Orchestrator of its own
     intent   |-> BlankIntent,
     items    |-> <<>>,     \* search_result.emails, or the rows of the CSV
     anchor   |-> {},       \* {} or {the first row of a thread view's search}
     total    |-> 0,        \* total_count, or the rows of the aggregation
     text     |-> "",       \* the words of the reply, by their drift
     shown    |-> {},       \* {} or {its presentation}
     before   |-> {},       \* history variables: the table when the request
     at       |-> {},       \* began and when its rows were read, and the
     prior    |-> {}]       \* requests that were over when it began

Statements == {"fts", "count", "page", "thread", "aggregate", "stats", "audit",
               "export", "detail"}
Working == {"intent", "reply"} \cup Statements
Over == {"refused", "rejected", "clarified", "answered", "exported", "served",
         "failed", "lost"}
PCs == {"new", "body"} \cup Working \cup Over

Init ==
    /\ emails = Loaded
    /\ index \in {{}} \cup (IF Fts THEN {{Loaded}} ELSE {})
    /\ loop = None
    /\ req = [r \in Requests |-> BlankRequest]
    /\ audit = <<>>
    /\ faults = 0

\* The QueryPlan of a request.
Plan(r) == BuildQueryPlan(req[r].intent, req[r].ask.query)

Holds(r, pc) == loop = r /\ req[r].pc = pc

Become(r, next) == req' = [req EXCEPT ![r] = next]

\* The handler goes on to pc, or is over and gives the event loop back.
Proceed(r, next, pc) == Become(r, [next EXCEPT !.pc = pc]) /\ UNCHANGED loop
Conclude(r, next, pc) == Become(r, [next EXCEPT !.pc = pc]) /\ loop' = None

Fault == faults < MaxFaults /\ faults' = faults + 1

-----------------------------------------------------------------------------
\* get_orchestrator makes a new Orchestrator for the request, and the handler
\* awaits the body.
Receive(r) ==
    /\ req[r].pc = "new"
    /\ \E ask \in Asks : Become(r, [BlankRequest EXCEPT !.pc = "body", !.ask = ask])
    /\ UNCHANGED <<emails, index, loop, audit, faults>>

\* The body is here: the call begins.
Begin(r) ==
    /\ loop = None
    /\ req[r].pc = "body"
    /\ LET next == [req[r] EXCEPT
                      !.before = emails,
                      !.prior = {s \in Requests : req[s].pc \in Over}]
       IN IF req[r].ask.endpoint = "query" /\ req[r].ask.query.blank
          THEN Conclude(r, next, "refused")
          ELSE /\ Become(r, [next EXCEPT
                               !.pc = IF req[r].ask.endpoint \in Details
                                      THEN "detail" ELSE "intent"])
               /\ loop' = r
    /\ UNCHANGED <<emails, index, audit, faults>>

-----------------------------------------------------------------------------
\* analyze_intent: what the LLM answers, or the rules when there is no LLM,
\* when the call raises and when the answer is no intent.
Intents(query) ==
    {FallbackIntent(query)} \cup (IF Llm THEN IntentsOf[query] ELSE {})

\* The guard: a general question without keywords is turned away, unless the
\* query has a word of the archive and is taken for a search.
Guarded(intent, query) ==
    IF intent.type = "general_question" /\ intent.keywords = <<>> /\ query.archive
    THEN [intent EXCEPT !.type = "search_emails"]
    ELSE intent

Rejected(intent) == intent.type = "general_question" /\ intent.keywords = <<>>

\* _save_to_history keeps the last twenty entries.
Remember(list, role) ==
    LET longer == Append(list, role)
    IN SubSeq(longer, Max({1, Len(longer) - 19}), Len(longer))

FirstStatement(plan) ==
    CASE plan.type # "thread_view" /\ plan.aggregation # "none" -> "aggregate"
      [] (plan.type = "thread_view" \/ plan.aggregation = "none") /\ UsesFts(plan)
           -> "fts"
      [] OTHER -> "count"

\* generate_clarification: the questions of the LLM are taken as they are, and a list
\* of anything but strings is no FinalResponse.
Clarified == {"clarified"} \cup (IF Llm THEN {"failed"} ELSE {})

AnalyzeIntent(r) ==
    /\ Holds(r, "intent")
    /\ \E found \in Intents(req[r].ask.query) :
          LET query == req[r].ask.query
              export == req[r].ask.endpoint = "export"
              intent == IF export THEN found ELSE Guarded(found, query)
              next == [req[r] EXCEPT !.intent = intent]
          IN IF export THEN Proceed(r, next, "export")
             ELSE IF Rejected(intent)
             THEN Conclude(r, [next EXCEPT !.text = "rejection"], "rejected")
             ELSE IF intent.clarify
             THEN \E pc \in Clarified :
                     Conclude(r, [next EXCEPT !.sessions =
                                    Remember(@, "assistant_clarification")], pc)
             ELSE Proceed(r, next, FirstStatement(BuildQueryPlan(intent, query)))
    /\ UNCHANGED <<emails, index, audit, faults>>

-----------------------------------------------------------------------------
IsThreadView(r) == Plan(r).type = "thread_view"

\* effective_page_size; the anchor of a thread is the first row of one.
Size(r) == IF Plan(r).limit > 0 THEN Plan(r).limit ELSE req[r].ask.size
SearchPage(r) == IF IsThreadView(r) THEN 1 ELSE req[r].ask.page
SearchSize(r) == IF IsThreadView(r) THEN 1 ELSE Size(r)

\* After a search: a thread view takes the first row for its anchor, and loads the
\* thread of it when it has one.
Anchor(r, items) == IF IsThreadView(r) /\ items # <<>> THEN {Head(items)} ELSE {}

AfterSearch(r, items) ==
    IF \E a \in Anchor(r, items) : ThreadOf[a] # NoThread THEN "thread" ELSE "stats"

\* search_fts, which is never given a limit: its rows in the order of scores
\* nobody knows.
SearchFts(r) ==
    /\ Holds(r, "fts")
    /\ index # {}
    /\ \E items \in SetToSeqs(FtsMatches(emails, index, Plan(r).fts_query)) :
          Proceed(r, [req[r] EXCEPT !.items = items, !.anchor = Anchor(r, items),
                                    !.total = Len(items), !.at = emails],
                  AfterSearch(r, items))
    /\ UNCHANGED <<emails, index, audit, faults>>

\* The full-text statement raises without an index, or when it fails.
FtsRaises == IF index = {} THEN UNCHANGED faults ELSE Fault

\* Mutant of SearchLike: the exception is an empty list.
SearchNothing(r) ==
    /\ Holds(r, "fts")
    /\ FtsRaises
    /\ Proceed(r, [req[r] EXCEPT !.items = <<>>, !.total = 0, !.at = emails], "stats")
    /\ UNCHANGED <<emails, index, audit>>

\* search_fts falls back to ILIKE, by date.
SearchLike(r) ==
    /\ Holds(r, "fts")
    /\ FtsRaises
    /\ \E items \in Orders["date_desc"][LikeMatches(emails, Plan(r).fts_query)] :
          Proceed(r, [req[r] EXCEPT !.items = items, !.anchor = Anchor(r, items),
                                    !.total = Len(items), !.at = emails],
                  AfterSearch(r, items))
    /\ UNCHANGED <<emails, index, audit>>

\* Mutant of SearchCount: off by one.
SearchCountShort(r) ==
    /\ Holds(r, "count")
    /\ Proceed(r, [req[r] EXCEPT !.total = Cardinality(Selected(emails, Plan(r))) - 1],
               "page")
    /\ UNCHANGED <<emails, index, audit, faults>>

\* search_filtered: SELECT COUNT, then SELECT the page.
SearchCount(r) ==
    /\ Holds(r, "count")
    /\ Proceed(r, [req[r] EXCEPT !.total = Cardinality(Selected(emails, Plan(r)))],
               "page")
    /\ UNCHANGED <<emails, index, audit, faults>>

\* This statement has no column named score, and a page of size 0 divides by 0.
Unanswerable(r) == Plan(r).sort = "relevance" \/ SearchSize(r) = 0

SearchPageOf(r) ==
    /\ Holds(r, "page")
    /\ ~Unanswerable(r)
    /\ \E s \in Orders[Plan(r).sort][Selected(emails, Plan(r))] :
          LET items == PageOf(s, SearchPage(r), SearchSize(r))
          IN Proceed(r, [req[r] EXCEPT !.items = items, !.anchor = Anchor(r, items),
                                       !.at = emails],
                     AfterSearch(r, items))
    /\ UNCHANGED <<emails, index, audit, faults>>

\* Mutant of SearchRaises: the search is tried again.
SearchRetries(r) ==
    /\ Holds(r, "page")
    /\ Unanswerable(r)
    /\ Proceed(r, req[r], "count")
    /\ UNCHANGED <<emails, index, audit, faults>>

SearchRaises(r) ==
    /\ Holds(r, "page")
    /\ Unanswerable(r)
    /\ Conclude(r, req[r], "failed")
    /\ UNCHANGED <<emails, index, audit, faults>>

\* Mutant of LoadThread: a thread is cut off like a page.
LoadThreadPage(r) ==
    /\ Holds(r, "thread")
    /\ \E a \in req[r].anchor :
          \E items \in Orders["date_asc"][{m \in emails : ThreadOf[m] = ThreadOf[a]}] :
             Proceed(r, [req[r] EXCEPT !.items = PageOf(items, 1, Size(r)),
                                       !.total = Len(items), !.at = emails],
                     "stats")
    /\ UNCHANGED <<emails, index, audit, faults>>

\* get_thread: every row of the thread, none when they were replaced meanwhile.
LoadThread(r) ==
    /\ Holds(r, "thread")
    /\ \E a \in req[r].anchor :
          \E items \in Orders["date_asc"][{m \in emails : ThreadOf[m] = ThreadOf[a]}] :
             Proceed(r, [req[r] EXCEPT !.items = items,
                                       !.total = Len(items), !.at = emails],
                     "stats")
    /\ UNCHANGED <<emails, index, audit, faults>>

Aggregate(r) ==
    /\ Holds(r, "aggregate")
    /\ IF Unlabelled(emails, Plan(r))
       THEN Conclude(r, [req[r] EXCEPT !.at = emails], "failed")
       ELSE Proceed(r, [req[r] EXCEPT !.total = Groups(emails, Plan(r)), !.at = emails],
                    "stats")
    /\ UNCHANGED <<emails, index, audit, faults>>

\* search_result and aggregation: a request has one of them.
Aggregates(r) == Plan(r).aggregation # "none"
SearchResult(r) ==
    IF Aggregates(r) THEN {}
    ELSE {[emails |-> Len(req[r].items), total_count |-> req[r].total]}
Aggregation(r) ==
    IF Aggregates(r) THEN {AggregationResult(Plan(r), req[r].total)} ELSE {}

\* total_pages, which build_presentation is given.
Pages(r) == IF Aggregates(r) THEN 1 ELSE TotalPages(req[r].total, Size(r))

\* The presentation, get_archive_stats and compose_response: the words of the
\* LLM, or the template when it is not there or its call raises.
Present(r) ==
    /\ Holds(r, "stats")
    /\ IF ~Aggregates(r) /\ Size(r) = 0
       THEN Conclude(r, req[r], "failed")
       ELSE \E text \in {FallbackResponse(SearchResult(r), Aggregation(r))}
                        \cup (IF Llm THEN {"llm"} ELSE {}) :
              Proceed(r, [req[r] EXCEPT
                            !.text = text,
                            !.shown = {BuildPresentation(SearchResult(r), Aggregation(r),
                                                         req[r].ask.page, Pages(r))}],
                      "audit")
    /\ UNCHANGED <<emails, index, audit, faults>>

\* Mutant of LogAudit: the rows of the page are counted.
LogAuditPage(r) ==
    /\ Holds(r, "audit")
    /\ audit' = Append(audit, [request |-> r, count |-> Len(req[r].items)])
    /\ Proceed(r, [req[r] EXCEPT !.sessions = Remember(@, "user")], "reply")
    /\ UNCHANGED <<emails, index, faults>>

LogAudit(r) ==
    /\ Holds(r, "audit")
    /\ audit' = Append(audit, [request |-> r, count |-> req[r].total])
    /\ Proceed(r, [req[r] EXCEPT !.sessions = Remember(@, "user")], "reply")
    /\ UNCHANGED <<emails, index, faults>>

Respond(r) ==
    /\ Holds(r, "reply")
    /\ Conclude(r, req[r], "answered")
    /\ UNCHANGED <<emails, index, audit, faults>>

\* Mutant of ExportCsv: one page is exported.
ExportPage(r) ==
    /\ Holds(r, "export")
    /\ \E s \in Orders["date_desc"][Selected(emails, Plan(r))] :
          Conclude(r, [req[r] EXCEPT !.items = PageOf(s, 1, Size(r)),
                                     !.total = Len(s), !.at = emails],
                   "exported")
    /\ UNCHANGED <<emails, index, audit, faults>>

\* export_filtered_csv: the clauses only, one statement.
ExportCsv(r) ==
    /\ Holds(r, "export")
    /\ \E s \in Orders["date_desc"][Selected(emails, Plan(r))] :
          Conclude(r, [req[r] EXCEPT !.items = s, !.total = Len(s), !.at = emails],
                   "exported")
    /\ UNCHANGED <<emails, index, audit, faults>>

-----------------------------------------------------------------------------
\* The rows of a dialog.
Found(ask) ==
    CASE ask.endpoint = "email" -> {m \in emails : IdOf[m] = ask.about}
      [] ask.endpoint = "thread" -> {m \in emails : ThreadOf[m] = ask.about}
      [] OTHER -> {}

\* How many rows, or which count, the other endpoints give; a timeline leaves out
\* what has no date.
Figure(ask) ==
    CASE ask.endpoint = "senders" -> Min({20, Cardinality({SenderOf[m] : m \in emails})})
      [] ask.endpoint = "timeline" ->
           Cardinality({StampOf[m] : m \in emails} \ {NoDate})
      [] ask.endpoint \in {"stats", "health"} -> Cardinality(emails)
      [] OTHER -> Cardinality(Found(ask))

\* The endpoints that are one SELECT.
ReadDetail(r) ==
    /\ Holds(r, "detail")
    /\ \E items \in Orders["date_asc"][Found(req[r].ask)] :
          Conclude(r, [req[r] EXCEPT !.items = items, !.total = Figure(req[r].ask),
                                     !.at = emails],
                   "served")
    /\ UNCHANGED <<emails, index, audit, faults>>

-----------------------------------------------------------------------------
\* A statement raises, the fallback of search_fts too: the client gets a 500, or
\* hears that the server is unhealthy.
StatementFails(r) ==
    /\ loop = r
    /\ req[r].pc \in Statements
    /\ Fault
    /\ Conclude(r, req[r], IF req[r].ask.endpoint = "health" THEN "served" ELSE "failed")
    /\ UNCHANGED <<emails, index, audit>>

\* The server dies and starts again.
Restart ==
    /\ Fault
    /\ loop' = None
    /\ req' = [r \in Requests |->
                 IF req[r].pc \in {"body"} \cup Working
                 THEN [req[r] EXCEPT !.pc = "lost"] ELSE req[r]]
    /\ UNCHANGED <<emails, index, audit>>

\* Mutant of IngestRow: the row is deleted, and its INSERT may fail.
IngestRowInTwo ==
    /\ \E m \in Mail \ emails : \E rows \in {{}, {m}} :
          emails' = (emails \ Copies(m, emails)) \cup rows
    /\ UNCHANGED <<index, loop, req, audit, faults>>

\* The ingestion thread: INSERT OR REPLACE.
IngestRow ==
    /\ \E m \in Mail \ emails : emails' = (emails \ Copies(m, emails)) \cup {m}
    /\ UNCHANGED <<index, loop, req, audit, faults>>

\* create_fts_index drops the index, and builds it anew unless that fails.
DropIndex ==
    /\ Fts
    /\ index # {} /\ index' = {}
    /\ UNCHANGED <<emails, loop, req, audit, faults>>

CreateIndex ==
    /\ Fts
    /\ index = {} /\ index' = {emails}
    /\ UNCHANGED <<emails, loop, req, audit, faults>>

Work(r) ==
    \/ AnalyzeIntent(r)
    \/ SearchFts(r) \/ SearchLike(r) \/ SearchCount(r) \/ SearchPageOf(r) \/ SearchRaises(r)
    \/ LoadThread(r) \/ Aggregate(r) \/ Present(r) \/ LogAudit(r) \/ Respond(r)
    \/ ExportCsv(r) \/ ReadDetail(r)

Next ==
    \/ \E r \in Requests : Receive(r) \/ Begin(r) \/ Work(r) \/ StatementFails(r)
    \/ Restart \/ IngestRow \/ DropIndex \/ CreateIndex

Spec == Init /\ [][Next]_vars

\* LLM calls and statements end, and the event loop serves requests whose bodies
\* are there.
FairSpec ==
    /\ Spec
    /\ WF_vars(\E r \in Requests : Work(r))
    /\ \A r \in Requests : WF_vars(Begin(r))

-----------------------------------------------------------------------------
\* The types of the tables, of every request and of the log; a message_id has one
\* row, and a session list never holds more than twenty entries.
TypeOK ==
    /\ emails \subseteq Mail
    /\ \A m, n \in emails : IdOf[m] = IdOf[n] => m = n
    /\ index \in SUBSET SUBSET Mail
    /\ loop \in Requests \cup {None}
    /\ \A r \in Requests :
          /\ req[r].pc \in PCs
          /\ req[r].ask \in Asks \cup {BlankAsk}
          /\ Range(req[r].items) \cup req[r].anchor \subseteq Mail
          /\ req[r].total \in Nat
          /\ Len(req[r].sessions) <= 20
    /\ \A i \in DOMAIN audit : audit[i] \in [request : Requests, count : Nat]
    /\ faults \in 0..MaxFaults

Answered(r) == req[r].pc = "answered"
SameSearch(r, s) ==
    /\ req[r].ask.query = req[s].ask.query
    /\ req[r].ask.size = req[s].ask.size
    /\ Plan(r) = Plan(s)

\* Nobody sees results that are not in the audit log, once, with the count that
\* was shown, and the log holds nothing else but calls whose client is gone.
AuditedOnce ==
    \A r \in Requests :
        LET entries == {i \in DOMAIN audit : audit[i].request = r}
        IN /\ Answered(r) => \E i \in entries :
                                entries = {i} /\ audit[i].count = req[r].total
           /\ entries # {} => Answered(r) \/ req[r].pc \in {"reply", "lost"}

\* A reading: the pages of one search by clauses from the first on, each asked for
\* when the one before was there.
Readings ==
    {c \in UNION {[1..n -> Requests] : n \in 1..Cardinality(Requests)} :
        \A i \in DOMAIN c :
            /\ Answered(c[i])
            /\ Plan(c[i]).type = "search_emails" /\ ~UsesFts(Plan(c[i]))
            /\ req[c[i]].ask.page = i
            /\ i > 1 => c[i-1] \in req[c[i]].prior /\ SameSearch(c[i-1], c[i])}

Finished(c) ==
    LET r == c[Len(c)] IN Pages(r) <= Len(c)

Seen(c) == UNION {Range(req[c[i]].items) : i \in DOMAIN c}

ReadingMissesNothing(c) ==
    Selected(req[c[1]].before, Plan(c[1])) \subseteq Seen(c)

\* Whoever reads all the pages of a list has seen every row that was there when
\* the reading began.
PagesMissNothing == \A c \in Readings : Finished(c) => ReadingMissesNothing(c)

CountCurrent(r) == req[r].total = Cardinality(Selected(req[r].at, Plan(r)))

\* The rows of a list as its request found them have each a date of its own.
Sorted(r) == Untied(Selected(req[r].at, Plan(r)))

\* No row that a reading began with was replaced before its last page.
NoneReplaced(c) ==
    /\ req[c[1]].before \subseteq req[c[1]].at
    /\ \A i, j \in DOMAIN c : i < j => req[c[i]].at \subseteq req[c[j]].at

\* The same while ingestion adds rows, as long as it replaces none, none came
\* between the COUNT and the SELECT of the last page, and no two rows of the list
\* have one date.
PagesMissNothingCounted ==
    \A c \in Readings :
        LET last == c[Len(c)]
        IN (/\ Finished(c) /\ CountCurrent(last) /\ Sorted(last)
            /\ NoneReplaced(c)) => ReadingMissesNothing(c)

\* While the table stands still no row is on two pages of a list whose rows have
\* each a date of their own.
PagesDisjoint ==
    \A c \in Readings :
        (\A i, j \in DOMAIN c : req[c[i]].at = req[c[j]].at /\ Sorted(c[i])) =>
            \A i, j \in DOMAIN c :
                i # j => Range(req[c[i]].items) \cap Range(req[c[j]].items) = {}

\* A row the search of a plan may give: a row that satisfies the clauses, or a mail
\* one copy of which has a word of the query.
Fits(plan, m) ==
    IF UsesFts(plan) THEN \E n \in Copies(m, Mail) : AnyWord(n, plan.fts_query)
    ELSE \A c \in plan.sql_filters : m \in c

\* A thread view shows the whole thread of a row that fits the query, and nothing
\* else: of the mails that were there when it was asked for, and of that row, only
\* one that ingestion has moved to another thread may be missing.
ThreadWhole ==
    \A r \in Requests :
        Answered(r) /\ IsThreadView(r) => \A a \in req[r].anchor :
            LET shown == Range(req[r].items)
            IN /\ Fits(Plan(r), a)
               /\ ThreadOf[a] = NoThread => a \in shown
               /\ ThreadOf[a] # NoThread =>
                     /\ \A m \in shown : ThreadOf[m] = ThreadOf[a]
                     /\ \A m \in req[r].before \cup {a} :
                           ThreadOf[m] = ThreadOf[a] =>
                              \E n \in Copies(m, req[r].at) :
                                 ThreadOf[n] = ThreadOf[a] => n \in shown

\* The rows a person means by an intent: days are whole days, and keywords
\* count whatever else is asked.
Meant(intent) ==
    {m \in Mail :
        /\ intent.from # {} => SenderOf[m] \in intent.from
        /\ intent.to # {} => \E a \in intent.to : Like(SentTo[m], a)
        /\ \A words \in intent.subject : Like(SubjectOf[m], words)
        /\ intent.id \subseteq {IdOf[m]}
        /\ \A d \in intent.since : StampOf[m] # NoDate /\ StampOf[m] \div 2 >= d
        /\ \A d \in intent.until : StampOf[m] # NoDate /\ StampOf[m] \div 2 <= d
        /\ \A b \in intent.attached : (m \in Attached) = b
        /\ intent.keywords # <<>> => AnyWord(m, intent.keywords)}

AnsweredSearch(r) == Answered(r) /\ Plan(r).type = "search_emails"

\* No address asked for is part of a longer one.
Exact(addresses) ==
    \A a \in addresses : \A m \in Mail : Like(SenderOf[m], a) => SenderOf[m] = a

\* A search lists only rows that are meant, unless it has keywords next to
\* clauses, which execute_search drops, or an address that another one contains,
\* which LIKE takes for it.  Full-text search may know a mail by the text it had.
ListsOnlyMeant ==
    \A r \in Requests :
        (/\ AnsweredSearch(r)
         /\ Exact(req[r].intent.from)
         /\ req[r].intent.keywords = <<>> \/ UsesFts(Plan(r))) =>
            \A m \in Range(req[r].items) :
                \/ m \in Meant(req[r].intent)
                \/ UsesFts(Plan(r)) /\ Copies(m, Mail) \cap Meant(req[r].intent) # {}

\* A mail that was there when a search by clauses began is listed on its one page
\* if its row is meant, unless the search ends on a day: that day counts up to its
\* midnight.
ListsAllMeant ==
    \A r \in Requests :
        (/\ AnsweredSearch(r) /\ ~UsesFts(Plan(r)) /\ req[r].intent.until = {}
         /\ req[r].ask.page = 1
         /\ Cardinality(Selected(req[r].at, Plan(r))) <= Size(r)) =>
            \A m \in req[r].before : \E n \in Copies(m, req[r].at) :
                n \in Meant(req[r].intent) => n \in Range(req[r].items)

\* A mail that was there from the start and has the words of a search one after the
\* other in every copy is listed, whatever became of the index.
KeywordsFound ==
    \A r \in Requests :
        AnsweredSearch(r) /\ UsesFts(Plan(r)) =>
            \A m \in Loaded :
                (\A n \in Copies(m, Mail) : Phrase(n, Plan(r).fts_query)) =>
                    Copies(m, Range(req[r].items)) # {}

\* An export of the query just answered holds every row the answer showed that was
\* not replaced meanwhile.
ExportCoversAnswer ==
    \A r, s \in Requests :
        (/\ req[s].pc = "exported"
         /\ Answered(r) /\ r \in req[s].prior
         /\ Plan(r) = Plan(s)
         /\ Plan(r).type = "search_emails") =>
            \A m \in Range(req[r].items) : \E n \in Copies(m, req[s].at) :
                n = m => m \in Range(req[s].items)

\* The reply to r is a thread, by get_thread.
ShowsThread(r) == IsThreadView(r) /\ \E a \in req[r].anchor : ThreadOf[a] # NoThread

\* The words of a reply and what stands under them agree, unless a row came between
\* COUNT and SELECT or a page is asked for that the list does not have: "found" with
\* rows of mails, "analysis" with a table or a figure, "nothing" without either.
WordsMatchTable ==
    \A r \in Requests :
        (/\ Answered(r)
         /\ ~Aggregates(r) /\ ~UsesFts(Plan(r)) /\ ~ShowsThread(r)
              => CountCurrent(r) /\ SearchPage(r) \in 1..TotalPages(req[r].total, SearchSize(r))) =>
            \A p \in req[r].shown :
                /\ req[r].text = "found" => p.table.of = "emails" /\ p.export_available
                /\ req[r].text = "analysis" =>
                       p.table.of = "groups" \/ p.stats_cards # {}
                /\ req[r].text = "nothing" =>
                       p.table = NoTable /\ p.stats_cards = {} /\ ~p.export_available

\* Whoever opens a mail, or the thread of a mail, from a list finds it, in the copy
\* that is there by then: only a mail moved to another thread may be missing.
DialogsFindTheirMail ==
    \A r, s \in Requests : \A m \in Range(req[r].items) :
        LET opens == req[s].ask.endpoint
            about == req[s].ask.about
        IN (/\ Answered(r) /\ r \in req[s].prior /\ req[s].pc = "served"
            /\ \/ opens = "email" /\ about = IdOf[m]
               \/ opens = "thread" /\ about = ThreadOf[m] /\ about # NoThread) =>
            \E n \in Copies(m, req[s].at) :
                n \in Range(req[s].items) \/ (opens = "thread" /\ ThreadOf[n] # about)

\* A question about the course of time is answered unless a statement fails.
TrendAnswered ==
    \A r \in Requests :
        req[r].pc = "failed" /\ Plan(r).type = "trend_analysis" => faults > 0

\* Every request gets a reply, unless the server dies.
RequestsEnd == \A r \in Requests : req[r].pc = "body" ~> req[r].pc \in Over
==============================================================================
