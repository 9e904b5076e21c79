----------------------------- MODULE EmailSearch -----------------------------
(***************************************************************************)
(* From a query to rows: the intent of a query, the plan built from it and *)
(* what each SQL statement of the plan may return from the table emails.   *)
(*                                                                         *)
(* A member of Mail is one version of a row, with the columns the          *)
(* statements look at; versions with one message_id replace each other.    *)
(* An optional value is a set with at most one element.  Time is counted   *)
(* in half days: a stamp is day * 2 (midnight) or day * 2 + 1.             *)
(***************************************************************************)
EXTENDS SequencesExt

CONSTANTS
    Mail,       \* rows that can be in the table
    IdOf,       \* [Mail -> Nat], message_id, the primary key
    StampOf,    \* [Mail -> Nat \cup {NoDate}], date_utc
    ThreadOf,   \* [Mail -> Nat], thread_id; NoThread on an error record
    SenderOf,   \* [Mail -> Seq of parts], from_address
    SentTo,     \* [Mail -> Seq of parts], to_addresses
    SubjectOf,  \* [Mail -> Seq of words], subject
    TextOf,     \* [Mail -> Seq of words], the searchable columns as one
    Attached    \* rows with has_attachments

NoDate == -1
NoThread == 0

ASSUME SearchAssumption ==
    /\ IdOf \in [Mail -> Nat]
    /\ StampOf \in [Mail -> Nat \cup {NoDate}]
    /\ ThreadOf \in [Mail -> Nat]
    /\ SenderOf \in [Mail -> Seq(STRING)]
    /\ TextOf \in [Mail -> Seq(STRING)]
    /\ Attached \subseteq Mail

IntentTypes == {"search_emails", "aggregate_stats", "trend_analysis",
                "specific_email", "thread_view", "export", "general_question"}

SortOrders == {"date_desc", "date_asc", "relevance"}

\* A query as the rules see it: whether it is blank, its words longer than two
\* characters, the addresses in it, and whether it holds a statistics, trend,
\* archive or contact-list word.
BlankQuery == [blank |-> TRUE, words |-> <<>>, addresses |-> {}, stat |-> FALSE,
               trend |-> FALSE, archive |-> FALSE, contacts |-> FALSE]

BlankIntent == [type |-> "search_emails", keywords |-> <<>>, from |-> {}, to |-> {},
                since |-> {}, until |-> {}, attached |-> {}, subject |-> {}, id |-> {},
                sort |-> "date_desc", clarify |-> FALSE, limit |-> 0]

\* _fallback_intent.
FallbackIntent(query) ==
    [BlankIntent EXCEPT
       !.type = IF query.trend THEN "trend_analysis"
                ELSE IF query.stat THEN "aggregate_stats" ELSE "search_emails",
       !.keywords = SubSeq(query.words, 1, Min({10, Len(query.words)})),
       !.from = query.addresses]

-----------------------------------------------------------------------------
\* LIKE '%part%', on texts cut into the parts that matter.
Like(text, part) == part \in SubSeqs(text)

\* The WHERE clauses, each the set of rows it selects.  A comparison with a
\* NULL date is not true, and a date without a time is midnight.
From(addresses) == {m \in Mail : \E a \in addresses : Like(SenderOf[m], a)}
To(addresses) == {m \in Mail : \E a \in addresses : Like(SentTo[m], a)}

\* Mutant of Since: the first instant of the period is left out.
SinceAfter(day) == {m \in Mail : StampOf[m] # NoDate /\ StampOf[m] > 2 * day}

Since(day) == {m \in Mail : StampOf[m] # NoDate /\ StampOf[m] >= 2 * day}
Until(day) == {m \in Mail : StampOf[m] # NoDate /\ StampOf[m] <= 2 * day}
HasAttachments(b) == {m \in Mail : (m \in Attached) = b}
HasId(id) == {m \in Mail : IdOf[m] = id}
Subject(words) == {m \in Mail : Like(SubjectOf[m], words)}

\* Mutant of Clauses: the senders are forgotten.
ClausesWithoutSender(intent) ==
    {To(addresses) : addresses \in {intent.to} \ {{}}}
    \cup {Since(day) : day \in intent.since}
    \cup {Until(day) : day \in intent.until}
    \cup {HasAttachments(b) : b \in intent.attached}
    \cup {Subject(words) : words \in intent.subject}
    \cup {HasId(id) : id \in intent.id}

Clauses(intent) ==
    {From(addresses) : addresses \in {intent.from} \ {{}}}
    \cup {To(addresses) : addresses \in {intent.to} \ {{}}}
    \cup {Since(day) : day \in intent.since}
    \cup {Until(day) : day \in intent.until}
    \cup {HasAttachments(b) : b \in intent.attached}
    \cup {Subject(words) : words \in intent.subject}
    \cup {HasId(id) : id \in intent.id}

AggregationType(intent, query) ==
    CASE intent.type = "aggregate_stats" /\ query.contacts -> "contacts"
      [] intent.type = "aggregate_stats" /\ ~query.contacts -> "count_group"
      [] intent.type = "trend_analysis" -> "time_series"
      [] OTHER -> "none"

BuildQueryPlan(intent, query) ==
    [type        |-> intent.type,
     fts_query   |-> intent.keywords,
     sql_filters |-> Clauses(intent),
     sort        |-> intent.sort,
     aggregation |-> AggregationType(intent, query),
     limit       |-> intent.limit]

-----------------------------------------------------------------------------
\* Rows that satisfy every clause.
Selected(table, plan) == {m \in table : \A c \in plan.sql_filters : m \in c}

\* The rows with the message_id of m.
Copies(m, rows) == {n \in rows : IdOf[n] = IdOf[m]}

Phrase(m, words) == Like(TextOf[m], words)
AnyWord(m, words) == Range(words) \cap Range(TextOf[m]) # {}

\* match_bm25 scores a row whose message_id is in the index, for any word of the
\* query in the text the index was built from.
FtsMatches(table, index, words) ==
    {m \in table : \E known \in index : \E k \in Copies(m, known) : AnyWord(k, words)}

\* The fallback takes the whole query for one ILIKE pattern.
LikeMatches(table, words) == {m \in table : Phrase(m, words)}

\* execute_search runs the full-text query only when there is no clause.
UsesFts(plan) == plan.fts_query # <<>> /\ plan.sql_filters = {}

\* The orders ORDER BY date_utc allows: undated rows last, ties as they come.
Ordered(s, sort) ==
    \A i, j \in DOMAIN s :
        (i < j /\ StampOf[s[j]] # NoDate) =>
            /\ StampOf[s[i]] # NoDate
            /\ IF sort = "date_asc" THEN StampOf[s[i]] <= StampOf[s[j]]
                                    ELSE StampOf[s[i]] >= StampOf[s[j]]

\* No two rows have one date, nor none both.
Untied(rows) == \A m, n \in rows : StampOf[m] = StampOf[n] => m = n

Orders == [sort \in SortOrders |->
              [rows \in SUBSET Mail |-> {s \in SetToSeqs(rows) : Ordered(s, sort)}]]

\* Mutant of PageOf: pages are counted from 0.
PageOfFromZero(s, page, size) ==
    SubSeq(s, page * size + 1, Min({(page + 1) * size, Len(s)}))

\* Mutant of PageOf: the OFFSET is left out.
PageOfFromStart(s, page, size) == SubSeq(s, 1, Min({page * size, Len(s)}))

\* LIMIT size OFFSET (page - 1) * size.
PageOf(s, page, size) ==
    SubSeq(s, (page - 1) * size + 1, Min({page * size, Len(s)}))

TotalPages(total, size) == Max({1, (total + size - 1) \div size})

\* The rows of an aggregation: one for each group, up to the LIMIT.  A month is a
\* stamp here, and a missing date is a group too.
Groups(table, plan) ==
    LET rows == Selected(table, plan)
        senders == Cardinality({SenderOf[m] : m \in rows})
    IN CASE plan.aggregation = "time_series" ->
                Cardinality({StampOf[m] : m \in rows})
         [] plan.aggregation = "contacts" -> Min({200, senders})
         [] OTHER -> Min({50, senders})

\* A label of AggregationResult is a string: the group of rows without a date,
\* whose period is NULL, makes its construction raise.
Unlabelled(table, plan) ==
    /\ plan.aggregation = "time_series"
    /\ \E m \in Selected(table, plan) : StampOf[m] = NoDate

\* AggregationResult, over that many groups: contacts have a figure and no chart.
AggregationResult(plan, groups) ==
    [chart_type |-> CASE plan.aggregation = "time_series" -> "line"
                      [] plan.aggregation = "count_group" -> "bar"
                      [] OTHER -> "",
     data       |-> groups,
     summary    |-> IF plan.aggregation = "contacts" THEN {"Total Contacts"} ELSE {}]
==============================================================================
