-------------------------------- MODULE MCQuery --------------------------------
(* Small tables, queries and intents for TLC. *)
EXTENDS QueryService

CONSTANTS q1, q2, q3

\* Row 1 is on midnight of day 1, row 2 in the same day, the others later.  Row 3
\* is like an error record: no thread, no sender, no text.
MCMail == 1..3
\* Row 5 is another copy of row 2, in another thread.
MCCopied == {1, 2, 3, 5}
MCPairMail == {1, 2, 5}
MCId == [m \in Mail |-> <<1, 2, 3, 4, 2>>[m]]
MCStamp == [m \in Mail |-> m + 1]
\* Row 3 has no date either.
MCErrorStamp == [m \in Mail |-> IF m = 3 THEN NoDate ELSE m + 1]
\* Two rows of one second, and a row without a date.
MCTies == <<2, 2, NoDate>>
MCThread == [m \in Mail |-> <<1, 1, 0, 1, 2>>[m]]
\* One address is part of another.
MCSender == [m \in Mail |-> <<<<"ann">>, <<"jo", "ann">>, <<>>, <<"ann">>, <<"ann">>>>[m]]
MCSentTo == [m \in Mail |-> <<<<"board">>, <<"board", "team">>, <<>>, <<"team">>, <<"team">>>>[m]]
MCSubject ==
    [m \in Mail |-> <<<<"grant">>, <<"report">>, <<>>, <<"report">>, <<"grant">>>>[m]]
MCText ==
    [m \in Mail |->
        <<<<"grant", "report">>, <<"report">>, <<>>, <<"report">>, <<"grant">>>>[m]]
MCAttached == {2}

Text == [BlankQuery EXCEPT !.blank = FALSE]
ByWord == [Text EXCEPT !.words = <<"report">>]
ByWords == [Text EXCEPT !.words = <<"report", "grant">>]
BySender == [Text EXCEPT !.addresses = {<<"ann">>}]
Archive == [Text EXCEPT !.archive = TRUE]
Statistics == [Text EXCEPT !.stat = TRUE]
Contacts == [Text EXCEPT !.stat = TRUE, !.contacts = TRUE]
Trend == [Text EXCEPT !.trend = TRUE, !.stat = TRUE]

Ask(query, page, size) ==
    [BlankAsk EXCEPT !.query = query, !.page = page, !.size = size]
Export(query) == [Ask(query, 1, 1) EXCEPT !.endpoint = "export"]
Detail(endpoint, about) == [BlankAsk EXCEPT !.endpoint = endpoint, !.about = about]

General == [BlankIntent EXCEPT !.type = "general_question"]
Vague == [BlankIntent EXCEPT !.clarify = TRUE]
LastThread == [BlankIntent EXCEPT !.type = "thread_view", !.limit = 1]
WordThread == [LastThread EXCEPT !.keywords = <<"grant">>]
JoannThread == [LastThread EXCEPT !.from = {<<"jo", "ann">>}]
\* The row without a thread, which may come between COUNT and SELECT.
LoneThread == [LastThread EXCEPT !.id = {3}]
FromJoann == [BlankIntent EXCEPT !.from = {<<"jo", "ann">>}]
ToTeam == [BlankIntent EXCEPT !.to = {<<"team">>}]
AboutReport == [BlankIntent EXCEPT !.subject = {<<"report">>}]
TheFirst == [BlankIntent EXCEPT !.id = {1}]
FromDayOne == [BlankIntent EXCEPT !.since = {1}]
InDayOne == [FromDayOne EXCEPT !.until = {1}]
WithFile == [BlankIntent EXCEPT !.attached = {TRUE}]
WithoutFile == [BlankIntent EXCEPT !.attached = {FALSE}, !.keywords = <<"grant">>]
Relevant == [BlankIntent EXCEPT !.sort = "relevance"]
OldestFirst == [BlankIntent EXCEPT !.sort = "date_asc"]

Queries == {BlankQuery, ByWord, ByWords, BySender, Archive, Text, Statistics,
            Contacts, Trend}

\* The LLM may answer any query with any of these.
MCAnyIntent ==
    [q \in Queries |-> {General, Vague, LastThread, WordThread, JoannThread, LoneThread,
                        FromJoann, ToTeam, AboutReport, TheFirst, FromDayOne, InDayOne,
                        WithFile, WithoutFile, Relevant, OldestFirst}]
MCVague == [q \in Queries |-> {Vague}]
MCNoIntent == [q \in Queries |-> {}]

MCAsks ==
    {Ask(Archive, 1, 3), Ask(Archive, 1, 0), Ask(ByWord, 1, 3), Ask(ByWords, 1, 3),
     Ask(BlankQuery, 1, 3), Ask(Trend, 1, 3), Ask(Statistics, 1, 3), Ask(Contacts, 1, 3), Export(BySender),
     Ask(BySender, 1, 3), Ask(Archive, 2, 1),
     Detail("stats", 0), Detail("senders", 0), Detail("timeline", 0), Detail("health", 0)}
\* Two pages of a list, its export, a dialog and a division by zero.
MCPair == {Ask(Archive, 1, 1), Ask(Archive, 2, 1), Ask(Archive, 1, 0), Export(Archive),
           Detail("thread", 1), Detail("email", 2)}
MCPages == {Ask(Archive, p, 1) : p \in 1..3}
MCTrend == {Ask(Trend, 1, 1)}

MCOld == {1}
==============================================================================
