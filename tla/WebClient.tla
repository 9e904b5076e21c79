------------------------------- MODULE WebClient -------------------------------
(***************************************************************************)
(* The page index.html: one query box, requests in flight that nobody      *)
(* cancels, and the areas their responses are rendered into.  The server   *)
(* is any server: it answers each request once, in any order.              *)
(***************************************************************************)
EXTENDS Presentation

CONSTANTS
    Queries,          \* what can stand in the box
    Statistics,       \* the query of the statistics button
    PagesOf,          \* [Queries -> SUBSET Nat], what total_pages of its list can be
    MaxSubmissions    \* bound on the requests of a behaviour

ASSUME ClientAssumption ==
    /\ Statistics \in Queries
    /\ PagesOf \in [Queries -> SUBSET (Nat \ {0})]
    /\ MaxSubmissions \in Nat

VARIABLES
    input,      \* the text in queryInput
    current,    \* [query, page]: currentQuery and currentPage
    disabled,   \* searchBtn.disabled
    inflight,   \* submissions whose response is awaited
    shown,      \* for each area, {} or the submission rendered there
    words,      \* {} or the submission whose words stand in responseText
    table,      \* the table rendered last: what is in it and its page links
    progress,   \* agentProgress is visible
    fades,      \* timers that will hide agentProgress
    sent,       \* submissions so far
    wordless,   \* history: the response on view came without words
    pages,      \* history: total_pages of the table on view, 1 when none is
    overlap     \* history: an answer was awaited at the last submission

\* What responses are rendered into.
view == <<shown, words, wordless, table, pages>>
vars == <<input, current, disabled, inflight, view, progress, fades, sent, overlap>>

Submission ==
    [id: 1..MaxSubmissions, query: Queries, page: Int,
     list: SUBSET [query: Queries, page: Int, pages: Nat, enabled: BOOLEAN]]

Areas == {"text", "cards", "charts", "table", "clarification"}
Nothing == [area \in Areas |-> {}]

\* The presentations of a search, with rows or without, and of groups, contacts
\* and the course of time, with data or without.
Presentations(s, total_pages) ==
    {BuildPresentation({[emails |-> n, total_count |-> 1]}, {}, s.page, total_pages)
        : n \in {0, 1}}
    \cup {BuildPresentation({}, {a}, s.page, 1)
        : a \in [chart_type : {"line"}, data : {0, 1}, summary : {{}}]
              \cup [chart_type : {""}, data : {0, 1}, summary : {{"Total Contacts"}}]}

Render(areas, spoken, t, total_pages) ==
    [areas |-> areas, words |-> spoken, table |-> t, pages |-> total_pages]

\* What a response can open: a presentation or the text alone, with words or without
\* (the composer passes on what the LLM says, "" too), an error, or a question.
Renders(s) ==
    (UNION {{Render(VisibleAreas(p), spoken, p.table, n)
                : p \in Presentations(s, n), spoken \in BOOLEAN} : n \in PagesOf[s.query]})
    \cup {Render({"text"}, spoken, NoTable, 1) : spoken \in BOOLEAN}
    \cup {Render({"clarification"}, FALSE, NoTable, 1)}

Init ==
    /\ input \in Queries
    /\ current = [query |-> Statistics, page |-> 1]
    /\ disabled = FALSE
    /\ inflight = {}
    /\ shown = Nothing
    /\ words = {}
    /\ table = NoTable
    /\ progress = FALSE
    /\ fades = 0
    /\ sent = 0
    /\ wordless = FALSE
    /\ pages = 1
    /\ overlap = FALSE

-----------------------------------------------------------------------------
\* Mutant of SubmitQuery: hideAll is not called.
SubmitQueryOverOld(query, number, list) ==
    /\ sent < MaxSubmissions
    /\ sent' = sent + 1
    /\ overlap' = (inflight # {})
    /\ input' = query
    /\ current' = [query |-> query, page |-> number]
    /\ disabled' = TRUE
    /\ progress' = TRUE
    /\ inflight' = inflight \cup
         {[id |-> sent + 1, query |-> query, page |-> number, list |-> list]}
    /\ UNCHANGED <<view, fades>>

\* submitQuery: the text of the box is what is sent.  hideAll hides the areas and
\* empties none.  "list" is history: the list whose page link was followed.
SubmitQuery(query, number, list) ==
    /\ sent < MaxSubmissions
    /\ sent' = sent + 1
    /\ overlap' = (inflight # {})
    /\ input' = query
    /\ current' = [query |-> query, page |-> number]
    /\ disabled' = TRUE
    /\ shown' = Nothing
    /\ progress' = TRUE
    /\ inflight' = inflight \cup
         {[id |-> sent + 1, query |-> query, page |-> number, list |-> list]}
    /\ wordless' = FALSE
    /\ pages' = 1
    /\ UNCHANGED <<words, table, fades>>

\* The search button, with a text just typed.
ClickSearch(query) == ~disabled /\ SubmitQuery(query, 1, {})

\* Enter in the box, which looks at no button.
PressEnter(query) == SubmitQuery(query, 1, {})

ShowStats == SubmitQuery(Statistics, 1, {})

\* The answer to a question takes the place of the query.
SubmitClarification(answer) ==
    /\ shown["clarification"] # {}
    /\ SubmitQuery(answer, 1, {})

\* A page link of the list on view, by the mouse or, be it disabled, with Tab and
\* Enter: every anchor with data-page has the handler, which looks at the number alone.
ClickPage(link) ==
    \E s \in shown["table"] :
        /\ link.page > 0
        /\ SubmitQuery(input, link.page,
                       {[query |-> s.query, page |-> s.page, pages |-> pages,
                         enabled |-> link.enabled]})

\* Mutant of Retype: currentQuery follows the box.
RetypeCurrent(query) ==
    /\ input' = query
    /\ current' = [current EXCEPT !.query = query]
    /\ UNCHANGED <<disabled, inflight, view, progress, fades, sent, overlap>>

\* The box is edited and nothing is sent.
Retype(query) ==
    /\ input' = query
    /\ UNCHANGED <<current, disabled, inflight, view, progress, fades, sent, overlap>>

\* exportCSV: the query of which the server is asked to export the result.  It
\* leaves the page as it is.
ExportCSV == current.query

-----------------------------------------------------------------------------
\* A response is rendered over what is there; an empty text replaces no words.
RenderResponse(s, render) ==
    /\ shown' = [area \in Areas |-> IF area \in render.areas THEN {s} ELSE shown[area]]
    /\ words' = IF render.words THEN {s} ELSE words
    /\ wordless' = ("text" \in render.areas /\ ~render.words)
    /\ table' = IF "table" \in render.areas THEN render.table ELSE table
    /\ pages' = IF "table" \in render.areas THEN render.pages ELSE pages

\* The progress panel is finished, with a timer each time, and the button enabled.
Settle(s, timers) ==
    /\ inflight' = inflight \ {s}
    /\ fades' = fades + timers
    /\ disabled' = FALSE
    /\ UNCHANGED <<input, current, progress, sent, overlap>>

Respond(s) == \E render \in Renders(s) : RenderResponse(s, render) /\ Settle(s, 1)

\* renderResponse throws at a card, at a chart (Chart.js may not be there) or at a
\* question: the areas up to it are open, and the catch, which is that of a failing
\* fetch, finishes the panel again and shows its error among them.
Broken(render) ==
    {[render EXCEPT !.areas = {"text"} \cup opened, !.words = TRUE]
        : opened \in {render.areas \cap {"cards"}, render.areas \cap {"cards", "charts"},
                      render.areas \cap {"clarification"}} \ {{}}}

RenderThrows(s) ==
    \E render \in Renders(s) : \E broken \in Broken(render) :
        RenderResponse(s, broken) /\ Settle(s, 2)

ErrorMessage == Render({"text"}, TRUE, NoTable, 1)

\* Mutant of FetchFails: setLoading(false) is only reached by a response.
FetchFailsDisabled(s) ==
    /\ RenderResponse(s, ErrorMessage)
    /\ inflight' = inflight \ {s}
    /\ fades' = fades + 1
    /\ UNCHANGED <<input, current, disabled, progress, sent, overlap>>

\* fetch or resp.json() fails: showError.
FetchFails(s) == RenderResponse(s, ErrorMessage) /\ Settle(s, 1)

\* Mutant of Fade: a timer that goes on firing.
FadeAgain ==
    /\ fades' = fades - 1
    /\ progress' = FALSE
    /\ UNCHANGED <<input, current, disabled, inflight, view, sent, overlap>>

\* The timer of finishAgentProgress, which no later submission clears.
Fade ==
    /\ fades > 0
    /\ fades' = fades - 1
    /\ progress' = FALSE
    /\ UNCHANGED <<input, current, disabled, inflight, view, sent, overlap>>

Browser == Fade \/ \E s \in inflight : Respond(s) \/ RenderThrows(s) \/ FetchFails(s)

User ==
    \/ \E q \in Queries : \/ ClickSearch(q) \/ PressEnter(q)
                          \/ SubmitClarification(q) \/ Retype(q)
    \/ \E link \in table.links : ClickPage(link)
    \/ ShowStats

Next == Browser \/ User

Spec == Init /\ [][Next]_vars

\* Every request is answered or fails, and timers fire.
FairSpec == Spec /\ WF_vars(Browser)

-----------------------------------------------------------------------------
\* The types of the page's variables and of what it shows.
TypeOK ==
    /\ input \in Queries
    /\ current \in [query: Queries, page: Int]
    /\ disabled \in BOOLEAN
    /\ inflight \subseteq Submission
    /\ \A area \in Areas : shown[area] \subseteq Submission
    /\ words \subseteq Submission
    /\ progress \in BOOLEAN
    /\ fades \in 0 .. 2 * MaxSubmissions
    /\ sent \in 0..MaxSubmissions
    /\ wordless \in BOOLEAN
    /\ pages \in Nat
    /\ overlap \in BOOLEAN
    /\ table \in [of : {"emails", "groups", "nothing"},
                  links : SUBSET [page : Int, enabled : BOOLEAN]]

\* All that is visible answers the last thing that was asked, and nothing is
\* visible while that is still on its way, if nothing was awaited when it was sent.
\* The exception: over a response without words the words of an earlier one stand.
ShownIsCurrent ==
    ~overlap =>
        /\ \A area \in Areas : \A s \in shown[area] : s.id = sent /\ inflight = {}
        /\ shown["text"] # {} /\ ~wordless => \E s \in words : s.id = sent

\* The search button never stays disabled after the last answer, and is disabled
\* until then if nothing was awaited when the last query was sent.
ButtonFollowsRequests ==
    /\ disabled => inflight # {}
    /\ ~overlap /\ inflight # {} => disabled

\* A page link under a list asks for a page the list had.  A disabled one, which the
\* keyboard still reaches, asks for the page after the last, and for none before the
\* first.  The exception is a list that is itself a page past the last, as a thread
\* shown whole under a high number.
RequestedPagesExist ==
    \A s \in inflight : \A l \in s.list :
        l.query = s.query /\ l.page <= l.pages =>
            s.page \in 1 .. (IF l.enabled THEN l.pages ELSE l.pages + 1)

\* Whenever the export button stands under a list, it exports that list, and not
\* what has been typed into the box since, if nothing was awaited at the last query.
ExportsTheListOnView == ~overlap => \A s \in shown["table"] : s.query = ExportCSV

\* The user is never left without an answer: however the page is used, it comes
\* to rest with the button enabled and the progress panel gone.
PageSettles == (inflight # {}) ~> (~disabled /\ ~progress)
==============================================================================
