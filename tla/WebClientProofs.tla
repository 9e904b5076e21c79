---------------------------- MODULE WebClientProofs ----------------------------
(* What the page shows and exports, for any queries and any number of them. *)
EXTENDS WebClient, TLAPS, FiniteSetTheorems

\* A submission that is awaited or whose response is on view.
Known(s) == s \in inflight \/ \E area \in Areas : s \in shown[area]

\* Submissions are numbered in the order they are made; the last one is what
\* currentQuery names.
Numbered ==
    /\ sent \in Nat
    /\ \A s : Known(s) => /\ s.id \in Nat /\ s.id <= sent
                          /\ s.id = sent => s.query = current.query

\* Where nothing was awaited when the last query was sent, nothing but its own
\* response is awaited after.
OneAwaited ==
    ~overlap => \A s \in inflight : s.id = sent /\ inflight = {s}

\* The links on view lead to pages of the list they stand under, the disabled ones at
\* most to the page after, unless it is itself a page past the last.
LinksExist ==
    \A s \in shown["table"] :
        s.page <= pages =>
            \A l \in table.links :
                l.page > 0 => l.page \in 1 .. (IF l.enabled THEN pages ELSE pages + 1)

\* A submission that is answered sets two timers at most.
TimersCounted ==
    IsFiniteSet(inflight) /\ fades + 2 * Cardinality(inflight) <= 2 * sent

\* What opens areas of the page, and brings a table with the links of its pages or
\* without links.
Rendering(s, r) ==
    /\ r.areas \subseteq Areas
    /\ r.words \in BOOLEAN
    /\ r.pages \in Nat \ {0}
    /\ r.table \in [of : {"emails", "groups", "nothing"},
                    links : {{}, PageLinks(s.page, r.pages)}]

ClientInv ==
    /\ TypeOK
    /\ TimersCounted
    /\ Numbered
    /\ LinksExist
    /\ RequestedPagesExist
    /\ OneAwaited
    /\ ShownIsCurrent
    /\ ButtonFollowsRequests
    /\ ExportsTheListOnView

-----------------------------------------------------------------------------
(* Page links *)

\* A link of a page that the list has leads to a page that it has, or, disabled, to
\* the one after the last.
LEMMA LinksLeadToPages ==
    ASSUME NEW page \in Int, NEW total_pages \in Nat \ {0}, page <= total_pages,
           NEW l \in PageLinks(page, total_pages), l.page > 0
    PROVE  l.page \in 1 .. (IF l.enabled THEN total_pages ELSE total_pages + 1)
<1>1. CASE l = Link(page - 1, page > 1)
  BY <1>1 DEF Link
<1>2. CASE l = Link(page + 1, page < total_pages)
  <2>1. l.page = page + 1 /\ (l.enabled <=> page < total_pages)
    BY <1>2 DEF Link
  <2>2. CASE l.enabled
    BY <2>1, <2>2
  <2>3. CASE ~l.enabled
    BY <2>1, <2>3
  <2> QED BY <2>2, <2>3
<1>3. CASE l \in {Link(n, TRUE) : n \in Numbers(page, total_pages)}
  <2>1. l.page \in Numbers(page, total_pages) /\ l.enabled
    BY <1>3 DEF Link
  <2>2. l.page \in 1..total_pages
    BY <2>1 DEF Numbers, Max, Min
  <2> QED BY <2>1, <2>2
<1> QED BY <1>1, <1>2, <1>3 DEF PageLinks

\* Links are numbers, enabled or not.
LEMMA LinksAreNumbers ==
    ASSUME NEW page \in Int, NEW total_pages \in Nat \ {0}
    PROVE  PageLinks(page, total_pages) \subseteq [page : Int, enabled : BOOLEAN]
<1>1. ASSUME NEW n \in Numbers(page, total_pages)
      PROVE  Link(n, TRUE) \in [page : Int, enabled : BOOLEAN]
  <2>1. CASE n \in Max({1, page - 3}) .. Min({total_pages, page + 3})
    BY <2>1 DEF Link
  <2>2. CASE n \in {1, total_pages}
    BY <2>2 DEF Link
  <2> QED BY <2>1, <2>2 DEF Numbers
<1>2. /\ Link(page - 1, page > 1) \in [page : Int, enabled : BOOLEAN]
      /\ Link(page + 1, page < total_pages) \in [page : Int, enabled : BOOLEAN]
  BY DEF Link
<1> QED BY <1>1, <1>2 DEF PageLinks

\* The table of a presentation has page links when it lists mails.
LEMMA PresentedTable ==
    ASSUME NEW sr, NEW agg, NEW page, NEW total_pages
    PROVE  BuildPresentation(sr, agg, page, total_pages).table \in
              {[of |-> "groups", links |-> {}], NoTable}
              \cup {t \in {[of |-> "emails", links |-> PageLinks(page, total_pages)]} :
                        Filled(sr) # {}}
<1> DEFINE t == IF Filled(sr) # {}
                THEN [of |-> "emails", links |-> PageLinks(page, total_pages)]
                ELSE IF sr = {} /\ \E a \in agg : a.data > 0
                THEN [of |-> "groups", links |-> {}]
                ELSE NoTable
           c == UNION ({{"Total Results", "Query Time"} : s \in Filled(sr)}
                       \cup {a.summary : a \in agg})
           g == {a.chart_type : a \in agg} \ {""}
           e == \E s \in sr : s.total_count > 0
<1>1. BuildPresentation(sr, agg, page, total_pages) =
        [table |-> t, stats_cards |-> c, chart_configs |-> g, export_available |-> e]
  BY DEF BuildPresentation
<1>2. t \in {[of |-> "groups", links |-> {}], NoTable}
            \cup {x \in {[of |-> "emails", links |-> PageLinks(page, total_pages)]} :
                      Filled(sr) # {}}
  OBVIOUS
<1> HIDE DEF t, c, g, e
<1> QED BY <1>1, <1>2

\* What comes with a response can be rendered.
LEMMA RendersAreRenderings ==
    ASSUME NEW s, PagesOf[s.query] \subseteq Nat \ {0}, NEW render \in Renders(s)
    PROVE  Rendering(s, render)
<1> DEFINE Good(t, n) == t \in [of : {"emails", "groups", "nothing"},
                               links : {{}, PageLinks(s.page, n)}]
<1>1. ASSUME NEW n PROVE Good(NoTable, n) /\ Good([of |-> "groups", links |-> {}], n)
  BY DEF NoTable
<1>2. ASSUME NEW n, NEW p \in Presentations(s, n) PROVE Good(p.table, n)
  <2>1. CASE \E e \in {0, 1} :
               p = BuildPresentation({[emails |-> e, total_count |-> 1]}, {}, s.page, n)
    <3>1. p.table \in {[of |-> "groups", links |-> {}], NoTable,
                       [of |-> "emails", links |-> PageLinks(s.page, n)]}
      BY <2>1, PresentedTable
    <3> QED BY <1>1, <3>1
  <2>2. CASE \E a : p = BuildPresentation({}, {a}, s.page, 1)
    <3>1. PICK a : p = BuildPresentation({}, {a}, s.page, 1)
      BY <2>2
    <3>2. {t \in {[of |-> "emails", links |-> PageLinks(s.page, 1)]} : Filled({}) # {}} = {}
      BY DEF Filled
    <3>3. p.table \in {[of |-> "groups", links |-> {}], NoTable}
             \cup {t \in {[of |-> "emails", links |-> PageLinks(s.page, 1)]} :
                       Filled({}) # {}}
      BY <3>1, PresentedTable
    <3>4. p.table \in {[of |-> "groups", links |-> {}], NoTable}
      BY <3>2, <3>3
    <3> QED BY <1>1, <3>4
  <2> QED BY <2>1, <2>2 DEF Presentations
<1>3. ASSUME NEW areas, NEW spoken \in BOOLEAN, NEW t, NEW n \in Nat \ {0},
             areas \subseteq Areas, Good(t, n),
             render = [areas |-> areas, words |-> spoken, table |-> t, pages |-> n]
      PROVE  Rendering(s, render)
  BY <1>3 DEF Rendering
<1>4. ASSUME NEW n \in PagesOf[s.query], NEW p \in Presentations(s, n),
             NEW spoken \in BOOLEAN,
             render = [areas |-> VisibleAreas(p), words |-> spoken, table |-> p.table,
                       pages |-> n]
      PROVE  Rendering(s, render)
  <2>1. VisibleAreas(p) \subseteq Areas
    BY DEF VisibleAreas, Areas
  <2>2. Good(p.table, n)
    BY <1>2
  <2> HIDE DEF Good
  <2> QED BY <1>3, <1>4, <2>1, <2>2
<1>5. ASSUME NEW area \in {"text", "clarification"}, NEW spoken \in BOOLEAN,
             render = [areas |-> {area}, words |-> spoken, table |-> NoTable, pages |-> 1]
      PROVE  Rendering(s, render)
  <2>1. {area} \subseteq Areas
    BY DEF Areas
  <2>2. Good(NoTable, 1)
    BY <1>1
  <2> HIDE DEF Good
  <2> QED BY <1>3, <1>5, <2>1, <2>2
<1>6. CASE render \in UNION {{Render(VisibleAreas(p), spoken, p.table, n)
                              : p \in Presentations(s, n), spoken \in BOOLEAN}
                              : n \in PagesOf[s.query]}
  BY <1>4, <1>6 DEF Render
<1>7. CASE render \in {Render({"text"}, spoken, NoTable, 1) : spoken \in BOOLEAN}
  BY <1>5, <1>7 DEF Render
<1>8. CASE render \in {Render({"clarification"}, FALSE, NoTable, 1)}
  BY <1>5, <1>8 DEF Render
<1> QED BY <1>6, <1>7, <1>8 DEF Renders, Render

\* What is left of one that throws can, too.
LEMMA BrokenIsRendering ==
    ASSUME NEW s, PagesOf[s.query] \subseteq Nat \ {0}, NEW render \in Renders(s),
           NEW broken \in Broken(render)
    PROVE  Rendering(s, broken)
<1>1. PICK opened : /\ opened \subseteq {"cards", "charts", "clarification"}
                    /\ broken = [render EXCEPT !.areas = {"text"} \cup opened, !.words = TRUE]
  BY DEF Broken
<1>2. render = [areas |-> render.areas, words |-> render.words, table |-> render.table,
                pages |-> render.pages]
  BY DEF Renders, Render
<1>3. broken = [areas |-> {"text"} \cup opened, words |-> TRUE, table |-> render.table,
                pages |-> render.pages]
  BY <1>1, <1>2
<1>4. {"text"} \cup opened \subseteq Areas
  BY <1>1 DEF Areas
<1> QED BY <1>3, <1>4, RendersAreRenderings DEF Rendering

-----------------------------------------------------------------------------
(* The steps *)

\* A list whose page link is followed has the page asked for, or ends before it.
LeadsToPage(q, n, l) ==
    \A x \in l : x.query = q /\ x.page <= x.pages =>
                    n \in 1 .. (IF x.enabled THEN x.pages ELSE x.pages + 1)

List == [query: Queries, page: Int, pages: Nat, enabled: BOOLEAN]

Typed(q, n, l) == q \in Queries /\ n \in Int /\ l \subseteq List

\* What the user does is a submission or a text typed.
LEMMA UserSteps ==
    ASSUME ClientInv, User
    PROVE  \/ \E q, n, l : SubmitQuery(q, n, l) /\ Typed(q, n, l) /\ LeadsToPage(q, n, l)
           \/ \E q \in Queries : Retype(q)
<1>1. ASSUME NEW q \in Queries, SubmitQuery(q, 1, {})
      PROVE  \E p, n, l : SubmitQuery(p, n, l) /\ Typed(p, n, l) /\ LeadsToPage(p, n, l)
  <2>1. Typed(q, 1, {}) /\ LeadsToPage(q, 1, {})
    BY DEF Typed, LeadsToPage
  <2> QED BY <1>1, <2>1
<1>2. ASSUME NEW link \in table.links, ClickPage(link)
      PROVE  \E p, n, l : SubmitQuery(p, n, l) /\ Typed(p, n, l) /\ LeadsToPage(p, n, l)
  <2>1. PICK s \in shown["table"] :
            /\ link.page > 0
            /\ SubmitQuery(input, link.page, {[query |-> s.query, page |-> s.page,
                                               pages |-> pages, enabled |-> link.enabled]})
    BY <1>2 DEF ClickPage
  <2> DEFINE list == [query |-> s.query, page |-> s.page, pages |-> pages,
                      enabled |-> link.enabled]
  <2>2. /\ s \in Submission /\ input \in Queries /\ pages \in Nat
        /\ link.page \in Int /\ link.enabled \in BOOLEAN
    BY DEF ClientInv, TypeOK, Areas
  <2>3. list.query = s.query /\ list.page = s.page /\ list.pages = pages
        /\ list.enabled = link.enabled /\ list \in List
    BY <2>2 DEF Submission, List
  <2>4. LeadsToPage(input, link.page, {list})
    <3> HIDE DEF list
    <3> QED BY <2>1, <2>3 DEF ClientInv, LinksExist, LeadsToPage
  <2>5. Typed(input, link.page, {list})
    BY <2>2, <2>3 DEF Typed
  <2> QED BY <2>1, <2>4, <2>5
<1> QED BY <1>1, <1>2, ClientAssumption
        DEF User, ClickSearch, PressEnter, SubmitClarification, ShowStats

\* What the browser does is to render a response, or what is left of one, or to hide
\* the panel.
LEMMA BrowserSteps ==
    ASSUME ClientInv, Browser
    PROVE  \/ Fade
           \/ \E s \in inflight, timers \in {1, 2} : \E render :
                  Rendering(s, render) /\ RenderResponse(s, render) /\ Settle(s, timers)
<1>1. ASSUME NEW s \in inflight PROVE PagesOf[s.query] \subseteq Nat \ {0}
  BY ClientAssumption DEF ClientInv, TypeOK, Submission
<1>2. ASSUME NEW s PROVE Rendering(s, ErrorMessage)
  BY DEF ErrorMessage, Render, Rendering, NoTable, Areas
<1>3. ASSUME NEW s \in inflight, Respond(s) \/ FetchFails(s)
      PROVE  \E render : Rendering(s, render) /\ RenderResponse(s, render) /\ Settle(s, 1)
  BY <1>1, <1>2, <1>3, RendersAreRenderings DEF Respond, FetchFails
<1>4. ASSUME NEW s \in inflight, RenderThrows(s)
      PROVE  \E render : Rendering(s, render) /\ RenderResponse(s, render) /\ Settle(s, 2)
  BY <1>1, <1>4, BrokenIsRendering DEF RenderThrows
<1>5. CASE Fade
  BY <1>5
<1>6. CASE \E s \in inflight : Respond(s) \/ RenderThrows(s) \/ FetchFails(s)
  <2>1. PICK s \in inflight : Respond(s) \/ RenderThrows(s) \/ FetchFails(s)
    BY <1>6
  <2>2. \E timers \in {1, 2} : \E render :
            Rendering(s, render) /\ RenderResponse(s, render) /\ Settle(s, timers)
    <3>1. 1 \in {1, 2} /\ 2 \in {1, 2}
      OBVIOUS
    <3>2. CASE Respond(s) \/ FetchFails(s)
      BY <1>3, <3>1, <3>2
    <3>3. CASE RenderThrows(s)
      BY <1>4, <3>1, <3>3
    <3> QED BY <2>1, <3>2, <3>3
  <2> QED BY <2>2
<1> QED BY <1>5, <1>6 DEF Browser

\* Initially nothing is awaited and nothing is shown.
LEMMA ClientInit == Init => ClientInv
<1> SUFFICES ASSUME Init PROVE ClientInv
    OBVIOUS
<1>1. /\ inflight = {} /\ \A area \in Areas : shown[area] = {}
      /\ sent = 0 /\ fades = 0 /\ disabled = FALSE /\ words = {} /\ pages = 1
      /\ wordless = FALSE /\ "table" \in Areas /\ "text" \in Areas
  BY DEF Init, Nothing, Areas
<1>2. TypeOK
  <2>1. /\ input \in Queries /\ progress = FALSE /\ overlap = FALSE
        /\ current \in [query: Queries, page: Int]
    BY ClientAssumption DEF Init
  <2>2. table \in [of : {"emails", "groups", "nothing"},
                   links : SUBSET [page : Int, enabled : BOOLEAN]]
    BY DEF Init, NoTable
  <2>3. sent \in 0..MaxSubmissions /\ fades \in 0 .. 2 * MaxSubmissions
    BY <1>1, ClientAssumption
  <2> QED BY <1>1, <2>1, <2>2, <2>3 DEF TypeOK
<1>3. TimersCounted
  BY <1>1, FS_EmptySet DEF TimersCounted
<1> QED BY <1>1, <1>2, <1>3
        DEF ClientInv, Numbered, LinksExist, RequestedPagesExist, OneAwaited,
            ShownIsCurrent, ButtonFollowsRequests, ExportsTheListOnView, Known

\* A submission empties the page and becomes the last one.
LEMMA SubmitStep ==
    ASSUME ClientInv, NEW q, NEW n, NEW l, SubmitQuery(q, n, l), Typed(q, n, l),
           LeadsToPage(q, n, l)
    PROVE  ClientInv'
<1> DEFINE new == [id |-> sent + 1, query |-> q, page |-> n, list |-> l]
<1>1. /\ sent < MaxSubmissions
      /\ sent' = sent + 1 /\ overlap' = (inflight # {}) /\ disabled' = TRUE
      /\ current' = [query |-> q, page |-> n] /\ input' = q /\ progress' = TRUE
      /\ shown' = [area \in Areas |-> {}]
      /\ inflight' = inflight \cup {new}
      /\ wordless' = FALSE /\ pages' = 1
      /\ UNCHANGED <<words, table, fades>>
  BY DEF SubmitQuery, Nothing
<1>2. /\ new.id = sent + 1 /\ new.query = q /\ new.page = n /\ new.list = l
      /\ current'.query = q
  BY <1>1
<1>3. /\ sent \in Nat /\ MaxSubmissions \in Nat
      /\ \A s \in inflight : s.id \in Nat /\ s.id <= sent
  BY ClientAssumption DEF ClientInv, Numbered, Known
<1>4. new \in Submission
  BY <1>1, <1>3 DEF Submission, Typed, List
<1> HIDE DEF new
<1>5. \A area \in Areas : shown'[area] = {}
  BY <1>1
<1>6. TypeOK'
  <2>1. inflight' \subseteq Submission /\ \A area \in Areas : shown'[area] \subseteq Submission
    BY <1>1, <1>4, <1>5 DEF ClientInv, TypeOK
  <2>2. input' \in Queries /\ current' \in [query: Queries, page: Int]
    BY <1>1 DEF Typed
  <2>3. sent' \in 0..MaxSubmissions
    BY <1>1, <1>3
  <2> QED BY <1>1, <2>1, <2>2, <2>3 DEF ClientInv, TypeOK
<1>7. TimersCounted'
  <2>1. new \notin inflight
    BY <1>2, <1>3
  <2>2. /\ IsFiniteSet(inflight') /\ Cardinality(inflight') = Cardinality(inflight) + 1
        /\ Cardinality(inflight) \in Nat
    BY <1>1, <2>1, FS_AddElement, FS_CardinalityType DEF ClientInv, TimersCounted
  <2>3. fades \in Nat /\ fades + 2 * Cardinality(inflight) <= 2 * sent
    BY DEF ClientInv, TimersCounted, TypeOK
  <2> QED BY <1>1, <1>3, <2>2, <2>3 DEF TimersCounted
<1>8. Numbered'
  <2>1. ASSUME NEW s \in inflight' PROVE /\ s.id \in Nat /\ s.id <= sent'
                                         /\ s.id = sent' => s.query = current'.query
    <3>1. CASE s = new
      BY <1>1, <1>2, <1>3, <3>1
    <3>2. CASE s \in inflight
      <4>1. s.id \in Nat /\ s.id <= sent
        BY <1>3, <3>2
      <4> QED BY <1>1, <1>3, <4>1
    <3> QED BY <1>1, <3>1, <3>2
  <2> QED BY <1>1, <1>3, <1>5, <2>1 DEF Numbered, Known
<1>9. LinksExist'
  BY <1>5 DEF LinksExist, Areas
<1>10. RequestedPagesExist'
  <2>1. ASSUME NEW x \in new.list, x.query = new.query, x.page <= x.pages
        PROVE  new.page \in 1 .. (IF x.enabled THEN x.pages ELSE x.pages + 1)
    BY <1>2, <2>1 DEF LeadsToPage
  <2> QED BY <1>1, <2>1 DEF ClientInv, RequestedPagesExist
<1>11. OneAwaited'
  BY <1>1, <1>2 DEF OneAwaited
<1>12. ShownIsCurrent'
  BY <1>5 DEF ShownIsCurrent, Areas
<1>13. ButtonFollowsRequests'
  BY <1>1 DEF ButtonFollowsRequests
<1>14. ExportsTheListOnView'
  BY <1>5 DEF ExportsTheListOnView, Areas
<1> QED BY <1>6, <1>7, <1>8, <1>9, <1>10, <1>11, <1>12, <1>13, <1>14 DEF ClientInv

\* A response is shown in place of nothing, or of what an earlier one left.
LEMMA RenderStep ==
    ASSUME ClientInv, NEW s \in inflight, NEW render, Rendering(s, render),
           RenderResponse(s, render), NEW timers \in {1, 2}, Settle(s, timers)
    PROVE  ClientInv'
<1>1. /\ shown' = [area \in Areas |-> IF area \in render.areas THEN {s} ELSE shown[area]]
      /\ words' = IF render.words THEN {s} ELSE words
      /\ wordless' = ("text" \in render.areas /\ ~render.words)
      /\ table' = IF "table" \in render.areas THEN render.table ELSE table
      /\ pages' = IF "table" \in render.areas THEN render.pages ELSE pages
      /\ inflight' = inflight \ {s}
      /\ fades' = fades + timers
      /\ disabled' = FALSE
      /\ UNCHANGED <<input, current, progress, sent, overlap>>
  BY DEF RenderResponse, Settle
<1>2. \A area \in Areas : \A t \in shown'[area] : t = s \/ t \in shown[area]
  BY <1>1
<1>3. \A t : Known(t)' => Known(t)
  BY <1>1, <1>2 DEF Known
<1>4. /\ s \in Submission /\ s.page \in Int /\ render.pages \in Nat \ {0}
      /\ render.words \in BOOLEAN /\ "table" \in Areas /\ "text" \in Areas
      /\ render.table \in [of : {"emails", "groups", "nothing"},
                           links : {{}, PageLinks(s.page, render.pages)}]
  BY DEF ClientInv, TypeOK, Submission, Areas, Rendering
<1>5. /\ IsFiniteSet(inflight') /\ Cardinality(inflight) = Cardinality(inflight') + 1
      /\ Cardinality(inflight') \in Nat
  <2>1. IsFiniteSet(inflight) /\ Cardinality(inflight) \in Nat
    BY FS_CardinalityType DEF ClientInv, TimersCounted
  <2>2. IsFiniteSet(inflight') /\ Cardinality(inflight') = Cardinality(inflight) - 1
    BY <1>1, <2>1, FS_RemoveElement
  <2>3. Cardinality(inflight') \in Nat
    BY <2>2, FS_CardinalityType
  <2> QED BY <2>1, <2>2, <2>3
<1>6. fades' \in 0 .. 2 * MaxSubmissions /\ TimersCounted'
  <2>1. /\ fades \in Nat /\ sent \in Nat /\ sent <= MaxSubmissions /\ MaxSubmissions \in Nat
        /\ fades + 2 * Cardinality(inflight) <= 2 * sent
    BY ClientAssumption DEF ClientInv, TimersCounted, TypeOK
  <2> QED BY <1>1, <1>5, <2>1 DEF TimersCounted
<1>7. TypeOK'
  <2>1. table' \in [of : {"emails", "groups", "nothing"},
                    links : SUBSET [page : Int, enabled : BOOLEAN]]
    <3>1. PageLinks(s.page, render.pages) \subseteq [page : Int, enabled : BOOLEAN]
      BY <1>4, LinksAreNumbers
    <3> QED BY <1>1, <1>4, <3>1 DEF ClientInv, TypeOK
  <2>2. inflight' \subseteq Submission /\ \A area \in Areas : shown'[area] \subseteq Submission
    BY <1>1, <1>2, <1>4 DEF ClientInv, TypeOK
  <2>3. words' \subseteq Submission /\ pages' \in Nat /\ wordless' \in BOOLEAN
    BY <1>1, <1>4 DEF ClientInv, TypeOK
  <2> QED BY <1>1, <1>6, <2>1, <2>2, <2>3 DEF ClientInv, TypeOK
<1>8. Numbered'
  BY <1>1, <1>3 DEF ClientInv, Numbered
<1>9. LinksExist'
  <2>1. CASE "table" \in render.areas
    <3>1. shown'["table"] = {s} /\ table' = render.table /\ pages' = render.pages
      BY <1>1, <1>4, <2>1
    <3>2. ASSUME s.page <= render.pages, NEW l \in render.table.links, l.page > 0
          PROVE  l.page \in 1 .. (IF l.enabled THEN render.pages ELSE render.pages + 1)
      <4>1. l \in PageLinks(s.page, render.pages)
        BY <1>4, <3>2
      <4> QED BY <1>4, <3>2, <4>1, LinksLeadToPages
    <3> QED BY <3>1, <3>2 DEF LinksExist
  <2>2. CASE "table" \notin render.areas
    BY <1>1, <1>4, <2>2 DEF ClientInv, LinksExist
  <2> QED BY <2>1, <2>2
<1>10. RequestedPagesExist'
  BY <1>1 DEF ClientInv, RequestedPagesExist
<1>11. OneAwaited'
  BY <1>1 DEF ClientInv, OneAwaited
<1>12. ShownIsCurrent'
  <2>1. ASSUME ~overlap PROVE s.id = sent /\ inflight = {s}
    BY <2>1 DEF ClientInv, OneAwaited
  <2>2. ASSUME ~overlap, NEW area \in Areas PROVE shown[area] = {}
    BY <2>1, <2>2 DEF ClientInv, ShownIsCurrent
  <2>3. ASSUME ~overlap', NEW area \in Areas, NEW t \in shown'[area]
        PROVE  t.id = sent' /\ inflight' = {}
    <3>1. t = s
      BY <1>1, <1>2, <2>2, <2>3
    <3> QED BY <1>1, <2>1, <2>3, <3>1
  <2>4. ASSUME ~overlap', shown'["text"] # {}, ~wordless'
        PROVE  \E t \in words' : t.id = sent'
    <3>1. "text" \in render.areas
      BY <1>1, <1>4, <2>2, <2>4
    <3>2. words' = {s}
      BY <1>1, <2>4, <3>1
    <3> QED BY <1>1, <2>1, <2>4, <3>2
  <2> QED BY <2>3, <2>4 DEF ShownIsCurrent
<1>13. ButtonFollowsRequests'
  <2>1. ~overlap => inflight' = {}
    BY <1>1 DEF ClientInv, OneAwaited
  <2> QED BY <1>1, <2>1 DEF ButtonFollowsRequests
<1>14. ExportsTheListOnView'
  <2>1. ASSUME ~overlap', NEW t \in shown'["table"] PROVE t.query = current'.query
    <3>1. t.id = sent' /\ Known(t)'
      BY <1>4, <1>12, <2>1 DEF ShownIsCurrent, Known
    <3> QED BY <1>8, <3>1 DEF Numbered
  <2> QED BY <2>1 DEF ExportsTheListOnView, ExportCSV
<1> QED BY <1>6, <1>7, <1>8, <1>9, <1>10, <1>11, <1>12, <1>13, <1>14 DEF ClientInv

\* Steps that leave the requests and what is shown alone.
LEMMA OtherStep ==
    ASSUME ClientInv, TypeOK', fades' \in Nat, fades' <= fades,
           UNCHANGED <<current, disabled, inflight, view, sent, overlap>>
    PROVE  ClientInv'
<1>1. /\ Numbered' /\ LinksExist' /\ RequestedPagesExist' /\ OneAwaited'
      /\ ShownIsCurrent' /\ ButtonFollowsRequests' /\ ExportsTheListOnView'
  BY DEF ClientInv, Numbered, Known, LinksExist, RequestedPagesExist, OneAwaited,
         ShownIsCurrent, ButtonFollowsRequests, ExportsTheListOnView, ExportCSV, view
<1>2. TimersCounted'
  <2>1. Cardinality(inflight) \in Nat /\ sent \in Nat /\ fades \in Nat
    BY FS_CardinalityType DEF ClientInv, TimersCounted, TypeOK
  <2> QED BY <2>1 DEF ClientInv, TimersCounted
<1> QED BY <1>1, <1>2 DEF ClientInv

\* Every step of the page keeps the invariant.
LEMMA ClientStep == ClientInv /\ [Next]_vars => ClientInv'
<1> SUFFICES ASSUME ClientInv, [Next]_vars PROVE ClientInv'
    OBVIOUS
<1>0. fades \in Nat /\ TypeOK
  BY DEF ClientInv, TypeOK
<1>1. CASE User
  <2>1. ASSUME NEW q, NEW n, NEW l,
               SubmitQuery(q, n, l), Typed(q, n, l), LeadsToPage(q, n, l)
        PROVE  ClientInv'
    BY <2>1, SubmitStep
  <2>2. ASSUME NEW q \in Queries, Retype(q) PROVE ClientInv'
    <3>1. TypeOK'
      BY <1>0, <2>2 DEF TypeOK, Retype, view
    <3> QED BY <1>0, <2>2, <3>1, OtherStep DEF Retype
  <2> QED BY <1>1, <2>1, <2>2, UserSteps
<1>2. CASE Browser
  <2>1. ASSUME NEW s \in inflight, NEW render, NEW timers \in {1, 2}, Rendering(s, render),
               RenderResponse(s, render), Settle(s, timers)
        PROVE  ClientInv'
    BY <2>1, RenderStep
  <2>2. CASE Fade
    <3>1. fades' \in Nat /\ fades' <= fades
      BY <1>0, <2>2 DEF Fade
    <3>2. TypeOK'
      <4>1. fades' \in 0 .. 2 * MaxSubmissions
        BY <1>0, <3>1, ClientAssumption DEF TypeOK
      <4> QED BY <1>0, <2>2, <4>1 DEF TypeOK, Fade, view
    <3> QED BY <1>0, <2>2, <3>1, <3>2, OtherStep DEF Fade
  <2> QED BY <1>2, <2>1, <2>2, BrowserSteps
<1>3. CASE UNCHANGED vars
  <2>1. TypeOK'
    BY <1>0, <1>3 DEF TypeOK, vars, view
  <2> QED BY <1>0, <1>3, <2>1, OtherStep DEF vars
<1> QED BY <1>1, <1>2, <1>3 DEF Next

-----------------------------------------------------------------------------
\* The page never shows an answer to anything but the last question, for any
\* queries and any number of them, as long as nobody sends one while another is
\* awaited; the words on view are that answer's too, if it has any.
THEOREM ShownIsCurrentAlways == Spec => []ShownIsCurrent
<1>1. ClientInv => ShownIsCurrent
  BY DEF ClientInv
<1> QED BY ClientInit, ClientStep, <1>1, PTL DEF Spec

\* The search button is never left disabled with nothing awaited.
THEOREM ButtonFollowsRequestsAlways == Spec => []ButtonFollowsRequests
<1>1. ClientInv => ButtonFollowsRequests
  BY DEF ClientInv
<1> QED BY ClientInit, ClientStep, <1>1, PTL DEF Spec

\* The export is of the list that stands over its button, whatever is typed, as long
\* as nobody sends a query while another is awaited.
THEOREM ExportsTheListOnViewAlways == Spec => []ExportsTheListOnView
<1>1. ClientInv => ExportsTheListOnView
  BY DEF ClientInv
<1> QED BY ClientInit, ClientStep, <1>1, PTL DEF Spec

\* The page's variables keep their types; so no more timers are ever set than two for
\* each query that was sent.
THEOREM ClientTypeCorrect == Spec => []TypeOK
<1>1. ClientInv => TypeOK
  BY DEF ClientInv
<1> QED BY ClientInit, ClientStep, <1>1, PTL DEF Spec

\* No page link of a list asks for a page the list does not have, the disabled Next
\* excepted, which asks for the one after the last, for any number of pages and
\* however it varies between requests, unless the list on view is itself a page past
\* the last.
THEOREM RequestedPagesExistAlways == Spec => []RequestedPagesExist
<1>1. ClientInv => RequestedPagesExist
  BY DEF ClientInv
<1> QED BY ClientInit, ClientStep, <1>1, PTL DEF Spec

-----------------------------------------------------------------------------
(* How the page settles *)

\* The steps of the browser that what was asked so far still takes at most: an answer
\* and two timers for each.
Unsettled == 3 * Cardinality(inflight) + fades

\* The panel is visible for a reason: an answer is awaited or a timer will hide it.
PanelFollows == progress => inflight # {} \/ fades > 0

\* A page with nothing to come has its button enabled and its panel hidden.
AtRest == Unsettled = 0 => ~disabled /\ ~progress

\* A submission puts an answer on its way, a response sets a timer, a timer hides the
\* panel.
LEMMA PanelStep == ClientInv /\ PanelFollows /\ [Next]_vars => PanelFollows'
<1> SUFFICES ASSUME ClientInv, PanelFollows, [Next]_vars PROVE PanelFollows'
  OBVIOUS
<1>1. fades \in Nat
  BY DEF ClientInv, TypeOK
<1>2. CASE User
  <2>1. ASSUME NEW q, NEW n, NEW l, SubmitQuery(q, n, l) PROVE PanelFollows'
    BY <2>1 DEF SubmitQuery, PanelFollows
  <2>2. ASSUME NEW q \in Queries, Retype(q) PROVE PanelFollows'
    BY <2>2 DEF Retype, PanelFollows
  <2> QED BY <1>2, <2>1, <2>2, UserSteps
<1>3. CASE Browser
  <2>1. CASE Fade
    BY <2>1 DEF Fade, PanelFollows
  <2>2. ASSUME NEW s \in inflight, NEW timers \in {1, 2}, Settle(s, timers)
        PROVE  PanelFollows'
    BY <1>1, <2>2 DEF Settle, PanelFollows
  <2> QED BY <1>3, <2>1, <2>2, BrowserSteps
<1>4. CASE UNCHANGED vars
  BY <1>4 DEF vars, PanelFollows
<1> QED BY <1>2, <1>3, <1>4 DEF Next

\* Each answer and each timer brings the page nearer to its rest.
LEMMA FewerUnsettled ==
    ASSUME ClientInv, Browser
    PROVE  Unsettled \in Nat /\ Unsettled' \in Nat /\ Unsettled' < Unsettled
<1>1. fades \in Nat /\ IsFiniteSet(inflight) /\ Cardinality(inflight) \in Nat
  BY FS_CardinalityType DEF ClientInv, TypeOK, TimersCounted
<1>2. CASE Fade
  <2>1. fades > 0 /\ fades' = fades - 1 /\ inflight' = inflight
    BY <1>2 DEF Fade
  <2> QED BY <1>1, <2>1 DEF Unsettled
<1>3. ASSUME NEW s \in inflight, NEW timers \in {1, 2}, Settle(s, timers)
      PROVE  Unsettled \in Nat /\ Unsettled' \in Nat /\ Unsettled' < Unsettled
  <2>1. inflight' = inflight \ {s} /\ fades' = fades + timers
    BY <1>3 DEF Settle
  <2>2. IsFiniteSet(inflight') /\ Cardinality(inflight') = Cardinality(inflight) - 1
    BY <1>1, <2>1, FS_RemoveElement
  <2>3. Cardinality(inflight') \in Nat
    BY <2>2, FS_CardinalityType
  <2> QED BY <1>1, <2>1, <2>2, <2>3 DEF Unsettled
<1> QED BY <1>2, <1>3, BrowserSteps

\* The page comes to rest with its button enabled and its panel hidden once every
\* request is answered and every timer has fired, and each answer and each timer
\* brings it there.  PageSettles follows where answers come and nobody asks for more.
THEOREM RestIsReached ==
    Spec => [](Unsettled \in Nat /\ AtRest) /\ [][Browser => Unsettled' < Unsettled]_vars
<1>1. Init => PanelFollows
  BY DEF Init, PanelFollows
<1>2. ClientInv /\ PanelFollows => Unsettled \in Nat /\ AtRest
  <2> SUFFICES ASSUME ClientInv, PanelFollows PROVE Unsettled \in Nat /\ AtRest
    OBVIOUS
  <2>1. fades \in Nat /\ IsFiniteSet(inflight) /\ Cardinality(inflight) \in Nat
    BY FS_CardinalityType DEF ClientInv, TypeOK, TimersCounted
  <2>2. Unsettled \in Nat /\ (Unsettled = 0 => fades = 0 /\ Cardinality(inflight) = 0)
    BY <2>1 DEF Unsettled
  <2>3. Cardinality(inflight) = 0 => inflight = {}
    BY <2>1, FS_EmptySet
  <2> QED BY <2>1, <2>2, <2>3 DEF AtRest, PanelFollows, ClientInv, ButtonFollowsRequests
<1>3. ClientInv /\ [Next]_vars => [Browser => Unsettled' < Unsettled]_vars
  BY FewerUnsettled
<1> QED BY <1>1, <1>2, <1>3, ClientInit, ClientStep, PanelStep, PTL DEF Spec
===============================================================================
