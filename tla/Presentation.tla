----------------------------- MODULE Presentation -----------------------------
(***************************************************************************)
(* What the presentation agent and the composer make of a result, and the  *)
(* areas of the page that renderResponse opens for it.                     *)
(*                                                                         *)
(* An optional value is a set with at most one element.  search_result is  *)
(* [emails, total_count], the number of rows it carries and the count it   *)
(* announces; aggregation is [chart_type, data, summary], with the number  *)
(* of rows and the names of the figures.                                   *)
(***************************************************************************)
EXTENDS FiniteSetsExt

\* An anchor with data-page.  Bootstrap's "disabled" keeps the mouse off it and
\* leaves it to the keyboard.
Link(page, enabled) == [page |-> page, enabled |-> enabled]

\* The numbers among the links: three pages to either side, and the ends.
Numbers(page, total_pages) ==
    LET start == Max({1, page - 3})
        end == Min({total_pages, page + 3})
    IN (start .. end)
       \cup {n \in {1} : start > 1} \cup {n \in {total_pages} : end < total_pages}

\* Mutant of PageLinks: Next is not disabled on the last page.
PageLinksPastEnd(page, total_pages) ==
    IF total_pages <= 1 THEN {}
    ELSE {Link(page - 1, page > 1), Link(page + 1, TRUE)}
         \cup {Link(n, TRUE) : n \in Numbers(page, total_pages)}

\* The links of _render_pagination: Previous, Next and the numbered ones.
PageLinks(page, total_pages) ==
    IF total_pages <= 1 THEN {}
    ELSE {Link(page - 1, page > 1), Link(page + 1, page < total_pages)}
         \cup {Link(n, TRUE) : n \in Numbers(page, total_pages)}

NoTable == [of |-> "nothing", links |-> {}]

Filled(search_result) == {s \in search_result : s.emails > 0}

BuildPresentation(search_result, aggregation, page, total_pages) ==
    [table |->
        IF Filled(search_result) # {}
        THEN [of |-> "emails", links |-> PageLinks(page, total_pages)]
        ELSE IF search_result = {} /\ \E a \in aggregation : a.data > 0
        THEN [of |-> "groups", links |-> {}]
        ELSE NoTable,
     stats_cards |->
        UNION ({{"Total Results", "Query Time"} : s \in Filled(search_result)}
               \cup {a.summary : a \in aggregation}),
     chart_configs |-> {a.chart_type : a \in aggregation} \ {""},
     export_available |-> \E s \in search_result : s.total_count > 0]

\* Mutant of FallbackResponse: it looks at the count only.
FallbackResponseByCount(search_result, aggregation) ==
    IF \A s \in search_result : s.total_count > 0 THEN "found" ELSE "nothing"

\* _fallback_response.
FallbackResponse(search_result, aggregation) ==
    IF \E s \in search_result : s.total_count > 0 THEN "found"
    ELSE IF \E a \in aggregation : a.data > 0 \/ a.summary # {} THEN "analysis"
    ELSE "nothing"

\* The areas a reply with a presentation opens.  That of the text is open whether
\* the reply has words or not.
VisibleAreas(presentation) ==
    {"text"}
    \cup {area \in {"cards"} : presentation.stats_cards # {}}
    \cup {area \in {"charts"} : presentation.chart_configs # {}}
    \cup {area \in {"table"} : presentation.table # NoTable}
==============================================================================
