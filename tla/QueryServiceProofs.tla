-------------------------- MODULE QueryServiceProofs --------------------------
(* What is stored, logged, remembered and shown, for any table, any number of *)
(* requests, any answer of the LLM and any number of failures.                *)
EXTENDS QueryService, TLAPS, FiniteSetTheorems, SequenceTheorems, WellFoundedInduction

-----------------------------------------------------------------------------
(* What the actions write *)

\* What is kept of a request.
Fields == {"pc", "ask", "sessions", "intent", "items", "anchor", "total", "text", "shown",
           "before", "at", "prior"}

\* One record of these fields for each request.
Shaped == DOMAIN req = Requests /\ \A r \in Requests : DOMAIN req[r] = Fields

\* The requests other than r are left alone.
OthersStay(r) == \A s \in Requests : s # r => req'[s] = req[s]

\* Become writes one request.
LEMMA BecomeWrites ==
    ASSUME Shaped, NEW r \in Requests, NEW after, DOMAIN after = Fields, Become(r, after)
    PROVE  Shaped' /\ OthersStay(r) /\ req'[r] = after
BY DEF Become, Shaped, OthersStay

\* A new request has all fields, and no history.
LEMMA BlankShape ==
    DOMAIN BlankRequest = Fields /\ BlankRequest.sessions = <<>>
BY DEF BlankRequest, Fields

\* A step of r that leaves all its fields alone but those.
Writes(r, changed) ==
    /\ Shaped' /\ OthersStay(r)
    /\ \A f \in Fields \ changed : req'[r][f] = req[r][f]

\* Receive gives a request its body.
LEMMA ReceiveWrites ==
    ASSUME Shaped, NEW r \in Requests, Receive(r)
    PROVE  /\ Writes(r, Fields) /\ UNCHANGED <<emails, index, loop, audit, faults>>
           /\ req[r].pc = "new"
           /\ \E ask \in Asks : req'[r] = [BlankRequest EXCEPT !.pc = "body", !.ask = ask]
<1> DEFINE after(ask) == [BlankRequest EXCEPT !.pc = "body", !.ask = ask]
<1>1. PICK ask \in Asks : Become(r, after(ask))
  BY DEF Receive
<1>2. DOMAIN after(ask) = Fields
  BY BlankShape DEF Fields
<1> HIDE DEF after
<1>3. Shaped' /\ OthersStay(r) /\ req'[r] = after(ask)
  BY <1>1, <1>2, BecomeWrites
<1> QED BY <1>3 DEF Receive, Writes, after

\* A request that has come in awaits its body.
LEMMA Receives ==
    ASSUME Shaped, NEW r \in Requests, Receive(r)
    PROVE  /\ Shaped' /\ OthersStay(r) /\ loop' = loop
           /\ req[r].pc = "new" /\ req'[r].pc = "body"
<1>1. PICK ask \in Asks : req'[r] = [BlankRequest EXCEPT !.pc = "body", !.ask = ask]
  BY ReceiveWrites
<1>2. req'[r].pc = "body"
  BY <1>1 DEF BlankRequest
<1> QED BY <1>2, ReceiveWrites DEF Writes

\* Begin looks at the body, and notes the table and the calls that are over.
LEMMA BeginWrites ==
    ASSUME Shaped, NEW r \in Requests, Begin(r)
    PROVE  /\ Writes(r, {"pc", "before", "prior"}) /\ UNCHANGED <<emails, index, audit, faults>>
           /\ req[r].pc = "body" /\ req'[r].pc \in {"refused", "detail", "intent"}
           /\ req'[r].before = emails
           /\ req'[r].prior = {s \in Requests : req[s].pc \in Over}
           /\ loop' \in {None, r}
<1> DEFINE prior == {s \in Requests : req[s].pc \in Over}
           after(pc) == [[req[r] EXCEPT !.before = emails, !.prior = prior] EXCEPT !.pc = pc]
<1>1. (\E pc \in {"refused", "detail", "intent"} : Become(r, after(pc))) /\ loop' \in {None, r}
  BY DEF Begin, Conclude
<1>2. PICK pc \in {"refused", "detail", "intent"} : Become(r, after(pc))
  BY <1>1
<1> HIDE DEF prior
<1>3. /\ DOMAIN after(pc) = Fields /\ after(pc).pc = pc
      /\ after(pc).before = emails /\ after(pc).prior = prior
      /\ \A f \in Fields \ {"pc", "before", "prior"} : after(pc)[f] = req[r][f]
  BY DEF Shaped, Fields
<1> HIDE DEF after
<1>4. Shaped' /\ OthersStay(r) /\ req'[r] = after(pc)
  BY <1>2, <1>3, BecomeWrites
<1>5. req[r].pc = "body" /\ UNCHANGED <<emails, index, audit, faults>>
  BY DEF Begin
<1> QED BY <1>1, <1>3, <1>4, <1>5 DEF Writes, prior

\* An intent sends a request to its first statement or to its end.
LEMMA AnalyzeWrites ==
    ASSUME Shaped, NEW r \in Requests, AnalyzeIntent(r)
    PROVE  /\ Writes(r, {"pc", "intent", "sessions", "text"})
           /\ UNCHANGED <<emails, index, audit, faults>>
           /\ req[r].pc = "intent"
           /\ req'[r].pc \in {"aggregate", "fts", "count", "export", "rejected", "clarified",
                              "failed"}
           /\ req'[r].pc \in {"aggregate", "fts", "count"} =>
                 req'[r].pc = FirstStatement(Plan(r)')
           /\ \E found \in Intents(req[r].ask.query) :
                 req'[r].intent \in {found, Guarded(found, req[r].ask.query)}
           /\ req'[r].sessions \in
                 {req[r].sessions, Remember(req[r].sessions, "assistant_clarification")}
           /\ loop' \in {None, loop}
<1> DEFINE query == req[r].ask.query
           guarded(found) == IF req[r].ask.endpoint = "export" THEN found
                             ELSE Guarded(found, query)
           longer == Remember(req[r].sessions, "assistant_clarification")
           next(found) == [req[r] EXCEPT !.intent = guarded(found)]
           asked(found) == [next(found) EXCEPT
                              !.sessions = Remember(@, "assistant_clarification")]
           rejected(found) == [next(found) EXCEPT !.text = "rejection"]
           first(found) == FirstStatement(BuildQueryPlan(guarded(found), query))
<1>1. /\ loop' \in {None, loop}
      /\ \E found \in Intents(query) :
        \/ Become(r, [next(found) EXCEPT !.pc = "export"])
        \/ Become(r, [rejected(found) EXCEPT !.pc = "rejected"])
        \/ \E pc \in Clarified : Become(r, [asked(found) EXCEPT !.pc = pc])
        \/ Become(r, [next(found) EXCEPT !.pc = first(found)])
  <2> HIDE DEF Intents, Rejected, Guarded, FirstStatement, BuildQueryPlan, Remember, Clarified, query
  <2> QED BY DEF AnalyzeIntent, Proceed, Conclude, guarded, next, asked, rejected, first, query
<1>2. PICK found \in Intents(query) :
        \/ Become(r, [next(found) EXCEPT !.pc = "export"])
        \/ Become(r, [rejected(found) EXCEPT !.pc = "rejected"])
        \/ \E pc \in Clarified : Become(r, [asked(found) EXCEPT !.pc = pc])
        \/ Become(r, [next(found) EXCEPT !.pc = first(found)])
  BY <1>1
<1> DEFINE Keeps(chosen) ==
              /\ DOMAIN chosen = Fields /\ chosen.sessions \in {req[r].sessions, longer}
              /\ chosen.intent = guarded(found)
              /\ \A f \in Fields \ {"pc", "intent", "sessions", "text"} : chosen[f] = req[r][f]
<1>3. Keeps(next(found))
  <2> HIDE DEF guarded, longer
  <2> QED BY DEF Shaped, Fields
<1>4. asked(found).sessions = longer
  <2>1. next(found).sessions = req[r].sessions /\ "sessions" \in DOMAIN next(found)
    BY DEF Shaped, Fields
  <2> HIDE DEF next
  <2> QED BY <2>1
<1>5. Keeps(asked(found)) /\ Keeps(rejected(found))
  <2> HIDE DEF next, longer
  <2> QED BY <1>3, <1>4 DEF Fields
<1> HIDE DEF next, asked, rejected, longer
<1>6. first(found) \in {"aggregate", "fts", "count"} /\ Clarified \subseteq {"clarified", "failed"}
  BY DEF FirstStatement, Clarified
<1>7. guarded(found) \in {found, Guarded(found, query)}
  BY DEF guarded
<1> HIDE DEF first, guarded
<1> DEFINE firsts == {"aggregate", "fts", "count"}
           ends == firsts \cup {"export", "rejected", "clarified", "failed"}
           Done == /\ Writes(r, {"pc", "intent", "sessions", "text"})
                   /\ req'[r].pc \in ends
                   /\ req'[r].pc \in firsts => req'[r].pc = FirstStatement(Plan(r)')
                   /\ req'[r].intent = guarded(found)
                   /\ req'[r].sessions \in {req[r].sessions, longer}
<1>8. ASSUME NEW chosen, Keeps(chosen), NEW pc, Become(r, [chosen EXCEPT !.pc = pc]),
             pc = first(found) \/ pc \in ends \ firsts
      PROVE  Done
  <2> DEFINE after == [chosen EXCEPT !.pc = pc]
  <2>1. /\ DOMAIN after = Fields /\ after.pc = pc /\ after.sessions \in {req[r].sessions, longer}
        /\ after.intent = guarded(found)
        /\ \A f \in Fields \ {"pc", "intent", "sessions", "text"} : after[f] = req[r][f]
    BY <1>8 DEF Fields
  <2>2. Become(r, after)
    BY <1>8
  <2> HIDE DEF after
  <2>3. Shaped' /\ OthersStay(r) /\ req'[r] = after
    BY <2>1, <2>2, BecomeWrites
  <2>4. FirstStatement(Plan(r)') = first(found)
    BY <2>1, <2>3 DEF Plan, first, Fields
  <2> QED BY <1>6, <1>8, <2>1, <2>3, <2>4 DEF Writes
<1>9. {"export", "rejected"} \cup Clarified \subseteq ends \ firsts
  BY <1>6
<1> HIDE DEF Keeps, Done, firsts, ends
<1>10. Done
  <2>1. CASE Become(r, [next(found) EXCEPT !.pc = "export"])
    BY <1>3, <1>8, <1>9, <2>1
  <2>2. CASE Become(r, [rejected(found) EXCEPT !.pc = "rejected"])
    BY <1>5, <1>8, <1>9, <2>2
  <2>3. CASE \E pc \in Clarified : Become(r, [asked(found) EXCEPT !.pc = pc])
    <3>1. PICK pc \in Clarified : Become(r, [asked(found) EXCEPT !.pc = pc])
      BY <2>3
    <3> QED BY <1>5, <1>8, <1>9, <3>1
  <2>4. CASE Become(r, [next(found) EXCEPT !.pc = first(found)])
    BY <1>3, <1>8, <2>4
  <2> QED BY <1>2, <2>1, <2>2, <2>3, <2>4
<1>11. req[r].pc = "intent" /\ UNCHANGED <<emails, index, audit, faults>>
  BY DEF AnalyzeIntent, Holds
<1> QED BY <1>1, <1>7, <1>10, <1>11 DEF longer, firsts, ends, Done

\* A search by words has all its rows at once, by the index or by the fallback.
LEMMA FtsWrites ==
    ASSUME Shaped, NEW r \in Requests, SearchFts(r) \/ SearchLike(r)
    PROVE  /\ Writes(r, {"pc", "items", "anchor", "total", "at"})
           /\ UNCHANGED <<emails, index, audit, loop>>
           /\ req[r].pc = "fts"
           /\ LET words == Plan(r).fts_query
              IN \/ req'[r].items \in SetToSeqs(FtsMatches(emails, index, words))
                    /\ index # {}
                 \/ req'[r].items \in Orders["date_desc"][LikeMatches(emails, words)]
           /\ req'[r].total = Len(req'[r].items)
           /\ req'[r].anchor = Anchor(r, req'[r].items)
           /\ req'[r].at = emails
           /\ req'[r].pc = AfterSearch(r, req'[r].items)
<1> DEFINE words == Plan(r).fts_query
           indexed == SetToSeqs(FtsMatches(emails, index, words))
           liked == Orders["date_desc"][LikeMatches(emails, words)]
           after(i) == [[req[r] EXCEPT !.items = i, !.anchor = Anchor(r, i), !.total = Len(i),
                                       !.at = emails]
                           EXCEPT !.pc = AfterSearch(r, i)]
<1>1. \E i : ((i \in indexed /\ index # {}) \/ i \in liked) /\ Become(r, after(i))
  <2>1. CASE SearchFts(r)
    <3> HIDE DEF indexed
    <3> QED BY <2>1 DEF SearchFts, Holds, Proceed, indexed, words
  <2>2. CASE SearchLike(r)
    <3> HIDE DEF liked
    <3> QED BY <2>2 DEF SearchLike, Holds, Proceed, liked, words
  <2> QED BY <2>1, <2>2
<1>2. PICK i : ((i \in indexed /\ index # {}) \/ i \in liked) /\ Become(r, after(i))
  BY <1>1
<1>3. /\ DOMAIN after(i) = Fields /\ after(i).pc = AfterSearch(r, i) /\ after(i).items = i
      /\ after(i).anchor = Anchor(r, i)
      /\ after(i).total = Len(i) /\ after(i).at = emails
      /\ \A f \in Fields \ {"pc", "items", "anchor", "total", "at"} : after(i)[f] = req[r][f]
  BY DEF Shaped, Fields
<1> HIDE DEF after
<1>4. Shaped' /\ OthersStay(r) /\ req'[r] = after(i)
  BY <1>2, <1>3, BecomeWrites
<1>5. req[r].pc = "fts" /\ UNCHANGED <<emails, index, audit, loop>>
  BY DEF SearchFts, SearchLike, Holds, Proceed
<1> HIDE DEF indexed, liked
<1> QED BY <1>2, <1>3, <1>4, <1>5 DEF Writes, indexed, liked, words

\* SELECT COUNT.
LEMMA CountWrites ==
    ASSUME Shaped, NEW r \in Requests, SearchCount(r)
    PROVE  /\ Writes(r, {"pc", "total"}) /\ UNCHANGED <<emails, index, audit, faults, loop>>
           /\ req[r].pc = "count" /\ req'[r].pc = "page"
           /\ req'[r].total = Cardinality(Selected(emails, Plan(r)))
<1> DEFINE count == Cardinality(Selected(emails, Plan(r)))
           after == [[req[r] EXCEPT !.total = count] EXCEPT !.pc = "page"]
<1>1. Become(r, after)
  BY DEF SearchCount, Proceed
<1> HIDE DEF count
<1>2. /\ DOMAIN after = Fields /\ after.pc = "page" /\ after.total = count
      /\ \A f \in Fields \ {"pc", "total"} : after[f] = req[r][f]
  BY DEF Shaped, Fields
<1> HIDE DEF after
<1>3. Shaped' /\ OthersStay(r) /\ req'[r] = after
  BY <1>1, <1>2, BecomeWrites
<1>4. req[r].pc = "count" /\ UNCHANGED <<emails, index, audit, faults, loop>>
  BY DEF SearchCount, Holds, Proceed
<1> QED BY <1>2, <1>3, <1>4 DEF Writes, count

\* SELECT of a page.
LEMMA PageWrites ==
    ASSUME Shaped, NEW r \in Requests, SearchPageOf(r)
    PROVE  /\ Writes(r, {"pc", "items", "anchor", "at"})
           /\ UNCHANGED <<emails, index, audit, faults, loop>>
           /\ req[r].pc = "page" /\ ~Unanswerable(r)
           /\ \E s \in Orders[Plan(r).sort][Selected(emails, Plan(r))] :
                 req'[r].items = PageOf(s, SearchPage(r), SearchSize(r))
           /\ req'[r].anchor = Anchor(r, req'[r].items)
           /\ req'[r].at = emails
           /\ req'[r].pc = AfterSearch(r, req'[r].items)
<1> DEFINE found == Selected(emails, Plan(r))
           page(s) == PageOf(s, SearchPage(r), SearchSize(r))
           after(i) == [[req[r] EXCEPT !.items = i, !.anchor = Anchor(r, i), !.at = emails]
                           EXCEPT !.pc = AfterSearch(r, i)]
<1>1. \E s \in Orders[Plan(r).sort][found] : Become(r, after(page(s)))
  <2> HIDE DEF found, page
  <2> QED BY DEF SearchPageOf, Holds, Proceed, found, page
<1>2. PICK s \in Orders[Plan(r).sort][found] : Become(r, after(page(s)))
  BY <1>1
<1> HIDE DEF page
<1>3. /\ DOMAIN after(page(s)) = Fields /\ after(page(s)).pc = AfterSearch(r, page(s))
      /\ after(page(s)).items = page(s) /\ after(page(s)).at = emails
      /\ after(page(s)).anchor = Anchor(r, page(s))
      /\ \A f \in Fields \ {"pc", "items", "anchor", "at"} : after(page(s))[f] = req[r][f]
  BY DEF Shaped, Fields
<1> HIDE DEF after
<1>4. Shaped' /\ OthersStay(r) /\ req'[r] = after(page(s))
  BY <1>2, <1>3, BecomeWrites
<1>5. req[r].pc = "page" /\ ~Unanswerable(r) /\ UNCHANGED <<emails, index, audit, faults, loop>>
  BY DEF SearchPageOf, Holds, Proceed
<1> HIDE DEF found
<1> QED BY <1>2, <1>3, <1>4, <1>5 DEF Writes, found, page

\* The rows of the thread of a row.
Thread(a) == {m \in emails : ThreadOf[m] = ThreadOf[a]}

\* The thread of the anchor takes the place of the rows that were found.
LEMMA ThreadWrites ==
    ASSUME Shaped, NEW r \in Requests, LoadThread(r)
    PROVE  /\ Writes(r, {"pc", "items", "total", "at"})
           /\ UNCHANGED <<emails, index, audit, faults, loop>>
           /\ req[r].pc = "thread" /\ req'[r].pc = "stats"
           /\ \E a \in req[r].anchor : req'[r].items \in Orders["date_asc"][Thread(a)]
           /\ req'[r].total = Len(req'[r].items)
           /\ req'[r].at = emails
<1> DEFINE after(i) == [[req[r] EXCEPT !.items = i, !.total = Len(i), !.at = emails]
                           EXCEPT !.pc = "stats"]
<1>1. \E a \in req[r].anchor : \E i \in Orders["date_asc"][Thread(a)] : Become(r, after(i))
  BY DEF LoadThread, Holds, Proceed, Thread
<1>2. PICK a \in req[r].anchor : \E i \in Orders["date_asc"][Thread(a)] : Become(r, after(i))
  BY <1>1
<1>3. PICK i \in Orders["date_asc"][Thread(a)] : Become(r, after(i))
  BY <1>2
<1>4. /\ DOMAIN after(i) = Fields /\ after(i).pc = "stats" /\ after(i).items = i
      /\ after(i).total = Len(i) /\ after(i).at = emails
      /\ \A f \in Fields \ {"pc", "items", "total", "at"} : after(i)[f] = req[r][f]
  BY DEF Shaped, Fields
<1> HIDE DEF after
<1>5. Shaped' /\ OthersStay(r) /\ req'[r] = after(i)
  BY <1>3, <1>4, BecomeWrites
<1>6. req[r].pc = "thread" /\ UNCHANGED <<emails, index, audit, faults, loop>>
  BY DEF LoadThread, Holds, Proceed
<1> QED BY <1>3, <1>4, <1>5, <1>6 DEF Writes

\* The groups, or what raises for want of a label.
LEMMA AggregateWrites ==
    ASSUME Shaped, NEW r \in Requests, Aggregate(r)
    PROVE  /\ Writes(r, {"pc", "total", "at"}) /\ UNCHANGED <<emails, index, audit, faults>>
           /\ req[r].pc = "aggregate" /\ req'[r].at = emails
           /\ \/ req'[r].pc = "failed" /\ req'[r].total = req[r].total
              \/ req'[r].pc = "stats" /\ req'[r].total = Groups(emails, Plan(r))
           /\ loop' \in {None, loop}
<1> DEFINE groups == Groups(emails, Plan(r))
           read == [[req[r] EXCEPT !.at = emails] EXCEPT !.pc = "failed"]
           after == [[req[r] EXCEPT !.total = groups, !.at = emails] EXCEPT !.pc = "stats"]
<1>1. (Become(r, read) \/ Become(r, after)) /\ loop' \in {None, loop}
  <2> HIDE DEF groups
  <2> QED BY DEF Aggregate, Proceed, Conclude, groups
<1> HIDE DEF groups
<1>2. /\ DOMAIN read = Fields /\ read.pc = "failed" /\ read.total = req[r].total
      /\ read.at = emails
      /\ \A f \in Fields \ {"pc", "total", "at"} : read[f] = req[r][f]
  BY DEF Shaped, Fields
<1>3. /\ DOMAIN after = Fields /\ after.pc = "stats" /\ after.total = groups
      /\ after.at = emails
      /\ \A f \in Fields \ {"pc", "total", "at"} : after[f] = req[r][f]
  BY DEF Shaped, Fields
<1> HIDE DEF read, after
<1>4. Shaped' /\ OthersStay(r) /\ req'[r] \in {read, after}
  BY <1>1, <1>2, <1>3, BecomeWrites
<1>5. req[r].pc = "aggregate" /\ UNCHANGED <<emails, index, audit, faults>>
  BY DEF Aggregate, Holds
<1> QED BY <1>1, <1>2, <1>3, <1>4, <1>5 DEF Writes, groups

\* The words and the presentation are made of what was found.
LEMMA PresentWrites ==
    ASSUME Shaped, NEW r \in Requests, Present(r)
    PROVE  /\ Writes(r, {"pc", "text", "shown"}) /\ UNCHANGED <<emails, index, audit, faults>>
           /\ req[r].pc = "stats"
           /\ \/ req'[r].pc = "failed"
              \/ /\ req'[r].pc = "audit"
                 /\ ~Aggregates(r) => Size(r) # 0
                 /\ req'[r].text \in {FallbackResponse(SearchResult(r), Aggregation(r)), "llm"}
                 /\ req'[r].shown = {BuildPresentation(SearchResult(r), Aggregation(r),
                                                       req[r].ask.page, Pages(r))}
           /\ loop' \in {None, loop}
<1> DEFINE said == {FallbackResponse(SearchResult(r), Aggregation(r))}
                   \cup (IF Llm THEN {"llm"} ELSE {})
           shown == {BuildPresentation(SearchResult(r), Aggregation(r), req[r].ask.page, Pages(r))}
           after(text) == [[req[r] EXCEPT !.text = text, !.shown = shown] EXCEPT !.pc = "audit"]
           failed == [req[r] EXCEPT !.pc = "failed"]
<1>1. /\ loop' \in {None, loop}
      /\ \/ Become(r, failed)
         \/ (~Aggregates(r) => Size(r) # 0) /\ \E text \in said : Become(r, after(text))
  <2> HIDE DEF said, shown
  <2> QED BY DEF Present, Proceed, Conclude, said, shown
<1> HIDE DEF shown
<1>2. /\ DOMAIN failed = Fields /\ failed.pc = "failed"
      /\ \A f \in Fields \ {"pc", "text", "shown"} : failed[f] = req[r][f]
  BY DEF Shaped, Fields
<1>3. ASSUME NEW text
      PROVE  /\ DOMAIN after(text) = Fields /\ after(text).pc = "audit"
             /\ after(text).text = text /\ after(text).shown = shown
             /\ \A f \in Fields \ {"pc", "text", "shown"} : after(text)[f] = req[r][f]
  BY DEF Shaped, Fields
<1> HIDE DEF failed, after
<1>4. req[r].pc = "stats" /\ UNCHANGED <<emails, index, audit, faults>>
  BY DEF Present, Holds
<1>5. CASE Become(r, failed)
  <2>1. Shaped' /\ OthersStay(r) /\ req'[r] = failed
    BY <1>2, <1>5, BecomeWrites
  <2> QED BY <1>1, <1>2, <1>4, <2>1 DEF Writes
<1>6. CASE (~Aggregates(r) => Size(r) # 0) /\ \E text \in said : Become(r, after(text))
  <2>1. PICK text \in said : Become(r, after(text))
    BY <1>6
  <2>2. Shaped' /\ OthersStay(r) /\ req'[r] = after(text)
    BY <1>3, <2>1, BecomeWrites
  <2>3. text \in {FallbackResponse(SearchResult(r), Aggregation(r)), "llm"}
    BY <2>1
  <2> QED BY <1>1, <1>3, <1>4, <1>6, <2>2, <2>3 DEF Writes, shown
<1> QED BY <1>1, <1>5, <1>6

\* The entry of the log.
LEMMA LogWrites ==
    ASSUME Shaped, NEW r \in Requests, LogAudit(r)
    PROVE  /\ Writes(r, {"pc", "sessions"}) /\ UNCHANGED <<emails, index, faults, loop>>
           /\ req[r].pc = "audit" /\ req'[r].pc = "reply"
           /\ req'[r].sessions = Remember(req[r].sessions, "user")
           /\ audit' = Append(audit, [request |-> r, count |-> req[r].total])
<1> DEFINE longer == Remember(req[r].sessions, "user")
           after == [[req[r] EXCEPT !.sessions = longer] EXCEPT !.pc = "reply"]
<1>1. Become(r, after)
  BY DEF LogAudit, Proceed
<1> HIDE DEF longer
<1>2. /\ DOMAIN after = Fields /\ after.pc = "reply" /\ after.sessions = longer
      /\ \A f \in Fields \ {"pc", "sessions"} : after[f] = req[r][f]
  BY DEF Shaped, Fields
<1> HIDE DEF after
<1>3. Shaped' /\ OthersStay(r) /\ req'[r] = after
  BY <1>1, <1>2, BecomeWrites
<1>4. /\ req[r].pc = "audit" /\ UNCHANGED <<emails, index, faults, loop>>
      /\ audit' = Append(audit, [request |-> r, count |-> req[r].total])
  BY DEF LogAudit, Holds, Proceed
<1> QED BY <1>2, <1>3, <1>4 DEF Writes, longer

\* The rows of an export.
LEMMA ExportWrites ==
    ASSUME Shaped, NEW r \in Requests, ExportCsv(r)
    PROVE  /\ Writes(r, {"pc", "items", "total", "at"})
           /\ UNCHANGED <<emails, index, audit, faults>>
           /\ req[r].pc = "export" /\ req'[r].pc = "exported"
           /\ req'[r].items \in Orders["date_desc"][Selected(emails, Plan(r))]
           /\ req'[r].total = Len(req'[r].items)
           /\ req'[r].at = emails /\ loop' = None
<1> DEFINE rows == Selected(emails, Plan(r))
           after(i) == [[req[r] EXCEPT !.items = i, !.total = Len(i), !.at = emails]
                           EXCEPT !.pc = "exported"]
<1>1. \E i \in Orders["date_desc"][rows] : Become(r, after(i))
  <2> HIDE DEF rows
  <2> QED BY DEF ExportCsv, Holds, Conclude, rows
<1>2. PICK i \in Orders["date_desc"][rows] : Become(r, after(i))
  BY <1>1
<1>3. /\ DOMAIN after(i) = Fields /\ after(i).pc = "exported" /\ after(i).items = i
      /\ after(i).total = Len(i) /\ after(i).at = emails
      /\ \A f \in Fields \ {"pc", "items", "total", "at"} : after(i)[f] = req[r][f]
  BY DEF Shaped, Fields
<1> HIDE DEF after
<1>4. Shaped' /\ OthersStay(r) /\ req'[r] = after(i)
  BY <1>2, <1>3, BecomeWrites
<1>5. req[r].pc = "export" /\ UNCHANGED <<emails, index, audit, faults>> /\ loop' = None
  BY DEF ExportCsv, Holds, Conclude
<1> HIDE DEF rows
<1> QED BY <1>2, <1>3, <1>4, <1>5 DEF Writes, rows

\* The rows or the figure of a dialog.
LEMMA DetailWrites ==
    ASSUME Shaped, NEW r \in Requests, ReadDetail(r)
    PROVE  /\ Writes(r, {"pc", "items", "total", "at"})
           /\ UNCHANGED <<emails, index, audit, faults>>
           /\ req[r].pc = "detail" /\ req'[r].pc = "served"
           /\ req'[r].items \in Orders["date_asc"][Found(req[r].ask)]
           /\ req'[r].total = Figure(req[r].ask)
           /\ req'[r].at = emails /\ loop' = None
<1> DEFINE rows == Found(req[r].ask)
           figure == Figure(req[r].ask)
           after(i) == [[req[r] EXCEPT !.items = i, !.total = figure, !.at = emails]
                           EXCEPT !.pc = "served"]
<1>1. \E i \in Orders["date_asc"][rows] : Become(r, after(i))
  <2> HIDE DEF rows, figure
  <2> QED BY DEF ReadDetail, Holds, Conclude, rows, figure
<1>2. PICK i \in Orders["date_asc"][rows] : Become(r, after(i))
  BY <1>1
<1> HIDE DEF figure
<1>3. /\ DOMAIN after(i) = Fields /\ after(i).pc = "served" /\ after(i).items = i
      /\ after(i).total = figure /\ after(i).at = emails
      /\ \A f \in Fields \ {"pc", "items", "total", "at"} : after(i)[f] = req[r][f]
  BY DEF Shaped, Fields
<1> HIDE DEF after
<1>4. Shaped' /\ OthersStay(r) /\ req'[r] = after(i)
  BY <1>2, <1>3, BecomeWrites
<1>5. req[r].pc = "detail" /\ UNCHANGED <<emails, index, audit, faults>> /\ loop' = None
  BY DEF ReadDetail, Holds, Conclude
<1> HIDE DEF rows
<1> QED BY <1>2, <1>3, <1>4, <1>5 DEF Writes, rows, figure

\* The reply, and what raises.
LEMMA EndWrites ==
    ASSUME Shaped, NEW r \in Requests, Respond(r) \/ SearchRaises(r) \/ StatementFails(r)
    PROVE  /\ Writes(r, {"pc"}) /\ UNCHANGED <<emails, index, audit>> /\ loop' = None
           /\ \/ Respond(r) /\ req[r].pc = "reply" /\ req'[r].pc = "answered"
              \/ ~Respond(r) /\ req[r].pc \in Statements /\ req'[r].pc \in {"failed", "served"}
                 /\ (req'[r].pc = "served" => req[r].ask.endpoint = "health")
<1> DEFINE after(pc) == [req[r] EXCEPT !.pc = pc]
<1>1. /\ UNCHANGED <<emails, index, audit>> /\ loop' = None
      /\ \/ Respond(r) /\ req[r].pc = "reply" /\ Become(r, after("answered"))
         \/ ~Respond(r) /\ req[r].pc \in Statements
            /\ \/ Become(r, after("failed"))
               \/ Become(r, after("served")) /\ req[r].ask.endpoint = "health"
  BY DEF Respond, SearchRaises, StatementFails, Conclude, Holds, Statements
<1>2. ASSUME NEW pc
      PROVE  /\ DOMAIN after(pc) = Fields /\ after(pc).pc = pc
             /\ \A f \in Fields \ {"pc"} : after(pc)[f] = req[r][f]
  BY DEF Shaped, Fields
<1> HIDE DEF after
<1>3. ASSUME NEW pc, Become(r, after(pc))
      PROVE  Writes(r, {"pc"}) /\ req'[r].pc = pc
  <2>1. Shaped' /\ OthersStay(r) /\ req'[r] = after(pc)
    BY <1>2, <1>3, BecomeWrites
  <2> QED BY <1>2, <2>1 DEF Writes
<1> QED BY <1>1, <1>3

\* A restart changes nothing of a request but where it is.
LEMMA RestartWrites ==
    ASSUME Shaped, Restart
    PROVE  /\ Shaped' /\ UNCHANGED <<emails, index, audit>> /\ loop' = None
           /\ \A r \in Requests :
                 /\ \A f \in Fields \ {"pc"} : req'[r][f] = req[r][f]
                 /\ \/ req'[r] = req[r]
                    \/ req[r].pc \in {"body"} \cup Working /\ req'[r].pc = "lost"
<1> DEFINE lost(r) == [req[r] EXCEPT !.pc = "lost"]
<1>1. ASSUME NEW r \in Requests
      PROVE  /\ DOMAIN lost(r) = Fields /\ lost(r).pc = "lost"
             /\ \A f \in Fields \ {"pc"} : lost(r)[f] = req[r][f]
  BY DEF Shaped, Fields
<1>2. req' = [r \in Requests |->
                IF req[r].pc \in {"body"} \cup Working THEN lost(r) ELSE req[r]]
  BY DEF Restart
<1>3. UNCHANGED <<emails, index, audit>> /\ loop' = None
  BY DEF Restart
<1> HIDE DEF lost
<1> QED BY <1>1, <1>2, <1>3 DEF Shaped

\* What is asked stays the same while rows are read.
LEMMA SamePlan ==
    ASSUME Shaped, NEW r \in Requests, NEW changed, Writes(r, changed),
           {"ask", "intent"} \cap changed = {}
    PROVE  /\ Plan(r)' = Plan(r) /\ Size(r)' = Size(r)
           /\ SearchPage(r)' = SearchPage(r) /\ SearchSize(r)' = SearchSize(r)
           /\ Aggregates(r)' = Aggregates(r) /\ IsThreadView(r)' = IsThreadView(r)
<1>1. req'[r].ask = req[r].ask /\ req'[r].intent = req[r].intent
  BY DEF Writes, Fields
<1>2. Plan(r)' = Plan(r)
  BY <1>1 DEF Plan
<1>3. IsThreadView(r)' = IsThreadView(r)
  BY <1>2 DEF IsThreadView
<1>4. Size(r)' = Size(r)
  BY <1>1, <1>2 DEF Size
<1> QED BY <1>1, <1>2, <1>3, <1>4 DEF SearchPage, SearchSize, Aggregates

-----------------------------------------------------------------------------
(* How a request goes on *)

\* Where a call is that has not logged its search.
Unlogged == {"intent"} \cup Statements
\* Where a step may bring such a call that does not log it.
Elsewhere == {"aggregate", "fts", "count", "page", "thread", "stats", "audit", "export"}
             \cup (Over \ {"answered", "lost"})

\* A step that brings a call from the one to the other.
Advances(r) ==
    /\ Shaped' /\ OthersStay(r)
    /\ req[r].pc \in Unlogged
    /\ req'[r].pc \in Elsewhere

\* Every step of a call that has not logged its search, but the log itself, advances it.
LEMMA Advancing ==
    ASSUME Shaped, NEW r \in Requests, Work(r) \/ StatementFails(r),
           ~LogAudit(r), ~Respond(r)
    PROVE  Advances(r)
<1> DEFINE starts == {"intent", "fts", "count", "page", "thread", "aggregate", "stats", "export",
                      "detail"}
           ends == {"aggregate", "fts", "count", "page", "thread", "stats", "audit", "export",
                    "rejected", "clarified", "failed", "exported", "served"}
<1>1. starts \subseteq Unlogged /\ Statements \subseteq Unlogged /\ ends \subseteq Elsewhere
  BY DEF Unlogged, Statements, Elsewhere, Over
<1>2. ASSUME NEW changed, Writes(r, changed), req[r].pc \in starts \cup Statements,
             req'[r].pc \in ends
      PROVE  Advances(r)
  <2> HIDE DEF starts, ends
  <2> QED BY <1>1, <1>2 DEF Advances, Writes
<1>3. \A items : AfterSearch(r, items) \in {"thread", "stats"}
  BY DEF AfterSearch
<1>4. CASE AnalyzeIntent(r)
  <2>1. /\ Writes(r, {"pc", "intent", "sessions", "text"}) /\ req[r].pc = "intent"
        /\ req'[r].pc \in {"aggregate", "fts", "count", "export", "rejected", "clarified",
                           "failed"}
    BY <1>4, AnalyzeWrites
  <2> QED BY <1>2, <2>1
<1>5. CASE SearchFts(r) \/ SearchLike(r)
  BY <1>2, <1>3, <1>5, FtsWrites
<1>6. CASE SearchCount(r)
  BY <1>2, <1>6, CountWrites
<1>7. CASE SearchPageOf(r)
  BY <1>2, <1>3, <1>7, PageWrites
<1>8. CASE SearchRaises(r) \/ StatementFails(r)
  BY <1>2, <1>8, EndWrites
<1>9. CASE LoadThread(r)
  BY <1>2, <1>9, ThreadWrites
<1>10. CASE Aggregate(r)
  BY <1>2, <1>10, AggregateWrites
<1>11. CASE Present(r)
  BY <1>2, <1>11, PresentWrites
<1>12. CASE ExportCsv(r)
  BY <1>2, <1>12, ExportWrites
<1>13. CASE ReadDetail(r)
  BY <1>2, <1>13, DetailWrites
<1> QED BY <1>4, <1>5, <1>6, <1>7, <1>8, <1>9, <1>10, <1>11, <1>12, <1>13 DEF Work

-----------------------------------------------------------------------------
(* The log *)

\* The entries of a request in the log.
Entries(r) == {i \in DOMAIN audit : audit[i].request = r}

\* Only calls that have logged their search are in the log, once, and what they go
\* on to show is what they logged.
AuditInv ==
    /\ Shaped
    /\ audit \in Seq({audit[i] : i \in DOMAIN audit})
    /\ \A r \in Requests :
          /\ Entries(r) # {} => req[r].pc \in {"reply", "answered", "lost"}
          /\ req[r].pc \in {"reply", "answered"} =>
                \E i \in Entries(r) : Entries(r) = {i} /\ audit[i].count = req[r].total

\* At the start nothing is logged and nobody is answered.
LEMMA AuditInit == Init => AuditInv
<1>1. BlankRequest.pc = "new" /\ DOMAIN BlankRequest = Fields
  BY DEF BlankRequest, Fields
<1> QED BY <1>1 DEF Init, AuditInv, Shaped, Entries

\* A call that has not logged its search and goes on without logging it.
LEMMA AuditFrame ==
    ASSUME AuditInv, Shaped', UNCHANGED audit,
           \A r \in Requests :
              \/ req'[r] = req[r]
              \/ req[r].pc \notin {"reply", "answered", "lost"}
                 /\ req'[r].pc \notin {"reply", "answered"}
              \/ req'[r].pc = "lost"
              \/ req[r].pc = "reply" /\ req'[r].pc = "answered"
                 /\ req'[r].total = req[r].total
    PROVE  AuditInv'
<1>1. \A r \in Requests : Entries(r)' = Entries(r)
  BY DEF Entries
<1>2. ASSUME NEW r \in Requests
      PROVE  /\ Entries(r) # {} => req'[r].pc \in {"reply", "answered", "lost"}
             /\ req'[r].pc \in {"reply", "answered"} =>
                   \E i \in Entries(r) : Entries(r) = {i} /\ audit[i].count = req'[r].total
  BY DEF AuditInv
<1> QED BY <1>1, <1>2 DEF AuditInv

\* An entry at the end of the log is the only one of its call.
LEMMA AuditEntry ==
    ASSUME AuditInv, NEW r \in Requests, LogAudit(r)
    PROVE  AuditInv'
<1> DEFINE e == [request |-> r, count |-> req[r].total]
           S == {audit[i] : i \in DOMAIN audit}
           n == Len(audit)
<1>1. /\ Shaped' /\ OthersStay(r)
      /\ req[r].pc = "audit" /\ req'[r].pc = "reply"
      /\ req'[r].total = req[r].total
      /\ audit' = Append(audit, e)
  BY LogWrites DEF AuditInv, Writes, Fields
<1>2. e.request = r /\ e.count = req[r].total
  OBVIOUS
<1>3. audit \in Seq(S)
  BY DEF AuditInv
<1>4. audit \in Seq(S \cup {e})
  <2>1. n \in Nat /\ DOMAIN audit = 1..n /\ audit = [i \in 1..n |-> audit[i]]
    BY <1>3
  <2>2. \A i \in 1..n : audit[i] \in S \cup {e}
    BY <2>1
  <2> QED BY <2>1, <2>2
<1> HIDE DEF e, S
<1>5. /\ n \in Nat /\ DOMAIN audit = 1..n
      /\ audit' \in Seq(S \cup {e}) /\ DOMAIN audit' = 1..(n + 1)
      /\ audit'[n + 1] = e
      /\ \A i \in 1..n : audit'[i] = audit[i]
  BY <1>1, <1>4
<1> HIDE DEF n
<1>6. audit' \in Seq({audit'[i] : i \in DOMAIN audit'})
  <2>1. audit' = [i \in 1..(n + 1) |-> audit'[i]]
    BY <1>5
  <2> DEFINE T == {audit'[i] : i \in DOMAIN audit'}
  <2>2. \A i \in 1..(n + 1) : audit'[i] \in T
    BY <1>5
  <2> HIDE DEF T
  <2>3. n + 1 \in Nat
    BY <1>5
  <2>4. audit' \in Seq(T)
    BY <2>1, <2>2, <2>3
  <2> QED BY <2>4 DEF T
<1>7. Entries(r) = {}
  BY <1>1 DEF AuditInv
<1>8. Entries(r)' = {n + 1}
  BY <1>2, <1>5, <1>7 DEF Entries
<1>9. ASSUME NEW s \in Requests, s # r PROVE Entries(s)' = Entries(s)
  BY <1>2, <1>5, <1>9 DEF Entries
<1>10. audit'[n + 1].count = req'[r].total
  BY <1>1, <1>2, <1>5
<1>11. ASSUME NEW s \in Requests
       PROVE  /\ Entries(s)' # {} => req'[s].pc \in {"reply", "answered", "lost"}
              /\ req'[s].pc \in {"reply", "answered"} =>
                    \E i \in Entries(s)' : Entries(s)' = {i} /\ audit'[i].count = req'[s].total
  <2>1. CASE s = r
    BY <1>1, <1>8, <1>10, <2>1
  <2>2. CASE s # r
    <3>1. req'[s] = req[s] /\ Entries(s)' = Entries(s)
      BY <1>1, <1>9, <2>2 DEF OthersStay
    <3>2. \A i \in Entries(s) : audit'[i] = audit[i]
      BY <1>5 DEF Entries
    <3> QED BY <3>1, <3>2 DEF AuditInv
  <2> QED BY <2>1, <2>2
<1> QED BY <1>1, <1>6, <1>11 DEF AuditInv

\* Only the call that logs adds an entry, its first, and goes on to its reply.
LEMMA AuditStep == AuditInv /\ [Next]_vars => AuditInv'
<1> SUFFICES ASSUME AuditInv, [Next]_vars PROVE AuditInv'
  OBVIOUS
<1>0. Shaped
  BY DEF AuditInv
<1>1. ASSUME NEW r \in Requests, Receive(r) \/ Begin(r) PROVE AuditInv'
  <2>1. /\ Shaped' /\ OthersStay(r) /\ UNCHANGED audit
        /\ req[r].pc \in {"new", "body"}
        /\ req'[r].pc \in {"body", "refused", "detail", "intent"}
    <3>1. CASE Receive(r)
      <4>1. /\ Writes(r, Fields) /\ UNCHANGED audit /\ req[r].pc = "new"
            /\ \E ask \in Asks : req'[r] = [BlankRequest EXCEPT !.pc = "body", !.ask = ask]
        BY <1>0, <3>1, ReceiveWrites
      <4>2. req'[r].pc = "body"
        BY <4>1 DEF BlankRequest
      <4> QED BY <4>1, <4>2 DEF Writes
    <3>2. CASE Begin(r)
      BY <1>0, <3>2, BeginWrites DEF Writes
    <3> QED BY <1>1, <3>1, <3>2
  <2> QED BY <2>1, AuditFrame DEF OthersStay
<1>2. ASSUME NEW r \in Requests, Work(r) \/ StatementFails(r) PROVE AuditInv'
  <2>1. CASE LogAudit(r)
    BY <2>1, AuditEntry
  <2>2. CASE Respond(r)
    <3>1. /\ Shaped' /\ OthersStay(r) /\ UNCHANGED audit
          /\ req[r].pc = "reply" /\ req'[r].pc = "answered"
          /\ req'[r].total = req[r].total
      BY <1>0, <2>2, EndWrites DEF Writes, Fields
    <3> QED BY <3>1, AuditFrame DEF OthersStay
  <2>3. CASE ~LogAudit(r) /\ ~Respond(r)
    <3>1. UNCHANGED audit
      BY <1>2, <2>3 DEF Work, AnalyzeIntent, SearchFts, SearchLike, SearchCount, SearchPageOf,
         SearchRaises, LoadThread, Aggregate, Present, ExportCsv, ReadDetail, StatementFails
    <3>2. Advances(r)
      BY <1>0, <1>2, <2>3, Advancing
    <3>3. /\ req[r].pc \notin {"reply", "answered", "lost"}
          /\ req'[r].pc \notin {"reply", "answered"}
      BY <3>2 DEF Advances, Unlogged, Statements, Elsewhere, Over
    <3> QED BY <3>1, <3>2, <3>3, AuditFrame DEF Advances, OthersStay
  <2> QED BY <2>1, <2>2, <2>3
<1>3. CASE Restart
  <2>1. Shaped' /\ UNCHANGED audit /\ \A r \in Requests : req'[r] = req[r] \/ req'[r].pc = "lost"
    BY <1>0, <1>3, RestartWrites
  <2> QED BY <2>1, AuditFrame
<1>4. CASE UNCHANGED <<req, audit>>
  BY <1>0, <1>4, AuditFrame DEF Shaped
<1> QED BY <1>1, <1>2, <1>3, <1>4 DEF Next, IngestRow, DropIndex, CreateIndex, vars

\* Nobody sees results that are not in the audit log, once and with the count that
\* was shown, however many calls fail and servers die.
THEOREM AuditedOnceAlways == Spec => []AuditedOnce
<1>1. AuditInv => AuditedOnce
  <2> SUFFICES ASSUME AuditInv, NEW r \in Requests
               PROVE  LET entries == {i \in DOMAIN audit : audit[i].request = r}
                      IN /\ Answered(r) => \E i \in entries :
                                entries = {i} /\ audit[i].count = req[r].total
                         /\ entries # {} => Answered(r) \/ req[r].pc \in {"reply", "lost"}
    BY DEF AuditedOnce
  <2> QED BY DEF AuditInv, Entries, Answered
<1> QED BY <1>1, AuditInit, AuditStep, PTL DEF Spec

-----------------------------------------------------------------------------
(* The rows a statement may return *)

\* A listing of rows is a listing of all of them.
LEMMA ListingRows ==
    ASSUME NEW rows, rows \subseteq Mail, NEW s \in SetToSeqs(rows)
    PROVE  s \in Seq(rows) /\ Range(s) = rows
<1> DEFINE n == Cardinality(rows)
<1>1. IsFiniteSet(rows) /\ n \in Nat
  BY FS_Subset, FS_CardinalityType, AskAssumption DEF AskAssumption
<1>2. s \in [1..n -> rows] /\ \A i, j \in 1..n : i # j => s[i] # s[j]
  BY DEF SetToSeqs
<1>3. IsFiniteSet(1..n) /\ Cardinality(1..n) = n
  BY <1>1, FS_Interval
<1>4. s \in Injection(1..n, rows)
  BY <1>2 DEF Injection, IsInjective
<1>5. s \in Surjection(1..n, rows)
  BY <1>1, <1>3, <1>4, FS_Injection
<1>6. \A m \in rows : \E i \in 1..n : s[i] = m
  BY <1>5 DEF Surjection
<1> QED BY <1>1, <1>2, <1>6 DEF Range

\* A list in an order has the rows it is a list of, and no others.
LEMMA OrderedRows ==
    ASSUME NEW rows, rows \subseteq Mail, NEW sort \in SortOrders, NEW s \in Orders[sort][rows]
    PROVE  s \in Seq(rows) /\ Range(s) = rows
<1>1. s \in SetToSeqs(rows)
  BY DEF Orders
<1> QED BY <1>1, ListingRows

\* A list has its rows once each.
LEMMA ListLength ==
    ASSUME NEW rows, rows \subseteq Mail, NEW s \in SetToSeqs(rows)
    PROVE  Len(s) = Cardinality(rows) /\ Cardinality(rows) \in Nat
<1>1. IsFiniteSet(rows) /\ Cardinality(rows) \in Nat
  BY FS_Subset, FS_CardinalityType, AskAssumption DEF AskAssumption
<1> QED BY <1>1 DEF SetToSeqs

\* The least of two numbers.
LEMMA MinOfTwo ==
    ASSUME NEW a \in Int, NEW b \in Int
    PROVE  Min({a, b}) = IF a <= b THEN a ELSE b
<1> DEFINE m == IF a <= b THEN a ELSE b
<1>1. m \in {a, b} /\ \A y \in {a, b} : m <= y
  OBVIOUS
<1>2. \A x \in {a, b} : (\A y \in {a, b} : x <= y) => x = m
  OBVIOUS
<1> QED BY <1>1, <1>2 DEF Min

\* The greatest of two numbers.
LEMMA MaxOfTwo ==
    ASSUME NEW a \in Int, NEW b \in Int
    PROVE  Max({a, b}) = IF a >= b THEN a ELSE b
<1> DEFINE m == IF a >= b THEN a ELSE b
<1>1. m \in {a, b} /\ \A y \in {a, b} : m >= y
  OBVIOUS
<1>2. \A x \in {a, b} : (\A y \in {a, b} : x >= y) => x = m
  OBVIOUS
<1> QED BY <1>1, <1>2 DEF Max

\* A product grows by one factor, and with the other factor.
LEMMA NextProduct ==
    ASSUME NEW n \in Int, NEW size \in Nat
    PROVE  n * size \in Int /\ n * size = (n - 1) * size + size
OBVIOUS

\* A later page does not begin before an earlier one.
LEMMA ProductsGrow ==
    ASSUME NEW i \in Int, NEW j \in Int, i <= j, NEW size \in Nat
    PROVE  i * size <= j * size
<1>1. (j - i) \in Nat /\ (j - i) * size \in Nat
  OBVIOUS
<1>2. j * size = i * size + (j - i) * size
  OBVIOUS
<1>3. i * size \in Int /\ j * size \in Int
  OBVIOUS
<1> QED BY <1>1, <1>2, <1>3

\* The rows of a page, by their places in the list.
LEMMA PagePlaces ==
    ASSUME NEW S, NEW s \in Seq(S), NEW page \in Nat \ {0}, NEW size \in Nat
    PROVE  LET p == PageOf(s, page, size)
               lo == (page - 1) * size
               hi == IF page * size <= Len(s) THEN page * size ELSE Len(s)
           IN /\ p \in Seq(Range(s))
              /\ Len(p) = IF lo < hi THEN hi - lo ELSE 0
              /\ \A k \in 1..Len(p) : p[k] = s[lo + k]
<1> DEFINE lo == (page - 1) * size
           full == page * size
           hi == IF full <= Len(s) THEN full ELSE Len(s)
           p == PageOf(s, page, size)
<1>1. lo \in Nat /\ full \in Nat
  <2>1. page - 1 \in Nat
    OBVIOUS
  <2> QED BY <2>1
<1>2. Len(s) \in Nat /\ DOMAIN s = 1..Len(s) /\ hi \in Nat /\ hi <= Len(s)
  BY <1>1
<1>3. Min({full, Len(s)}) = hi
  BY <1>1, <1>2, MinOfTwo
<1>4. p = SubSeq(s, lo + 1, hi)
  BY <1>3 DEF PageOf
<1> HIDE DEF lo, full, hi, p
<1>5. \A k \in (lo + 1)..hi : s[k] \in Range(s)
  BY <1>1, <1>2 DEF Range
<1>6. /\ p \in Seq(Range(s))
      /\ Len(p) = IF lo + 1 <= hi THEN hi - (lo + 1) + 1 ELSE 0
      /\ \A k \in 1..(hi - (lo + 1) + 1) : p[k] = s[(lo + 1) + k - 1]
  <2>1. lo + 1 \in Int /\ hi \in Int
    BY <1>1, <1>2
  <2> DEFINE T == Range(s)
  <2>2. \A k \in (lo + 1)..hi : s[k] \in T
    BY <1>5
  <2> HIDE DEF T
  <2>3. /\ SubSeq(s, lo + 1, hi) \in Seq(T)
        /\ Len(SubSeq(s, lo + 1, hi)) = IF lo + 1 <= hi THEN hi - (lo + 1) + 1 ELSE 0
        /\ \A k \in 1..(hi - (lo + 1) + 1) : SubSeq(s, lo + 1, hi)[k] = s[(lo + 1) + k - 1]
    BY <2>1, <2>2, SubSeqProperties, SMTT(30)
  <2> QED BY <1>4, <2>3 DEF T
<1>7. Len(p) = IF lo < hi THEN hi - lo ELSE 0
  BY <1>1, <1>2, <1>6
<1>8. ASSUME NEW k \in 1..Len(p) PROVE p[k] = s[lo + k]
  <2>1. k \in Int /\ k \in 1..(hi - (lo + 1) + 1) /\ (lo + 1) + k - 1 = lo + k
    BY <1>1, <1>2, <1>7
  <2> QED BY <1>6, <2>1
<1> QED BY <1>6, <1>7, <1>8 DEF lo, full, hi, p

\* A row is on a page when its place is.
LEMMA PlaceOnPage ==
    ASSUME NEW S, NEW s \in Seq(S), NEW page \in Nat \ {0}, NEW size \in Nat, NEW m
    PROVE  m \in Range(PageOf(s, page, size)) <=>
             \E a \in 1..Len(s) : s[a] = m /\ (page - 1) * size < a /\ a <= page * size
<1> DEFINE lo == (page - 1) * size
           full == page * size
           hi == IF full <= Len(s) THEN full ELSE Len(s)
           p == PageOf(s, page, size)
<1>1. lo \in Nat /\ full \in Nat /\ Len(s) \in Nat
  <2>1. page - 1 \in Nat
    OBVIOUS
  <2> QED BY <2>1
<1>2. /\ p \in Seq(Range(s))
      /\ Len(p) = IF lo < hi THEN hi - lo ELSE 0
      /\ \A k \in 1..Len(p) : p[k] = s[lo + k]
  BY PagePlaces
<1> HIDE DEF lo, full, p
<1>3. DOMAIN p = 1..Len(p)
  BY <1>2
<1>4. ASSUME NEW k \in 1..Len(p), p[k] = m
      PROVE  \E a \in 1..Len(s) : s[a] = m /\ lo < a /\ a <= full
  <2>1. lo + k \in 1..Len(s) /\ lo < lo + k /\ lo + k <= full
    BY <1>1, <1>2
  <2> QED BY <1>2, <1>4, <2>1
<1>5. ASSUME NEW a \in 1..Len(s), s[a] = m, lo < a, a <= full
      PROVE  \E k \in 1..Len(p) : p[k] = m
  <2>1. a - lo \in 1..Len(p) /\ lo + (a - lo) = a
    BY <1>1, <1>2, <1>5
  <2> QED BY <1>2, <1>5, <2>1
<1>6. m \in Range(p) <=> \E k \in 1..Len(p) : p[k] = m
  BY <1>3 DEF Range
<1> QED BY <1>4, <1>5, <1>6 DEF lo, full, p

\* The rows of a page are rows of the list.
LEMMA PageRows ==
    ASSUME NEW S, NEW s \in Seq(S), NEW page \in Nat \ {0}, NEW size \in Nat
    PROVE  Range(PageOf(s, page, size)) \subseteq Range(s)
<1>1. DOMAIN s = 1..Len(s)
  OBVIOUS
<1>2. ASSUME NEW m \in Range(PageOf(s, page, size)) PROVE m \in Range(s)
  <2>1. PICK a \in 1..Len(s) : s[a] = m
    BY PlaceOnPage
  <2> QED BY <1>1, <2>1 DEF Range
<1> QED BY <1>2

\* The pages announced are as many as the rows need.
LEMMA PagesSuffice ==
    ASSUME NEW total \in Nat, NEW size \in Nat \ {0}, NEW n \in Nat,
           TotalPages(total, size) <= n
    PROVE  total <= n * size
<1> DEFINE q == (total + size - 1) \div size
<1>1. q \in Int /\ total + size - 1 \in Int
  OBVIOUS
<1>2. total + size - 1 < (q + 1) * size
  OBVIOUS
<1>3. TotalPages(total, size) = IF 1 >= q THEN 1 ELSE q
  BY <1>1, MaxOfTwo DEF TotalPages
<1> HIDE DEF q
<1>4. q <= n
  BY <1>1, <1>3
<1>5. q * size <= n * size
  BY <1>1, <1>4, ProductsGrow
<1>6. (q + 1) * size = q * size + size
  BY <1>1
<1>7. q * size \in Int /\ n * size \in Int
  BY <1>1
<1> QED BY <1>2, <1>5, <1>6, <1>7

\* A page that is announced begins before the rows end.
LEMMA PageBegins ==
    ASSUME NEW total \in Nat \ {0}, NEW size \in Nat \ {0},
           NEW page \in 1..TotalPages(total, size)
    PROVE  (page - 1) * size < total
<1> DEFINE q == (total + size - 1) \div size
<1>1. q \in Int /\ total + size - 1 \in Int
  OBVIOUS
<1>2. q * size <= total + size - 1
  OBVIOUS
<1>3. TotalPages(total, size) = IF 1 >= q THEN 1 ELSE q
  BY <1>1, MaxOfTwo DEF TotalPages
<1>4. q >= 1
  <2>1. 1 * size <= total + size - 1
    OBVIOUS
  <2> QED BY <2>1
<1> HIDE DEF q
<1>5. page \in Int /\ page - 1 <= q - 1
  BY <1>1, <1>3, <1>4
<1>6. (page - 1) * size <= (q - 1) * size
  BY <1>1, <1>5, ProductsGrow
<1>7. (q - 1) * size = q * size - size
  BY <1>1
<1>8. q * size \in Int /\ (page - 1) * size \in Int
  BY <1>1, <1>5
<1> QED BY <1>2, <1>6, <1>7, <1>8

-----------------------------------------------------------------------------
(* The places of rows in a list *)

\* A non-empty set of numbers has a least element.
LEMMA LeastNumber ==
    ASSUME NEW S, S \subseteq Nat, S # {}
    PROVE  \E x \in S : \A y \in S : x <= y
<1> DEFINE R == OpToRel(<, Nat)
<1>1. \A x, y \in Nat : y < x => <<y, x>> \in R
  BY DEF OpToRel
<1>2. IsWellFoundedOn(R, Nat)
  BY NatLessThanWellFounded
<1> HIDE DEF R
<1>3. PICK x \in S : \A y \in S : ~(<<y, x>> \in R)
  BY <1>2, WFMin
<1>4. ASSUME NEW y \in S PROVE x <= y
  <2>1. x \in Nat /\ y \in Nat /\ ~(y < x)
    BY <1>1, <1>3
  <2> QED BY <2>1
<1> QED BY <1>3, <1>4

\* What holds first and is passed on holds along a reading.
LEMMA AlongReading ==
    ASSUME NEW n \in Nat, NEW k \in 1..n, NEW T,
           k \in T, \A i \in k..(n - 1) : i \in T => i + 1 \in T
    PROVE  k..n \subseteq T
<1> DEFINE S == {i \in k..n : i \notin T}
<1>1. SUFFICES ASSUME S # {} PROVE FALSE
  OBVIOUS
<1>2. S \subseteq Nat
  OBVIOUS
<1>3. PICK x \in S : \A y \in S : x <= y
  BY <1>1, <1>2, LeastNumber
<1>4. x \in k..n /\ x # k
  BY <1>3
<1>5. x - 1 \in k..(n - 1) /\ ~(x <= x - 1)
  BY <1>4
<1>6. x - 1 \in T
  BY <1>3, <1>5
<1> QED BY <1>3, <1>5, <1>6

\* x comes before y wherever both are listed.
Before(sort, x, y) ==
    /\ StampOf[x] # NoDate
    /\ StampOf[y] # NoDate =>
          IF sort = "date_asc" THEN StampOf[x] < StampOf[y] ELSE StampOf[x] > StampOf[y]

\* The rows up to m.
UpTo(sort, rows, m) == {x \in rows : x = m \/ Before(sort, x, m)}

\* Of two rows one at most comes before the other.
LEMMA BeforeOneWay ==
    ASSUME NEW sort, NEW x \in Mail, NEW y \in Mail, Before(sort, x, y)
    PROVE  x # y /\ ~Before(sort, y, x)
<1>1. StampOf[x] \in Nat \cup {NoDate} /\ StampOf[y] \in Nat \cup {NoDate}
  BY SearchAssumption DEF SearchAssumption
<1>2. NoDate = -1
  BY DEF NoDate
<1> QED BY <1>1, <1>2 DEF Before

\* Rows with each a date of its own are listed in one order only: the place of a
\* row is the number of rows up to it.
LEMMA PlaceOfRow ==
    ASSUME NEW rows, rows \subseteq Mail, Untied(rows),
           NEW sort \in SortOrders, NEW s \in Orders[sort][rows], NEW a \in DOMAIN s
    PROVE  a = Cardinality(UpTo(sort, rows, s[a]))
<1> DEFINE n == Cardinality(rows)
<1>1. IsFiniteSet(rows) /\ n \in Nat
  BY FS_Subset, FS_CardinalityType, AskAssumption DEF AskAssumption
<1>2. /\ s \in SetToSeqs(rows) /\ Ordered(s, sort)
  BY DEF Orders
<1>3. /\ s \in [1..n -> rows] /\ DOMAIN s = 1..n
      /\ \A i, j \in 1..n : i # j => s[i] # s[j]
  BY <1>2 DEF SetToSeqs
<1>4. \A m \in rows : \E i \in 1..n : s[i] = m
  <2>1. Range(s) = rows
    BY <1>2, ListingRows
  <2> QED BY <1>3, <2>1 DEF Range
<1> HIDE DEF n
<1>5. ASSUME NEW i \in 1..n, NEW j \in 1..n, i < j
      PROVE  Before(sort, s[i], s[j])
  <2>1. /\ s[i] \in rows /\ s[j] \in rows /\ s[i] # s[j]
        /\ StampOf[s[i]] # StampOf[s[j]]
    BY <1>3, <1>5 DEF Untied
  <2>2. StampOf[s[i]] \in Nat \cup {NoDate} /\ StampOf[s[j]] \in Nat \cup {NoDate}
    BY <2>1, SearchAssumption DEF SearchAssumption
  <2>3. StampOf[s[j]] # NoDate =>
          /\ StampOf[s[i]] # NoDate
          /\ IF sort = "date_asc" THEN StampOf[s[i]] <= StampOf[s[j]]
                                  ELSE StampOf[s[i]] >= StampOf[s[j]]
    BY <1>2, <1>3, <1>5 DEF Ordered
  <2>4. NoDate \in Int
    BY DEF NoDate
  <2> QED BY <2>1, <2>2, <2>3, <2>4 DEF Before
<1> DEFINE m == s[a]
           upto == UpTo(sort, rows, m)
           f == [i \in 1..a |-> s[i]]
<1>6. a \in 1..n /\ m \in rows
  BY <1>3
<1>7. ASSUME NEW i \in 1..n
      PROVE  s[i] \in upto <=> i <= a
  <2>1. CASE i < a
    BY <1>3, <1>5, <1>6, <2>1 DEF UpTo
  <2>2. CASE i = a
    BY <1>6, <2>2 DEF UpTo
  <2>3. CASE i > a
    <3>1. Before(sort, m, s[i]) /\ s[i] \in Mail /\ m \in Mail
      BY <1>3, <1>5, <1>6, <2>3
    <3>2. ~Before(sort, s[i], m) /\ s[i] # m
      BY <3>1, BeforeOneWay
    <3> QED BY <1>6, <2>3, <3>2 DEF UpTo
  <2> QED BY <1>6, <2>1, <2>2, <2>3
<1> HIDE DEF m
<1>8. f \in Bijection(1..a, upto)
  <2>1. \A i \in 1..a : i \in 1..n /\ s[i] \in upto
    BY <1>1, <1>6, <1>7
  <2>2. f \in Injection(1..a, upto)
    BY <1>3, <2>1 DEF Injection, IsInjective
  <2>3. \A x \in upto : \E i \in 1..a : f[i] = x
    <3> SUFFICES ASSUME NEW x \in upto PROVE \E i \in 1..a : f[i] = x
      OBVIOUS
    <3>1. x \in rows
      BY DEF UpTo
    <3>2. PICK i \in 1..n : s[i] = x
      BY <1>4, <3>1
    <3>3. i \in 1..a
      BY <1>6, <1>7, <3>2
    <3> QED BY <3>2, <3>3
  <2>4. f \in Surjection(1..a, upto)
    BY <2>1, <2>3 DEF Surjection
  <2> QED BY <2>2, <2>4 DEF Bijection
<1>9. IsFiniteSet(1..a) /\ Cardinality(1..a) = a
  BY <1>1, <1>6, FS_Interval
<1>10. ExistsBijection(1..a, upto)
  BY <1>8 DEF ExistsBijection
<1> HIDE DEF upto
<1>11. Cardinality(upto) = a
  BY <1>9, <1>10, FS_Bijection
<1> QED BY <1>11 DEF upto, m

\* Rows that come in before a row move it on, never back.
LEMMA PlacesGrow ==
    ASSUME NEW rows, NEW more, rows \subseteq more, more \subseteq Mail, NEW sort, NEW m
    PROVE  /\ Cardinality(UpTo(sort, rows, m)) \in Nat
           /\ Cardinality(UpTo(sort, more, m)) \in Nat
           /\ Cardinality(UpTo(sort, rows, m)) <= Cardinality(UpTo(sort, more, m))
           /\ Cardinality(UpTo(sort, more, m)) <= Cardinality(more)
           /\ Cardinality(more) \in Nat
           /\ m \in rows => Cardinality(UpTo(sort, rows, m)) > 0
<1>1. /\ UpTo(sort, rows, m) \subseteq UpTo(sort, more, m)
      /\ UpTo(sort, more, m) \subseteq more
      /\ m \in rows => UpTo(sort, rows, m) # {}
  BY DEF UpTo
<1>2. IsFiniteSet(more)
  BY FS_Subset, AskAssumption DEF AskAssumption
<1>3. IsFiniteSet(UpTo(sort, more, m))
  BY <1>1, <1>2, FS_Subset
<1>4. IsFiniteSet(UpTo(sort, rows, m))
  BY <1>1, <1>3, FS_Subset
<1>5. m \in rows => Cardinality(UpTo(sort, rows, m)) # 0
  BY <1>1, <1>4, FS_EmptySet
<1>6. /\ Cardinality(UpTo(sort, rows, m)) <= Cardinality(UpTo(sort, more, m))
      /\ Cardinality(UpTo(sort, more, m)) <= Cardinality(more)
  BY <1>1, <1>2, <1>3, FS_Subset
<1>7. /\ Cardinality(UpTo(sort, rows, m)) \in Nat
      /\ Cardinality(UpTo(sort, more, m)) \in Nat
      /\ Cardinality(more) \in Nat
  BY <1>2, <1>3, <1>4, FS_CardinalityType
<1> QED BY <1>5, <1>6, <1>7

\* Whoever reads on while a place only moves on comes to a page that has it.
LEMMA FirstReaching ==
    ASSUME NEW n \in Nat \ {0}, NEW size \in Nat, NEW place \in [1..n -> Nat],
           \A i \in 1..(n - 1) : place[i] <= place[i + 1],
           0 < place[1], place[n] <= n * size
    PROVE  \E i \in 1..n : (i - 1) * size < place[i] /\ place[i] <= i * size
<1> DEFINE Reached == {i \in 1..n : place[i] <= i * size}
<1>1. Reached \subseteq Nat /\ n \in Reached
  OBVIOUS
<1>2. PICK i \in Reached : \A j \in Reached : i <= j
  <2> HIDE DEF Reached
  <2> QED BY <1>1, LeastNumber
<1>3. i \in 1..n /\ place[i] <= i * size
  BY <1>2
<1>4. CASE i = 1
  <2>1. (i - 1) * size = 0
    BY <1>4
  <2> QED BY <1>3, <1>4, <2>1
<1>5. CASE i # 1
  <2>1. i - 1 \in 1..n /\ i - 1 \in 1..(n - 1) /\ (i - 1) + 1 = i /\ ~(i <= i - 1)
    BY <1>3, <1>5
  <2>2. i - 1 \notin Reached
    BY <1>2, <2>1
  <2>3. ~(place[i - 1] <= (i - 1) * size) /\ place[i - 1] <= place[i]
    BY <2>1, <2>2
  <2>4. place[i - 1] \in Int /\ place[i] \in Int /\ (i - 1) * size \in Int
    BY <1>3, <2>1
  <2>5. (i - 1) * size < place[i]
    <3> DEFINE earlier == (i - 1) * size
               before == place[i - 1]
               here == place[i]
    <3>1. ~(before <= earlier) /\ before <= here
      BY <2>3
    <3>2. before \in Int /\ here \in Int /\ earlier \in Int
      BY <2>4
    <3> HIDE DEF earlier, before, here
    <3>3. earlier < here
      BY <3>1, <3>2
    <3> QED BY <3>3 DEF earlier, here
  <2> QED BY <1>3, <2>5
<1> QED BY <1>3, <1>4, <1>5

-----------------------------------------------------------------------------
(* What clauses and words select *)

\* What the plan and the statements need of an intent.
IntentOK(intent) ==
    /\ DOMAIN intent = DOMAIN BlankIntent
    /\ intent.sort \in SortOrders /\ intent.limit \in Int
    /\ intent.since \subseteq Nat /\ intent.until \subseteq Nat

\* Rows a plan may list at any time.
Answerable(plan) == {m \in Mail : Fits(plan, m)}

\* A phrase that is there is made of words that are there.
LEMMA PhraseHasWord ==
    ASSUME NEW m \in Mail, NEW words, words # <<>>, Phrase(m, words)
    PROVE  AnyWord(m, words)
<1> DEFINE t == TextOf[m]
<1>1. t \in Seq(STRING) /\ Len(t) \in Nat /\ DOMAIN t = 1..Len(t)
  BY SearchAssumption DEF SearchAssumption
<1>2. PICK i \in 0..Len(t), j \in 0..Len(t) : words = SubSeq(t, i + 1, j)
  BY DEF Phrase, Like, SubSeqs
<1> HIDE DEF t
<1>3. i + 1 <= j
  <2> SUFFICES ASSUME ~(i + 1 <= j) PROVE FALSE
    OBVIOUS
  <2>1. i + 1 \in Int /\ j \in Int /\ j < i + 1
    BY <1>1
  <2> QED BY <1>2, <2>1, SubSeqEmpty
<1>4. \A k \in (i + 1)..j : t[k] \in Range(t)
  BY <1>1 DEF Range
<1>5. /\ words \in Seq(Range(t))
      /\ Len(words) = j - (i + 1) + 1
      /\ \A k \in 1..(j - (i + 1) + 1) : words[k] = t[(i + 1) + k - 1]
  BY <1>1, <1>2, <1>3, <1>4, SubSeqProperties
<1>6. 1 \in DOMAIN words /\ words[1] = t[i + 1] /\ i + 1 \in DOMAIN t
  BY <1>1, <1>3, <1>5
<1> QED BY <1>6 DEF AnyWord, Range, t

\* Rows full-text search finds may be listed, whatever the index was built from.
LEMMA FtsAnswers ==
    ASSUME NEW table, table \subseteq Mail, NEW known, known \subseteq SUBSET Mail,
           NEW plan, UsesFts(plan)
    PROVE  FtsMatches(table, known, plan.fts_query) \subseteq Answerable(plan)
BY DEF FtsMatches, Answerable, Fits, Copies

\* So may the rows of the fallback.
LEMMA LikeAnswers ==
    ASSUME NEW table, table \subseteq Mail, NEW plan, UsesFts(plan)
    PROVE  LikeMatches(table, plan.fts_query) \subseteq Answerable(plan)
<1> SUFFICES ASSUME NEW m \in LikeMatches(table, plan.fts_query) PROVE m \in Answerable(plan)
  OBVIOUS
<1>1. m \in Mail /\ Phrase(m, plan.fts_query) /\ plan.fts_query # <<>>
  BY DEF LikeMatches, UsesFts
<1>2. AnyWord(m, plan.fts_query) /\ m \in Copies(m, Mail)
  BY <1>1, PhraseHasWord DEF Copies
<1> QED BY <1>1, <1>2 DEF Answerable, Fits

\* Rows that satisfy the clauses of an intent are meant by it, if no address stands
\* in another and there are no keywords.
LEMMA ClausesMean ==
    ASSUME NEW intent, IntentOK(intent), Exact(intent.from), intent.keywords = <<>>,
           NEW m \in Mail, \A c \in Clauses(intent) : m \in c
    PROVE  m \in Meant(intent)
<1>1. intent.from # {} => SenderOf[m] \in intent.from
  <2> SUFFICES ASSUME intent.from # {} PROVE SenderOf[m] \in intent.from
    OBVIOUS
  <2>1. From(intent.from) \in Clauses(intent)
    BY DEF Clauses
  <2> QED BY <2>1 DEF From, Exact
<1>2. intent.to # {} => \E a \in intent.to : Like(SentTo[m], a)
  <2> SUFFICES ASSUME intent.to # {} PROVE \E a \in intent.to : Like(SentTo[m], a)
    OBVIOUS
  <2>1. To(intent.to) \in Clauses(intent)
    BY DEF Clauses
  <2> QED BY <2>1 DEF To
<1>3. \A words \in intent.subject : Like(SubjectOf[m], words)
  <2> SUFFICES ASSUME NEW words \in intent.subject PROVE Like(SubjectOf[m], words)
    OBVIOUS
  <2>1. Subject(words) \in Clauses(intent)
    BY DEF Clauses
  <2> QED BY <2>1 DEF Subject
<1>4. intent.id \subseteq {IdOf[m]}
  <2> SUFFICES ASSUME NEW i \in intent.id PROVE i = IdOf[m]
    OBVIOUS
  <2>1. HasId(i) \in Clauses(intent)
    BY DEF Clauses
  <2> QED BY <2>1 DEF HasId
<1>5. StampOf[m] \in Nat \cup {NoDate} /\ NoDate = -1
  BY SearchAssumption DEF SearchAssumption, NoDate
<1>6. \A d \in intent.since : StampOf[m] # NoDate /\ StampOf[m] \div 2 >= d
  <2> SUFFICES ASSUME NEW d \in intent.since
               PROVE  StampOf[m] # NoDate /\ StampOf[m] \div 2 >= d
    OBVIOUS
  <2>1. Since(d) \in Clauses(intent) /\ d \in Nat
    BY DEF Clauses, IntentOK
  <2> QED BY <1>5, <2>1 DEF Since
<1>7. \A d \in intent.until : StampOf[m] # NoDate /\ StampOf[m] \div 2 <= d
  <2> SUFFICES ASSUME NEW d \in intent.until
               PROVE  StampOf[m] # NoDate /\ StampOf[m] \div 2 <= d
    OBVIOUS
  <2>1. Until(d) \in Clauses(intent) /\ d \in Nat
    BY DEF Clauses, IntentOK
  <2> QED BY <1>5, <2>1 DEF Until
<1>8. \A b \in intent.attached : (m \in Attached) = b
  <2> SUFFICES ASSUME NEW b \in intent.attached PROVE (m \in Attached) = b
    OBVIOUS
  <2>1. HasAttachments(b) \in Clauses(intent)
    BY DEF Clauses
  <2> QED BY <2>1 DEF HasAttachments
<1> QED BY <1>1, <1>2, <1>3, <1>4, <1>6, <1>7, <1>8 DEF Meant

\* An intent without clauses means every row with one of its words.
LEMMA WordsMean ==
    ASSUME NEW intent, Clauses(intent) = {}, NEW m \in Mail, AnyWord(m, intent.keywords)
    PROVE  m \in Meant(intent)
<1>1. intent.from = {}
  <2> SUFFICES ASSUME intent.from # {} PROVE FALSE
    OBVIOUS
  <2>1. From(intent.from) \in Clauses(intent)
    BY DEF Clauses
  <2> QED BY <2>1
<1>2. intent.to = {}
  <2> SUFFICES ASSUME intent.to # {} PROVE FALSE
    OBVIOUS
  <2>1. To(intent.to) \in Clauses(intent)
    BY DEF Clauses
  <2> QED BY <2>1
<1>3. intent.subject = {}
  <2> SUFFICES ASSUME NEW x \in intent.subject PROVE FALSE
    OBVIOUS
  <2>1. Subject(x) \in Clauses(intent)
    BY DEF Clauses
  <2> QED BY <2>1
<1>4. intent.attached = {}
  <2> SUFFICES ASSUME NEW x \in intent.attached PROVE FALSE
    OBVIOUS
  <2>1. HasAttachments(x) \in Clauses(intent)
    BY DEF Clauses
  <2> QED BY <2>1
<1>5. intent.id = {}
  <2> SUFFICES ASSUME NEW x \in intent.id PROVE FALSE
    OBVIOUS
  <2>1. HasId(x) \in Clauses(intent)
    BY DEF Clauses
  <2> QED BY <2>1
<1>6. intent.since = {}
  <2> SUFFICES ASSUME NEW x \in intent.since PROVE FALSE
    OBVIOUS
  <2>1. Since(x) \in Clauses(intent)
    BY DEF Clauses
  <2> QED BY <2>1
<1>7. intent.until = {}
  <2> SUFFICES ASSUME NEW x \in intent.until PROVE FALSE
    OBVIOUS
  <2>1. Until(x) \in Clauses(intent)
    BY DEF Clauses
  <2> QED BY <2>1
<1> QED BY <1>1, <1>2, <1>3, <1>4, <1>5, <1>6, <1>7 DEF Meant

\* What may be listed is meant, or was by the words it once had.
LEMMA AnswerableMeant ==
    ASSUME NEW intent, NEW query, IntentOK(intent), Exact(intent.from),
           intent.keywords = <<>> \/ UsesFts(BuildQueryPlan(intent, query)),
           NEW m \in Answerable(BuildQueryPlan(intent, query))
    PROVE  \/ m \in Meant(intent)
           \/ /\ UsesFts(BuildQueryPlan(intent, query))
              /\ Copies(m, Mail) \cap Meant(intent) # {}
<1> DEFINE plan == BuildQueryPlan(intent, query)
<1>1. plan.fts_query = intent.keywords /\ plan.sql_filters = Clauses(intent)
  BY DEF BuildQueryPlan
<1> HIDE DEF plan
<1>2. CASE UsesFts(plan)
  <2>1. PICK n \in Copies(m, Mail) : AnyWord(n, intent.keywords)
    BY <1>1, <1>2 DEF Answerable, Fits, plan
  <2>2. Clauses(intent) = {}
    BY <1>1, <1>2 DEF UsesFts
  <2>3. n \in Meant(intent)
    BY <2>1, <2>2, WordsMean DEF Copies
  <2> QED BY <1>2, <2>1, <2>3 DEF plan
<1>3. CASE ~UsesFts(plan)
  <2>1. m \in Mail /\ \A c \in Clauses(intent) : m \in c
    BY <1>1, <1>3 DEF Answerable, Fits, plan
  <2>2. intent.keywords = <<>>
    BY <1>3 DEF plan
  <2> QED BY <2>1, <2>2, ClausesMean
<1> QED BY <1>2, <1>3

\* A text is like itself.
LEMMA LikeItself ==
    ASSUME NEW S, NEW t \in Seq(S)
    PROVE  Like(t, t)
<1>1. Len(t) \in Nat /\ 0 \in 0..Len(t) /\ Len(t) \in 0..Len(t)
  OBVIOUS
<1>2. SubSeq(t, 0 + 1, Len(t)) = t
  OBVIOUS
<1> QED BY <1>1, <1>2 DEF Like, SubSeqs

\* Rows that are meant satisfy every clause, if no last day is asked for.
LEMMA MeantSelected ==
    ASSUME NEW intent, IntentOK(intent), intent.until = {}, NEW m \in Meant(intent)
    PROVE  m \in Mail /\ \A c \in Clauses(intent) : m \in c
<1>1. m \in Mail
  BY DEF Meant
<1>2. intent.from # {} => m \in From(intent.from)
  <2>1. Like(SenderOf[m], SenderOf[m])
    BY <1>1, LikeItself, SearchAssumption DEF SearchAssumption
  <2> QED BY <1>1, <2>1 DEF Meant, From
<1>3. intent.to # {} => m \in To(intent.to)
  BY <1>1 DEF Meant, To
<1>4. \A d \in intent.since : m \in Since(d)
  <2> SUFFICES ASSUME NEW d \in intent.since PROVE m \in Since(d)
    OBVIOUS
  <2>1. StampOf[m] \in Nat \cup {NoDate} /\ d \in Nat
    BY <1>1, SearchAssumption DEF SearchAssumption, IntentOK
  <2>2. StampOf[m] # NoDate /\ StampOf[m] \div 2 >= d
    BY DEF Meant
  <2>3. StampOf[m] >= 2 * d
    BY <2>1, <2>2
  <2> QED BY <1>1, <2>2, <2>3 DEF Since
<1>5. \A b \in intent.attached : m \in HasAttachments(b)
  BY <1>1 DEF Meant, HasAttachments
<1>6. \A words \in intent.subject : m \in Subject(words)
  BY <1>1 DEF Meant, Subject
<1>7. \A i \in intent.id : m \in HasId(i)
  BY <1>1 DEF Meant, HasId
<1> QED BY <1>1, <1>2, <1>3, <1>4, <1>5, <1>6, <1>7 DEF Clauses

-----------------------------------------------------------------------------
(* The rows of lists and dialogs *)

\* Where a plan sends a request.
Placed(pc, plan) ==
    /\ pc = "fts" => UsesFts(plan)
    /\ pc \in {"count", "page"} => ~UsesFts(plan)
    /\ pc = "thread" => plan.type = "thread_view"
    /\ pc = "aggregate" => plan.type # "search_emails"

\* Once a search is through with its rows it has none but those it may list.
ListedOnly(pc, plan, items) ==
    pc \in {"stats", "audit", "reply", "answered"} /\ plan.type = "search_emails" =>
        Range(items) \subseteq Answerable(plan)

\* Every one of the rows has a copy in the table.
Kept(rows, table) == \A m \in rows : m \in Mail /\ Copies(m, table) # {}

\* What the table holds it keeps.
LEMMA KeptSelf ==
    ASSUME NEW rows, NEW table, rows \subseteq table, rows \subseteq Mail
    PROVE  Kept(rows, table)
BY DEF Kept, Copies

\* What one table keeps of rows the next keeps, if it keeps the table.
LEMMA KeptOn ==
    ASSUME NEW rows, NEW table, NEW later, Kept(rows, table), Kept(table, later)
    PROVE  Kept(rows, later)
<1> SUFFICES ASSUME NEW m \in rows PROVE m \in Mail /\ Copies(m, later) # {}
  BY DEF Kept
<1>1. m \in Mail /\ \E k \in Copies(m, table) : Copies(k, later) # {}
  BY DEF Kept, Copies
<1> QED BY <1>1 DEF Copies

\* INSERT OR REPLACE takes a row away only to put another copy in its place.
LEMMA IngestKeeps ==
    ASSUME IngestRow, emails \subseteq Mail
    PROVE  /\ Kept(emails, emails') /\ emails' \subseteq Mail
           /\ UNCHANGED <<index, loop, req, audit, faults>>
BY DEF IngestRow, Kept, Copies

\* A dialog has all the rows asked for that the table holds when they are read, and
\* by then the table has a copy of all that it held when the dialog was asked for.
DialogWhole(pc, ask, before, at, items) ==
    pc = "served" /\ ask.endpoint \in {"email", "thread"} =>
        /\ Kept(before, at)
        /\ \A m \in at :
              (\/ ask.endpoint = "email" /\ IdOf[m] = ask.about
               \/ ask.endpoint = "thread" /\ ThreadOf[m] = ask.about) =>
                  m \in Range(items)

\* The rows of a request were rows of the table, in the place its plan sends it to.
RowOK(r) ==
    /\ req[r].pc # "new" => req[r].ask \in Asks
    /\ IntentOK(req[r].intent)
    /\ Placed(req[r].pc, Plan(r))
    /\ Kept(req[r].before, emails)
    /\ Kept(Range(req[r].items), emails) /\ Kept(req[r].anchor, emails)
    /\ ListedOnly(req[r].pc, Plan(r), req[r].items)
    /\ DialogWhole(req[r].pc, req[r].ask, req[r].before, req[r].at, req[r].items)
    /\ \A s \in req[r].prior :
          s \in Requests /\ req[s].pc \in Over /\ Kept(Range(req[s].items), req[r].before)

\* The table never loses a mail that was shown, whoever shows it.
RowsInv ==
    /\ Shaped /\ emails \subseteq Mail /\ index \subseteq SUBSET Mail
    /\ \A r \in Requests : RowOK(r)

\* At the start no request has rows.
LEMMA RowsInit == Init => RowsInv
<1> SUFFICES ASSUME Init PROVE RowsInv
  OBVIOUS
<1>1. DOMAIN BlankRequest = Fields
  BY BlankShape
<1>2. /\ BlankRequest.pc = "new" /\ BlankRequest.intent = BlankIntent
      /\ BlankRequest.items = <<>> /\ BlankRequest.anchor = {}
      /\ BlankRequest.before = {} /\ BlankRequest.prior = {}
  BY DEF BlankRequest
<1>3. IntentOK(BlankIntent)
  BY DEF IntentOK, BlankIntent, SortOrders
<1>4. Range(<<>>) = {}
  BY DEF Range
<1>5. /\ emails \subseteq Mail /\ index \subseteq SUBSET Mail
      /\ \A r \in Requests : req[r] = BlankRequest
  BY ServiceAssumption DEF ServiceAssumption, Init
<1>6. ASSUME NEW r \in Requests PROVE RowOK(r)
  BY <1>2, <1>3, <1>4, <1>5 DEF RowOK, Placed, ListedOnly, DialogWhole, Kept
<1> QED BY <1>1, <1>5, <1>6 DEF Init, RowsInv, Shaped

\* What is over stays as it is, and what else changes is in order.
LEMMA RowsFrame ==
    ASSUME RowsInv, Shaped', UNCHANGED <<emails, index>>,
           NEW r \in Requests, OthersStay(r), req[r].pc \notin Over,
           req'[r].pc # "new" => req'[r].ask \in Asks,
           IntentOK(req'[r].intent),
           Placed(req'[r].pc, Plan(r)'),
           Kept(req'[r].before, emails),
           Kept(Range(req'[r].items), emails), Kept(req'[r].anchor, emails),
           ListedOnly(req'[r].pc, Plan(r)', req'[r].items),
           DialogWhole(req'[r].pc, req'[r].ask, req'[r].before, req'[r].at, req'[r].items),
           \A s \in req'[r].prior :
              s \in Requests /\ req[s].pc \in Over /\ Kept(Range(req[s].items), req'[r].before)
    PROVE  RowsInv'
<1>1. \A s \in Requests : req[s].pc \in Over => req'[s] = req[s]
  BY DEF OthersStay
<1>2. RowOK(r)'
  BY <1>1 DEF RowOK
<1>3. ASSUME NEW s \in Requests, s # r PROVE RowOK(s)'
  <2>1. req'[s] = req[s] /\ RowOK(s)
    BY <1>3 DEF OthersStay, RowsInv
  <2>2. Plan(s)' = Plan(s)
    BY <2>1 DEF Plan
  <2> QED BY <1>1, <2>1, <2>2 DEF RowOK
<1> QED BY <1>2, <1>3 DEF RowsInv

\* A page has a size and a number.
LEMMA PageNumbers ==
    ASSUME NEW r \in Requests, RowOK(r), req[r].pc # "new"
    PROVE  /\ Size(r) \in Nat /\ SearchSize(r) \in Nat
           /\ SearchPage(r) \in Nat \ {0} /\ req[r].ask.page \in Nat \ {0}
           /\ Plan(r).sort \in SortOrders
<1>1. req[r].ask \in Asks /\ IntentOK(req[r].intent)
  BY DEF RowOK
<1>2. req[r].ask.page \in Nat \ {0} /\ req[r].ask.size \in Nat
  BY <1>1, AskAssumption DEF AskAssumption
<1>3. Plan(r).limit = req[r].intent.limit /\ Plan(r).sort = req[r].intent.sort
  BY DEF Plan, BuildQueryPlan
<1>4. Plan(r).limit \in Int /\ Plan(r).sort \in SortOrders
  BY <1>1, <1>3 DEF IntentOK
<1>5. Size(r) \in Nat
  BY <1>2, <1>4 DEF Size
<1> QED BY <1>2, <1>4, <1>5 DEF SearchPage, SearchSize

\* Receive and Begin.
LEMMA RowsBegun ==
    ASSUME RowsInv, NEW r \in Requests, Receive(r) \/ Begin(r)
    PROVE  RowsInv'
<1>1. /\ Shaped /\ emails \subseteq Mail /\ \A s \in Requests : RowOK(s)
      /\ Kept({}, emails) /\ Kept(emails, emails)
  BY KeptSelf DEF RowsInv
<1>2. CASE Receive(r)
  <2>1. /\ Writes(r, Fields) /\ UNCHANGED <<emails, index>> /\ req[r].pc = "new"
        /\ \E ask \in Asks : req'[r] = [BlankRequest EXCEPT !.pc = "body", !.ask = ask]
    BY <1>1, <1>2, ReceiveWrites
  <2>2. /\ req'[r].pc = "body" /\ req'[r].ask \in Asks /\ req'[r].intent = BlankIntent
        /\ req'[r].items = <<>> /\ req'[r].anchor = {}
        /\ req'[r].before = {} /\ req'[r].prior = {}
    BY <2>1 DEF BlankRequest
  <2>3. IntentOK(BlankIntent)
    BY DEF IntentOK, BlankIntent, SortOrders
  <2>4. Range(<<>>) = {}
    BY DEF Range
  <2>5. /\ Placed(req'[r].pc, Plan(r)') /\ ListedOnly(req'[r].pc, Plan(r)', req'[r].items)
        /\ DialogWhole(req'[r].pc, req'[r].ask, req'[r].before, req'[r].at, req'[r].items)
    BY <2>2 DEF Placed, ListedOnly, DialogWhole
  <2>6. req[r].pc \notin Over
    BY <2>1 DEF Over
  <2> QED BY <1>1, <2>1, <2>2, <2>3, <2>4, <2>5, <2>6, RowsFrame DEF Writes
<1>3. CASE Begin(r)
  <2>1. /\ Writes(r, {"pc", "before", "prior"}) /\ UNCHANGED <<emails, index>>
        /\ req[r].pc = "body" /\ req'[r].pc \in {"refused", "detail", "intent"}
        /\ req'[r].before = emails /\ req'[r].prior = {s \in Requests : req[s].pc \in Over}
    BY <1>1, <1>3, BeginWrites
  <2>2. /\ req'[r].ask = req[r].ask /\ req'[r].intent = req[r].intent
        /\ req'[r].items = req[r].items /\ req'[r].anchor = req[r].anchor
    BY <2>1 DEF Writes, Fields
  <2>3. /\ Placed(req'[r].pc, Plan(r)') /\ ListedOnly(req'[r].pc, Plan(r)', req'[r].items)
        /\ DialogWhole(req'[r].pc, req'[r].ask, req'[r].before, req'[r].at, req'[r].items)
    BY <2>1 DEF Placed, ListedOnly, DialogWhole
  <2>4. req[r].pc \notin Over
    BY <2>1 DEF Over
  <2>5. /\ req'[r].ask \in Asks /\ IntentOK(req'[r].intent)
        /\ Kept(Range(req'[r].items), emails) /\ Kept(req'[r].anchor, emails)
    BY <1>1, <2>1, <2>2 DEF RowOK
  <2>6. \A s \in req'[r].prior :
           s \in Requests /\ req[s].pc \in Over /\ Kept(Range(req[s].items), req'[r].before)
    BY <1>1, <2>1 DEF RowOK
  <2> QED BY <1>1, <2>1, <2>3, <2>4, <2>5, <2>6, RowsFrame DEF Writes
<1> QED BY <1>2, <1>3

\* A step of a call that leaves what was asked as it is.
LEMMA RowsBrought ==
    ASSUME RowsInv, NEW r \in Requests, UNCHANGED <<emails, index>>,
           req[r].pc \notin Over \cup {"new"},
           NEW changed, Writes(r, changed), {"ask", "intent", "before", "prior"} \cap changed = {},
           Kept(Range(req'[r].items), emails), Kept(req'[r].anchor, emails),
           Placed(req'[r].pc, Plan(r)),
           ListedOnly(req'[r].pc, Plan(r), req'[r].items),
           DialogWhole(req'[r].pc, req[r].ask, req[r].before, req'[r].at, req'[r].items)
    PROVE  RowsInv'
<1>1. /\ req'[r].ask = req[r].ask /\ req'[r].intent = req[r].intent
      /\ req'[r].before = req[r].before /\ req'[r].prior = req[r].prior
  BY DEF Writes, Fields
<1>2. Plan(r)' = Plan(r)
  BY <1>1 DEF Plan
<1>3. emails \subseteq Mail /\ RowOK(r)
  BY DEF RowsInv
<1> QED BY <1>1, <1>2, <1>3, RowsFrame DEF RowOK, Writes

\* The anchor is one of the rows.
LEMMA AnchorFound ==
    ASSUME NEW r, NEW S, NEW items \in Seq(S)
    PROVE  Anchor(r, items) \subseteq Range(items)
<1>1. ASSUME items # <<>> PROVE Head(items) \in Range(items)
  <2>1. 1 \in DOMAIN items /\ Head(items) = items[1]
    BY <1>1
  <2> QED BY <2>1 DEF Range
<1> QED BY <1>1 DEF Anchor

\* The statements that bring rows.
LEMMA RowsRead ==
    ASSUME RowsInv, NEW r \in Requests,
           \/ SearchFts(r) \/ SearchLike(r) \/ SearchPageOf(r) \/ LoadThread(r)
           \/ ExportCsv(r) \/ ReadDetail(r)
    PROVE  RowsInv'
<1>1. /\ Shaped /\ RowOK(r) /\ emails \subseteq Mail /\ index \subseteq SUBSET Mail
      /\ {"date_asc", "date_desc"} \subseteq SortOrders
  BY DEF RowsInv, SortOrders
<1> DEFINE plan == Plan(r)
           items == req'[r].items
           pc == req'[r].pc
<1>2. ASSUME UNCHANGED <<emails, index>>, req[r].pc \in Statements,
             NEW changed, Writes(r, changed),
             changed \subseteq {"pc", "items", "anchor", "total", "at"},
             req'[r].at = emails, Range(items) \subseteq emails,
             req'[r].anchor \subseteq Range(items) \/ req'[r].anchor = req[r].anchor,
             \/ pc = "thread" /\ IsThreadView(r)
             \/ pc = "stats" /\ IsThreadView(r)
             \/ pc = "stats" /\ Range(items) \subseteq Answerable(plan)
             \/ pc = "exported"
             \/ pc = "served" /\ Found(req[r].ask) \subseteq Range(items)
      PROVE  RowsInv'
  <2>1. Placed(pc, plan)
    BY <1>2 DEF Placed, IsThreadView
  <2>2. ListedOnly(pc, plan, items)
    BY <1>2 DEF ListedOnly, IsThreadView
  <2>3. Kept(req[r].before, emails) /\ Kept(req[r].anchor, emails)
    BY <1>1 DEF RowOK
  <2>4. DialogWhole(pc, req[r].ask, req[r].before, req'[r].at, items)
    BY <1>2, <2>3 DEF DialogWhole, Found
  <2>5. req[r].pc \notin Over \cup {"new"} /\ {"ask", "intent", "before", "prior"} \cap changed = {}
    BY <1>2 DEF Over, Statements
  <2>6. Kept(Range(items), emails)
    BY <1>1, <1>2, KeptSelf
  <2>7. Kept(req'[r].anchor, emails)
    BY <1>2, <2>3, <2>6 DEF Kept
  <2> QED BY <1>2, <2>1, <2>2, <2>4, <2>5, <2>6, <2>7, RowsBrought
<1>3. \/ AfterSearch(r, items) = "thread" /\ IsThreadView(r)
      \/ AfterSearch(r, items) = "stats"
  BY DEF AfterSearch, Anchor
<1>4. {"fts", "page", "thread", "export", "detail"} \subseteq Statements
  BY DEF Statements
<1> HIDE DEF plan, items, pc
<1>5. CASE SearchFts(r) \/ SearchLike(r)
  <2> DEFINE fts == FtsMatches(emails, index, plan.fts_query)
             liked == LikeMatches(emails, plan.fts_query)
  <2>1. /\ Writes(r, {"pc", "items", "anchor", "total", "at"}) /\ UNCHANGED <<emails, index>>
        /\ req[r].pc = "fts" /\ req'[r].at = emails
        /\ items \in SetToSeqs(fts) \/ items \in Orders["date_desc"][liked]
        /\ pc = AfterSearch(r, items) /\ req'[r].anchor = Anchor(r, items)
    BY <1>1, <1>5, FtsWrites DEF plan, items, pc
  <2>2. UsesFts(plan)
    BY <1>1, <2>1 DEF RowOK, Placed, plan
  <2>3. /\ fts \subseteq emails /\ fts \subseteq Mail /\ fts \subseteq Answerable(plan)
        /\ liked \subseteq emails /\ liked \subseteq Mail /\ liked \subseteq Answerable(plan)
    BY <1>1, <2>2, FtsAnswers, LikeAnswers DEF FtsMatches, LikeMatches
  <2> HIDE DEF fts, liked
  <2>4. \/ items \in Seq(fts) /\ Range(items) = fts
        \/ items \in Seq(liked) /\ Range(items) = liked
    BY <1>1, <2>1, <2>3, ListingRows, OrderedRows
  <2>5. req'[r].anchor \subseteq Range(items)
    BY <2>1, <2>4, AnchorFound
  <2> QED BY <1>2, <1>3, <1>4, <2>1, <2>3, <2>4, <2>5
<1>6. CASE SearchPageOf(r)
  <2> DEFINE found == Selected(emails, plan)
  <2>1. /\ Writes(r, {"pc", "items", "anchor", "at"}) /\ UNCHANGED <<emails, index>>
        /\ req[r].pc = "page" /\ req'[r].at = emails
        /\ \E s \in Orders[plan.sort][found] : items = PageOf(s, SearchPage(r), SearchSize(r))
        /\ pc = AfterSearch(r, items) /\ req'[r].anchor = Anchor(r, items)
    BY <1>1, <1>6, PageWrites DEF plan, items, pc
  <2>2. ~UsesFts(plan)
    BY <1>1, <2>1 DEF RowOK, Placed, plan
  <2>3. found \subseteq emails /\ found \subseteq Mail /\ found \subseteq Answerable(plan)
    BY <1>1, <2>2 DEF Answerable, Fits, Selected
  <2>4. /\ SearchPage(r) \in Nat \ {0} /\ SearchSize(r) \in Nat /\ plan.sort \in SortOrders
    BY <1>1, <2>1, PageNumbers DEF plan
  <2> HIDE DEF found
  <2>5. PICK s \in Orders[plan.sort][found] : items = PageOf(s, SearchPage(r), SearchSize(r))
    BY <2>1
  <2>6. s \in Seq(found) /\ Range(s) = found
    BY <2>3, <2>4, OrderedRows
  <2>7. Range(items) \subseteq found /\ items \in Seq(Range(s))
    BY <2>4, <2>5, <2>6, PageRows, PagePlaces
  <2>8. req'[r].anchor \subseteq Range(items)
    BY <2>1, <2>7, AnchorFound
  <2> QED BY <1>2, <1>3, <1>4, <2>1, <2>3, <2>7, <2>8
<1>7. CASE LoadThread(r)
  <2>1. /\ Writes(r, {"pc", "items", "total", "at"}) /\ UNCHANGED <<emails, index>>
        /\ req[r].pc = "thread" /\ pc = "stats" /\ req'[r].at = emails
        /\ \E a \in req[r].anchor : items \in Orders["date_asc"][Thread(a)]
    BY <1>1, <1>7, ThreadWrites DEF items, pc
  <2>2. PICK a \in req[r].anchor : items \in Orders["date_asc"][Thread(a)]
    BY <2>1
  <2>3. Thread(a) \subseteq emails /\ Thread(a) \subseteq Mail
    BY <1>1 DEF Thread
  <2>4. Range(items) = Thread(a)
    BY <1>1, <2>2, <2>3, OrderedRows
  <2>5. IsThreadView(r)
    BY <1>1, <2>1 DEF RowOK, Placed, IsThreadView
  <2>6. req'[r].anchor = req[r].anchor
    BY <2>1 DEF Writes, Fields
  <2> QED BY <1>2, <1>4, <2>1, <2>3, <2>4, <2>5, <2>6
<1>8. CASE ExportCsv(r)
  <2> DEFINE rows == Selected(emails, plan)
  <2>1. /\ Writes(r, {"pc", "items", "total", "at"}) /\ UNCHANGED <<emails, index>>
        /\ req[r].pc = "export" /\ req'[r].at = emails
        /\ items \in Orders["date_desc"][rows] /\ pc = "exported"
    BY <1>1, <1>8, ExportWrites DEF plan, items, pc
  <2>2. rows \subseteq emails /\ rows \subseteq Mail
    BY <1>1 DEF Selected
  <2> HIDE DEF rows
  <2>3. Range(items) = rows
    BY <1>1, <2>1, <2>2, OrderedRows
  <2>4. req'[r].anchor = req[r].anchor
    BY <2>1 DEF Writes, Fields
  <2> QED BY <1>2, <1>4, <2>1, <2>2, <2>3, <2>4
<1>9. CASE ReadDetail(r)
  <2> DEFINE rows == Found(req[r].ask)
  <2>1. /\ Writes(r, {"pc", "items", "total", "at"}) /\ UNCHANGED <<emails, index>>
        /\ req[r].pc = "detail" /\ req'[r].at = emails
        /\ items \in Orders["date_asc"][rows] /\ pc = "served"
    BY <1>1, <1>9, DetailWrites DEF items, pc
  <2>2. rows \subseteq emails /\ rows \subseteq Mail
    BY <1>1 DEF Found
  <2> HIDE DEF rows
  <2>3. Range(items) = rows
    BY <1>1, <2>1, <2>2, OrderedRows
  <2>4. req'[r].anchor = req[r].anchor
    BY <2>1 DEF Writes, Fields
  <2> QED BY <1>2, <1>4, <2>1, <2>2, <2>3, <2>4 DEF rows
<1> QED BY <1>5, <1>6, <1>7, <1>8, <1>9

\* Every intent the LLM or the rules give has its fields, guarded or not.
LEMMA IntentsOK ==
    ASSUME NEW ask \in Asks, NEW found \in Intents(ask.query)
    PROVE  IntentOK(found) /\ IntentOK(Guarded(found, ask.query))
<1>1. IntentOK(FallbackIntent(ask.query))
  BY DEF FallbackIntent, BlankIntent, IntentOK, SortOrders
<1>2. \A intent \in IntentsOf[ask.query] : IntentOK(intent)
  BY AskAssumption DEF AskAssumption, IntentOK
<1>3. IntentOK(found)
  BY <1>1, <1>2 DEF Intents
<1>4. {"type", "sort", "limit", "since", "until"} \subseteq DOMAIN found
  BY <1>3 DEF IntentOK, BlankIntent
<1> DEFINE guarded == [found EXCEPT !.type = "search_emails"]
<1>5. /\ DOMAIN guarded = DOMAIN found /\ guarded.sort = found.sort
      /\ guarded.limit = found.limit
      /\ guarded.since = found.since /\ guarded.until = found.until
  BY <1>4
<1> HIDE DEF guarded
<1>6. IntentOK(guarded)
  BY <1>3, <1>5 DEF IntentOK
<1> QED BY <1>3, <1>6 DEF Guarded, guarded

\* The first statement fits the plan.
LEMMA FirstPlaced ==
    ASSUME NEW intent, NEW query, NEW plan, plan = BuildQueryPlan(intent, query)
    PROVE  /\ FirstStatement(plan) \in {"aggregate", "fts", "count"}
           /\ Placed(FirstStatement(plan), plan)
<1>1. plan.type = intent.type /\ plan.aggregation = AggregationType(intent, query)
  BY DEF BuildQueryPlan
<1>2. plan.aggregation # "none" => plan.type # "search_emails"
  BY <1>1 DEF AggregationType
<1> QED BY <1>2 DEF FirstStatement, Placed

\* The intent sends a request where its plan belongs, and brings it no rows.
LEMMA RowsAnalyze ==
    ASSUME RowsInv, NEW r \in Requests, AnalyzeIntent(r)
    PROVE  RowsInv'
<1>1. Shaped /\ emails \subseteq Mail /\ RowOK(r)
  BY DEF RowsInv
<1>2. /\ Writes(r, {"pc", "intent", "sessions", "text"}) /\ UNCHANGED <<emails, index>>
      /\ req[r].pc = "intent"
      /\ req'[r].pc \in {"aggregate", "fts", "count", "export", "rejected", "clarified",
                         "failed"}
      /\ req'[r].pc \in {"aggregate", "fts", "count"} =>
            req'[r].pc = FirstStatement(Plan(r)')
      /\ \E found \in Intents(req[r].ask.query) :
            req'[r].intent \in {found, Guarded(found, req[r].ask.query)}
  BY <1>1, AnalyzeWrites
<1>3. /\ req'[r].ask = req[r].ask /\ req'[r].items = req[r].items
      /\ req'[r].anchor = req[r].anchor
      /\ req'[r].before = req[r].before /\ req'[r].prior = req[r].prior
  BY <1>2 DEF Writes, Fields
<1>4. req[r].ask \in Asks /\ req[r].pc \notin Over
  BY <1>1, <1>2 DEF RowOK, Over
<1>5. IntentOK(req'[r].intent)
  BY <1>2, <1>4, IntentsOK
<1>6. Placed(FirstStatement(Plan(r)'), Plan(r)')
  BY FirstPlaced DEF Plan
<1>7. Placed(req'[r].pc, Plan(r)')
  BY <1>2, <1>6 DEF Placed
<1>8. /\ ListedOnly(req'[r].pc, Plan(r)', req'[r].items)
      /\ DialogWhole(req'[r].pc, req'[r].ask, req'[r].before, req'[r].at, req'[r].items)
  BY <1>2 DEF ListedOnly, DialogWhole
<1> QED BY <1>1, <1>2, <1>3, <1>4, <1>5, <1>7, <1>8, RowsFrame DEF RowOK, Writes

\* The steps between the rows and the reply.
LEMMA RowsGoOn ==
    ASSUME RowsInv, NEW r \in Requests,
           \/ SearchCount(r) \/ Aggregate(r) \/ Present(r) \/ LogAudit(r) \/ Respond(r)
           \/ SearchRaises(r) \/ StatementFails(r)
    PROVE  RowsInv'
<1>1. Shaped /\ RowOK(r)
  BY DEF RowsInv
<1>2. ASSUME UNCHANGED <<emails, index>>, NEW changed, Writes(r, changed),
             changed \subseteq {"pc", "total", "at", "text", "shown", "sessions"},
             \/ req[r].pc = "count" /\ req'[r].pc = "page"
             \/ req[r].pc = "aggregate" /\ req'[r].pc = "stats"
             \/ req[r].pc = "stats" /\ req'[r].pc = "audit"
             \/ req[r].pc = "audit" /\ req'[r].pc = "reply"
             \/ req[r].pc = "reply" /\ req'[r].pc = "answered"
             \/ req[r].pc \in Statements /\ req'[r].pc = "failed"
             \/ req[r].pc \in Statements /\ req'[r].pc = "served"
                /\ req[r].ask.endpoint = "health"
      PROVE  RowsInv'
  <2>1. req[r].pc \notin Over \cup {"new"}
    BY <1>2 DEF Over, Statements
  <2>2. req'[r].items = req[r].items /\ req'[r].anchor = req[r].anchor
    BY <1>2 DEF Writes, Fields
  <2>3. Placed(req'[r].pc, Plan(r))
    BY <1>1, <1>2 DEF RowOK, Placed
  <2>4. ListedOnly(req'[r].pc, Plan(r), req'[r].items)
    BY <1>1, <1>2, <2>2 DEF RowOK, Placed, ListedOnly
  <2>5. DialogWhole(req'[r].pc, req[r].ask, req[r].before, req'[r].at, req'[r].items)
    BY <1>2 DEF DialogWhole
  <2>6. Kept(Range(req'[r].items), emails) /\ Kept(req'[r].anchor, emails)
    BY <1>1, <2>2 DEF RowOK
  <2>7. {"ask", "intent", "before", "prior"} \cap changed = {}
    BY <1>2
  <2> QED BY <1>2, <2>1, <2>3, <2>4, <2>5, <2>6, <2>7, RowsBrought
<1>3. "aggregate" \in Statements /\ "stats" \in Statements
  BY DEF Statements
<1>4. CASE SearchCount(r)
  BY <1>1, <1>2, <1>4, CountWrites
<1>5. CASE Aggregate(r)
  BY <1>1, <1>2, <1>3, <1>5, AggregateWrites
<1>6. CASE Present(r)
  BY <1>1, <1>2, <1>3, <1>6, PresentWrites
<1>7. CASE LogAudit(r)
  BY <1>1, <1>2, <1>7, LogWrites
<1>8. CASE Respond(r) \/ SearchRaises(r) \/ StatementFails(r)
  BY <1>1, <1>2, <1>8, EndWrites
<1> QED BY <1>4, <1>5, <1>6, <1>7, <1>8

\* No action disturbs the rows of a request.
LEMMA RowsStep == RowsInv /\ [Next]_vars => RowsInv'
<1> SUFFICES ASSUME RowsInv, [Next]_vars PROVE RowsInv'
  OBVIOUS
<1>0. Shaped /\ emails \subseteq Mail /\ index \subseteq SUBSET Mail
  BY DEF RowsInv
<1>1. ASSUME NEW r \in Requests, Receive(r) \/ Begin(r) \/ Work(r) \/ StatementFails(r)
      PROVE  RowsInv'
  BY <1>1, RowsBegun, RowsAnalyze, RowsRead, RowsGoOn DEF Work
<1>2. CASE Restart
  <2>1. /\ Shaped' /\ UNCHANGED <<emails, index>>
        /\ \A r \in Requests :
              /\ \A f \in Fields \ {"pc"} : req'[r][f] = req[r][f]
              /\ \/ req'[r] = req[r]
                 \/ req[r].pc \in {"body"} \cup Working /\ req'[r].pc = "lost"
    BY <1>0, <1>2, RestartWrites
  <2>2. \A s \in Requests : req[s].pc \in Over => req'[s] = req[s]
    BY <2>1 DEF Over, Working, Statements
  <2>3. ASSUME NEW r \in Requests PROVE RowOK(r)'
    <3>1. RowOK(r)
      BY DEF RowsInv
    <3>2. /\ req'[r].ask = req[r].ask /\ req'[r].intent = req[r].intent
          /\ req'[r].items = req[r].items /\ req'[r].anchor = req[r].anchor
          /\ req'[r].before = req[r].before /\ req'[r].at = req[r].at
          /\ req'[r].prior = req[r].prior
      BY <2>1 DEF Fields
    <3>3. Plan(r)' = Plan(r)
      BY <3>2 DEF Plan
    <3>4. req'[r].pc = req[r].pc \/ (req[r].pc # "new" /\ req'[r].pc = "lost")
      BY <2>1 DEF Working, Statements
    <3>5. /\ Placed(req'[r].pc, Plan(r)) /\ ListedOnly(req'[r].pc, Plan(r), req[r].items)
          /\ DialogWhole(req'[r].pc, req[r].ask, req[r].before, req[r].at, req[r].items)
      BY <3>1, <3>4 DEF RowOK, Placed, ListedOnly, DialogWhole
    <3> QED BY <2>1, <2>2, <3>1, <3>2, <3>3, <3>4, <3>5 DEF RowOK
  <2> QED BY <1>0, <2>1, <2>3 DEF RowsInv
<1>3. ASSUME UNCHANGED req, Kept(emails, emails'), emails' \subseteq Mail,
             index' \subseteq SUBSET Mail
      PROVE  RowsInv'
  <2>1. ASSUME NEW r \in Requests PROVE RowOK(r)'
    <3>1. RowOK(r) /\ Plan(r)' = Plan(r)
      BY <1>3 DEF RowsInv, Plan
    <3>2. /\ Kept(req[r].before, emails') /\ Kept(Range(req[r].items), emails')
          /\ Kept(req[r].anchor, emails')
      BY <1>3, <3>1, KeptOn DEF RowOK
    <3> QED BY <1>3, <3>1, <3>2 DEF RowOK
  <2> QED BY <1>0, <1>3, <2>1 DEF RowsInv, Shaped
<1>4. CASE IngestRow
  BY <1>0, <1>3, <1>4, IngestKeeps
<1>5. CASE DropIndex \/ CreateIndex
  <2>1. UNCHANGED <<emails, req>> /\ index' \subseteq SUBSET Mail
    BY <1>0, <1>5 DEF DropIndex, CreateIndex
  <2> QED BY <1>0, <1>3, <2>1, KeptSelf
<1>6. CASE UNCHANGED vars
  <2>1. UNCHANGED <<emails, req, index>>
    BY <1>6 DEF vars
  <2> QED BY <1>0, <1>3, <2>1, KeptSelf
<1> QED BY <1>1, <1>2, <1>4, <1>5, <1>6 DEF Next

\* Whoever opens a mail or its thread from a list finds it, whatever is ingested
\* meanwhile, unless ingestion has moved it to another thread.
THEOREM DialogsFindTheirMailAlways == Spec => []DialogsFindTheirMail
<1>1. RowsInv => DialogsFindTheirMail
  <2> DEFINE Opens(s, m) ==
                \/ req[s].ask.endpoint = "email" /\ req[s].ask.about = IdOf[m]
                \/ /\ req[s].ask.endpoint = "thread" /\ req[s].ask.about = ThreadOf[m]
                   /\ req[s].ask.about # NoThread
             Finds(s, n) ==
                \/ n \in Range(req[s].items)
                \/ req[s].ask.endpoint = "thread" /\ ThreadOf[n] # req[s].ask.about
  <2> SUFFICES ASSUME RowsInv, NEW r \in Requests, NEW s \in Requests,
                      NEW m \in Range(req[r].items),
                      r \in req[s].prior, req[s].pc = "served", Opens(s, m)
               PROVE  \E n \in Copies(m, req[s].at) : Finds(s, n)
    BY DEF DialogsFindTheirMail
  <2>1. RowOK(s)
    BY DEF RowsInv
  <2>2. Kept(Range(req[r].items), req[s].before)
    BY <2>1 DEF RowOK
  <2>3. /\ Kept(req[s].before, req[s].at)
        /\ \A n \in req[s].at :
              (\/ req[s].ask.endpoint = "email" /\ IdOf[n] = req[s].ask.about
               \/ req[s].ask.endpoint = "thread" /\ ThreadOf[n] = req[s].ask.about) =>
                  n \in Range(req[s].items)
    BY <2>1 DEF RowOK, DialogWhole
  <2>4. Kept(Range(req[r].items), req[s].at)
    BY <2>2, <2>3, KeptOn
  <2>5. PICK n \in Copies(m, req[s].at) : TRUE
    BY <2>4 DEF Kept
  <2>6. IdOf[n] = IdOf[m] /\ n \in req[s].at
    BY DEF Copies
  <2>7. Finds(s, n)
    BY <2>3, <2>6
  <2> QED BY <2>7
<1> QED BY <1>1, RowsInit, RowsStep, PTL DEF Spec

\* A search lists only rows that are meant, or were by the words they had, whatever
\* the LLM makes of the question, within what ListsOnlyMeant says of keywords and
\* addresses.
THEOREM ListsOnlyMeantAlways == Spec => []ListsOnlyMeant
<1>1. RowsInv => ListsOnlyMeant
  <2> SUFFICES ASSUME RowsInv, NEW r \in Requests, AnsweredSearch(r),
                      Exact(req[r].intent.from),
                      req[r].intent.keywords = <<>> \/ UsesFts(Plan(r)),
                      NEW m \in Range(req[r].items)
               PROVE  \/ m \in Meant(req[r].intent)
                      \/ UsesFts(Plan(r)) /\ Copies(m, Mail) \cap Meant(req[r].intent) # {}
    BY DEF ListsOnlyMeant
  <2>1. RowOK(r)
    BY DEF RowsInv
  <2>2. m \in Answerable(Plan(r))
    BY <2>1 DEF RowOK, ListedOnly, AnsweredSearch, Answered
  <2>3. IntentOK(req[r].intent)
    BY <2>1 DEF RowOK
  <2> QED BY <2>2, <2>3, AnswerableMeant DEF Plan
<1> QED BY <1>1, RowsInit, RowsStep, PTL DEF Spec

-----------------------------------------------------------------------------
(* The types *)

\* The values of a column are finitely many.
LEMMA ValuesCount ==
    ASSUME NEW rows, rows \subseteq Mail, NEW f
    PROVE  /\ IsFiniteSet({f[m] : m \in rows})
           /\ Cardinality({f[m] : m \in rows}) \in Nat
           /\ IsFiniteSet(rows) /\ Cardinality(rows) \in Nat
<1> DEFINE values == {f[m] : m \in rows}
           g == [m \in rows |-> f[m]]
<1>1. IsFiniteSet(rows)
  BY FS_Subset, AskAssumption DEF AskAssumption
<1>2. g \in Surjection(rows, values)
  BY DEF Surjection
<1> HIDE DEF values, g
<1>3. IsFiniteSet(values)
  BY <1>1, <1>2, FS_Surjection
<1> QED BY <1>1, <1>3, FS_CardinalityType DEF values

\* The groups of an aggregation are a number.
LEMMA GroupsNat ==
    ASSUME NEW table, table \subseteq Mail, NEW plan
    PROVE  Groups(table, plan) \in Nat
<1> DEFINE rows == Selected(table, plan)
           senders == Cardinality({SenderOf[m] : m \in rows})
           stamps == Cardinality({StampOf[m] : m \in rows})
<1>1. rows \subseteq Mail
  BY DEF Selected
<1> HIDE DEF rows
<1>2. senders \in Nat /\ stamps \in Nat
  BY <1>1, ValuesCount
<1> HIDE DEF senders, stamps
<1>3. Min({200, senders}) \in Nat /\ Min({50, senders}) \in Nat
  BY <1>2, MinOfTwo
<1>4. Groups(table, plan) \in {stamps, Min({200, senders}), Min({50, senders})}
  BY DEF Groups, rows, senders, stamps
<1> QED BY <1>2, <1>3, <1>4

\* The figure of a dialog is a number.
LEMMA FigureNat ==
    ASSUME emails \subseteq Mail, NEW ask
    PROVE  Figure(ask) \in Nat
<1> DEFINE senders == Cardinality({SenderOf[m] : m \in emails})
           dates == {StampOf[m] : m \in emails}
<1>1. senders \in Nat /\ IsFiniteSet(dates) /\ Cardinality(emails) \in Nat
  BY ValuesCount
<1>2. Found(ask) \subseteq Mail
  BY DEF Found
<1>3. Cardinality(Found(ask)) \in Nat
  BY <1>2, ValuesCount
<1>4. Cardinality(dates \ {NoDate}) \in Nat
  <2> HIDE DEF dates
  <2>1. IsFiniteSet(dates \ {NoDate})
    BY <1>1, FS_Subset
  <2> QED BY <2>1, FS_CardinalityType
<1> HIDE DEF senders
<1>5. Min({20, senders}) \in Nat
  BY <1>1, MinOfTwo
<1>6. Figure(ask) \in {Min({20, senders}), Cardinality(dates \ {NoDate}), Cardinality(emails),
                       Cardinality(Found(ask))}
  BY DEF Figure, senders
<1> QED BY <1>1, <1>3, <1>4, <1>5, <1>6

\* The history never grows past twenty entries.
LEMMA RemembersTwenty ==
    ASSUME NEW S, NEW list \in Seq(S), NEW role \in S
    PROVE  Remember(list, role) \in Seq(S) /\ Len(Remember(list, role)) <= 20
<1> DEFINE longer == Append(list, role)
           n == Len(longer)
           from == n - 19
           first == Max({1, from})
<1>1. longer \in Seq(S) /\ n \in Nat /\ from \in Int
  OBVIOUS
<1>2. first = IF 1 >= from THEN 1 ELSE from
  <2> HIDE DEF from
  <2> QED BY <1>1, MaxOfTwo
<1>3. first \in Int /\ first >= 1 /\ n - first + 1 <= 20
  <2> HIDE DEF longer, first
  <2> QED BY <1>1, <1>2
<1>4. \A i \in first..n : longer[i] \in S
  <2> HIDE DEF longer, first
  <2>1. DOMAIN longer = 1..n /\ \A i \in 1..n : longer[i] \in S
    BY <1>1
  <2> QED BY <1>1, <1>3, <2>1
<1>5. Remember(list, role) = SubSeq(longer, first, n)
  BY DEF Remember
<1> HIDE DEF longer, n, from, first
<1>6. /\ SubSeq(longer, first, n) \in Seq(S)
      /\ Len(SubSeq(longer, first, n)) = IF first <= n THEN n - first + 1 ELSE 0
  BY <1>1, <1>3, <1>4, SubSeqProperties
<1> QED BY <1>1, <1>3, <1>5, <1>6

\* A list of rows is a sequence of so many.
LEMMA ListNat ==
    ASSUME NEW rows, rows \subseteq Mail,
           NEW i, i \in SetToSeqs(rows) \/ \E sort \in SortOrders : i \in Orders[sort][rows]
    PROVE  i \in SetToSeqs(rows) /\ i \in Seq(rows) /\ Range(i) = rows /\ Len(i) \in Nat
<1>1. i \in SetToSeqs(rows)
  BY DEF Orders
<1> QED BY <1>1, ListingRows

\* What a session remembers.
Roles == {"user", "assistant_clarification"}

\* The types, with those of the history.
TypeInv ==
    /\ Shaped /\ TypeOK
    /\ \A r \in Requests : req[r].sessions \in Seq(Roles)

\* The initial state has the types.
LEMMA TypeInit == Init => TypeInv
<1> SUFFICES ASSUME Init PROVE TypeInv
  OBVIOUS
<1>1. \A r \in Requests : req[r] = BlankRequest
  BY DEF Init
<1>2. /\ DOMAIN BlankRequest = Fields /\ BlankRequest.sessions = <<>>
      /\ BlankRequest.pc = "new" /\ BlankRequest.ask = BlankAsk
      /\ BlankRequest.items = <<>> /\ BlankRequest.anchor = {} /\ BlankRequest.total = 0
  BY BlankShape DEF BlankRequest
<1>3. Range(<<>>) = {} /\ DOMAIN <<>> = {}
  BY DEF Range
<1>4. <<>> \in Seq(Roles) /\ Len(<<>>) = 0
  OBVIOUS
<1>5. Shaped
  BY <1>1, <1>2 DEF Init, Shaped
<1>6. /\ emails \subseteq Mail /\ index \in SUBSET SUBSET Mail /\ loop = None /\ audit = <<>>
      /\ \A m, n \in emails : IdOf[m] = IdOf[n] => m = n
  BY ServiceAssumption DEF ServiceAssumption, Init
<1>7. faults \in 0..MaxFaults
  BY ServiceAssumption DEF ServiceAssumption, Init
<1> HIDE DEF BlankRequest
<1>8. ASSUME NEW r \in Requests
      PROVE  /\ req[r].pc \in PCs /\ req[r].ask \in Asks \cup {BlankAsk}
             /\ Range(req[r].items) \cup req[r].anchor \subseteq Mail
             /\ req[r].total \in Nat
             /\ Len(req[r].sessions) <= 20 /\ req[r].sessions \in Seq(Roles)
  <2>1. req[r].pc \in PCs /\ req[r].ask \in Asks \cup {BlankAsk}
    BY <1>1, <1>2 DEF PCs
  <2>2. Range(req[r].items) \cup req[r].anchor \subseteq Mail /\ req[r].total \in Nat
    BY <1>1, <1>2, <1>3
  <2>3. req[r].sessions = <<>>
    BY <1>1, <1>2
  <2>4. Len(req[r].sessions) <= 20 /\ req[r].sessions \in Seq(Roles)
    BY <1>4, <2>3
  <2> QED BY <2>1, <2>2, <2>4
<1>9. \A i \in DOMAIN audit : audit[i] \in [request : Requests, count : Nat]
  BY <1>3, <1>6
<1> QED BY <1>5, <1>6, <1>7, <1>8, <1>9 DEF TypeInv, TypeOK

\* The type of one request.
Typed(r) ==
    /\ req[r].pc \in PCs
    /\ req[r].ask \in Asks \cup {BlankAsk}
    /\ Range(req[r].items) \cup req[r].anchor \subseteq Mail
    /\ req[r].total \in Nat
    /\ Len(req[r].sessions) <= 20
    /\ req[r].sessions \in Seq(Roles)

\* An action of a request leaves it of its type.
LEMMA TypedSteps ==
    ASSUME TypeInv, RowsInv, RowsInv', NEW r \in Requests,
           Receive(r) \/ Begin(r) \/ Work(r) \/ StatementFails(r)
    PROVE  Shaped' /\ OthersStay(r) /\ Typed(r)'
<1>0. /\ Shaped /\ Typed(r) /\ emails \subseteq Mail
      /\ "date_asc" \in SortOrders /\ "date_desc" \in SortOrders
      /\ Range(req'[r].items) \cup req'[r].anchor \subseteq Mail
  BY DEF TypeInv, TypeOK, Typed, SortOrders, RowsInv, RowOK, Kept
<1>1. CASE Receive(r)
  <2>1. /\ Shaped' /\ OthersStay(r)
        /\ \E ask \in Asks : req'[r] = [BlankRequest EXCEPT !.pc = "body", !.ask = ask]
    BY <1>0, <1>1, ReceiveWrites DEF Writes
  <2>2. PICK ask \in Asks : req'[r] = [BlankRequest EXCEPT !.pc = "body", !.ask = ask]
    BY <2>1
  <2>3. /\ req'[r].pc = "body" /\ req'[r].ask = ask /\ req'[r].total = 0
        /\ req'[r].sessions = <<>>
    BY <2>2 DEF BlankRequest
  <2>4. <<>> \in Seq(Roles) /\ Len(<<>>) = 0
    OBVIOUS
  <2>5. req'[r].pc \in PCs /\ req'[r].ask \in Asks \cup {BlankAsk} /\ req'[r].total \in Nat
    BY <2>3 DEF PCs
  <2>6. Len(req'[r].sessions) <= 20 /\ req'[r].sessions \in Seq(Roles)
    BY <2>3, <2>4
  <2> QED BY <1>0, <2>1, <2>5, <2>6 DEF Typed
<1>2. CASE Begin(r)
  <2>1. /\ Writes(r, {"pc", "before", "prior"})
        /\ req'[r].pc \in {"refused", "detail", "intent"}
    BY <1>0, <1>2, BeginWrites
  <2>2. req'[r].pc \in PCs
    BY <2>1 DEF PCs, Working, Statements, Over
  <2> QED BY <1>0, <2>1, <2>2 DEF Typed, Writes, Fields
<1>3. CASE AnalyzeIntent(r)
  <2>1. /\ Writes(r, {"pc", "intent", "sessions", "text"})
        /\ req'[r].pc \in {"aggregate", "fts", "count", "export", "rejected", "clarified",
                           "failed"}
        /\ req'[r].sessions \in
              {req[r].sessions, Remember(req[r].sessions, "assistant_clarification")}
    BY <1>0, <1>3, AnalyzeWrites
  <2>2. req'[r].pc \in PCs
    BY <2>1 DEF PCs, Working, Statements, Over
  <2>3. req'[r].sessions \in Seq(Roles) /\ Len(req'[r].sessions) <= 20
    BY <1>0, <2>1, RemembersTwenty DEF Typed, Roles
  <2> QED BY <1>0, <2>1, <2>2, <2>3 DEF Typed, Writes, Fields
<1>4. ASSUME NEW rows, rows \subseteq Mail,
             Writes(r, {"pc", "items", "anchor", "total", "at"}),
             \/ req'[r].items \in SetToSeqs(rows)
             \/ \E sort \in SortOrders : req'[r].items \in Orders[sort][rows],
             req'[r].total = Len(req'[r].items),
             req'[r].pc \in {"thread", "stats", "exported"}
      PROVE  Shaped' /\ OthersStay(r) /\ Typed(r)'
  <2>1. req'[r].total \in Nat
    BY <1>4, ListNat
  <2>2. req'[r].pc \in PCs
    BY <1>4 DEF PCs, Working, Statements, Over
  <2> QED BY <1>0, <1>4, <2>1, <2>2 DEF Typed, Writes, Fields
<1>5. CASE SearchFts(r) \/ SearchLike(r)
  <2> DEFINE fts == FtsMatches(emails, index, Plan(r).fts_query)
             liked == LikeMatches(emails, Plan(r).fts_query)
  <2>1. /\ Writes(r, {"pc", "items", "anchor", "total", "at"})
        /\ req'[r].items \in SetToSeqs(fts) \/ req'[r].items \in Orders["date_desc"][liked]
        /\ req'[r].total = Len(req'[r].items) /\ req'[r].pc = AfterSearch(r, req'[r].items)
    BY <1>0, <1>5, FtsWrites
  <2>2. fts \subseteq Mail /\ liked \subseteq Mail
    BY <1>0 DEF FtsMatches, LikeMatches
  <2>3. req'[r].pc \in {"thread", "stats"}
    BY <2>1 DEF AfterSearch
  <2> HIDE DEF fts, liked
  <2> QED BY <1>0, <1>4, <2>1, <2>2, <2>3
<1>6. CASE LoadThread(r)
  <2>1. /\ Writes(r, {"pc", "items", "total", "at"})
        /\ \E a \in req[r].anchor : req'[r].items \in Orders["date_asc"][Thread(a)]
        /\ req'[r].total = Len(req'[r].items) /\ req'[r].pc = "stats"
    BY <1>0, <1>6, ThreadWrites
  <2>2. PICK a \in req[r].anchor : req'[r].items \in Orders["date_asc"][Thread(a)]
    BY <2>1
  <2>3. Thread(a) \subseteq Mail
    BY <1>0 DEF Thread
  <2>4. Writes(r, {"pc", "items", "anchor", "total", "at"})
    BY <2>1 DEF Writes
  <2> QED BY <1>0, <1>4, <2>1, <2>2, <2>3, <2>4
<1>7. CASE ExportCsv(r)
  <2> DEFINE rows == Selected(emails, Plan(r))
  <2>1. /\ Writes(r, {"pc", "items", "total", "at"})
        /\ req'[r].items \in Orders["date_desc"][rows]
        /\ req'[r].total = Len(req'[r].items) /\ req'[r].pc = "exported"
    BY <1>0, <1>7, ExportWrites
  <2>2. rows \subseteq Mail
    BY <1>0 DEF Selected
  <2>3. Writes(r, {"pc", "items", "anchor", "total", "at"})
    BY <2>1 DEF Writes
  <2> HIDE DEF rows
  <2> QED BY <1>0, <1>4, <2>1, <2>2, <2>3
<1>8. CASE SearchCount(r)
  <2>1. /\ Writes(r, {"pc", "total"}) /\ req'[r].pc = "page"
        /\ req'[r].total = Cardinality(Selected(emails, Plan(r)))
    BY <1>0, <1>8, CountWrites
  <2>2. Selected(emails, Plan(r)) \subseteq Mail
    BY <1>0 DEF Selected
  <2>3. req'[r].total \in Nat
    BY <2>1, <2>2, ValuesCount
  <2>4. req'[r].pc \in PCs
    BY <2>1 DEF PCs, Working, Statements
  <2> QED BY <1>0, <2>1, <2>3, <2>4 DEF Typed, Writes, Fields
<1>9. CASE SearchPageOf(r)
  <2>1. Writes(r, {"pc", "items", "anchor", "at"}) /\ req'[r].pc = AfterSearch(r, req'[r].items)
    BY <1>0, <1>9, PageWrites
  <2>2. req'[r].pc \in PCs
    BY <2>1 DEF AfterSearch, PCs, Working, Statements
  <2> QED BY <1>0, <2>1, <2>2 DEF Typed, Writes, Fields
<1>10. CASE Aggregate(r)
  <2>1. /\ Writes(r, {"pc", "total", "at"}) /\ req'[r].pc \in {"failed", "stats"}
        /\ req'[r].total \in {req[r].total, Groups(emails, Plan(r))}
    BY <1>0, <1>10, AggregateWrites
  <2>2. req'[r].total \in Nat
    BY <1>0, <2>1, GroupsNat DEF Typed
  <2>3. req'[r].pc \in PCs
    BY <2>1 DEF PCs, Working, Statements, Over
  <2> QED BY <1>0, <2>1, <2>2, <2>3 DEF Typed, Writes, Fields
<1>11. CASE Present(r)
  <2>1. Writes(r, {"pc", "text", "shown"}) /\ req'[r].pc \in {"failed", "audit"}
    BY <1>0, <1>11, PresentWrites
  <2>2. req'[r].pc \in PCs
    BY <2>1 DEF PCs, Working, Statements, Over
  <2> QED BY <1>0, <2>1, <2>2 DEF Typed, Writes, Fields
<1>12. CASE LogAudit(r)
  <2>1. /\ Writes(r, {"pc", "sessions"}) /\ req'[r].pc = "reply"
        /\ req'[r].sessions = Remember(req[r].sessions, "user")
    BY <1>0, <1>12, LogWrites
  <2>2. req'[r].sessions \in Seq(Roles) /\ Len(req'[r].sessions) <= 20
    BY <1>0, <2>1, RemembersTwenty DEF Typed, Roles
  <2>3. req'[r].pc \in PCs
    BY <2>1 DEF PCs, Working
  <2> QED BY <1>0, <2>1, <2>2, <2>3 DEF Typed, Writes, Fields
<1>13. CASE ReadDetail(r)
  <2>1. /\ Writes(r, {"pc", "items", "total", "at"}) /\ req'[r].pc = "served"
        /\ req'[r].total = Figure(req[r].ask)
    BY <1>0, <1>13, DetailWrites
  <2>2. req'[r].total \in Nat
    BY <1>0, <2>1, FigureNat
  <2>3. req'[r].pc \in PCs
    BY <2>1 DEF PCs, Over
  <2> QED BY <1>0, <2>1, <2>2, <2>3 DEF Typed, Writes, Fields
<1>14. CASE Respond(r) \/ SearchRaises(r) \/ StatementFails(r)
  <2>1. Writes(r, {"pc"}) /\ req'[r].pc \in {"answered", "failed", "served"}
    BY <1>0, <1>14, EndWrites
  <2>2. req'[r].pc \in PCs
    BY <2>1 DEF PCs, Over
  <2> QED BY <1>0, <2>1, <2>2 DEF Typed, Writes, Fields
<1> QED BY <1>1, <1>2, <1>3, <1>5, <1>6, <1>7, <1>8, <1>9, <1>10, <1>11, <1>12, <1>13, <1>14
        DEF Work

\* The log holds calls and counts.
LEMMA TypedLog ==
    ASSUME TypeInv, AuditInv, [Next]_vars
    PROVE  \A i \in DOMAIN audit' : audit'[i] \in [request : Requests, count : Nat]
<1>1. Shaped /\ \A i \in DOMAIN audit : audit[i] \in [request : Requests, count : Nat]
  BY DEF TypeInv, TypeOK
<1>2. ASSUME NEW r \in Requests, LogAudit(r)
      PROVE  \A i \in DOMAIN audit' : audit'[i] \in [request : Requests, count : Nat]
  <2> DEFINE e == [request |-> r, count |-> req[r].total]
             n == Len(audit)
             S == {audit[i] : i \in DOMAIN audit}
  <2>1. audit' = Append(audit, e)
    BY <1>1, <1>2, LogWrites
  <2>2. e \in [request : Requests, count : Nat]
    BY DEF TypeInv, TypeOK
  <2>3. audit \in Seq(S)
    BY DEF AuditInv
  <2> HIDE DEF e, S
  <2>4. n \in Nat /\ DOMAIN audit = 1..n
    BY <2>3
  <2>5. /\ DOMAIN audit' = 1..(n + 1) /\ audit'[n + 1] = e
        /\ \A i \in 1..n : audit'[i] = audit[i]
    BY <2>1, <2>3, <2>4
  <2> HIDE DEF n
  <2>6. ASSUME NEW i \in 1..(n + 1)
        PROVE  audit'[i] \in [request : Requests, count : Nat]
    <3>1. i \in 1..n \/ i = n + 1
      BY <2>4
    <3> QED BY <1>1, <2>2, <2>4, <2>5, <3>1
  <2> QED BY <2>5, <2>6
<1>3. CASE UNCHANGED audit
  BY <1>1, <1>3
<1>4. UNCHANGED audit \/ \E r \in Requests : LogAudit(r)
  BY DEF Next, Work, Receive, Begin, AnalyzeIntent, SearchFts, SearchLike, SearchCount,
     SearchPageOf, SearchRaises, LoadThread, Aggregate, Present, Respond, ExportCsv, ReadDetail,
     StatementFails, Restart, IngestRow, DropIndex, CreateIndex, vars
<1> QED BY <1>2, <1>3, <1>4

\* One more failure, as long as there may be one.
LEMMA FaultsBounded ==
    ASSUME TypeOK, [Next]_vars
    PROVE  faults' \in 0..MaxFaults
<1>1. faults \in 0..MaxFaults /\ MaxFaults \in Nat
  BY ServiceAssumption DEF TypeOK, ServiceAssumption
<1>2. UNCHANGED faults \/ Fault
  BY DEF Next, Work, Receive, Begin, AnalyzeIntent, SearchFts, SearchLike, FtsRaises,
     SearchCount, SearchPageOf, SearchRaises, LoadThread, Aggregate, Present, LogAudit, Respond, ExportCsv, ReadDetail,
     StatementFails, Restart, IngestRow, DropIndex, CreateIndex, vars
<1> QED BY <1>1, <1>2 DEF Fault

\* Who may have the event loop.
LEMMA LoopServes ==
    ASSUME TypeInv, [Next]_vars
    PROVE  loop' \in Requests \cup {None}
<1>1. Shaped /\ loop \in Requests \cup {None}
  BY DEF TypeInv, TypeOK
<1>2. ASSUME NEW r \in Requests, Receive(r) \/ Begin(r) \/ Work(r) \/ StatementFails(r)
      PROVE  loop' \in {None, loop, r}
  BY <1>1, <1>2, ReceiveWrites, BeginWrites, AnalyzeWrites, FtsWrites, CountWrites, PageWrites,
     ThreadWrites, AggregateWrites, PresentWrites, LogWrites, ExportWrites, DetailWrites,
     EndWrites DEF Work
<1>3. CASE Restart
  BY <1>3 DEF Restart
<1>4. CASE UNCHANGED loop
  BY <1>1, <1>4
<1> QED BY <1>1, <1>2, <1>3, <1>4 DEF Next, IngestRow, DropIndex, CreateIndex, vars

\* INSERT OR REPLACE leaves one row for each message_id.
LEMMA OneRowEach ==
    ASSUME TypeOK, [Next]_vars
    PROVE  \A m, n \in emails' : IdOf[m] = IdOf[n] => m = n
<1>1. \A m, n \in emails : IdOf[m] = IdOf[n] => m = n
  BY DEF TypeOK
<1>2. CASE IngestRow
  BY <1>1, <1>2 DEF IngestRow, Copies
<1>3. UNCHANGED emails \/ IngestRow
  BY DEF Next, Work, Receive, Begin, AnalyzeIntent, SearchFts, SearchLike, SearchCount,
     SearchPageOf, SearchRaises, LoadThread, Aggregate, Present, LogAudit, Respond, ExportCsv,
     ReadDetail, StatementFails, Restart, DropIndex, CreateIndex, vars
<1> QED BY <1>1, <1>2, <1>3

\* No action leaves the types.
LEMMA TypeStep == TypeInv /\ RowsInv /\ RowsInv' /\ AuditInv /\ [Next]_vars => TypeInv'
<1> SUFFICES ASSUME TypeInv, RowsInv, RowsInv', AuditInv, [Next]_vars PROVE TypeInv'
  OBVIOUS
<1>0. Shaped /\ \A r \in Requests : Typed(r)
  BY DEF TypeInv, TypeOK, Typed
<1>1. SUFFICES ASSUME TRUE PROVE Shaped' /\ \A r \in Requests : Typed(r)'
  <2>1. emails' \subseteq Mail
    BY DEF RowsInv
  <2>2. index' \in SUBSET SUBSET Mail
    <3>1. index \in SUBSET SUBSET Mail /\ emails \subseteq Mail
      BY DEF TypeInv, TypeOK
    <3>2. index' \in {index, {}, {emails}}
      BY DEF Next, Work, Receive, Begin, AnalyzeIntent, SearchFts, SearchLike, SearchCount,
         SearchPageOf, SearchRaises, LoadThread, Aggregate, Present, LogAudit, Respond, ExportCsv, ReadDetail,
         StatementFails, Restart, IngestRow, DropIndex, CreateIndex, vars
    <3> QED BY <3>1, <3>2
  <2>3. TypeOK
    BY DEF TypeInv
  <2>4. \A m, n \in emails' : IdOf[m] = IdOf[n] => m = n
    BY <2>3, OneRowEach
  <2> QED BY <1>1, <2>1, <2>2, <2>3, <2>4, TypedLog, FaultsBounded, LoopServes DEF TypeInv, TypeOK, Typed
<1>2. ASSUME NEW r \in Requests, Receive(r) \/ Begin(r) \/ Work(r) \/ StatementFails(r)
      PROVE  Shaped' /\ \A s \in Requests : Typed(s)'
  <2>1. Shaped' /\ OthersStay(r) /\ Typed(r)'
    BY <1>2, TypedSteps
  <2>2. ASSUME NEW s \in Requests, s # r PROVE Typed(s)'
    BY <1>0, <2>1, <2>2 DEF Typed, OthersStay
  <2> QED BY <2>1, <2>2
<1>3. CASE Restart
  <2>1. Shaped' /\ \A r \in Requests :
                 /\ \A f \in Fields \ {"pc"} : req'[r][f] = req[r][f]
                 /\ req'[r] = req[r] \/ req'[r].pc = "lost"
    BY <1>0, <1>3, RestartWrites
  <2>2. ASSUME NEW r \in Requests PROVE Typed(r)'
    <3>1. req'[r].pc \in PCs
      BY <1>0, <2>1 DEF Typed, PCs, Over
    <3> QED BY <1>0, <2>1, <3>1 DEF Typed, Fields
  <2> QED BY <2>1, <2>2
<1>4. CASE UNCHANGED req
  BY <1>0, <1>4 DEF Typed, Shaped
<1> QED BY <1>2, <1>3, <1>4 DEF Next, IngestRow, DropIndex, CreateIndex, vars

\* Tables, calls and log are what they are taken for, and no session list is longer
\* than twenty, for any table, any number of requests and any answer of the LLM.
THEOREM QueryTypesCorrect == Spec => []TypeOK
<1>1. Init => TypeInv /\ RowsInv /\ AuditInv
  BY TypeInit, RowsInit, AuditInit
<1>2. TypeInv /\ RowsInv /\ AuditInv /\ [Next]_vars => (TypeInv /\ RowsInv /\ AuditInv)'
  BY TypeStep, RowsStep, AuditStep
<1>3. TypeInv => TypeOK
  BY DEF TypeInv
<1> QED BY <1>1, <1>2, <1>3, PTL DEF Spec

-----------------------------------------------------------------------------
(* What a reply shows is what a statement found *)

\* Where a request has rows that go into its reply.
Shown == {"stats", "audit", "reply", "answered"}

\* When a call has its rows the table has a copy of every row that it had when the
\* call began, and an export has all rows of its clauses.
ReadInTurn(r) ==
    /\ req[r].at \subseteq Mail
    /\ req[r].pc \in {"thread", "exported"} \cup Shown => Kept(req[r].before, req[r].at)
    /\ req[r].pc = "exported" => Range(req[r].items) = Selected(req[r].at, Plan(r))
    /\ req[r].pc = "aggregate" => Aggregates(r)

\* What clauses list is a page of the rows they select.
PageShown(r) ==
    (/\ req[r].pc \in {"thread"} \cup Shown
     /\ ~Aggregates(r) /\ ~UsesFts(Plan(r))
     /\ req[r].pc = "thread" \/ ~ShowsThread(r)) =>
        /\ SearchSize(r) > 0
        /\ \E s \in Orders[Plan(r).sort][Selected(req[r].at, Plan(r))] :
              req[r].items = PageOf(s, SearchPage(r), SearchSize(r))

\* What words find and what a thread holds is shown whole.
AllShown(r) ==
    /\ (/\ req[r].pc \in Shown /\ ~Aggregates(r)
        /\ UsesFts(Plan(r)) \/ ShowsThread(r)) => req[r].total = Len(req[r].items)
    /\ req[r].pc \in Shown /\ ShowsThread(r) => \A a \in req[r].anchor :
          Range(req[r].items) = {m \in req[r].at : ThreadOf[m] = ThreadOf[a]}

\* A thread is that of the one row that was taken for its anchor, which is in the table
\* when the thread is read, and what has no thread is shown as it was found.
AnchorOK(r) ==
    /\ req[r].pc \in {"thread"} \cup Shown /\ IsThreadView(r) =>
          \A a \in req[r].anchor : Fits(Plan(r), a) /\ req[r].anchor = {a}
    /\ req[r].pc = "thread" => ShowsThread(r)
    /\ req[r].pc \in Shown /\ IsThreadView(r) =>
          IF ShowsThread(r) THEN Kept(req[r].anchor, req[r].at)
          ELSE req[r].anchor \subseteq Range(req[r].items)

\* All that is said here of the rows of a request.
FoundOK(r) == ReadInTurn(r) /\ PageShown(r) /\ AllShown(r) /\ AnchorOK(r)

\* It is so of every request.
FoundInv == \A r \in Requests : FoundOK(r)

\* A request that has no rows to show has nothing to keep but the tables it saw.
LEMMA FoundNothing ==
    ASSUME NEW r, req'[r].at \subseteq Mail,
           req'[r].pc \notin {"thread", "exported"} \cup Shown,
           req'[r].pc = "aggregate" => Aggregates(r)'
    PROVE  FoundOK(r)'
<1>1. req'[r].pc # "thread" /\ req'[r].pc # "exported" /\ req'[r].pc \notin Shown
  OBVIOUS
<1> QED BY <1>1 DEF FoundOK, ReadInTurn, PageShown, AllShown, AnchorOK

\* What a request is asked and what it found decide what is said of it here.
SameFound(r) ==
    \A f \in {"ask", "intent", "items", "anchor", "total", "before", "at", "prior"} :
        req'[r][f] = req[r][f]

\* They decide its plan, its page and what its statements are.
LEMMA SameWords ==
    ASSUME NEW r, SameFound(r)
    PROVE  /\ Plan(r)' = Plan(r) /\ Size(r)' = Size(r)
           /\ SearchPage(r)' = SearchPage(r) /\ SearchSize(r)' = SearchSize(r)
           /\ Aggregates(r)' = Aggregates(r) /\ IsThreadView(r)' = IsThreadView(r)
           /\ ShowsThread(r)' = ShowsThread(r)
<1>1. /\ req'[r].ask = req[r].ask /\ req'[r].intent = req[r].intent
      /\ req'[r].anchor = req[r].anchor
  BY DEF SameFound
<1>2. Plan(r)' = Plan(r)
  BY <1>1 DEF Plan
<1>3. IsThreadView(r)' = IsThreadView(r)
  BY <1>2 DEF IsThreadView
<1>4. Size(r)' = Size(r)
  BY <1>1, <1>2 DEF Size
<1> QED BY <1>1, <1>2, <1>3, <1>4 DEF SearchPage, SearchSize, Aggregates, ShowsThread

\* Whoever has rows keeps them on the way to the reply.
LEMMA FoundKept ==
    ASSUME NEW r \in Requests, FoundOK(r), SameFound(r),
           (req[r].pc \in Shown /\ req'[r].pc \in Shown) \/ req'[r].pc = req[r].pc
    PROVE  FoundOK(r)'
<1>1. /\ req'[r].ask = req[r].ask /\ req'[r].intent = req[r].intent
      /\ req'[r].items = req[r].items /\ req'[r].anchor = req[r].anchor
      /\ req'[r].total = req[r].total
      /\ req'[r].before = req[r].before /\ req'[r].at = req[r].at
  BY DEF SameFound
<1>2. /\ Plan(r)' = Plan(r) /\ SearchPage(r)' = SearchPage(r)
      /\ SearchSize(r)' = SearchSize(r) /\ Aggregates(r)' = Aggregates(r)
      /\ IsThreadView(r)' = IsThreadView(r) /\ ShowsThread(r)' = ShowsThread(r)
  BY SameWords
<1>3. ReadInTurn(r)'
  BY <1>1, <1>2 DEF FoundOK, ReadInTurn, Shown
<1>4. PageShown(r)'
  BY <1>1, <1>2 DEF FoundOK, PageShown, Shown
<1>5. AllShown(r)'
  BY <1>1, <1>2 DEF FoundOK, AllShown, Shown
<1>6. AnchorOK(r)'
  BY <1>1, <1>2 DEF FoundOK, AnchorOK, Shown
<1> QED BY <1>3, <1>4, <1>5, <1>6 DEF FoundOK

\* A step of one request: the others keep what they have.
LEMMA FoundFrame ==
    ASSUME FoundInv, NEW r \in Requests, OthersStay(r), FoundOK(r)'
    PROVE  FoundInv'
<1>1. ASSUME NEW s \in Requests, s # r PROVE FoundOK(s)'
  <2>1. req'[s] = req[s] /\ FoundOK(s)
    BY <1>1 DEF OthersStay, FoundInv
  <2>2. SameFound(s)
    BY <2>1 DEF SameFound
  <2> QED BY <2>1, <2>2, FoundKept
<1> QED BY <1>1 DEF FoundInv

\* An aggregation is no thread.
LEMMA AggregatesNoThread ==
    ASSUME NEW r, Aggregates(r)
    PROVE  ~IsThreadView(r) /\ ~ShowsThread(r)
BY DEF Aggregates, IsThreadView, ShowsThread, Plan, BuildQueryPlan, AggregationType

\* At the start nothing was found.
LEMMA FoundInit == Init => FoundInv
<1> SUFFICES ASSUME Init, NEW r \in Requests PROVE FoundOK(r)
  BY DEF FoundInv
<1>1. req[r].pc = "new" /\ req[r].at = {}
  BY DEF Init, BlankRequest
<1> QED BY <1>1 DEF FoundOK, ReadInTurn, PageShown, AllShown, AnchorOK, Shown

\* A request begins, is looked at, counts, or ends without rows.
LEMMA FoundBefore ==
    ASSUME RowsInv, FoundInv, NEW r \in Requests,
           \/ Receive(r) \/ Begin(r) \/ AnalyzeIntent(r) \/ SearchCount(r) \/ ReadDetail(r)
           \/ SearchRaises(r) \/ StatementFails(r)
    PROVE  FoundInv'
<1>0. Shaped /\ emails \subseteq Mail /\ req[r].at \subseteq Mail
  BY DEF RowsInv, FoundInv, FoundOK, ReadInTurn
<1> DEFINE Early == {"body", "refused", "detail", "intent", "aggregate", "fts", "count", "export",
                     "rejected", "clarified", "failed", "page", "served"}
<1>1. ASSUME OthersStay(r), req'[r].at \in {{}, req[r].at, emails}, req'[r].pc \in Early,
             req'[r].pc = "aggregate" => Aggregates(r)'
      PROVE  FoundInv'
  <2>1. req'[r].pc \notin {"thread", "exported"} \cup Shown
    BY <1>1 DEF Shown
  <2>2. req'[r].at \subseteq Mail
    BY <1>0, <1>1
  <2> HIDE DEF Early
  <2>3. FoundOK(r)'
    BY <1>1, <2>1, <2>2, FoundNothing
  <2> QED BY <1>1, <2>3, FoundFrame
<1> HIDE DEF Early
<1>2. CASE Receive(r)
  <2>1. /\ Writes(r, Fields)
        /\ \E ask \in Asks : req'[r] = [BlankRequest EXCEPT !.pc = "body", !.ask = ask]
    BY <1>0, <1>2, ReceiveWrites
  <2>2. req'[r].pc = "body" /\ req'[r].at = {}
    BY <2>1 DEF BlankRequest
  <2> QED BY <1>1, <2>1, <2>2 DEF Writes, Early
<1>3. CASE Begin(r)
  <2>1. /\ Writes(r, {"pc", "before", "prior"})
        /\ req'[r].pc \in {"refused", "detail", "intent"}
    BY <1>0, <1>3, BeginWrites
  <2>2. req'[r].at = req[r].at
    BY <2>1 DEF Writes, Fields
  <2> QED BY <1>1, <2>1, <2>2 DEF Writes, Early
<1>4. CASE AnalyzeIntent(r)
  <2>1. /\ Writes(r, {"pc", "intent", "sessions", "text"})
        /\ req'[r].pc \in {"aggregate", "fts", "count", "export", "rejected", "clarified",
                           "failed"}
        /\ req'[r].pc = "aggregate" => Aggregates(r)'
    <3>1. \A plan : FirstStatement(plan) = "aggregate" => plan.aggregation # "none"
      BY DEF FirstStatement
    <3>2. req'[r].pc = "aggregate" => Plan(r)'.aggregation # "none"
      BY <1>0, <1>4, <3>1, AnalyzeWrites
    <3> QED BY <1>0, <1>4, <3>2, AnalyzeWrites DEF Aggregates
  <2>2. req'[r].at = req[r].at
    BY <2>1 DEF Writes, Fields
  <2>3. req'[r].pc \in Early
    BY <2>1 DEF Early
  <2> QED BY <1>1, <2>1, <2>2, <2>3 DEF Writes
<1>5. CASE SearchCount(r)
  <2>1. Writes(r, {"pc", "total"}) /\ req'[r].pc = "page"
    BY <1>0, <1>5, CountWrites
  <2>2. req'[r].at = req[r].at
    BY <2>1 DEF Writes, Fields
  <2> QED BY <1>1, <2>1, <2>2 DEF Writes, Early
<1>6. CASE ReadDetail(r)
  <2>1. /\ Writes(r, {"pc", "items", "total", "at"})
        /\ req'[r].pc = "served" /\ req'[r].at = emails
    BY <1>0, <1>6, DetailWrites
  <2> QED BY <1>1, <2>1 DEF Writes, Early
<1>7. CASE SearchRaises(r) \/ StatementFails(r)
  <2>1. Writes(r, {"pc"}) /\ req'[r].pc \in {"failed", "served"}
    <3>1. ~Respond(r)
      BY <1>7 DEF SearchRaises, StatementFails, Respond, Holds, Statements
    <3> QED BY <1>0, <1>7, <3>1, EndWrites
  <2>2. req'[r].at = req[r].at
    BY <2>1 DEF Writes, Fields
  <2> QED BY <1>1, <2>1, <2>2 DEF Writes, Early
<1> QED BY <1>2, <1>3, <1>4, <1>5, <1>6, <1>7

\* Rows that are kept: the words, the log, the reply.
LEMMA FoundGoesOn ==
    ASSUME RowsInv, FoundInv, NEW r \in Requests, Present(r) \/ LogAudit(r) \/ Respond(r)
    PROVE  FoundInv'
<1>0. Shaped /\ FoundOK(r)
  BY DEF RowsInv, FoundInv
<1>1. req[r].pc \in {"stats", "audit", "reply"}
  BY DEF Present, LogAudit, Respond, Holds
<1>2. req[r].pc \in Shown
  BY <1>1 DEF Shown
<1>3. ASSUME NEW changed, Writes(r, changed), changed \subseteq {"pc", "text", "shown", "sessions"},
             req'[r].pc \in {"failed"} \cup Shown
      PROVE  FoundInv'
  <2>1. SameFound(r)
    BY <1>3 DEF Writes, Fields, SameFound
  <2>2. CASE req'[r].pc \in Shown
    <3>1. FoundOK(r)'
      BY <1>0, <1>2, <2>1, <2>2, FoundKept
    <3> QED BY <1>3, <3>1, FoundFrame DEF Writes
  <2>3. CASE req'[r].pc = "failed"
    <3>1. req'[r].at \subseteq Mail
      BY <1>0, <2>1 DEF SameFound, FoundOK, ReadInTurn
    <3>2. "failed" \notin {"thread", "exported"} \cup Shown
      BY DEF Shown
    <3>3. FoundOK(r)'
      BY <2>3, <3>1, <3>2, FoundNothing
    <3> QED BY <1>3, <3>3, FoundFrame DEF Writes
  <2> QED BY <1>3, <2>2, <2>3
<1>4. CASE Present(r)
  <2>1. Writes(r, {"pc", "text", "shown"}) /\ req'[r].pc \in {"failed", "audit"}
    BY <1>0, <1>4, PresentWrites
  <2> QED BY <1>3, <2>1 DEF Shown
<1>5. CASE LogAudit(r)
  <2>1. Writes(r, {"pc", "sessions"}) /\ req'[r].pc = "reply"
    BY <1>0, <1>5, LogWrites
  <2> QED BY <1>3, <2>1 DEF Shown
<1>6. CASE Respond(r)
  <2>1. Writes(r, {"pc"}) /\ req'[r].pc = "answered"
    BY <1>0, <1>6, EndWrites
  <2> QED BY <1>3, <2>1 DEF Shown
<1> QED BY <1>4, <1>5, <1>6

\* A step that reads rows from the table as it is.
LEMMA FoundRead ==
    ASSUME RowsInv, FoundInv, NEW r \in Requests,
           NEW changed, Writes(r, changed), "before" \notin changed,
           req'[r].at = emails, req'[r].pc # "aggregate",
           req'[r].pc = "exported" => Range(req'[r].items) = Selected(req'[r].at, Plan(r)'),
           PageShown(r)', AllShown(r)', AnchorOK(r)'
    PROVE  FoundInv'
<1>1. emails \subseteq Mail /\ Kept(req[r].before, emails)
  BY DEF RowsInv, RowOK
<1>2. req'[r].before = req[r].before
  BY DEF Writes, Fields
<1>3. ReadInTurn(r)'
  BY <1>1, <1>2 DEF ReadInTurn
<1>4. FoundOK(r)'
  BY <1>3 DEF FoundOK
<1> QED BY <1>4, FoundFrame DEF Writes

\* A search goes on to the thread of its anchor, or to the reply with the rows it has.
LEMMA AnchorTaken ==
    ASSUME NEW r \in Requests, NEW S, NEW items \in Seq(S), Range(items) \subseteq Answerable(Plan(r)),
           req'[r].items = items, req'[r].anchor = Anchor(r, items),
           req'[r].pc = AfterSearch(r, items),
           Plan(r)' = Plan(r), IsThreadView(r)' = IsThreadView(r)
    PROVE  /\ req'[r].pc \in {"thread", "stats"}
           /\ req'[r].pc = "thread" <=> ShowsThread(r)'
           /\ AnchorOK(r)'
<1>1. req'[r].anchor \subseteq Range(items)
  BY AnchorFound
<1>2. \A a \in req'[r].anchor : req'[r].anchor = {a}
  BY DEF Anchor
<1>3. \A a \in req'[r].anchor : Fits(Plan(r)', a)
  BY <1>1 DEF Answerable
<1>4. req'[r].anchor # {} => IsThreadView(r)
  BY DEF Anchor
<1>5. /\ req'[r].pc \in {"thread", "stats"}
      /\ req'[r].pc = "thread" <=> ShowsThread(r)'
  BY <1>4 DEF AfterSearch, ShowsThread
<1>6. req'[r].pc \in Shown => ~ShowsThread(r)'
  BY <1>5 DEF Shown
<1> QED BY <1>1, <1>2, <1>3, <1>5, <1>6 DEF AnchorOK

\* The rows of a search by words go into the reply whole.
LEMMA FoundFts ==
    ASSUME RowsInv, FoundInv, NEW r \in Requests, SearchFts(r) \/ SearchLike(r)
    PROVE  FoundInv'
<1> DEFINE fts == FtsMatches(emails, index, Plan(r).fts_query)
           liked == LikeMatches(emails, Plan(r).fts_query)
           items == req'[r].items
<1>1. Shaped /\ RowOK(r) /\ emails \subseteq Mail /\ index \subseteq SUBSET Mail
  BY DEF RowsInv
<1>2. /\ Writes(r, {"pc", "items", "anchor", "total", "at"}) /\ req[r].pc = "fts"
      /\ items \in SetToSeqs(fts) \/ items \in Orders["date_desc"][liked]
      /\ req'[r].total = Len(items) /\ req'[r].at = emails
      /\ req'[r].anchor = Anchor(r, items) /\ req'[r].pc = AfterSearch(r, items)
  BY <1>1, FtsWrites
<1>3. UsesFts(Plan(r))
  BY <1>1, <1>2 DEF RowOK, Placed
<1>4. /\ fts \subseteq Mail /\ fts \subseteq Answerable(Plan(r))
      /\ liked \subseteq Mail /\ liked \subseteq Answerable(Plan(r))
  BY <1>1, <1>3, FtsAnswers, LikeAnswers DEF FtsMatches, LikeMatches
<1> HIDE DEF fts, liked
<1>5. \/ items \in Seq(fts) /\ Range(items) = fts
      \/ items \in Seq(liked) /\ Range(items) = liked
  BY <1>2, <1>4, OrderedRows, ListingRows DEF SortOrders
<1>6. Plan(r)' = Plan(r) /\ IsThreadView(r)' = IsThreadView(r)
  BY <1>1, <1>2, SamePlan
<1> HIDE DEF items
<1>7. /\ req'[r].pc \in {"thread", "stats"} /\ (req'[r].pc = "thread" <=> ShowsThread(r)')
      /\ AnchorOK(r)'
  BY <1>2, <1>4, <1>5, <1>6, AnchorTaken DEF items
<1>8. PageShown(r)'
  BY <1>3, <1>6 DEF PageShown
<1>9. AllShown(r)'
  BY <1>2, <1>7 DEF AllShown, Shown, items
<1>10. req'[r].pc # "aggregate" /\ req'[r].pc # "exported"
  BY <1>7
<1> QED BY <1>2, <1>7, <1>8, <1>9, <1>10, FoundRead

\* The rows of a search by clauses are a page of what the table holds at the SELECT.
LEMMA FoundPage ==
    ASSUME RowsInv, FoundInv, NEW r \in Requests, SearchPageOf(r)
    PROVE  FoundInv'
<1> DEFINE found == Selected(emails, Plan(r))
           items == req'[r].items
<1>1. Shaped /\ RowOK(r) /\ emails \subseteq Mail
  BY DEF RowsInv
<1>2. /\ Writes(r, {"pc", "items", "anchor", "at"}) /\ req[r].pc = "page" /\ ~Unanswerable(r)
      /\ \E s \in Orders[Plan(r).sort][found] :
            items = PageOf(s, SearchPage(r), SearchSize(r))
      /\ req'[r].at = emails
      /\ req'[r].anchor = Anchor(r, items) /\ req'[r].pc = AfterSearch(r, items)
  BY <1>1, PageWrites
<1>3. ~UsesFts(Plan(r))
  BY <1>1, <1>2 DEF RowOK, Placed
<1>4. found \subseteq Mail /\ found \subseteq Answerable(Plan(r))
  BY <1>1, <1>3 DEF Selected, Answerable, Fits
<1>5. /\ SearchPage(r) \in Nat \ {0} /\ SearchSize(r) \in Nat /\ SearchSize(r) # 0
      /\ Plan(r).sort \in SortOrders
  BY <1>1, <1>2, PageNumbers DEF Unanswerable
<1>6. /\ Plan(r)' = Plan(r) /\ IsThreadView(r)' = IsThreadView(r)
      /\ SearchPage(r)' = SearchPage(r) /\ SearchSize(r)' = SearchSize(r)
  BY <1>1, <1>2, SamePlan
<1>7. PICK s \in Orders[Plan(r).sort][found] : items = PageOf(s, SearchPage(r), SearchSize(r))
  BY <1>2
<1>8. PageShown(r)'
  <2>1. Selected(req'[r].at, Plan(r)') = found
    BY <1>2, <1>6
  <2>2. SearchSize(r)' > 0
    BY <1>5, <1>6
  <2>3. s \in Orders[Plan(r)'.sort][Selected(req'[r].at, Plan(r)')]
    BY <1>6, <1>7, <2>1
  <2>4. items = PageOf(s, SearchPage(r)', SearchSize(r)')
    BY <1>6, <1>7
  <2> HIDE DEF found, items
  <2> QED BY <2>2, <2>3, <2>4 DEF PageShown, items
<1> HIDE DEF found
<1>9. s \in Seq(found) /\ Range(s) = found
  BY <1>4, <1>5, <1>7, OrderedRows
<1>10. items \in Seq(found) /\ Range(items) \subseteq found
  BY <1>5, <1>7, <1>9, PagePlaces, PageRows
<1> HIDE DEF items
<1>11. /\ req'[r].pc \in {"thread", "stats"} /\ (req'[r].pc = "thread" <=> ShowsThread(r)')
       /\ AnchorOK(r)'
  <2>1. Range(items) \subseteq Answerable(Plan(r))
    BY <1>4, <1>10
  <2> QED BY <1>2, <1>6, <1>10, <2>1, AnchorTaken DEF items
<1>12. AllShown(r)'
  BY <1>3, <1>6, <1>11 DEF AllShown, Shown
<1>13. req'[r].pc # "aggregate" /\ req'[r].pc # "exported"
  BY <1>11
<1> QED BY <1>2, <1>8, <1>11, <1>12, <1>13, FoundRead

\* The rows of a thread are all that the table holds of it at the SELECT.
LEMMA FoundThread ==
    ASSUME RowsInv, FoundInv, NEW r \in Requests, LoadThread(r)
    PROVE  FoundInv'
<1> DEFINE items == req'[r].items
<1>1. Shaped /\ FoundOK(r) /\ emails \subseteq Mail /\ Kept(req[r].anchor, emails)
  BY DEF RowsInv, FoundInv, RowOK
<1>2. /\ Writes(r, {"pc", "items", "total", "at"})
      /\ req[r].pc = "thread" /\ req'[r].pc = "stats"
      /\ \E a \in req[r].anchor : items \in Orders["date_asc"][Thread(a)]
      /\ req'[r].total = Len(items) /\ req'[r].at = emails
  BY <1>1, ThreadWrites
<1>3. PICK a \in req[r].anchor : items \in Orders["date_asc"][Thread(a)]
  BY <1>2
<1>4. /\ ShowsThread(r) /\ IsThreadView(r)
      /\ \A b \in req[r].anchor : Fits(Plan(r), b) /\ req[r].anchor = {b}
  BY <1>1, <1>2 DEF FoundOK, AnchorOK, ShowsThread
<1>5. Thread(a) \subseteq Mail
  BY <1>1 DEF Thread
<1>6. Range(items) = Thread(a)
  BY <1>3, <1>5, OrderedRows DEF SortOrders
<1>7. Plan(r)' = Plan(r) /\ IsThreadView(r)' = IsThreadView(r)
  BY <1>1, <1>2, SamePlan
<1>8. req'[r].anchor = req[r].anchor
  BY <1>2 DEF Writes, Fields
<1>9. ShowsThread(r)'
  BY <1>4, <1>7, <1>8 DEF ShowsThread
<1>10. PageShown(r)'
  BY <1>2, <1>9 DEF PageShown
<1>11. AllShown(r)'
  <2>1. req[r].anchor = {a}
    BY <1>4
  <2> QED BY <1>2, <1>6, <1>8, <2>1 DEF AllShown, Thread
<1>12. AnchorOK(r)'
  BY <1>1, <1>2, <1>4, <1>7, <1>8, <1>9 DEF AnchorOK
<1>13. req'[r].pc # "aggregate" /\ req'[r].pc # "exported"
  BY <1>2
<1> QED BY <1>2, <1>10, <1>11, <1>12, <1>13, FoundRead

\* Groups have no rows to show.
LEMMA FoundGroups ==
    ASSUME RowsInv, FoundInv, NEW r \in Requests, Aggregate(r)
    PROVE  FoundInv'
<1>1. Shaped /\ FoundOK(r)
  BY DEF RowsInv, FoundInv
<1>2. /\ Writes(r, {"pc", "total", "at"}) /\ req[r].pc = "aggregate" /\ req'[r].at = emails
      /\ req'[r].pc \in {"failed", "stats"}
  BY <1>1, AggregateWrites
<1>3. Aggregates(r)
  BY <1>1, <1>2 DEF FoundOK, ReadInTurn
<1>4. Aggregates(r)' /\ IsThreadView(r)' = IsThreadView(r)
  BY <1>1, <1>2, <1>3, SamePlan
<1>5. ~IsThreadView(r)
  BY <1>3, AggregatesNoThread
<1>6. ~IsThreadView(r)' /\ ~ShowsThread(r)'
  BY <1>4, <1>5 DEF ShowsThread
<1>7. PageShown(r)'
  BY <1>4 DEF PageShown
<1>8. AllShown(r)'
  BY <1>4, <1>6 DEF AllShown
<1>9. AnchorOK(r)'
  BY <1>2, <1>6 DEF AnchorOK
<1>10. req'[r].pc # "aggregate" /\ req'[r].pc # "exported"
  BY <1>2
<1> QED BY <1>2, <1>7, <1>8, <1>9, <1>10, FoundRead

\* The rows of an export are all that the table holds at the SELECT.
LEMMA FoundExport ==
    ASSUME RowsInv, FoundInv, NEW r \in Requests, ExportCsv(r)
    PROVE  FoundInv'
<1>1. Shaped /\ emails \subseteq Mail
  BY DEF RowsInv
<1>2. /\ Writes(r, {"pc", "items", "total", "at"}) /\ req'[r].pc = "exported"
      /\ req'[r].items \in Orders["date_desc"][Selected(emails, Plan(r))]
      /\ req'[r].at = emails
  BY <1>1, ExportWrites
<1>3. Plan(r)' = Plan(r)
  BY <1>1, <1>2, SamePlan
<1>4. Selected(emails, Plan(r)) \subseteq Mail
  BY <1>1 DEF Selected
<1>5. Range(req'[r].items) = Selected(emails, Plan(r))
  BY <1>2, <1>4, OrderedRows DEF SortOrders
<1>6. PageShown(r)' /\ AllShown(r)' /\ AnchorOK(r)'
  BY <1>2 DEF PageShown, AllShown, AnchorOK, Shown
<1> QED BY <1>2, <1>3, <1>5, <1>6, FoundRead

\* A restart leaves what was found, but shows it to nobody.
LEMMA FoundRestart ==
    ASSUME RowsInv, FoundInv, Restart
    PROVE  FoundInv'
<1>0. Shaped
  BY DEF RowsInv
<1>1. \A r \in Requests :
         /\ \A f \in Fields \ {"pc"} : req'[r][f] = req[r][f]
         /\ req'[r] = req[r] \/ req'[r].pc = "lost"
  BY <1>0, RestartWrites
<1>2. ASSUME NEW r \in Requests PROVE FoundOK(r)'
  <2>1. FoundOK(r)
    BY DEF FoundInv
  <2>2. SameFound(r)
    BY <1>1 DEF SameFound, Fields
  <2>3. CASE req'[r].pc = req[r].pc
    BY <2>1, <2>2, <2>3, FoundKept
  <2>4. CASE req'[r].pc = "lost"
    <3>1. req'[r].at \subseteq Mail
      BY <2>1, <2>2 DEF SameFound, FoundOK, ReadInTurn
    <3>2. "lost" \notin {"thread", "exported", "aggregate"} \cup Shown
      BY DEF Shown
    <3> QED BY <2>4, <3>1, <3>2, FoundNothing
  <2> QED BY <1>1, <2>3, <2>4
<1> QED BY <1>2 DEF FoundInv

\* No action disturbs what a request found, ingestion least of all.
LEMMA FoundStep == RowsInv /\ FoundInv /\ [Next]_vars => FoundInv'
<1> SUFFICES ASSUME RowsInv, FoundInv, [Next]_vars PROVE FoundInv'
  OBVIOUS
<1>1. ASSUME NEW r \in Requests, Receive(r) \/ Begin(r) \/ Work(r) \/ StatementFails(r)
      PROVE  FoundInv'
  BY <1>1, FoundBefore, FoundGoesOn, FoundFts, FoundPage, FoundThread, FoundGroups, FoundExport
     DEF Work
<1>2. CASE UNCHANGED req
  <2>1. ASSUME NEW r \in Requests PROVE FoundOK(r)'
    <3>1. FoundOK(r) /\ SameFound(r)
      BY <1>2 DEF FoundInv, SameFound
    <3> QED BY <1>2, <3>1, FoundKept
  <2> QED BY <2>1 DEF FoundInv
<1> QED BY <1>1, <1>2, FoundRestart DEF Next, IngestRow, DropIndex, CreateIndex, vars

\* A thread view shows the whole thread of a row that fits the query, by the index or
\* by the fallback, whatever is ingested meanwhile.
THEOREM ThreadWholeAlways == Spec => []ThreadWhole
<1>1. FoundInv => ThreadWhole
  <2> SUFFICES ASSUME FoundInv, NEW r \in Requests, Answered(r), IsThreadView(r),
                      NEW a \in req[r].anchor
               PROVE  LET shown == Range(req[r].items)
                      IN /\ Fits(Plan(r), a)
                         /\ ThreadOf[a] = NoThread => a \in shown
                         /\ ThreadOf[a] # NoThread =>
                               /\ \A m \in shown : ThreadOf[m] = ThreadOf[a]
                               /\ \A m \in req[r].before \cup {a} :
                                     ThreadOf[m] = ThreadOf[a] =>
                                        \E n \in Copies(m, req[r].at) :
                                           ThreadOf[n] = ThreadOf[a] => n \in shown
    BY DEF ThreadWhole
  <2>1. FoundOK(r) /\ req[r].pc \in Shown
    BY DEF FoundInv, Answered, Shown
  <2>2. Fits(Plan(r), a) /\ req[r].anchor = {a} /\ Kept(req[r].before, req[r].at)
    BY <2>1 DEF FoundOK, AnchorOK, ReadInTurn
  <2>3. ThreadOf[a] = NoThread => a \in Range(req[r].items)
    BY <2>1, <2>2 DEF FoundOK, AnchorOK, ShowsThread
  <2>4. ASSUME ThreadOf[a] # NoThread
        PROVE  /\ \A m \in Range(req[r].items) : ThreadOf[m] = ThreadOf[a]
               /\ \A m \in req[r].before \cup {a} :
                     \E n \in Copies(m, req[r].at) :
                        ThreadOf[n] = ThreadOf[a] => n \in Range(req[r].items)
    <3>1. ShowsThread(r)
      BY <2>4 DEF ShowsThread
    <3>2. Range(req[r].items) = {m \in req[r].at : ThreadOf[m] = ThreadOf[a]}
      BY <2>1, <3>1 DEF FoundOK, AllShown
    <3>3. Kept(req[r].before \cup {a}, req[r].at)
      BY <2>1, <2>2, <3>1 DEF FoundOK, AnchorOK, Kept
    <3>4. ASSUME NEW m \in req[r].before \cup {a}
          PROVE  \E n \in Copies(m, req[r].at) :
                    ThreadOf[n] = ThreadOf[a] => n \in Range(req[r].items)
      <4>1. PICK n \in Copies(m, req[r].at) : TRUE
        BY <3>3 DEF Kept
      <4>2. n \in req[r].at
        BY DEF Copies
      <4> QED BY <3>2, <4>2
    <3> QED BY <3>2, <3>4
  <2> QED BY <2>2, <2>3, <2>4
<1>2. RowsInv /\ FoundInv /\ [Next]_vars => (RowsInv /\ FoundInv)'
  BY RowsStep, FoundStep
<1> QED BY <1>1, <1>2, RowsInit, FoundInit, PTL DEF Spec

\* A search that is answered is a page of a list, by clauses or by words.
LEMMA SearchShown ==
    ASSUME NEW r, Plan(r).type = "search_emails"
    PROVE  /\ ~Aggregates(r) /\ ~IsThreadView(r) /\ ~ShowsThread(r)
           /\ SearchPage(r) = req[r].ask.page /\ SearchSize(r) = Size(r)
<1>1. ~Aggregates(r) /\ ~IsThreadView(r)
  BY DEF Aggregates, IsThreadView, Plan, BuildQueryPlan, AggregationType
<1> QED BY <1>1 DEF ShowsThread, SearchPage, SearchSize

\* What an answered search by clauses shows.
LEMMA AnswerIsPage ==
    ASSUME RowsInv, FoundInv, NEW r \in Requests, Answered(r),
           Plan(r).type = "search_emails", ~UsesFts(Plan(r))
    PROVE  /\ Size(r) \in Nat \ {0} /\ req[r].ask.page \in Nat \ {0}
           /\ Plan(r).sort \in SortOrders
           /\ Selected(req[r].at, Plan(r)) \subseteq Mail
           /\ Kept(req[r].before, req[r].at)
           /\ \E s \in Orders[Plan(r).sort][Selected(req[r].at, Plan(r))] :
                 req[r].items = PageOf(s, req[r].ask.page, Size(r))
<1>1. /\ RowOK(r) /\ FoundOK(r)
      /\ req[r].pc = "answered" /\ req[r].pc \in Shown /\ req[r].pc # "new"
  BY DEF RowsInv, FoundInv, Answered, Shown
<1>2. /\ ~Aggregates(r) /\ ~ShowsThread(r)
      /\ SearchPage(r) = req[r].ask.page /\ SearchSize(r) = Size(r)
  BY SearchShown
<1>3. req[r].at \subseteq Mail /\ Kept(req[r].before, req[r].at)
  BY <1>1 DEF FoundOK, ReadInTurn
<1>4. /\ SearchSize(r) > 0
      /\ \E s \in Orders[Plan(r).sort][Selected(req[r].at, Plan(r))] :
            req[r].items = PageOf(s, SearchPage(r), SearchSize(r))
  BY <1>1, <1>2 DEF FoundOK, PageShown
<1>5. Size(r) \in Nat /\ req[r].ask.page \in Nat \ {0} /\ Plan(r).sort \in SortOrders
  BY <1>1, PageNumbers
<1>6. Selected(req[r].at, Plan(r)) \subseteq Mail
  BY <1>3 DEF Selected
<1>7. Size(r) \in Nat \ {0}
  BY <1>2, <1>4, <1>5
<1> QED BY <1>2, <1>3, <1>4, <1>5, <1>6, <1>7

\* A search by clauses misses no mail that was there when it began and whose row is
\* meant, within what ListsAllMeant says of last days.
THEOREM ListsAllMeantAlways == Spec => []ListsAllMeant
<1>1. RowsInv /\ FoundInv => ListsAllMeant
  <2> SUFFICES ASSUME RowsInv, FoundInv, NEW r \in Requests,
                      Answered(r), Plan(r).type = "search_emails", ~UsesFts(Plan(r)),
                      req[r].intent.until = {}, req[r].ask.page = 1,
                      Cardinality(Selected(req[r].at, Plan(r))) <= Size(r),
                      NEW m \in req[r].before
               PROVE  \E n \in Copies(m, req[r].at) :
                         n \in Meant(req[r].intent) => n \in Range(req[r].items)
    BY DEF ListsAllMeant, AnsweredSearch
  <2> DEFINE rows == Selected(req[r].at, Plan(r))
  <2>1. /\ Size(r) \in Nat \ {0} /\ Plan(r).sort \in SortOrders /\ rows \subseteq Mail
        /\ Kept(req[r].before, req[r].at)
        /\ \E s \in Orders[Plan(r).sort][rows] : req[r].items = PageOf(s, req[r].ask.page, Size(r))
    BY AnswerIsPage
  <2>2. PICK n \in Copies(m, req[r].at) : TRUE
    BY <2>1 DEF Kept
  <2> SUFFICES ASSUME n \in Meant(req[r].intent) PROVE n \in Range(req[r].items)
    OBVIOUS
  <2>3. PICK s \in Orders[Plan(r).sort][rows] : req[r].items = PageOf(s, 1, Size(r))
    BY <2>1
  <2>4. IntentOK(req[r].intent)
    BY DEF RowsInv, RowOK
  <2>5. Plan(r).sql_filters = Clauses(req[r].intent)
    BY DEF Plan, BuildQueryPlan
  <2>6. n \in rows
    BY <2>4, <2>5, MeantSelected DEF Selected, Copies
  <2>7. Cardinality(rows) <= Size(r)
    OBVIOUS
  <2> HIDE DEF rows
  <2>8. s \in SetToSeqs(rows)
    BY <2>1, <2>3 DEF Orders
  <2>9. s \in Seq(rows) /\ Range(s) = rows /\ Len(s) = Cardinality(rows)
    BY <2>1, <2>8, ListingRows, ListLength
  <2>10. PICK a \in 1..Len(s) : s[a] = n
    BY <2>6, <2>9 DEF Range
  <2>11. (1 - 1) * Size(r) < a /\ a <= 1 * Size(r)
    BY <2>1, <2>7, <2>9
  <2> QED BY <2>1, <2>3, <2>9, <2>10, <2>11, PlaceOnPage
<1>2. RowsInv /\ FoundInv /\ [Next]_vars => (RowsInv /\ FoundInv)'
  BY RowsStep, FoundStep
<1> QED BY <1>1, <1>2, RowsInit, FoundInit, PTL DEF Spec

\* An export of the query just answered holds every row the answer showed that was not
\* replaced meanwhile, and a copy of every other one is in the table.
THEOREM ExportCoversAnswerAlways == Spec => []ExportCoversAnswer
<1>1. RowsInv /\ FoundInv => ExportCoversAnswer
  <2> SUFFICES ASSUME RowsInv, FoundInv, NEW r \in Requests, NEW s \in Requests,
                      req[s].pc = "exported", Answered(r), r \in req[s].prior,
                      Plan(r) = Plan(s), Plan(r).type = "search_emails",
                      NEW m \in Range(req[r].items)
               PROVE  \E n \in Copies(m, req[s].at) : n = m => m \in Range(req[s].items)
    BY DEF ExportCoversAnswer
  <2>1. RowOK(r) /\ RowOK(s) /\ FoundOK(s)
    BY DEF RowsInv, FoundInv
  <2>2. Kept(Range(req[r].items), req[s].before) /\ Kept(req[s].before, req[s].at)
    BY <2>1 DEF RowOK, FoundOK, ReadInTurn
  <2>3. Kept(Range(req[r].items), req[s].at)
    BY <2>2, KeptOn
  <2>4. PICK n \in Copies(m, req[s].at) : TRUE
    BY <2>3 DEF Kept
  <2>5. ASSUME n = m PROVE m \in Range(req[s].items)
    <3>1. m \in req[s].at
      BY <2>5 DEF Copies
    <3>2. Range(req[s].items) = Selected(req[s].at, Plan(s))
      BY <2>1 DEF FoundOK, ReadInTurn
    <3>3. m \in Answerable(Plan(r))
      BY <2>1 DEF RowOK, ListedOnly, Answered
    <3>4. \A c \in Plan(r).sql_filters : m \in c
      BY <3>3 DEF Answerable, Fits, UsesFts
    <3> QED BY <3>1, <3>2, <3>4 DEF Selected
  <2> QED BY <2>4, <2>5
<1>2. RowsInv /\ FoundInv /\ [Next]_vars => (RowsInv /\ FoundInv)'
  BY RowsStep, FoundStep
<1> QED BY <1>1, <1>2, RowsInit, FoundInit, PTL DEF Spec

\* A reading is a sequence of answered requests for one page after the other.
LEMMA ReadingPages ==
    ASSUME NEW c \in Readings
    PROVE  /\ Len(c) \in Nat \ {0} /\ DOMAIN c = 1..Len(c)
           /\ \A i \in 1..Len(c) :
                 /\ c[i] \in Requests /\ Answered(c[i])
                 /\ Plan(c[i]).type = "search_emails" /\ ~UsesFts(Plan(c[i]))
                 /\ req[c[i]].ask.page = i
                 /\ i > 1 => c[i-1] \in req[c[i]].prior /\ SameSearch(c[i-1], c[i])
<1>1. /\ c \in UNION {[1..n -> Requests] : n \in 1..Cardinality(Requests)}
      /\ \A i \in DOMAIN c :
            /\ Answered(c[i])
            /\ Plan(c[i]).type = "search_emails" /\ ~UsesFts(Plan(c[i]))
            /\ req[c[i]].ask.page = i
            /\ i > 1 => c[i-1] \in req[c[i]].prior /\ SameSearch(c[i-1], c[i])
  BY DEF Readings
<1>2. PICK n \in 1..Cardinality(Requests) : c \in [1..n -> Requests]
  BY <1>1
<1>3. n \in Nat \ {0}
  OBVIOUS
<1>4. Len(c) = n /\ DOMAIN c = 1..n
  BY <1>2, <1>3
<1> QED BY <1>1, <1>2, <1>3, <1>4

\* Its pages are of one list.
LEMMA ReadingSteps ==
    ASSUME NEW c \in Readings
    PROVE  \A i \in 1..Len(c) : Plan(c[i]) = Plan(c[1]) /\ Size(c[i]) = Size(c[1])
<1> DEFINE n == Len(c)
<1>1. /\ n \in Nat \ {0}
      /\ \A i \in 1..n :
            /\ c[i] \in Requests /\ Answered(c[i])
            /\ Plan(c[i]).type = "search_emails" /\ ~UsesFts(Plan(c[i]))
            /\ i > 1 => c[i-1] \in req[c[i]].prior /\ SameSearch(c[i-1], c[i])
  BY ReadingPages
<1> HIDE DEF n
<1>2. ASSUME NEW i \in 1..(n - 1)
      PROVE  Plan(c[i + 1]) = Plan(c[i]) /\ Size(c[i + 1]) = Size(c[i])
  <2>1. i + 1 \in 1..n /\ i \in 1..n /\ i + 1 > 1 /\ (i + 1) - 1 = i
    BY <1>1
  <2>2. SameSearch(c[i], c[i + 1])
    BY <1>1, <2>1
  <2> QED BY <2>2 DEF SameSearch, Size
<1>3. ASSUME NEW i \in 1..n
      PROVE  Plan(c[i]) = Plan(c[1]) /\ Size(c[i]) = Size(c[1])
  <2> DEFINE T == {k \in 1..n : Plan(c[k]) = Plan(c[1]) /\ Size(c[k]) = Size(c[1])}
  <2>1. 1 \in T /\ 1 \in 1..n
    BY <1>1
  <2>2. \A k \in 1..(n - 1) : k \in T => k + 1 \in T
    BY <1>1, <1>2
  <2>3. 1..n \subseteq T
    <3> HIDE DEF T
    <3> QED BY <1>1, <2>1, <2>2, AlongReading
  <2> QED BY <2>3
<1> QED BY <1>3 DEF n

\* Where a row stands in the list a page was cut from decides whether it is on the page.
LEMMA PageHasRow ==
    ASSUME RowsInv, FoundInv, NEW r \in Requests, Answered(r),
           Plan(r).type = "search_emails", ~UsesFts(Plan(r)), Sorted(r),
           NEW m
    PROVE  LET rows == Selected(req[r].at, Plan(r))
               place == Cardinality(UpTo(Plan(r).sort, rows, m))
           IN m \in Range(req[r].items) <=>
                 /\ m \in rows
                 /\ (req[r].ask.page - 1) * Size(r) < place
                 /\ place <= req[r].ask.page * Size(r)
<1> DEFINE rows == Selected(req[r].at, Plan(r))
           place == Cardinality(UpTo(Plan(r).sort, rows, m))
           page == req[r].ask.page
<1>1. /\ Size(r) \in Nat \ {0} /\ page \in Nat \ {0} /\ Plan(r).sort \in SortOrders
      /\ rows \subseteq Mail /\ Untied(rows)
      /\ \E s \in Orders[Plan(r).sort][rows] : req[r].items = PageOf(s, page, Size(r))
  BY AnswerIsPage DEF Sorted
<1>2. PICK s \in Orders[Plan(r).sort][rows] : req[r].items = PageOf(s, page, Size(r))
  BY <1>1
<1> HIDE DEF rows, page
<1>3. s \in Seq(rows) /\ Range(s) = rows /\ DOMAIN s = 1..Len(s)
  BY <1>1, OrderedRows
<1>4. \A a \in 1..Len(s) : s[a] = m => a = place
  BY <1>1, <1>3, PlaceOfRow
<1>5. m \in rows <=> \E a \in 1..Len(s) : s[a] = m
  BY <1>3 DEF Range
<1>6. m \in Range(req[r].items) <=>
        \E a \in 1..Len(s) : s[a] = m /\ (page - 1) * Size(r) < a /\ a <= page * Size(r)
  BY <1>1, <1>2, <1>3, PlaceOnPage
<1> HIDE DEF place
<1>7. m \in Range(req[r].items) <=>
        m \in rows /\ (page - 1) * Size(r) < place /\ place <= page * Size(r)
  BY <1>4, <1>5, <1>6
<1> QED BY <1>7 DEF rows, place, page

\* While the table stands still no row is on two pages of a list whose rows have each
\* a date of their own, whatever the size of a page.
THEOREM PagesDisjointAlways == Spec => []PagesDisjoint
<1>1. RowsInv /\ FoundInv => PagesDisjoint
  <2> SUFFICES ASSUME RowsInv, FoundInv, NEW c \in Readings,
                      \A i, j \in DOMAIN c : req[c[i]].at = req[c[j]].at /\ Sorted(c[i])
               PROVE  \A i, j \in DOMAIN c :
                         i # j => Range(req[c[i]].items) \cap Range(req[c[j]].items) = {}
    BY DEF PagesDisjoint
  <2> DEFINE n == Len(c)
             size == Size(c[1])
             rows == Selected(req[c[1]].at, Plan(c[1]))
             place(m) == Cardinality(UpTo(Plan(c[1]).sort, rows, m))
  <2>1. /\ n \in Nat \ {0} /\ DOMAIN c = 1..n
        /\ \A i \in 1..n :
              /\ c[i] \in Requests /\ Answered(c[i])
              /\ Plan(c[i]).type = "search_emails" /\ ~UsesFts(Plan(c[i]))
              /\ req[c[i]].ask.page = i
    BY ReadingPages
  <2>2. \A i \in 1..n : Plan(c[i]) = Plan(c[1]) /\ Size(c[i]) = size
    BY ReadingSteps
  <2>3. ASSUME NEW i \in 1..n, NEW m \in Range(req[c[i]].items)
        PROVE  (i - 1) * size < place(m) /\ place(m) <= i * size /\ m \in rows
    <3>1. 1 \in 1..n
      BY <2>1
    <3>2. Sorted(c[i]) /\ req[c[i]].at = req[c[1]].at
      BY <2>1, <3>1
    <3> QED BY <2>1, <2>2, <2>3, <3>2, PageHasRow
  <2>4. size \in Nat /\ rows \subseteq Mail
    <3>1. 1 \in 1..n
      BY <2>1
    <3> QED BY <2>1, <3>1, AnswerIsPage
  <2>5. \A m : place(m) \in Nat
    BY <2>4, PlacesGrow
  <2> HIDE DEF n, size, rows, place
  <2>6. ASSUME NEW i \in 1..n, NEW j \in 1..n, i < j,
               NEW m \in Range(req[c[i]].items), m \in Range(req[c[j]].items)
        PROVE  FALSE
    <3>1. place(m) <= i * size /\ (j - 1) * size < place(m)
      BY <2>3, <2>6
    <3>2. i * size <= (j - 1) * size
      BY <2>1, <2>4, <2>6, ProductsGrow
    <3>3. i * size \in Int /\ (j - 1) * size \in Int /\ place(m) \in Int
      BY <2>1, <2>4, <2>5
    <3> QED BY <3>1, <3>2, <3>3
  <2>7. ASSUME NEW i \in 1..n, NEW j \in 1..n, i # j,
               NEW m \in Range(req[c[i]].items) \cap Range(req[c[j]].items)
        PROVE  FALSE
    <3>1. i < j \/ j < i
      BY <2>1, <2>7
    <3> QED BY <2>6, <2>7, <3>1
  <2> QED BY <2>1, <2>7
<1>2. RowsInv /\ FoundInv /\ [Next]_vars => (RowsInv /\ FoundInv)'
  BY RowsStep, FoundStep
<1> QED BY <1>1, <1>2, RowsInit, FoundInit, PTL DEF Spec

\* Whoever reads a list to its end has seen every row that was there when the reading
\* began, although ingestion adds rows meanwhile and moves rows from page to page, as
\* long as it replaces none, for any size of a page and any number of rows that come in.
THEOREM PagesMissNothingCountedAlways == Spec => []PagesMissNothingCounted
<1>1. RowsInv /\ FoundInv /\ TypeInv => PagesMissNothingCounted
  <2> SUFFICES ASSUME RowsInv, FoundInv, TypeInv, NEW c \in Readings,
                      Finished(c), CountCurrent(c[Len(c)]), Sorted(c[Len(c)]),
                      NoneReplaced(c),
                      NEW m \in Selected(req[c[1]].before, Plan(c[1]))
               PROVE  m \in Seen(c)
    BY DEF PagesMissNothingCounted, ReadingMissesNothing
  <2> DEFINE n == Len(c)
             size == Size(c[1])
             plan == Plan(c[1])
             rows(i) == Selected(req[c[i]].at, plan)
             place == [i \in 1..n |-> Cardinality(UpTo(plan.sort, rows(i), m))]
  <2>1. /\ n \in Nat \ {0} /\ DOMAIN c = 1..n
        /\ \A i \in 1..n :
              /\ c[i] \in Requests /\ Answered(c[i])
              /\ Plan(c[i]).type = "search_emails" /\ ~UsesFts(Plan(c[i]))
              /\ req[c[i]].ask.page = i
    BY ReadingPages
  <2>2. /\ \A i \in 1..n : Plan(c[i]) = plan /\ Size(c[i]) = size
        /\ \A i \in 1..n : \A j \in i..n : req[c[i]].at \subseteq req[c[j]].at
        /\ req[c[1]].before \subseteq req[c[1]].at
    <3>1. \A i \in 1..n : Plan(c[i]) = plan /\ Size(c[i]) = size
      BY ReadingSteps
    <3>2. ASSUME NEW i \in 1..n, NEW j \in i..n
          PROVE  req[c[i]].at \subseteq req[c[j]].at
      <4>1. j \in 1..n /\ (i = j \/ i < j)
        BY <2>1
      <4> QED BY <2>1, <4>1 DEF NoneReplaced
    <3> QED BY <3>1, <3>2 DEF NoneReplaced
  <2> HIDE DEF n
  <2>3. 1 \in 1..n /\ n \in 1..n
    BY <2>1
  <2>4. /\ size \in Nat \ {0}
        /\ \A i \in 1..n : rows(i) \subseteq Mail
    BY <2>1, <2>2, <2>3, AnswerIsPage
  <2>5. \A i \in 1..n : \A j \in i..n : rows(i) \subseteq rows(j)
    BY <2>2 DEF Selected
  <2>6. Untied(rows(n))
    BY <2>2, <2>3 DEF Sorted, n
  <2>7. ASSUME NEW i \in 1..n PROVE Sorted(c[i]) /\ m \in rows(i)
    <3>1. n \in i..n /\ i \in 1..n
      BY <2>1
    <3>2. Untied(rows(i))
      BY <2>5, <2>6, <3>1 DEF Untied
    <3>3. m \in rows(1)
      BY <2>2 DEF Selected
    <3>4. m \in rows(i)
      BY <2>3, <2>5, <3>1, <3>3
    <3> QED BY <2>2, <3>2, <3>4 DEF Sorted
  <2>8. req[c[n]].total = Cardinality(rows(n)) /\ Cardinality(rows(n)) \in Nat
    <3>1. Plan(c[n]) = plan
      BY <2>2, <2>3
    <3>2. req[c[n]].total \in Nat
      BY <2>1, <2>3 DEF TypeInv, TypeOK
    <3> QED BY <3>1, <3>2 DEF CountCurrent, n
  <2>9. TotalPages(req[c[n]].total, size) <= n
    <3>1. ~Aggregates(c[n])
      BY <2>1, <2>3, SearchShown
    <3> QED BY <2>2, <2>3, <3>1 DEF Finished, Pages, n
  <2>10. Cardinality(rows(n)) <= n * size
    BY <2>1, <2>4, <2>8, <2>9, PagesSuffice
  <2> HIDE DEF rows, size, plan
  <2>11. ASSUME NEW i \in 1..n, NEW j \in i..n
         PROVE  /\ place[i] \in Nat /\ place[i] > 0
                /\ place[i] <= place[j] /\ place[j] <= Cardinality(rows(j))
    <3>1. rows(i) \subseteq rows(j) /\ rows(j) \subseteq Mail /\ m \in rows(i) /\ j \in 1..n
      BY <2>1, <2>4, <2>5, <2>7
    <3> QED BY <3>1, PlacesGrow
  <2>12. place \in [1..n -> Nat] /\ 0 < place[1]
    <3>1. \A i \in 1..n : i \in i..n
      BY <2>1
    <3>2. \A i \in 1..n : place[i] \in Nat /\ place[i] > 0
      BY <2>11, <3>1
    <3> QED BY <2>3, <3>2
  <2>13. \A i \in 1..(n - 1) : place[i] <= place[i + 1]
    <3> SUFFICES ASSUME NEW i \in 1..(n - 1) PROVE place[i] <= place[i + 1]
      OBVIOUS
    <3>1. i \in 1..n /\ i + 1 \in i..n
      BY <2>1
    <3> HIDE DEF place
    <3> QED BY <2>11, <3>1
  <2>14. place[n] <= n * size
    <3>1. n \in n..n
      BY <2>1
    <3>2. place[n] <= Cardinality(rows(n)) /\ place[n] \in Nat
      BY <2>3, <2>11, <3>1
    <3>3. n * size \in Int
      BY <2>1, <2>4
    <3> HIDE DEF place
    <3> QED BY <2>8, <2>10, <3>2, <3>3
  <2>15. PICK i \in 1..n : (i - 1) * size < place[i] /\ place[i] <= i * size
    <3> HIDE DEF place
    <3> QED BY <2>1, <2>4, <2>12, <2>13, <2>14, FirstReaching
  <2>16. m \in Range(req[c[i]].items)
    <3>1. place[i] = Cardinality(UpTo(plan.sort, rows(i), m))
      OBVIOUS
    <3>2. Plan(c[i]) = plan /\ Size(c[i]) = size /\ req[c[i]].ask.page = i
      BY <2>1, <2>2 DEF plan, size
    <3>3. Selected(req[c[i]].at, Plan(c[i])) = rows(i)
      BY <3>2 DEF rows
    <3> HIDE DEF place
    <3> QED BY <2>1, <2>7, <2>15, <3>1, <3>2, <3>3, PageHasRow
  <2> QED BY <2>1, <2>16 DEF Seen
<1>2. RowsInv /\ FoundInv /\ TypeInv /\ AuditInv /\ [Next]_vars
        => (RowsInv /\ FoundInv /\ TypeInv /\ AuditInv)'
  BY RowsStep, FoundStep, TypeStep, AuditStep
<1> QED BY <1>1, <1>2, RowsInit, FoundInit, TypeInit, AuditInit, PTL DEF Spec

-----------------------------------------------------------------------------
(* Searches by words, with an index and without *)

\* The table has a copy of every mail of the start, and so has the index if there is one.
LoadedKept == Kept(Loaded, emails) /\ \A known \in index : Kept(Loaded, known)

\* Every copy of the mail has the words one after the other.
AlwaysSays(m, words) == \A n \in Copies(m, Mail) : Phrase(n, words)

\* The rows of a search by words have a copy of each mail of the start that says them.
HeardOK(r) ==
    req[r].pc \in Shown /\ Plan(r).type = "search_emails" /\ UsesFts(Plan(r)) =>
        \A m \in Loaded :
            AlwaysSays(m, Plan(r).fts_query) => Copies(m, Range(req[r].items)) # {}

\* It is so of every request.
HeardInv == LoadedKept /\ \A r \in Requests : HeardOK(r)

\* At the start the table is what was loaded, and the index is made of it.
LEMMA HeardInit == Init => HeardInv
<1> SUFFICES ASSUME Init PROVE HeardInv
  OBVIOUS
<1>1. Kept(Loaded, Loaded)
  BY KeptSelf, ServiceAssumption DEF ServiceAssumption
<1>2. LoadedKept
  BY <1>1 DEF Init, LoadedKept
<1>3. ASSUME NEW r \in Requests PROVE HeardOK(r)
  BY DEF Init, BlankRequest, HeardOK, Shown
<1> QED BY <1>2, <1>3 DEF HeardInv

\* The table and the index keep them, whatever is replaced and whenever the index is
\* dropped and built.
LEMMA LoadedStep == RowsInv /\ LoadedKept /\ [Next]_vars => LoadedKept'
<1> SUFFICES ASSUME RowsInv, LoadedKept, [Next]_vars PROVE LoadedKept'
  OBVIOUS
<1>0. Shaped /\ emails \subseteq Mail
  BY DEF RowsInv
<1>1. ASSUME UNCHANGED <<emails, index>> PROVE LoadedKept'
  BY <1>1 DEF LoadedKept
<1>2. ASSUME NEW r \in Requests, Receive(r) \/ Begin(r) \/ Work(r) \/ StatementFails(r)
      PROVE  UNCHANGED <<emails, index>>
  BY <1>2 DEF Receive, Begin, Work, AnalyzeIntent, SearchFts, SearchLike, SearchCount,
              SearchPageOf, SearchRaises, LoadThread, Aggregate, Present, LogAudit, Respond,
              ExportCsv, ReadDetail, StatementFails
<1>3. CASE Restart
  BY <1>1, <1>3 DEF Restart
<1>4. CASE IngestRow
  <2>1. Kept(emails, emails') /\ UNCHANGED index
    BY <1>0, <1>4, IngestKeeps
  <2>2. Kept(Loaded, emails')
    BY <2>1, KeptOn DEF LoadedKept
  <2> QED BY <2>1, <2>2 DEF LoadedKept
<1>5. CASE DropIndex \/ CreateIndex
  BY <1>5 DEF DropIndex, CreateIndex, LoadedKept
<1>6. CASE UNCHANGED vars
  BY <1>1, <1>6 DEF vars
<1> QED BY <1>1, <1>2, <1>3, <1>4, <1>5, <1>6 DEF Next

\* Both searches find a mail of the start that says the words.
LEMMA BothHear ==
    ASSUME RowsInv, LoadedKept, NEW words, words # <<>>,
           NEW m \in Loaded, AlwaysSays(m, words)
    PROVE  /\ index # {} => Copies(m, FtsMatches(emails, index, words)) # {}
           /\ Copies(m, LikeMatches(emails, words)) # {}
<1>1. emails \subseteq Mail /\ index \subseteq SUBSET Mail
  BY DEF RowsInv
<1>2. PICK n \in emails : IdOf[n] = IdOf[m]
  BY DEF LoadedKept, Kept, Copies
<1>3. ASSUME NEW k \in Mail, IdOf[k] = IdOf[m] PROVE Phrase(k, words) /\ AnyWord(k, words)
  <2>1. Phrase(k, words)
    BY <1>3 DEF AlwaysSays, Copies
  <2> QED BY <2>1, PhraseHasWord
<1>4. Copies(m, LikeMatches(emails, words)) # {}
  BY <1>1, <1>2, <1>3 DEF LikeMatches, Copies
<1>5. ASSUME index # {} PROVE Copies(m, FtsMatches(emails, index, words)) # {}
  <2>1. PICK known \in index : Copies(m, known) # {}
    BY <1>5 DEF LoadedKept, Kept
  <2>2. PICK k \in known : IdOf[k] = IdOf[m]
    BY <2>1 DEF Copies
  <2>3. AnyWord(k, words) /\ k \in Copies(n, known)
    BY <1>1, <1>2, <1>3, <2>2 DEF Copies
  <2>4. n \in FtsMatches(emails, index, words)
    BY <2>3 DEF FtsMatches
  <2> QED BY <1>2, <2>4 DEF Copies
<1> QED BY <1>4, <1>5

\* A search by words takes its rows from one of the two.
LEMMA HeardFound ==
    ASSUME RowsInv, LoadedKept, NEW r \in Requests, SearchFts(r) \/ SearchLike(r)
    PROVE  HeardOK(r)' /\ OthersStay(r)
<1> DEFINE words == Plan(r).fts_query
           fts == FtsMatches(emails, index, words)
           liked == LikeMatches(emails, words)
           items == req'[r].items
<1>1. Shaped /\ emails \subseteq Mail
  BY DEF RowsInv
<1>2. /\ Writes(r, {"pc", "items", "anchor", "total", "at"})
      /\ \/ items \in SetToSeqs(fts) /\ index # {}
         \/ items \in Orders["date_desc"][liked]
  BY <1>1, FtsWrites
<1>3. Plan(r)' = Plan(r)
  BY <1>1, <1>2, SamePlan
<1>4. fts \subseteq Mail /\ liked \subseteq Mail
  BY <1>1 DEF FtsMatches, LikeMatches
<1> HIDE DEF fts, liked
<1>5. (Range(items) = fts /\ index # {}) \/ Range(items) = liked
  BY <1>2, <1>4, OrderedRows, ListingRows DEF SortOrders
<1> HIDE DEF items
<1>6. ASSUME UsesFts(Plan(r)), NEW m \in Loaded, AlwaysSays(m, words)
      PROVE  Copies(m, Range(items)) # {}
  <2>1. words # <<>>
    BY <1>6 DEF UsesFts
  <2> HIDE DEF words
  <2>2. (index # {} => Copies(m, fts) # {}) /\ Copies(m, liked) # {}
    BY <1>6, <2>1, BothHear DEF fts, liked
  <2> QED BY <1>5, <2>2
<1> QED BY <1>2, <1>3, <1>6 DEF HeardOK, Writes, items

\* A request with rows keeps them on its way to the reply.
LEMMA HeardKept ==
    ASSUME NEW r, HeardOK(r), \A f \in {"ask", "intent", "items"} : req'[r][f] = req[r][f],
           req[r].pc \in Shown \/ req'[r].pc \notin Shown
    PROVE  HeardOK(r)'
<1>1. /\ req'[r].ask = req[r].ask /\ req'[r].intent = req[r].intent
      /\ req'[r].items = req[r].items
  OBVIOUS
<1>2. Plan(r)' = Plan(r)
  BY <1>1 DEF Plan
<1> QED BY <1>1, <1>2 DEF HeardOK

\* No other statement gives a search by words its rows.
LEMMA HeardSteps ==
    ASSUME RowsInv, HeardInv, NEW r \in Requests,
           Receive(r) \/ Begin(r) \/ Work(r) \/ StatementFails(r)
    PROVE  HeardOK(r)' /\ OthersStay(r)
<1>1. Shaped /\ RowOK(r) /\ HeardOK(r) /\ LoadedKept
  BY DEF RowsInv, HeardInv
<1>2. ASSUME req'[r].pc \notin Shown, OthersStay(r) PROVE HeardOK(r)' /\ OthersStay(r)
  BY <1>2 DEF HeardOK
<1>3. ASSUME ~UsesFts(Plan(r)) \/ Plan(r).type # "search_emails",
             NEW changed, Writes(r, changed), {"ask", "intent"} \cap changed = {}
      PROVE  HeardOK(r)' /\ OthersStay(r)
  <2>1. Plan(r)' = Plan(r)
    BY <1>1, <1>3, SamePlan
  <2> QED BY <1>3, <2>1 DEF HeardOK, Writes
<1>4. ASSUME NEW changed, Writes(r, changed), {"ask", "intent", "items"} \cap changed = {},
             req[r].pc \in Shown \/ req'[r].pc \notin Shown
      PROVE  HeardOK(r)' /\ OthersStay(r)
  <2>1. \A f \in {"ask", "intent", "items"} : req'[r][f] = req[r][f]
    BY <1>4 DEF Writes, Fields
  <2> QED BY <1>1, <1>4, <2>1, HeardKept DEF Writes
<1>5. CASE SearchFts(r) \/ SearchLike(r)
  BY <1>1, <1>5, HeardFound
<1>6. CASE SearchPageOf(r)
  <2>1. Writes(r, {"pc", "items", "anchor", "at"}) /\ req[r].pc = "page"
    BY <1>1, <1>6, PageWrites
  <2>2. ~UsesFts(Plan(r))
    BY <1>1, <2>1 DEF RowOK, Placed
  <2> QED BY <1>3, <2>1, <2>2
<1>7. CASE LoadThread(r)
  <2>1. Writes(r, {"pc", "items", "total", "at"}) /\ req[r].pc = "thread"
    BY <1>1, <1>7, ThreadWrites
  <2>2. Plan(r).type = "thread_view"
    BY <1>1, <2>1 DEF RowOK, Placed
  <2> QED BY <1>3, <2>1, <2>2
<1>8. CASE Aggregate(r)
  <2>1. Writes(r, {"pc", "total", "at"}) /\ req[r].pc = "aggregate"
    BY <1>1, <1>8, AggregateWrites
  <2>2. Plan(r).type # "search_emails"
    BY <1>1, <2>1 DEF RowOK, Placed
  <2> QED BY <1>3, <2>1, <2>2
<1>9. CASE Present(r)
  <2>1. Writes(r, {"pc", "text", "shown"}) /\ req[r].pc = "stats"
    BY <1>1, <1>9, PresentWrites
  <2> QED BY <1>4, <2>1 DEF Shown
<1>10. CASE LogAudit(r)
  <2>1. Writes(r, {"pc", "sessions"}) /\ req[r].pc = "audit"
    BY <1>1, <1>10, LogWrites
  <2> QED BY <1>4, <2>1 DEF Shown
<1>11. CASE Respond(r) \/ SearchRaises(r) \/ StatementFails(r)
  <2>1. /\ Writes(r, {"pc"})
        /\ req[r].pc = "reply" \/ req'[r].pc \in {"failed", "served"}
    BY <1>1, <1>11, EndWrites
  <2> QED BY <1>4, <2>1 DEF Shown
<1>12. CASE Receive(r)
  <2>1. OthersStay(r) /\ req'[r].pc = "body"
    BY <1>1, <1>12, Receives
  <2> QED BY <1>2, <2>1 DEF Shown
<1>13. CASE Begin(r)
  <2>1. OthersStay(r) /\ req'[r].pc \in {"refused", "detail", "intent"}
    BY <1>1, <1>13, BeginWrites DEF Writes
  <2> QED BY <1>2, <2>1 DEF Shown
<1>14. CASE AnalyzeIntent(r)
  <2>1. OthersStay(r) /\ req'[r].pc \in {"aggregate", "fts", "count", "export", "rejected",
                                         "clarified", "failed"}
    BY <1>1, <1>14, AnalyzeWrites DEF Writes
  <2> QED BY <1>2, <2>1 DEF Shown
<1>15. CASE SearchCount(r) \/ ExportCsv(r) \/ ReadDetail(r)
  <2>1. OthersStay(r) /\ req'[r].pc \in {"page", "exported", "served"}
    BY <1>1, <1>15, CountWrites, ExportWrites, DetailWrites DEF Writes
  <2> QED BY <1>2, <2>1 DEF Shown
<1> QED BY <1>5, <1>6, <1>7, <1>8, <1>9, <1>10, <1>11, <1>12, <1>13, <1>14, <1>15 DEF Work

\* No step loses what a search by words found.
LEMMA HeardStep == RowsInv /\ HeardInv /\ [Next]_vars => HeardInv'
<1> SUFFICES ASSUME RowsInv, HeardInv, [Next]_vars PROVE HeardInv'
  OBVIOUS
<1>0. Shaped /\ LoadedKept'
  BY LoadedStep DEF RowsInv, HeardInv
<1> SUFFICES ASSUME NEW s \in Requests PROVE HeardOK(s)'
  BY <1>0 DEF HeardInv
<1>1. ASSUME req'[s] = req[s] PROVE HeardOK(s)'
  BY <1>1, HeardKept DEF HeardInv
<1>2. ASSUME NEW r \in Requests, Receive(r) \/ Begin(r) \/ Work(r) \/ StatementFails(r)
      PROVE  HeardOK(s)'
  <2>1. HeardOK(r)' /\ OthersStay(r)
    BY <1>2, HeardSteps
  <2> QED BY <1>1, <2>1 DEF OthersStay
<1>3. CASE Restart
  <2>1. req'[s] = req[s] \/ req'[s].pc = "lost"
    BY <1>0, <1>3, RestartWrites
  <2>2. req'[s].pc = "lost" => HeardOK(s)'
    BY DEF HeardOK, Shown
  <2> QED BY <1>1, <2>1, <2>2
<1> QED BY <1>1, <1>2, <1>3 DEF Next, IngestRow, DropIndex, CreateIndex, vars

\* A mail that was there from the start and has the words of a search one after the
\* other in every copy is listed, whether the index answers, is not there, is being
\* built anew or fails, and whatever is replaced meanwhile.
THEOREM KeywordsFoundAlways == Spec => []KeywordsFound
<1>1. HeardInv => KeywordsFound
  BY DEF HeardInv, HeardOK, KeywordsFound, AlwaysSays, AnsweredSearch, Answered, Shown
<1>2. RowsInv /\ HeardInv /\ [Next]_vars => (RowsInv /\ HeardInv)'
  BY RowsStep, HeardStep
<1> QED BY <1>1, <1>2, RowsInit, HeardInit, PTL DEF Spec

-----------------------------------------------------------------------------
(* The words and what stands under them *)

\* Where a reply has its words.
Worded == {"audit", "reply", "answered"}

\* The words and the presentation are made of one result, and stay with it.
WordsOK(r) ==
    req[r].pc \in Worded =>
        /\ req[r].text \in {FallbackResponse(SearchResult(r), Aggregation(r)), "llm"}
        /\ req[r].shown = {BuildPresentation(SearchResult(r), Aggregation(r),
                                             req[r].ask.page, Pages(r))}

\* It is so of every request.
WordsInv == \A r \in Requests : WordsOK(r)

\* At the start there are no words.
LEMMA WordsInit == Init => WordsInv
<1> SUFFICES ASSUME Init, NEW r \in Requests PROVE WordsOK(r)
  BY DEF WordsInv
<1>1. req[r].pc = "new"
  BY DEF Init, BlankRequest
<1> QED BY <1>1 DEF WordsOK, Worded

\* A result is said of the same rows until the request is over.
LEMMA SameResult ==
    ASSUME NEW r,
           \A f \in {"ask", "intent", "items", "total"} : req'[r][f] = req[r][f]
    PROVE  /\ SearchResult(r)' = SearchResult(r) /\ Aggregation(r)' = Aggregation(r)
           /\ Pages(r)' = Pages(r) /\ req'[r].ask.page = req[r].ask.page
<1>1. /\ req'[r].ask = req[r].ask /\ req'[r].intent = req[r].intent
      /\ req'[r].items = req[r].items /\ req'[r].total = req[r].total
  OBVIOUS
<1>2. Plan(r)' = Plan(r)
  BY <1>1 DEF Plan
<1>3. Aggregates(r)' = Aggregates(r) /\ Size(r)' = Size(r)
  BY <1>1, <1>2 DEF Aggregates, Size
<1> QED BY <1>1, <1>2, <1>3 DEF SearchResult, Aggregation, Pages

\* A request whose words are there keeps them with its result.
LEMMA WordsKept ==
    ASSUME NEW r, WordsOK(r), req[r].pc \in Worded \/ req'[r].pc \notin Worded,
           \A f \in {"ask", "intent", "items", "total", "text", "shown"} :
              req'[r][f] = req[r][f]
    PROVE  WordsOK(r)'
<1>1. /\ SearchResult(r)' = SearchResult(r) /\ Aggregation(r)' = Aggregation(r)
      /\ Pages(r)' = Pages(r) /\ req'[r].ask.page = req[r].ask.page
  BY SameResult
<1>2. req'[r].text = req[r].text /\ req'[r].shown = req[r].shown
  OBVIOUS
<1> QED BY <1>1, <1>2 DEF WordsOK

\* An action of a request makes its words of its result, or leaves both.
LEMMA WordsSteps ==
    ASSUME Shaped, WordsInv, NEW r \in Requests,
           Receive(r) \/ Begin(r) \/ Work(r) \/ StatementFails(r)
    PROVE  WordsOK(r)' /\ OthersStay(r)
<1>1. WordsOK(r)
  BY DEF WordsInv
<1>2. CASE Present(r)
  <2>1. /\ Writes(r, {"pc", "text", "shown"}) /\ req[r].pc = "stats"
        /\ \/ req'[r].pc = "failed"
           \/ /\ req'[r].text \in {FallbackResponse(SearchResult(r), Aggregation(r)), "llm"}
              /\ req'[r].shown = {BuildPresentation(SearchResult(r), Aggregation(r),
                                                    req[r].ask.page, Pages(r))}
    BY <1>2, PresentWrites
  <2>2. \A f \in {"ask", "intent", "items", "total"} : req'[r][f] = req[r][f]
    BY <2>1 DEF Writes, Fields
  <2>3. /\ SearchResult(r)' = SearchResult(r) /\ Aggregation(r)' = Aggregation(r)
        /\ Pages(r)' = Pages(r) /\ req'[r].ask.page = req[r].ask.page
    BY <2>2, SameResult
  <2> QED BY <2>1, <2>3 DEF WordsOK, Worded, Writes
<1>3. CASE LogAudit(r)
  <2>1. Writes(r, {"pc", "sessions"}) /\ req[r].pc = "audit"
    BY <1>3, LogWrites
  <2>2. \A f \in {"ask", "intent", "items", "total", "text", "shown"} : req'[r][f] = req[r][f]
    BY <2>1 DEF Writes, Fields
  <2> QED BY <1>1, <2>1, <2>2, WordsKept DEF Worded, Writes
<1>4. CASE Respond(r)
  <2>1. Writes(r, {"pc"}) /\ req[r].pc = "reply"
    BY <1>4, EndWrites
  <2>2. \A f \in {"ask", "intent", "items", "total", "text", "shown"} : req'[r][f] = req[r][f]
    BY <2>1 DEF Writes, Fields
  <2> QED BY <1>1, <2>1, <2>2, WordsKept DEF Worded, Writes
<1>5. ASSUME req'[r].pc \notin Worded, OthersStay(r) PROVE WordsOK(r)' /\ OthersStay(r)
  BY <1>5 DEF WordsOK
<1> HIDE DEF Worded
<1>6. {"body", "refused", "detail", "intent", "aggregate", "fts", "count", "export", "rejected",
       "clarified", "failed", "page", "thread", "stats", "served", "exported"} \cap Worded = {}
  BY DEF Worded
<1>7. CASE Receive(r) \/ Begin(r) \/ AnalyzeIntent(r)
  <2>1. CASE Receive(r)
    <3>1. OthersStay(r) /\ req'[r].pc = "body"
      BY <2>1, Receives
    <3> QED BY <1>5, <1>6, <3>1
  <2>2. CASE Begin(r)
    <3>1. OthersStay(r) /\ req'[r].pc \in {"refused", "detail", "intent"}
      BY <2>2, BeginWrites DEF Writes
    <3> QED BY <1>5, <1>6, <3>1
  <2>3. CASE AnalyzeIntent(r)
    <3>1. OthersStay(r) /\ req'[r].pc \in {"aggregate", "fts", "count", "export", "rejected",
                                           "clarified", "failed"}
      BY <2>3, AnalyzeWrites DEF Writes
    <3> QED BY <1>5, <1>6, <3>1
  <2> QED BY <1>7, <2>1, <2>2, <2>3
<1>8. CASE SearchFts(r) \/ SearchLike(r) \/ SearchPageOf(r)
  <2>1. OthersStay(r) /\ \E items : req'[r].pc = AfterSearch(r, items)
    BY <1>8, FtsWrites, PageWrites DEF Writes
  <2>2. req'[r].pc \in {"thread", "stats"}
    BY <2>1 DEF AfterSearch
  <2> QED BY <1>5, <1>6, <2>1, <2>2
<1>9. CASE SearchCount(r) \/ LoadThread(r) \/ Aggregate(r) \/ ExportCsv(r) \/ ReadDetail(r)
  <2>1. OthersStay(r) /\ req'[r].pc \in {"page", "stats", "failed", "exported", "served"}
    BY <1>9, CountWrites, ThreadWrites, AggregateWrites, ExportWrites, DetailWrites DEF Writes
  <2> QED BY <1>5, <1>6, <2>1
<1>10. CASE SearchRaises(r) \/ StatementFails(r)
  <2>1. ~Respond(r)
    BY <1>10 DEF SearchRaises, StatementFails, Respond, Holds, Statements
  <2>2. OthersStay(r) /\ req'[r].pc \in {"failed", "served"}
    BY <1>10, <2>1, EndWrites DEF Writes
  <2> QED BY <1>5, <1>6, <2>2
<1> QED BY <1>2, <1>3, <1>4, <1>7, <1>8, <1>9, <1>10 DEF Work

\* No action takes the words and what stands under them apart.
LEMMA WordsStep == RowsInv /\ WordsInv /\ [Next]_vars => WordsInv'
<1> SUFFICES ASSUME RowsInv, WordsInv, [Next]_vars, NEW s \in Requests PROVE WordsOK(s)'
  BY DEF WordsInv
<1>0. Shaped /\ WordsOK(s)
  BY DEF RowsInv, WordsInv
<1>1. ASSUME req'[s] = req[s] PROVE WordsOK(s)'
  BY <1>0, <1>1, WordsKept
<1>2. ASSUME NEW r \in Requests, Receive(r) \/ Begin(r) \/ Work(r) \/ StatementFails(r)
      PROVE  WordsOK(s)'
  <2>1. WordsOK(r)' /\ OthersStay(r)
    BY <1>0, <1>2, WordsSteps
  <2> QED BY <1>1, <2>1 DEF OthersStay
<1>3. CASE Restart
  <2>1. req'[s] = req[s] \/ req'[s].pc = "lost"
    BY <1>0, <1>3, RestartWrites
  <2>2. req'[s].pc = "lost" => WordsOK(s)'
    BY DEF WordsOK, Worded
  <2> QED BY <1>1, <2>1, <2>2
<1> QED BY <1>1, <1>2, <1>3 DEF Next, IngestRow, DropIndex, CreateIndex, vars

\* A reply has rows when its count says so, but for a page its list does not have and a
\* row that comes between COUNT and SELECT.
LEMMA CountMatchesRows ==
    ASSUME RowsInv, FoundInv, TypeInv, NEW r \in Requests, Answered(r), ~Aggregates(r),
           ~UsesFts(Plan(r)) /\ ~ShowsThread(r) =>
               CountCurrent(r) /\ SearchPage(r) \in 1..TotalPages(req[r].total, SearchSize(r))
    PROVE  /\ req[r].total \in Nat /\ Len(req[r].items) \in Nat
           /\ req[r].total > 0 <=> Len(req[r].items) > 0
<1>1. /\ RowOK(r) /\ FoundOK(r) /\ emails \subseteq Mail /\ req[r].pc = "answered"
      /\ req[r].pc \in Shown /\ req[r].pc # "new" /\ req[r].total \in Nat
  BY DEF RowsInv, FoundInv, Answered, Shown, TypeInv, TypeOK
<1>2. CASE UsesFts(Plan(r)) \/ ShowsThread(r)
  BY <1>1, <1>2 DEF FoundOK, AllShown
<1>3. CASE ~UsesFts(Plan(r)) /\ ~ShowsThread(r)
  <2> DEFINE rows == Selected(req[r].at, Plan(r))
             size == SearchSize(r)
             page == SearchPage(r)
             total == req[r].total
  <2>1. /\ size > 0
        /\ \E s \in Orders[Plan(r).sort][rows] : req[r].items = PageOf(s, page, size)
    BY <1>1, <1>3 DEF FoundOK, PageShown
  <2>2. page \in Nat \ {0} /\ size \in Nat /\ Plan(r).sort \in SortOrders
    BY <1>1, PageNumbers
  <2>3. rows \subseteq Mail
    BY <1>1 DEF Selected, FoundOK, ReadInTurn
  <2>4. total = Cardinality(rows) /\ page \in 1..TotalPages(total, size)
    BY <1>3 DEF CountCurrent
  <2> HIDE DEF rows, size, page
  <2>5. PICK s \in Orders[Plan(r).sort][rows] : req[r].items = PageOf(s, page, size)
    BY <2>1
  <2>6. s \in SetToSeqs(rows) /\ s \in Seq(rows) /\ Len(s) = total
    BY <2>2, <2>3, <2>4, <2>5, OrderedRows, ListLength DEF Orders
  <2> DEFINE lo == (page - 1) * size
             full == page * size
             hi == IF full <= Len(s) THEN full ELSE Len(s)
  <2>7. Len(req[r].items) = IF lo < hi THEN hi - lo ELSE 0
    <3>1. Len(PageOf(s, page, size)) = IF lo < hi THEN hi - lo ELSE 0
      BY <2>2, <2>6, PagePlaces
    <3> QED BY <2>5, <3>1
  <2>8. lo \in Nat /\ full = lo + size /\ full \in Nat
    <3>1. page - 1 \in Nat
      BY <2>2
    <3>2. lo \in Nat
      BY <2>2, <3>1
    <3>3. full = lo + size
      BY <2>2, NextProduct
    <3> QED BY <2>2, <3>2, <3>3
  <2>9. total > 0 => lo < total
    BY <1>1, <2>1, <2>2, <2>4, PageBegins
  <2> HIDE DEF lo, full, total
  <2>10. total \in Nat
    BY <1>1 DEF total
  <2> QED BY <2>1, <2>2, <2>6, <2>7, <2>8, <2>9, <2>10 DEF total
<1> QED BY <1>2, <1>3

\* Words that say what stands under them.
Agree(text, p) ==
    /\ text = "found" => p.table.of = "emails" /\ p.export_available
    /\ text = "analysis" => p.table.of = "groups" \/ p.stats_cards # {}
    /\ text = "nothing" => p.table = NoTable /\ p.stats_cards = {} /\ ~p.export_available

\* What the template and the presentation make of the rows of a search.
LEMMA WordsOfRows ==
    ASSUME NEW n \in Nat, NEW total \in Nat, total > 0 <=> n > 0, NEW page, NEW pages,
           NEW result, result = {[emails |-> n, total_count |-> total]}
    PROVE  Agree(FallbackResponse(result, {}), BuildPresentation(result, {}, page, pages))
<1> DEFINE text == FallbackResponse(result, {})
           p == BuildPresentation(result, {}, page, pages)
<1>1. result # {} /\ \A s \in result : s.emails = n /\ s.total_count = total
  OBVIOUS
<1>2. p.export_available <=> \E s \in result : s.total_count > 0
  BY DEF BuildPresentation
<1>3. p.stats_cards = UNION ({{"Total Results", "Query Time"} : s \in Filled(result)} \cup {})
  BY DEF BuildPresentation
<1>4. p.table = IF Filled(result) # {}
                THEN [of |-> "emails", links |-> PageLinks(page, pages)]
                ELSE NoTable
  BY <1>1 DEF BuildPresentation
<1>5. text = IF \E s \in result : s.total_count > 0 THEN "found" ELSE "nothing"
  BY DEF FallbackResponse
<1> HIDE DEF text, p
<1>6. CASE total > 0
  <2>1. Filled(result) # {} /\ \E s \in result : s.total_count > 0
    BY <1>1, <1>6 DEF Filled
  <2>2. text = "found" /\ p.export_available /\ p.table.of = "emails"
    BY <1>2, <1>4, <1>5, <2>1
  <2>3. Agree(text, p)
    BY <2>2 DEF Agree
  <2> QED BY <2>3 DEF text, p
<1>7. CASE ~(total > 0)
  <2>1. Filled(result) = {} /\ ~\E s \in result : s.total_count > 0
    BY <1>1, <1>7 DEF Filled
  <2>2. p.stats_cards = {}
    BY <1>3, <2>1
  <2>3. text = "nothing" /\ ~p.export_available /\ p.table = NoTable
    BY <1>2, <1>4, <1>5, <2>1
  <2>4. Agree(text, p)
    BY <2>2, <2>3 DEF Agree
  <2> QED BY <2>4 DEF text, p
<1> QED BY <1>6, <1>7

\* What they make of the groups of an aggregation.
LEMMA WordsOfGroups ==
    ASSUME NEW plan, NEW total \in Nat, NEW page, NEW pages,
           NEW a, a = AggregationResult(plan, total)
    PROVE  Agree(FallbackResponse({}, {a}), BuildPresentation({}, {a}, page, pages))
<1> DEFINE text == FallbackResponse({}, {a})
           p == BuildPresentation({}, {a}, page, pages)
<1>1. Filled({}) = {}
  BY DEF Filled
<1>2. ~p.export_available
  BY DEF BuildPresentation
<1>3. p.stats_cards = UNION ({} \cup {a.summary})
  BY <1>1 DEF BuildPresentation
<1>4. p.table = IF a.data > 0 THEN [of |-> "groups", links |-> {}] ELSE NoTable
  BY <1>1 DEF BuildPresentation
<1>5. text = IF a.data > 0 \/ a.summary # {} THEN "analysis" ELSE "nothing"
  BY DEF FallbackResponse
<1> HIDE DEF text, p
<1>6. p.stats_cards = a.summary
  BY <1>3
<1>7. Agree(text, p)
  BY <1>2, <1>4, <1>5, <1>6 DEF Agree
<1> QED BY <1>7 DEF text, p

\* The template of the words and the presentation agree on whether there is something
\* to see, within what WordsMatchTable says of pages and rows that come in.
THEOREM WordsMatchTableAlways == Spec => []WordsMatchTable
<1>1. RowsInv /\ FoundInv /\ TypeInv /\ WordsInv => WordsMatchTable
  <2> SUFFICES ASSUME RowsInv, FoundInv, TypeInv, WordsInv, NEW r \in Requests, Answered(r),
                      ~Aggregates(r) /\ ~UsesFts(Plan(r)) /\ ~ShowsThread(r) =>
                         /\ CountCurrent(r)
                         /\ SearchPage(r) \in 1..TotalPages(req[r].total, SearchSize(r)),
                      NEW p \in req[r].shown
               PROVE  Agree(req[r].text, p)
    BY DEF WordsMatchTable, Agree
  <2>1. /\ req[r].text \in {FallbackResponse(SearchResult(r), Aggregation(r)), "llm"}
        /\ p = BuildPresentation(SearchResult(r), Aggregation(r), req[r].ask.page, Pages(r))
    BY DEF WordsInv, WordsOK, Answered, Worded
  <2>2. Agree("llm", p)
    BY DEF Agree
  <2>3. SUFFICES Agree(FallbackResponse(SearchResult(r), Aggregation(r)),
                       BuildPresentation(SearchResult(r), Aggregation(r), req[r].ask.page,
                                         Pages(r)))
    BY <2>1, <2>2
  <2>4. CASE Aggregates(r)
    <3>1. SearchResult(r) = {} /\ Aggregation(r) = {AggregationResult(Plan(r), req[r].total)}
      BY <2>4 DEF SearchResult, Aggregation
    <3>2. req[r].total \in Nat
      BY DEF TypeInv, TypeOK
    <3> QED BY <3>1, <3>2, WordsOfGroups
  <2>5. CASE ~Aggregates(r)
    <3>1. /\ SearchResult(r) = {[emails |-> Len(req[r].items), total_count |-> req[r].total]}
          /\ Aggregation(r) = {}
      BY <2>5 DEF SearchResult, Aggregation
    <3>2. /\ req[r].total \in Nat /\ Len(req[r].items) \in Nat
          /\ req[r].total > 0 <=> Len(req[r].items) > 0
      BY <2>5, CountMatchesRows
    <3> QED BY <3>1, <3>2, WordsOfRows
  <2> QED BY <2>4, <2>5
<1>2. RowsInv /\ FoundInv /\ TypeInv /\ AuditInv /\ WordsInv /\ [Next]_vars
        => (RowsInv /\ FoundInv /\ TypeInv /\ AuditInv /\ WordsInv)'
  BY RowsStep, FoundStep, TypeStep, AuditStep, WordsStep
<1> QED BY <1>1, <1>2, RowsInit, FoundInit, TypeInit, AuditInit, WordsInit, PTL DEF Spec

-----------------------------------------------------------------------------
(* How a call comes to its end *)

\* The statements of a call in the order it may take them.
Stage(pc) ==
    CASE pc = "new"    -> 0
      [] pc = "body"   -> 1
      [] pc = "intent" -> 2
      [] pc \in {"fts", "count", "aggregate", "export", "detail"} -> 3
      [] pc = "page"   -> 4
      [] pc = "thread" -> 5
      [] pc = "stats"  -> 6
      [] pc = "audit"  -> 7
      [] pc = "reply"  -> 8
      [] pc \in Over   -> 9

\* The event loop is held by the call that works, and by no other.
LoopServesOne == \A r \in Requests : req[r].pc \in Working <=> loop = r

\* A step that brings r from one statement to a later one.
Forward(r) ==
    /\ Shaped' /\ OthersStay(r)
    /\ Stage(req'[r].pc) > Stage(req[r].pc)

\* The event loop stays with a call until the call is over.
KeepsLoop(r) ==
    \/ loop' = r /\ req'[r].pc \in Working
    \/ loop' = None /\ req'[r].pc \in Over

\* The places of the statements.
LEMMA Stages ==
    /\ Stage("new") = 0 /\ Stage("body") = 1 /\ Stage("intent") = 2
    /\ \A pc \in {"fts", "count", "aggregate", "export", "detail"} : Stage(pc) = 3
    /\ Stage("page") = 4 /\ Stage("thread") = 5 /\ Stage("stats") = 6
    /\ Stage("audit") = 7 /\ Stage("reply") = 8
    /\ \A pc \in Over : Stage(pc) = 9
<1>1. Stage("new") = 0 /\ Stage("body") = 1 /\ Stage("intent") = 2
  BY DEF Stage, Over
<1>2. \A pc \in {"fts", "count", "aggregate", "export", "detail"} : Stage(pc) = 3
  BY DEF Stage, Over
<1>3. Stage("page") = 4 /\ Stage("thread") = 5 /\ Stage("stats") = 6
  BY DEF Stage, Over
<1>4. Stage("audit") = 7 /\ Stage("reply") = 8
  BY DEF Stage, Over
<1>5. \A pc \in Over : Stage(pc) = 9
  BY DEF Stage, Over
<1> QED BY <1>1, <1>2, <1>3, <1>4, <1>5

\* A statement that raises, or a server that dies, ends a call that had not ended.
LEMMA LastStage == \A pc \in {"body"} \cup Working : Stage(pc) < 9
BY Stages DEF Working, Statements

\* What Proceed and Conclude do to the event loop.
LEMMA GoesOn ==
    ASSUME Shaped, NEW r \in Requests, NEW next, DOMAIN next = Fields, NEW pc
    PROVE  /\ Proceed(r, next, pc) => loop' = loop /\ req'[r].pc = pc
           /\ Conclude(r, next, pc) => loop' = None /\ req'[r].pc = pc
<1> DEFINE after == [next EXCEPT !.pc = pc]
<1>1. DOMAIN after = Fields /\ after.pc = pc
  BY DEF Fields
<1>2. Become(r, after) => req'[r].pc = pc
  <2> HIDE DEF after
  <2> QED BY <1>1, BecomeWrites
<1> QED BY <1>2 DEF Proceed, Conclude

\* The fields of a request stay when one of them is written.
LEMMA ShapeKept ==
    ASSUME NEW next, DOMAIN next = Fields, NEW x
    PROVE  /\ DOMAIN [next EXCEPT !.intent = x] = Fields
           /\ DOMAIN [next EXCEPT !.text = x] = Fields
           /\ DOMAIN [next EXCEPT !.sessions = x] = Fields
           /\ DOMAIN [next EXCEPT !.at = x] = Fields
           /\ DOMAIN [next EXCEPT !.shown = x] = Fields
           /\ DOMAIN [next EXCEPT !.total = x] = Fields
           /\ DOMAIN [next EXCEPT !.before = x] = Fields
           /\ DOMAIN [next EXCEPT !.prior = x] = Fields
OBVIOUS

\* A call begins with the event loop, or is refused without it.
LEMMA BeginKeeps ==
    ASSUME Shaped, NEW r \in Requests, Begin(r)
    PROVE  loop = None /\ KeepsLoop(r)
<1> DEFINE prior == {s \in Requests : req[s].pc \in Over}
           next == [req[r] EXCEPT !.before = emails, !.prior = prior]
           begun(pc) == [next EXCEPT !.pc = pc]
<1>1. DOMAIN next = Fields
  BY DEF Shaped
<1>2. /\ loop = None
      /\ \/ Conclude(r, next, "refused")
         \/ loop' = r /\ \E pc \in {"detail", "intent"} : Become(r, begun(pc))
  <2> HIDE DEF prior
  <2> QED BY DEF Begin, prior
<1> HIDE DEF next
<1>3. \A pc : DOMAIN begun(pc) = Fields /\ begun(pc).pc = pc
  BY <1>1 DEF Fields
<1> HIDE DEF begun
<1>4. \A pc : Become(r, begun(pc)) => req'[r].pc = pc
  BY <1>3, BecomeWrites
<1> QED BY <1>1, <1>2, <1>4, GoesOn DEF KeepsLoop, Working, Statements, Over

\* An intent leads to a statement, or ends the call.
LEMMA AnalyzeKeeps ==
    ASSUME Shaped, NEW r \in Requests, AnalyzeIntent(r)
    PROVE  loop = r /\ KeepsLoop(r)
<1> DEFINE query == req[r].ask.query
           guarded(found) == IF req[r].ask.endpoint = "export" THEN found
                             ELSE Guarded(found, query)
           next(found) == [req[r] EXCEPT !.intent = guarded(found)]
           asked(found) == [next(found) EXCEPT
                              !.sessions = Remember(@, "assistant_clarification")]
           rejected(found) == [next(found) EXCEPT !.text = "rejection"]
           first(found) == FirstStatement(BuildQueryPlan(guarded(found), query))
<1>1. /\ loop = r
      /\ \E found \in Intents(query) :
           \/ Proceed(r, next(found), "export")
           \/ Conclude(r, rejected(found), "rejected")
           \/ \E pc \in Clarified : Conclude(r, asked(found), pc)
           \/ Proceed(r, next(found), first(found))
  <2> HIDE DEF Intents, Rejected, Guarded, FirstStatement, BuildQueryPlan, Remember, Clarified, query
  <2> QED BY DEF AnalyzeIntent, Holds, guarded, next, asked, rejected, first, query
<1>2. \A found : /\ DOMAIN next(found) = Fields /\ DOMAIN rejected(found) = Fields
                 /\ DOMAIN asked(found) = Fields
  BY DEF Shaped
<1> HIDE DEF next, asked, rejected
<1>3. \A found : first(found) \in {"aggregate", "fts", "count"}
  BY DEF FirstStatement
<1> HIDE DEF first, query
<1>4. Clarified \subseteq Over
  BY DEF Clarified, Over
<1>5. PICK found \in Intents(query) :
           \/ Proceed(r, next(found), "export")
           \/ Conclude(r, rejected(found), "rejected")
           \/ \E pc \in Clarified : Conclude(r, asked(found), pc)
           \/ Proceed(r, next(found), first(found))
  BY <1>1
<1>6. \/ loop' = loop /\ req'[r].pc \in {"export", "aggregate", "fts", "count"}
      \/ loop' = None /\ req'[r].pc \in {"rejected"} \cup Clarified
  BY <1>2, <1>3, <1>5, GoesOn
<1> QED BY <1>1, <1>4, <1>6 DEF KeepsLoop, Working, Statements, Over

\* The groups are read and go on to the words, or raise.
LEMMA AggregateKeeps ==
    ASSUME Shaped, NEW r \in Requests, Aggregate(r)
    PROVE  loop = r /\ KeepsLoop(r)
<1> DEFINE read == [req[r] EXCEPT !.at = emails]
           counted == [req[r] EXCEPT !.total = Groups(emails, Plan(r)), !.at = emails]
<1>1. loop = r /\ (Conclude(r, read, "failed") \/ Proceed(r, counted, "stats"))
  <2> HIDE DEF Groups, Unlabelled
  <2> QED BY DEF Aggregate, Holds
<1>2. DOMAIN read = Fields /\ DOMAIN counted = Fields
  BY DEF Shaped
<1> HIDE DEF read, counted
<1> QED BY <1>1, <1>2, GoesOn DEF KeepsLoop, Working, Statements, Over

\* The presentation is made and goes on to the log, or raises.
LEMMA PresentKeeps ==
    ASSUME Shaped, NEW r \in Requests, Present(r)
    PROVE  loop = r /\ KeepsLoop(r)
<1> DEFINE shown == {BuildPresentation(SearchResult(r), Aggregation(r), req[r].ask.page,
                                       Pages(r))}
           said(text) == [req[r] EXCEPT !.text = text, !.shown = shown]
<1>1. /\ loop = r
      /\ Conclude(r, req[r], "failed") \/ \E text : Proceed(r, said(text), "audit")
  <2> HIDE DEF shown
  <2> QED BY DEF Present, Holds, shown
<1>2. DOMAIN req[r] = Fields /\ \A text : DOMAIN said(text) = Fields
  BY DEF Shaped
<1> HIDE DEF said
<1> QED BY <1>1, <1>2, GoesOn DEF KeepsLoop, Working, Statements, Over

\* Every statement leaves the event loop with its call or ends the call.
LEMMA WorkKeeps ==
    ASSUME Shaped, NEW r \in Requests, Work(r) \/ StatementFails(r)
    PROVE  loop = r /\ KeepsLoop(r)
<1>1. {"page", "thread", "stats", "reply"} \subseteq Working
      /\ {"exported", "served", "failed", "answered"} \subseteq Over
  BY DEF Working, Statements, Over
<1>2. \A items : AfterSearch(r, items) \in {"thread", "stats"}
  BY DEF AfterSearch
<1>3. loop = r
  BY DEF Work, AnalyzeIntent, SearchFts, SearchLike, SearchCount, SearchPageOf, SearchRaises, LoadThread,
         Aggregate, Present, LogAudit, Respond, ExportCsv, ReadDetail, StatementFails, Holds
<1>4. CASE SearchFts(r) \/ SearchLike(r)
  BY <1>1, <1>2, <1>3, <1>4, FtsWrites DEF KeepsLoop
<1>5. CASE SearchPageOf(r)
  BY <1>1, <1>2, <1>3, <1>5, PageWrites DEF KeepsLoop
<1>6. CASE SearchCount(r)
  BY <1>1, <1>3, <1>6, CountWrites DEF KeepsLoop
<1>7. CASE LoadThread(r)
  BY <1>1, <1>3, <1>7, ThreadWrites DEF KeepsLoop
<1>8. CASE LogAudit(r)
  BY <1>1, <1>3, <1>8, LogWrites DEF KeepsLoop
<1>9. CASE Respond(r) \/ SearchRaises(r) \/ StatementFails(r)
  BY <1>1, <1>9, <1>3, EndWrites DEF KeepsLoop
<1>10. CASE ExportCsv(r)
  BY <1>1, <1>3, <1>10, ExportWrites DEF KeepsLoop
<1>11. CASE ReadDetail(r)
  BY <1>1, <1>3, <1>11, DetailWrites DEF KeepsLoop
<1> QED BY <1>4, <1>5, <1>6, <1>7, <1>8, <1>9, <1>10, <1>11, AnalyzeKeeps, AggregateKeeps,
           PresentKeeps DEF Work

\* Every step of a call brings it nearer to its end.
LEMMA StepsForward ==
    ASSUME Shaped, NEW r \in Requests, Receive(r) \/ Begin(r) \/ Work(r) \/ StatementFails(r)
    PROVE  Forward(r)
<1>1. \A items : AfterSearch(r, items) \in {"thread", "stats"}
  BY DEF AfterSearch
<1>2. {"refused", "rejected", "clarified", "answered", "exported", "served", "failed"}
        \subseteq Over
  BY DEF Over
<1> HIDE DEF Over
<1>3. CASE Receive(r)
  <2>1. Shaped' /\ OthersStay(r) /\ req[r].pc = "new" /\ req'[r].pc = "body"
    BY <1>3, Receives
  <2> QED BY <2>1, Stages DEF Forward
<1>4. CASE Begin(r)
  <2>1. /\ Shaped' /\ OthersStay(r) /\ req[r].pc = "body"
        /\ req'[r].pc \in {"refused", "detail", "intent"}
    BY <1>4, BeginWrites DEF Writes
  <2> QED BY <1>2, <2>1, Stages DEF Forward
<1>5. CASE AnalyzeIntent(r)
  <2>1. /\ Shaped' /\ OthersStay(r) /\ req[r].pc = "intent"
        /\ req'[r].pc \in {"aggregate", "fts", "count", "export", "rejected", "clarified",
                           "failed"}
    BY <1>5, AnalyzeWrites DEF Writes
  <2> QED BY <1>2, <2>1, Stages DEF Forward
<1>6. CASE SearchFts(r) \/ SearchLike(r)
  <2>1. Shaped' /\ OthersStay(r) /\ req[r].pc = "fts" /\ req'[r].pc \in {"thread", "stats"}
    BY <1>1, <1>6, FtsWrites DEF Writes
  <2> QED BY <2>1, Stages DEF Forward
<1>7. CASE SearchCount(r)
  <2>1. Shaped' /\ OthersStay(r) /\ req[r].pc = "count" /\ req'[r].pc = "page"
    BY <1>7, CountWrites DEF Writes
  <2> QED BY <2>1, Stages DEF Forward
<1>8. CASE SearchPageOf(r)
  <2>1. Shaped' /\ OthersStay(r) /\ req[r].pc = "page" /\ req'[r].pc \in {"thread", "stats"}
    BY <1>1, <1>8, PageWrites DEF Writes
  <2> QED BY <2>1, Stages DEF Forward
<1>9. CASE LoadThread(r)
  <2>1. Shaped' /\ OthersStay(r) /\ req[r].pc = "thread" /\ req'[r].pc = "stats"
    BY <1>9, ThreadWrites DEF Writes
  <2> QED BY <2>1, Stages DEF Forward
<1>10. CASE Aggregate(r)
  <2>1. Shaped' /\ OthersStay(r) /\ req[r].pc = "aggregate" /\ req'[r].pc \in {"failed", "stats"}
    BY <1>10, AggregateWrites DEF Writes
  <2> QED BY <1>2, <2>1, Stages DEF Forward
<1>11. CASE Present(r)
  <2>1. Shaped' /\ OthersStay(r) /\ req[r].pc = "stats" /\ req'[r].pc \in {"failed", "audit"}
    BY <1>11, PresentWrites DEF Writes
  <2> QED BY <1>2, <2>1, Stages DEF Forward
<1>12. CASE LogAudit(r)
  <2>1. Shaped' /\ OthersStay(r) /\ req[r].pc = "audit" /\ req'[r].pc = "reply"
    BY <1>12, LogWrites DEF Writes
  <2> QED BY <2>1, Stages DEF Forward
<1>13. CASE Respond(r) \/ SearchRaises(r) \/ StatementFails(r)
  <2>1. /\ Shaped' /\ OthersStay(r) /\ req[r].pc \in {"reply"} \cup Statements
        /\ req'[r].pc \in {"answered", "failed", "served"}
    BY <1>13, EndWrites DEF Writes
  <2>2. Stage(req[r].pc) < 9
    BY <2>1, LastStage DEF Working
  <2>3. Stage(req'[r].pc) = 9
    BY <1>2, <2>1, Stages
  <2> QED BY <2>1, <2>2, <2>3 DEF Forward
<1>14. CASE ExportCsv(r)
  <2>1. Shaped' /\ OthersStay(r) /\ req[r].pc = "export" /\ req'[r].pc = "exported"
    BY <1>14, ExportWrites DEF Writes
  <2> QED BY <1>2, <2>1, Stages DEF Forward
<1>15. CASE ReadDetail(r)
  <2>1. Shaped' /\ OthersStay(r) /\ req[r].pc = "detail" /\ req'[r].pc = "served"
    BY <1>15, DetailWrites DEF Writes
  <2> QED BY <1>2, <2>1, Stages DEF Forward
<1> QED BY <1>3, <1>4, <1>5, <1>6, <1>7, <1>8, <1>9, <1>10, <1>11, <1>12, <1>13, <1>14, <1>15
        DEF Work

\* No step gives the event loop to a second call, or leaves it with one that is over.
LEMMA LoopStep == Shaped /\ LoopServesOne /\ [Next]_vars => LoopServesOne'
<1> SUFFICES ASSUME Shaped, LoopServesOne, [Next]_vars PROVE LoopServesOne'
  OBVIOUS
<1>1. None \notin Requests /\ Working \cap (Over \cup {"new", "body"}) = {}
  BY ServiceAssumption DEF Working, Statements, Over
<1>2. ASSUME NEW r \in Requests, OthersStay(r), KeepsLoop(r), loop \in {None, r}
      PROVE  LoopServesOne'
  <2>1. req'[r].pc \in Working <=> loop' = r
    BY <1>1, <1>2 DEF KeepsLoop
  <2>2. ASSUME NEW s \in Requests, s # r PROVE req'[s].pc \notin Working /\ loop' # s
    BY <1>1, <1>2, <2>2 DEF KeepsLoop, OthersStay, LoopServesOne
  <2> QED BY <2>1, <2>2 DEF LoopServesOne
<1>3. ASSUME NEW r \in Requests, Begin(r) \/ Work(r) \/ StatementFails(r)
      PROVE  LoopServesOne'
  <2>1. OthersStay(r)
    BY <1>3, StepsForward DEF Forward
  <2> QED BY <1>2, <1>3, <2>1, BeginKeeps, WorkKeeps
<1>4. ASSUME NEW r \in Requests, Receive(r) PROVE LoopServesOne'
  <2>1. OthersStay(r) /\ loop' = loop /\ req[r].pc = "new" /\ req'[r].pc = "body"
    BY <1>4, Receives
  <2> QED BY <1>1, <2>1 DEF LoopServesOne, OthersStay
<1>5. CASE Restart
  <2>1. loop' = None /\ \A r \in Requests : req'[r] = req[r] \/ req'[r].pc = "lost"
    BY <1>5, RestartWrites
  <2>2. ASSUME NEW r \in Requests PROVE req'[r].pc \notin Working
    <3>1. "lost" \notin Working
      BY DEF Working, Statements
    <3>2. CASE req[r].pc \notin Working
      BY <2>1, <3>1, <3>2
    <3>3. CASE req[r].pc \in Working
      <4> DEFINE lost(s) == [req[s] EXCEPT !.pc = "lost"]
      <4>1. req' = [s \in Requests |->
                       IF req[s].pc \in {"body"} \cup Working THEN lost(s) ELSE req[s]]
        BY <1>5 DEF Restart
      <4>2. lost(r).pc = "lost"
        BY DEF Shaped, Fields
      <4> HIDE DEF lost
      <4> QED BY <3>1, <3>3, <4>1, <4>2
    <3> QED BY <3>2, <3>3
  <2> QED BY <1>1, <2>1, <2>2 DEF LoopServesOne
<1>6. CASE UNCHANGED <<req, loop>>
  BY <1>6 DEF LoopServesOne
<1> QED BY <1>3, <1>4, <1>5, <1>6 DEF Next, IngestRow, DropIndex, CreateIndex, vars

\* A call is over after at most nine steps, whatever is asked and whatever fails: no
\* statement is taken twice, and a reply, once given, stays.  While it works it has
\* the event loop to itself, and the loop is free when no call works, so that a call
\* whose body is there never waits for one that is over.  RequestsEnd follows where
\* statements end and the event loop is fair.
THEOREM CallsGoForward ==
    Spec => /\ []LoopServesOne
            /\ [][\A r \in Requests :
                    req'[r] = req[r] \/ Stage(req'[r].pc) > Stage(req[r].pc)]_vars
<1>1. Init => LoopServesOne
  <2>1. BlankRequest.pc = "new" /\ "new" \notin Working
    BY DEF BlankRequest, Working, Statements
  <2> QED BY <2>1, ServiceAssumption DEF Init, LoopServesOne
<1>2. AuditInv /\ [Next]_vars
        => [\A r \in Requests :
              req'[r] = req[r] \/ Stage(req'[r].pc) > Stage(req[r].pc)]_vars
  <2> SUFFICES ASSUME AuditInv, [Next]_vars, NEW r \in Requests
               PROVE  req'[r] = req[r] \/ Stage(req'[r].pc) > Stage(req[r].pc)
    OBVIOUS
  <2>1. Shaped
    BY DEF AuditInv
  <2>2. ASSUME NEW s \in Requests, Receive(s) \/ Begin(s) \/ Work(s) \/ StatementFails(s)
        PROVE  req'[r] = req[r] \/ Stage(req'[r].pc) > Stage(req[r].pc)
    BY <2>1, <2>2, StepsForward DEF Forward, OthersStay
  <2>3. CASE Restart
    <3>1. \/ req'[r] = req[r]
          \/ req[r].pc \in {"body"} \cup Working /\ req'[r].pc = "lost"
      BY <2>1, <2>3, RestartWrites
    <3>2. Stage("lost") = 9
      BY Stages DEF Over
    <3>3. CASE req[r].pc \in {"body"} \cup Working /\ req'[r].pc = "lost"
      <4>1. Stage(req[r].pc) < 9
        BY <3>3, LastStage
      <4>2. Stage(req'[r].pc) = 9
        BY <3>2, <3>3
      <4> QED BY <4>1, <4>2
    <3> QED BY <3>1, <3>3
  <2>4. CASE UNCHANGED req
    BY <2>4
  <2> QED BY <2>2, <2>3, <2>4 DEF Next, IngestRow, DropIndex, CreateIndex, vars
<1>3. AuditInv => Shaped
  BY DEF AuditInv
<1> QED BY <1>1, <1>2, <1>3, AuditInit, AuditStep, LoopStep, PTL DEF Spec
==============================================================================
