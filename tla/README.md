# Verification of the Bevar Ukraine e-mail handler

TLA+ models of the program in this repository, TLC configurations that check
them on small instances, and proofs that TLAPS checks for every instance.
Paths are relative to the root of the repository (`src/agents/...` is the
package `src`).

## 1. The system

The program answers questions about a mail archive. An append-only mbox on S3
is ingested into a DuckDB table with a full-text index; questions go through a
chain of agents to SQL statements on that table; a single web page shows the
answers. One server process holds an event loop (FastAPI) and the daemon
threads of triggered ingestions. DuckDB is reached through one connection per
thread, and nothing opens a transaction: every statement commits by itself.

| Component | State it keeps | Operations | Interacts with | What is hard | What makes it correct |
|---|---|---|---|---|---|
| Ingestion pipeline (`ingestion/pipeline.py`, `main.py`) | locals of a run; tables `emails`, `ingestion_manifest`, FTS index | `should_ingest`, `run`, `run_from_file` | S3 client, parser, database | a crash between two statements, ETag and bytes read by two calls, resumed and forced runs, rows refused, local and S3 runs sharing one manifest | "completed" is never recorded untruly; checkpoints count only what is done; the index catches up |
| mbox parser (`ingestion/mbox_parser.py`) | offset counter, temporary file | `parse_mbox_stream`, `parse_message`, `_compute_thread_id`, `_extract_body`, `_extract_attachments` | pipeline | messages without Message-ID, malformed, unreadable; threads from headers in any order; mails attached to mails | a bad message costs itself only; a thread is one conversation; a mail is shown with its own text |
| S3 client (`ingestion/s3_client.py`) | attempt counter, body | `get_object_metadata`, `stream_object` | pipeline, parser | throttling, attempts that run out, failure in the middle of a body | what was read before a failure never passes for the archive |
| Database (`storage/database.py`) | the tables | inserts, `search_filtered`, `search_fts`, `get_thread`, `save_manifest`, `create_fts_index`, `export_filtered_csv`, `log_audit`, statistics | everything | two statements where one is meant (COUNT and SELECT, DELETE and INSERT), rows replaced under a reader, ORDER BY that is not total, an FTS index that is a snapshot, is not there while it is overwritten, and has a fallback | pages partition a list; the manifest is there; rows can be found |
| Ingestion endpoints (`api/routes.py`) | `_ingestion_lock`, `_ingestion_status` | trigger, status | pipeline, browser | a check of the flag, an await, then a thread that raises it; a manifest read between two statements of a run | one run at a time; flag, error and "completed" agree with the runs |
| Query endpoints and orchestrator (`api/routes.py`, `agents/orchestrator.py`) | an Orchestrator for each request; table `audit_log` | `process_query`, `export_csv`; e-mail, thread, stats, senders, timeline, health | agents, database, LLM | rows arriving between statements, statements that raise, servers that die, LLM answers no rule produces | every shown result audited once; export and dialogs agree with the answer; every request ends |
| Intent, planner, data access, search, aggregation agents | none | intent, plan, rows | orchestrator, LLM | two paths for keywords and filters, day against timestamp, groups without a label | lists hold what is meant |
| Clarification, presentation, composer agents | none | question, tables and links, words | orchestrator, LLM | page links at the ends of a list, an LLM that answers nothing, words made from another count than the table | links lead to pages that exist; words and table agree |
| Web page (`templates/index.html`) | current query and page, button, areas, timers, dialog | submit, page link, clarification, export, dialog | query endpoints | submissions that overlap, failures in fetching and in rendering, disabled links within reach of the keyboard, text edited meanwhile | what is on view answers the last query; the page comes to rest |
| LLM client, privacy, settings, logging, deployment | cached client; none | | | a clock (health check) | not modelled, section 8 |

The hazards of the code, each at its line, are listed in `PROJECT.json`.

## 2. The modules

| Module | Models | State and actions against the code |
|---|---|---|
| `MailArchive` | the mbox and its image in `emails` | a message is its position in the object, an ETag the number of messages it stands for; `KeyOf` is the choice of `message_id` (header, `generated-<uuid4>`, `error-<uuid4>`), a uuid is the tag of the run that drew it |
| `Ingestion` | the pipeline | `job` holds the locals of `run` and `run_from_file`, `job.pc` the statement about to run; one action per S3 call, parsed message and DuckDB statement; `emails`, `manifest`, `fts` are the tables; `Failure` is what goes wrong: S3, a row, the FTS build, any other statement that raises in a process that lives (`StatementRaises`, `StartRaises`: the run ends, the tables stay, between DELETE and INSERT too), and `Crash`, which keeps the tables and loses `job` |
| `ArchiveIndex` | what ingestion promises | messages handled, and the ETag the index claims to be complete for; `Ingestion` is checked and proved to implement it |
| `S3Stream` | `stream_object` and the copy of the body to the temporary file | attempts, the sleep between them, chunks of any length; the single step `GetObject` of `Ingestion` taken apart |
| `IngestionTrigger` | `/api/ingestion/trigger` | `pc[r]` is where request r, then its thread, stands; `lock`, `status` are the module globals; a restart of the server kills threads |
| `IngestionService` | the composition: threads of `IngestionTrigger` that run the statements of `Ingestion` over `S3Stream`, and `/api/ingestion/status` | `caller` is the thread inside `run`; `inquiry` is a status request that has read the manifest and not answered yet; implements `Ingestion` (`RunsOfIngestion`) |
| `EmailSearch` | query to rows | pure operators: fallback intent, plan, clauses, rows of each statement, the orders ORDER BY allows, pages, groups. `Mail` are the versions of rows that can be in the table, `IdOf` their `message_id`: two with one are copies of a mail, of which the table has one |
| `Presentation` | presentation agent and composer | pure operators: which table, page links (each anchor with `data-page`, disabled or not), figures and charts a result gets, which template of words, and which areas of the page open for it |
| `QueryService` | the endpoints that read | `req[r]` holds the locals of a handler, `loop` the request that has the event loop; one action per LLM call and SQL statement; between any two the ingestion thread adds a row or replaces one (`IngestRow`: INSERT OR REPLACE may change thread, date and text) and overwrites the index in two steps (`DropIndex`, `CreateIndex`); `search_fts` answers by the index (`SearchFts`) or, when its statement raises or there is no index, by ILIKE (`SearchLike`); statements raise and the server dies |
| `WebClient` | the page's script | one action per handler; `inflight` are the fetches nobody cancels, `shown` what is rendered where, `words` whose text stands in the text area, `fades` the timers; a response may come without words, or `renderResponse` throw half-way; page links are those of `Presentation`, disabled ones included, for the keyboard follows them; how many pages a list has may differ from one request to the next (`PagesOf`) |
| `MailThreads` | thread ids | mails are written by clients of two habits (References chain, or In-Reply-To alone) and indexed in any order |
| `MailContents` | bodies and attachments | the mails of `MailThreads` get parts, and mails attached to them anywhere among the parts; a single part is the mail or stands in a multipart of one; the walk of the parser over all parts, and the text a dialog shows |
| `MC*` | instances for TLC | archives, rows, queries, intents, forms of mails |
| `*Proofs` | theorems | section 5 |

`Ingestion` extends `MailArchive`; `QueryService` extends `EmailSearch` and
`Presentation`, `WebClient` extends `Presentation`; `MailContents` extends
`MailThreads`; `IngestionService` extends `IngestionTrigger` and `S3Stream` and
instantiates `Ingestion`. That one job runs at a time, which `Ingestion` takes
for granted, is what the lock of `IngestionTrigger` brings about among the
threads of a server: `IngestionService` does not assume it (a thread that
enters `run` overwrites `job` whatever the thread before it is doing) and is
checked and proved to implement `Ingestion`. Among processes DuckDB's lock on
its file does the same.

What the models abstract: contents of a mail except what keys, clauses,
searches, threads and bodies look at; wording, HTML, charts, logging; the LLM is
any function from queries to a set of intents; time is counted in half days
where periods meet timestamps; texts and addresses are sequences of the parts
that LIKE can tell apart. The columns searched by words are one
text; BM25 knows neither stems nor stop words here, and its scores put matching
rows in any order. History
variables (`rejected`, `claimed`, `before`, `at`, `prior`, `list`, `pages`,
`wordless`, `overlap`, `root`, `last`) record what properties compare and never enable a step.
Operators called "Mutant of" are seeded bugs: each makes TLC find the property
it is listed with in `PROJECT.json` violated.

## 3. The runs

Eight runs must pass, four must find a violation.

| Run | What it shows | Instance |
|---|---|---|
| `ingest_safety` | `CompletedCovers`, `MailOnce`, the inductive invariant `IngestionInv`, and the refinement `IndexSpec` | four messages: identified, without Message-ID, malformed, a copy of the first; batch of 2; all entry points, forced and not; two faults of any kind; local file of two messages |
| `ingest_nocrash` | `CheckpointTruthful`, `SearchableWhenCompleted`, `FinishedRunOnRecord`, `CompletedTotal` as long as nothing fails but S3 calls and the INSERT of single rows | three messages (identified, without Message-ID, malformed), S3 and row faults. Left out are a process that dies, an FTS build that fails and any other statement that raises: each of them leaves the index or the manifest behind (section 7) |
| `ingest_live` | `RunsEnd`, `EventuallyCaughtUp` | three messages, the third cannot be fetched, all faults, an operator who comes back |
| `trigger` | `OneRunAtATime`, `FlagMeansRun`, `ErrorOfLastRun`, `StatusClaimsHold`, `StartedRunsEnd`, and the refinement `RunsOfIngestion` | two requests, one of them with a body to await and forced; a restart; an archive of two messages; two faults of any kind; two attempts at S3; status requests at any moment |
| `query_answer` | `TypeOK`, `ThreadWhole`, `ListsOnlyMeant`, `ListsAllMeant`, `KeywordsFound`, `WordsMatchTable`, `AuditedOnce` | one request of each kind, sixteen intents the LLM may give and those of the rules; three mails, one an error record, one in two copies of different thread and text that replace each other; an index that is there, is not, is old or is being overwritten; one failing statement or restart |
| `query_pair` | `ExportCoversAnswer`, `PagesMissNothingCounted`, `PagesDisjoint`, `DialogsFindTheirMail`, `RequestsEnd` | two requests out of two pages of one row, an export, the dialogs of a thread and of a mail, and a page of size 0; one row, one arriving, and a copy of that in another thread which replaces it or is replaced by it; the LLM may ask back; one failing statement or restart |
| `web` | `ShownIsCurrent`, `ButtonFollowsRequests`, `RequestedPagesExist`, `ExportsTheListOnView`, `PageSettles` | three submissions, a list of one page or two, as the plan of the request has it, and statistics of one |
| `threads` | `ThreadsApart`, `ThreadsWhole`, `OwnTextShown`, `BodyIsNoAttachment` | four mails, both habits; the first two may be more than a plain text: one or two parts, in any order, of plain text, HTML, an empty text, a text file, an inline text, an inline image or an earlier mail attached |
| `ingest_crash_resume` | violation of `ResumesAtCheckpoint` | a crash after the first checkpoint |
| `ingest_crash_search` | violation of `SearchableWhenCompleted` | a crash before `create_fts_index` |
| `query_ties` | violation of `PagesMissNothing` | two mails of one second, one without a date, a reading of up to three pages |
| `query_trend` | violation of `TrendAnswered` | a question about the course of time, in an archive with an error record |

Why the bounds are enough. A batch of 2 and up to four messages give a full
batch with a checkpoint, a rest, and a run that resumes in the middle. Two
faults give a crash in a run that recovers from a crash. Three tags let three
runs leave invented keys in the table, so a third run meets the rows of two
others; the bound is on uuids that are still in the table, and a run that finds
none free does not start (in `ingest_live` and `trigger` the tags are enough
that the bound never stops a run). Two triggers give a running thread and
one queued or in its handler; two attempts at S3 a retry and attempts that run
out; two messages an object that grows between ETag and bytes and between two
attempts. One request over three mails meets a row that arrives or is replaced
between any two of its statements, with the index before, while and after it is
overwritten; what it asks and what
the LLM makes of it goes through every clause, both search paths, both page
orders, all aggregations and all other endpoints. Two requests are an answer and
whatever is made of it later: the next page, the export, the dialogs. Two pages of
one row give a list that grows from one page to two and a row that moves from the
first to the second; larger pages, and last ones that are short, are left to the
proofs, which know no size. Three submissions give an overlap and a clean
submission after it; a list of two pages has a first and a last one, with the
disabled links at either end, and may have shrunk to one by the time the second
is asked for. Four mails give a reply to a reply beside a second conversation, and
of two rich ones the second has the first attached, before its own text or after it.

`CHECK_DEADLOCK FALSE` is set where the system may really stop: nobody is
obliged to send a request, grow the archive or start a run.

### Preconditions in the properties

Some properties say where they stop, because the code does. They are not
weakened elsewhere, and section 7 says what happens beyond.

* `ListsOnlyMeant` excludes keywords beside a clause, and addresses that stand in
  longer ones; a search by words may list a mail for the words it had, if the index
  was built from another copy than the row. `ListsAllMeant` excludes an end date and
  a list longer than its page.
* `KeywordsFound` is about mails that were there from the start and have the words
  of the search one after the other in every copy: what BM25 and ILIKE have in common.
  Rows that came since may wait for an index, and ILIKE takes the words for one phrase.
* Rows are replaced. What was listed is a copy that may not be there any more:
  `ListsAllMeant` and `ExportCoversAnswer` speak of a mail whose row, when it is read,
  is meant or still the one shown, `ThreadWhole` and `DialogsFindTheirMail` of a mail
  whose row is still in the thread.
* `PagesMissNothingCounted` excludes a row arriving between COUNT and SELECT of
  the last page, and a row replaced during the reading (`NoneReplaced`), for that may
  change its date and so its place; `PagesDisjoint` excludes any change between two
  pages. Both ask that
  no two rows of the list have one date (`Sorted`), and are about lists by
  clauses: a search by words repeats its whole list on every page.
* `WordsMatchTable` excludes, for lists by clauses, a row between COUNT and
  SELECT and pages the list does not have. Threads and lists by words are counted
  by their rows, so for them and for statistics it holds without exception.
* `ThreadsWhole` asks that replies carry References. `OwnTextShown` names what the
  walk brings about: a text of the same type in a mail attached before the mail's
  own, and HTML in an attached mail if the mail has none itself.
* `ShownIsCurrent` excludes from its last conjunct a response without words
  (`wordless`), over which the words of an earlier one stand.
* `EventuallyCaughtUp` excludes a message mailbox.mbox cannot fetch.
* `RequestedPagesExist` starts from a list that is not itself a page past its
  last, and lets a disabled link ask for the page after the last; the properties of the page marked with `overlap` ask that no answer was
  awaited when the last query was sent.

The asks of the query runs have pages from 1 on and sizes from 0 on, as the page
sends them; the endpoint itself checks neither.

## 4. Fairness

* `FairJob`, weak fairness of a run's next statement: a run waits for nobody;
  S3 calls have time-outs, DuckDB statements end. Failures are outside of it.
* `FairOperator`: nothing in the code starts a run, so `EventuallyCaughtUp`
  assumes an operator (or a timer outside) who comes back and starts an
  unforced run. It is an assumption on the surroundings.
* `ServiceFairness` of `IngestionService`: a started thread that can go on does:
  it runs its statements, tries S3 again, reads the body and gets the lock, which
  only finitely many threads queue for. Handlers, status requests, appends and
  restarts are free.
* `FairSpec` of `QueryService`: bodies arrive, LLM calls have a time-out,
  statements end, and the event loop serves what is ready.
* `FairSpec` of `WebClient`: each fetch is answered or fails, and timers fire.

## 5. What is proved

TLAPS checks these for every archive, batch size, number of faults, of requests,
of retries, of rows and of mails. They rest on the assumptions named in the
modules (`ArchiveAssumption`, `IngestionAssumption`, `TriggerAssumption`,
`StreamAssumption`, `ServiceAssumption`, `SearchAssumption`, `AskAssumption`,
`ThreadAssumption`, `ContentsAssumption` and those of `WebClient`), which type
the constants, and on the library's facts about sequences and finite sets.
`AskAssumption` also has pages start at 1.

**`IngestionProofs`.** `TypeCorrect`, `CompletedCoversAlways`,
`IngestionInvAlways`, `MailOnceAlways` and `ImplementsIndex`. `CompletedCovers`
alone is not inductive: that a run may set `completed` depends on what its loop
has done. `IngestionInv` adds, conjunct by conjunct, why it may:

* `RowsKeyed`: a row has the key of its message, so INSERT OR REPLACE only ever
  drops a row of the same mail and what was handled stays handled;
* `BoxCoversEtag`: the bytes come from a later moment than the ETag, and the
  archive only grows, so they cover what the ETag stands for;
* `PassedIsHandled`: each message the loop has passed is in the table,
  refused, or in the batch; resumed runs are no exception because
  the test on `raw_offset` never skips anything;
* `LoopBounds`: the count is taken after the whole box and with an empty batch;
* `CompletedLast`: `completed` is set in a manifest only after that;
* `SavesIntoGap`: INSERT follows DELETE, so the manifest has at most one row.

The proof takes the conjuncts one lemma at a time, each with a step for each
action that can disturb it. `RunsAreShort` counts what a run has left: five steps
for a message not yet read, one for a row of the batch, and the place of the
statement (`StepsLeft`). Every step of a run and every failure lowers it.
`ImplementsIndex` maps each step of the pipeline to
one of `ArchiveIndex` or a stutter; the invariant supplies the guard of `Claim`.

**`IngestionCalmProofs`.** `CheckpointTruthfulAlways`, `SearchableAlways`,
`FinishedRunOnRecordAlways`, `CompletedTotalAlways`, each under the assumption
`Calm`: nothing but S3 calls and single rows fail, and every message can be
fetched. Without it they are false (section 7). `CalmInv` says why they hold
together: a run that finds nothing but a completed manifest starts at 0
(`NeverResumes`), so the box is read in order (`BoxInOrder`) and a checkpoint
counts what the loop has passed (`CheckpointNew`); a calm run either fails
before it has written or goes through to `create_fts_index`, so whenever none is
under way the table, the manifest and the index are those of a finished run
(`QuietRest`, `FtsPending`, `TotalCounted`).

**`IngestionTriggerProofs`.** `TriggerTypeCorrect`, `OneRunAtATimeAlways`,
`FlagMeansRunAlways`, `ErrorOfLastRunAlways`. The invariant is `HolderInside`: a
thread is in its critical section exactly when it holds the lock. The flag
follows, and so does that nobody but the holder writes the error.
`TriggersGoForward`: no step, a restart included, takes a request or its thread back
to an earlier statement, and who waits for the lock waits for a thread inside.

**`IngestionServiceProofs`.** `ServiceImplementsIngestion`: every step of the
service is a step of `Ingestion` or a stutter, given that the thread in `run` is
the only one and that what the stream has read is not beyond the archive. So
`CompletedCovers` carries over, and with it `StatusClaimsHoldAlways`: what the
handler saw may be gone when it answers, but what was handled stays handled.
`ServiceTypeCorrect` comes from the same invariant.

**`MailThreadsProofs`.** `ThreadsApartAlways` from `RefersInside` (what a mail
refers to lies in its conversation), `ThreadsWholeAlways` from `ChainHeads`
(where replies carry References, the first one is the root).

**`MailContentsProofs`.** `ContentsImplementThreads`, by which the theorems of
`MailThreadsProofs` hold of mails with contents; `ContentsTypeCorrect`;
`OwnTextShownAlways`: the first part of a type exists where the mail has one of its
own (`FirstExists`), and if it is another mail's it stands before all of them
(`OthersStandBefore`), while a mail that is no multipart has no part but its own;
`BodyIsNoAttachmentAlways`, which compares the conditions of `_extract_body` and
`_extract_attachments`.

**`QueryServiceProofs`.** All invariants of the query side, for any table, any
number of requests and any moment at which a row arrives or is replaced. The first part says once
what each action writes (`Writes`: the fields it may change, and what it puts
there); every later proof reads the actions through these lemmas. On top of them
stand six invariants, most of them used by those after them:

* `AuditInv` gives `AuditedOnceAlways`: who is in the log has logged its search and
  not gone on otherwise, once.
* `RowsInv` gives `DialogsFindTheirMailAlways` and `ListsOnlyMeantAlways`: of every row
  that is shown the table keeps a copy (`Kept`: INSERT OR REPLACE takes a row out only
  for another with its key), a dialog holds what the table had of its mail or thread
  when it was read (`DialogWhole`), a request that is over keeps what it showed, the
  place of a request fits its plan, and what a search is through with may be listed
  by its plan. `ListsOnlyMeant` then rests on lemmas about the clauses, of
  which days and timestamps, LIKE and the two search paths are the substance.
* `TypeInv`, with `RowsInv` and `AuditInv`, gives `QueryTypesCorrect`: totals are
  counts of finite sets, of groups cut off at 20, 50 and 200 too, and a session
  remembers twenty entries at most.
* `FoundInv` says of each request what its rows are, as of the moment `at` it read
  them. `ReadInTurn`: of every row there at the start of a request a copy is there at
  its SELECT, and of those a copy at the start of a later request. `PageShown`: a list by clauses is
  its page of an ordering of the rows selected at that moment. `AllShown`: a
  list by words and a thread are whole. `AnchorOK`: a thread is that of a row
  which fits the query, whichever path found it and whatever became of the row since. `ThreadWholeAlways`,
  `ListsAllMeantAlways` and `ExportCoversAnswerAlways` follow.
* `HeardInv` gives `KeywordsFoundAlways`: table and index keep a copy of every mail of
  the start (`LoadedKept`), so one with the words in every copy is among the rows
  whichever path answers, and those rows stay.
* `WordsInv`: words and presentation are made of one result and stay with it.
  `WordsMatchTableAlways` follows by the arithmetic of pages
  (`CountMatchesRows`: a list that has rows has some on each page it announces).

`PagesDisjointAlways` and `PagesMissNothingCountedAlways` are about sequences of
requests, as long as anybody reads. Their argument: where no two rows tie, the place
of a row in a list is the number of rows up to it (`PlaceOfRow`), whatever ordering
the database chose. So two pages cut from one table cannot share a row. Rows that
arrive can only move a row on (`PlacesGrow`), as long as none is replaced, which the
property asks for. Take a row that was there at the start,
and the first page number that is at least its page in the reading of that number
(`FirstReaching`): it cannot have been before that page a step earlier, nor be past
it now, so it is on it. For the last page the count announced is needed, whence the
precondition. The induction along a reading is one over numbers
(`AlongReading`, from the well-foundedness of the naturals), none over data.

`CallsGoForward` is about all calls at once: the event loop is held by the one that
works and by no other (`LoopServesOne`), and each step of a call, each failure
and each restart brings it to a later statement (`Stage`), so none is taken twice and
a reply stays what it was.

Two properties were false as first stated and were put right on the way: rows of one
date break `PagesMissNothingCounted` and `PagesDisjoint` in larger tables than the
instance had, and a row without a thread that arrives between the COUNT and the
SELECT of a thread view broke `WordsMatchTable` (the instance has this case now:
`LoneThread`).

**`WebClientProofs`.** `ClientTypeCorrect`, `ShownIsCurrentAlways`,
`ButtonFollowsRequestsAlways`, `RequestedPagesExistAlways`,
`ExportsTheListOnViewAlways`, all from `ClientInv`: fetches are numbered, at most
one is awaited unless submissions overlapped (`OneAwaited`), enabled links on view
lead to pages of the list on view and disabled ones at most one past it
(`LinksExist`), a submission that is answered leaves two timers at most
(`TimersCounted`). `RestIsReached`: an answer awaited counts three and a timer one; every
answer and every timer lowers the sum, and at zero the button is enabled and the
panel hidden, since the panel is only visible while one of the two is to come
(`PanelFollows`).

## 6. What is only model-checked

Every invariant and every action or refinement property the passing runs check has
its theorem. What stays with TLC:

* Liveness: `RunsEnd`, `EventuallyCaughtUp`, `StartedRunsEnd`, `RequestsEnd`,
  `PageSettles`. The prover has no rules for fairness and ENABLED. What each of them
  but `EventuallyCaughtUp` rests on beside fairness is proved: the measure by which
  a run, a thread, a call and the page come to their ends (`RunsAreShort`,
  `TriggersGoForward`, `CallsGoForward`, `RestIsReached`). That a step is possible
  until then, and taken, is what TLC checks.
* The four violations of section 7: they are counterexamples.

## 7. Where the code and its documentation part

Four disagreements are runs of the project (findings in `PROJECT.json`):

1. **Resuming.** `README.md:192` promises to go on where a failed run stopped.
   A resumed run streams the object from byte 0 (`pipeline.py:68`) and numbers
   messages from `start_offset` (`mbox_parser.py:210`), so the test
   `raw_offset < start_offset` never skips: `ingest_crash_resume`.
2. **Searchability.** The completed manifest is saved before
   `create_fts_index` (`pipeline.py:101-105`). After a crash between them
   unforced runs find the archive up to date and keyword search never sees the
   new rows: `ingest_crash_search`.
3. **Pagination.** `ORDER BY date_utc` is not a total order, so a row may be on
   no page (`README.md:43`): `query_ties`.
4. **Trends.** `README.md:235` promises a line chart. One row without a date
   (every error record) makes a group whose label is NULL, which the result model
   refuses (`aggregation_agent.py:101`): the request ends with a 500: `query_trend`.

Met while modelling, and visible in the models as follows:

| Documentation | Code | In the models |
|---|---|---|
| resumes where it stopped (`README.md:192`) | the checkpoint of a resumed run is `start_offset` too high | `CheckpointTruthful` fails in `ingest_crash_resume.cfg` with two faults; `Calm` |
| the manifest is on record (`README.md:187`) | a crash between DELETE and INSERT of `save_manifest`, or an INSERT that raises, loses it, and `/api/ingestion/status` may answer "not_started" between the two | `FinishedRunOnRecord` fails in `ingest_crash_search.cfg`, and in `ingest_nocrash.cfg` with `"db"` among the faults; `ReadManifest` of an empty manifest |
| rows are in an index with FTS (`README.md:186`) | `create_fts_index` logs an error and goes on, after "completed" is saved | `SearchableWhenCompleted` fails in `ingest_nocrash.cfg` with `"fts"` among the faults |
| only the tail is read (`README.md:194`) | a changed ETag starts at offset 0 and inserts all again | `StartOffset` is 0, `GetObject` takes all of `S3Box` |
| the manifest counts the mails (`README.md:187`) | a checkpoint adds re-inserted rows to the old total; the last manifest counts the table and puts it right | `Checkpoint` against `Count` |
| a second run duplicates nothing (`README.md:191`) | a mail without Message-ID gets a new uuid4 in every run | `MailOnce` is about identified messages; without that conjunct it fails |
| a broken mail does not stop the process (`README.md:193`) | what mailbox.mbox raises is outside the `try`; every run ends there | `ParseAborts`; `EventuallyCaughtUp` without `Unfetchable` fails |
| "Local ingestion complete" (`main.py:60`) | `run_from_file` returns when any completed manifest exists, one of S3 included | first branch of `StartLocal` |
| "Ingestion running in background" (`routes.py:173`) | the flag is raised when the thread has the lock | `pc[r] = "queued"` with the flag down |
| queries over the full archive (`tests/test_agents.py:158`) | a row arriving between COUNT and SELECT shifts another off the last page announced | `PagesMissNothing` fails in `query_pair.cfg` |
| pagination of any list (`README.md:43`) | `search_fts` has no LIMIT: each page is the whole list; a thread is shown whole under page links | `SearchFts`, `LoadThread` ignore the page |
| pagination of any list (`README.md:43`) | a page past the last says "found" over an empty table | `WordsMatchTable` without `1..Pages(r)` fails |
| filtered by the keyword (`README.md:237`) | a keyword beside a filter is dropped; statistics and trends know no keywords | `UsesFts`; exception of `ListsOnlyMeant`; `Groups` |
| mails of a sender (`README.md:234`) | LIKE with wildcards on both sides finds every longer address | `Like`; `Exact` in `ListsOnlyMeant` |
| the letters of a year (`README.md:234`) | `date_utc <= 'YYYY-MM-DD'` ends at midnight of the last day | `Until`; exception of `ListsAllMeant` |
| export of the current selection (`README.md:46`, `routes.py:101`) | the export of a keyword search uses the clauses only, of which there are none | `ExportCsv` takes `Selected` |
| session state (`README.md:75`) | `get_orchestrator` makes a new one for every request; the list it keeps is empty whenever the LLM is asked | `Receive` starts from `BlankRequest` |
| full-text search (`README.md:95`) | when its statement raises, and while the index is overwritten, `search_fts` takes the whole query for one ILIKE pattern, and ranks by date (`database.py:215-228`) | `SearchLike`; `Phrase` in `KeywordsFound` |
| all queries are logged (`README.md:48`) | questions asked back, queries turned away and exports are not | `LogAudit` is on the path of answers only |
| sort order "relevance" (`intent_agent.py:27`) | orders `search_filtered` by a column it does not have | `Unanswerable`, `SearchRaises` |
| `language_filter` (`models/agents.py:42`) | is asked of the LLM and read by nothing | no clause in `Clauses` |
| `total_contacts` of "Contacts from Email Archive" (`aggregation_agent.py:120`) | counts the rows returned, at most 200 | `Groups` |
| `export_available` (`models/agents.py:95`) | the page never looks at it, nor does its "View" button have a handler | only `WordsMatchTable` speaks of it |
| export of the current selection (`README.md:46`) | Enter while an answer is awaited: the older answer may be on view while `currentQuery` is the newer | `ExportsTheListOnView` without `~e.overlap` fails |
| pagination of any list (`README.md:43`) | Next on the last page is disabled for the mouse only: Tab and Enter ask for the page after it (`presentation_agent.py:126`, `index.html:436-442`) | `Link`; `enabled` in `RequestedPagesExist` |
| a text with every answer (`README.md:45`) | an empty text of the LLM is passed on (`response_composer.py:99`) and replaces no words on the page (`index.html:351`): those of the answer before come into view again | `wordless` in `ShownIsCurrent` |
| an error message (`index.html:309`) | when `renderResponse` throws, the error stands among the areas it had opened, and the panel is finished twice | `RenderThrows` |
| pagination of any list (`README.md:43`) | a page link sends the text of the box | `ClickPage` submits `input`; precondition of `RequestedPagesExist` |
| threads by References and In-Reply-To (`README.md:47`) | a reply to a reply with In-Reply-To alone has another thread id | `ThreadsWhole` without `Chained` fails |
| the text of the mail (`mbox_parser.py:77`) | the text of a mail attached before the mail's own is shown in its place, and HTML of an attached mail in place of plain text; a mail that is one file has the file for its text | exceptions of `OwnTextShown`; `ExtractBody` of a single part |

Two more concern headers below the level of the models: a folded References
header that is blank after unfolding raises in `_compute_thread_id`
(`mbox_parser.py:148`) and makes an error record of the mail, and a blank
In-Reply-To files all such mails under one thread.

## 8. What is not modelled

* The decoding of headers, addresses, dates and charsets: it keeps no state and
  falls back to a value whatever it meets; what of it reaches the models (a key,
  a missing date, a blank part) is a choice of the instance.
* The wording of questions, answers and prompts, charts and HTML; of the composer
  which of its templates is used, of the clarification agent that a question ends the
  request.
* The order in which the contents of two dialogs arrive, and the sorting of
  columns on view: nothing in the code says which dialog should win.
* Helpers no endpoint or pipeline calls: byte ranges of `stream_object`,
  `get_attachment_stats`. Message-IDs with a slash, for which the path of
  `/api/email/{id}` has no route.
* LLM client, masking of personal data, settings, logging, deployment: they keep
  no state. There is no clock, so an LLM call that blocks the event loop past
  the time limit of the container's health check is out of the models;
  `RequestsEnd` shows that requests behind it are served in the end.

## 9. Plan

Done: ingestion (model, refinement, proofs), S3 stream, trigger and status
(models, composition, proof that it implements ingestion), queries, presentation
and page (models, runs, proofs of all their invariants), thread ids and
contents of mails (models, refinement, proofs). The order was chosen by what an
error costs: a false "completed" hides mail for ever.

Left, in this order:

1. `QueryService` under `WebClient`: pages and exports of the page against the
   rows of the table; today they share `Presentation`.
2. The parser's fallbacks for dates and charsets as functions against a
   reference, where a wrong one changes a key, a date or a thread.
