# A verification model of WILLOFIRE

WILLOFIRE is a study assistant: a NestJS backend (`src/`) that stores PDFs,
extracts their text, generates multiple-choice tests from it, answers questions
about it and grades answers with an AI, and a Next.js front end
(`willofire-web/`). This directory holds TLA+ models of the parts whose
correctness depends on the order in which things happen, the TLC configurations
that check them on small instances, and proofs, checked by TLAPS, of the
properties that matter most for instances of any size.

Paths below are relative to the repository root.

## 1. The system and its parts

| Part | State it keeps | Operations | What is hard about it |
|---|---|---|---|
| **Job queues** `src/infrastructure/queues/queue.service.ts` over BullMQ/Redis | jobs, attempts, stalls, locks | `enqueue*Job`; claim, retry with backoff, stalled check (BullMQ) | at-least-once delivery: lost acknowledgements, crashes, locks that expire under a running handler |
| **PDF upload and processing** `src/modules/pdf/*`, `pdf-processing.worker.ts` | blob storage, `pdfs` (status, page count), `pdf_chunks` | upload request (3 calls); worker (find, mark, fetch/parse, delete, insert, mark) | every call is its own step: readers, a second handler and crashes fall in between |
| **Answer evaluation** `src/modules/evaluation/*`, `evaluation.worker.ts`, `use-evaluation.ts` | `answer_submissions`, append-only `evaluation_results` | submit; grade, read newest version, insert next; poll | read-then-insert without a unique index; regrading after lost acknowledgements |
| **MCQ generation** `src/modules/mcq/mcq.service.ts`, `mcq-generation.worker.ts` | `mcq_tests` | generate request; worker: read chunks, three fallback passes, parse with repair, insert | no status check before reading chunks; duplicate tests; nested retry budgets |
| **AI client** `src/modules/ai/ai.service.ts` | none | completion with timeout, retries, error normalisation; ask; long questions | which errors are retried, how often |
| **Scoring and parsing** `mcq.service.ts` `submit`, `mcq-generation.worker.ts` `normalizeQuestions`, `pdf-processing.worker.ts` `chunkText` | `mcq_attempts` | pure algorithms | index shifts, off-by-ones, duplicate answers |
| **Authentication sessions** `src/modules/auth/auth.service.ts` | `users.refreshTokenHash` | register, login, refresh (rotation), logout | read-compare-write over one record by concurrent requests |
| **Web client session** `willofire-web/src/lib/api/client.ts`, `token.ts`, `useAuth.ts` | token pair in localStorage, shared refresh promise | request/401/refresh/retry, login, logout | answers that arrive after the state they were asked for is gone |
| **MCQ practice page** `willofire-web/src/app/dashboard/mock-tests/mcq/page.tsx` | page session, timer, waiting flag | start, wait, match, answer, submit, restart | effects and timers against user events |
| **PDF list and upload page** `use-pdfs.ts`, `pdfs/page.tsx`, `UploadDropzone.tsx` | query cache entry, dropzone state | poll, read, invalidate, upload | a list that decides by its own, old content whether it is read again; reads older than an upload |
| **Ask-PDF page** `ask-pdf/page.tsx`, `ChatMessageList.tsx` | selection, messages, staged indicator | select, ask, type the answer, lay it out | answers and typing timers that outlive the next question |
| **Answer evaluation page** `answer-evaluation/page.tsx`, `use-evaluation.ts` | sheet accepted, newest result | submit, poll through errors | a result that belongs to the sheet; errors before there is one |
| **Download centre** `downloads/page.tsx`, `use-downloads.ts`, download endpoints | pending download, stored files | make, store and open a file | lost answers leave files behind |
| **Printed sheets** `pdf-generator.service.ts` | none | paper, answer key, long questions | letters of options against the key |
| Blob adapter, Redis/Mongo modules, HTTP frame, other UI components | none of their own | I/O, layout, wiring | out of scope (section 7) |

How they interact. A request handler stores its input and adds a job
(`QueueService`); a worker in the same process or another container claims the
job from Redis, reads and writes MongoDB and blob storage one awaited call at a
time, and returns or throws; BullMQ then completes the job, retries it after a
backoff, or fails it. The front end polls the collections through the API. The
only shared state between requests, workers and readers is the database; the
only synchronisation is the job lock in Redis.

What makes each part correct:

* *queues*: a handler is never started more often than attempts plus forgiven
  stalls allow; a lock is held by the slot that runs the job.
* *PDF pipeline*: READY means the whole text, once; a completed job means READY;
  a settled PDF does not change; a queued PDF is stored; every job settles, unless a
  download of it hangs.
* *evaluation*: versions 1, 2, 3, ... without holes; an acknowledged grading is
  stored; the page moves forward; an accepted answer is graded or its job fails.
* *MCQ generation*: a request costs a bounded number of AI calls and stores a test, as
  many as its job was started at most; the test of a settled PDF is about the
  leading 12,000, 8,000 or 5,000 characters of its text, as its pass takes them.
* *algorithms*: chunks cover the text and respect the size; a normalised
  question has four options and a key that names one of them; a score is a percentage.
* *sessions*: an e-mail address has one account; a tab sends at most one refresh at a
  time; every call ends; tokens whose session is over do not stay in a browser whose
  pages go on asking. A refresh that races a logout may begin the session anew, and a
  refresh token that was replaced is still accepted (the finding of `replaced_token`).
* *PDF list*: an upload that was answered is not missed, and the list catches up
  with the server while a page shows it.
* *questions, evaluations, downloads*: an answer is in the bubble of its own
  question and about the PDF it was asked about; a result is of the sheet that was
  submitted; a file that is opened was made for the card that was clicked.
* *practice page*: the result shown belongs to the session shown; a wait ends; the
  session that starts is of the PDF and the number of questions that were asked for
  (the difficulty is not compared, and the panel may select another PDF by then); a
  session whose time is up is graded.

The individual hazards, each with its line, are listed under `hazards` in
`PROJECT.json`; smaller ones, of displays and pure functions, are in section 7.

## 2. Plan

In order of importance; **done** marks what this directory holds.

| Step | Modules | Composes | Abstract specification | Properties / theorems |
|---|---|---|---|---|
| 1 **done** | `JobQueue`, `JobQueueProofs` | - | - | lock and start accounting, `RunBudget` (proved) |
| 2 **done** | `PdfPipeline`, `PdfPipelineProofs` | `JobQueue` | `PdfLifecycle` | exactness of READY, refinement (proved), settling unless a download hangs (TLC) |
| 3 **done** | `Evaluation`, `EvaluationProofs` | `JobQueue` | `GradingHistory` | version numbering, refinement (proved), answer or failure (TLC) |
| 4 **done** | `McqGeneration`, `McqGenerationProofs` | `JobQueue`, `PdfLifecycle` | - | tests are of the PDF's own text, call budget (proved), duplicates, settling (TLC) |
| 5 **done** | `TextChunks`, `TextChunksProofs` | - | - | every letter once, size, reading order, progress of each round (proved), termination (TLC) |
| 6 **done** | `McqGrading`, `ExamSheets` | - | reference definitions | items kept, context budget (proved for all inputs in `PracticePageProofs`), the key printed; all compared with references by TLC |
| 7 **done** | `AuthSession` | - | - | registration, rotation, racing refreshes, logout; replaced tokens (finding) |
| 8 **done** | `WebSession`, `WebSessionProofs` | `AuthSession` | - | one shared refresh, one account (proved), calls settle, dead tokens go (TLC) |
| 9 **done** | `PracticePage`, `PracticePageProofs`, with what a render has captured as state of its own | `McqGrading` | - | session as asked, result of its session, well-formed questions, score (proved), the wait and an expired session end (TLC) |
| 10 **done** | `Pages`, `PdfLibrary`, `AskPdf`, `EvaluationPage`, `Downloads`, `StudyPages`, `StudyPagesProofs`, `AnswerText` | `PdfLifecycle` | - | answers, uploads, files and results go where they belong (proved), lists and answers arrive (TLC) |

Steps 7 and 8 are checked as one system: a server without a browser that retries,
and a browser without a server that rotates, have no interesting race.
The counting arguments that were still open for steps 2 to 4
(`DuplicationBound`, `GradingsBounded`, `TestsBounded`) are proved as well.
What could follow is listed at the end of section 7.

## 3. Modules

* **`JobQueue`** models a BullMQ queue as the code relies on it. BullMQ is not
  in the repository, so most of its actions are marked external in
  `PROJECT.json`; attempts, backoff and removal come from `queue.service.ts`.
  A *slot* is one unit of a worker's `concurrency` in one container. A lock can
  be lost with its process (`QCrash`) or under a live but blocked event loop
  (`QLockExpires`); in the second case the handler goes on as a *zombie* and its
  result is refused. `QStalledCheck` puts an active job without lock back, and
  fails it after `MaxStalled` times without running the handler.
* **`PdfPipeline`** extends `JobQueue` with `PdfService.uploadAndEnqueue` and
  `PdfProcessingWorker.processJob`. One action per awaited call; `pc[w]` is the
  next call of the handler in slot `w`. A write that is rejected may have been
  applied, so the actions of writes go on to the next step or to the catch
  block; `Throw` is a call that fails without effect. `insertMany` is one
  `InsertChunk` per document. `NumChunks[p]` stands for the text of `p`. The download of
  the file has no timeout, and nothing listens for an error once its response has begun
  (`downloadBuffer`): it may never end, and the handler is `hung` then, until its process
  dies; the lock is renewed all the while.
* **`PdfLifecycle`** is what a reader of the two collections is promised: text
  and status appear and disappear together, and settle. `PdfPipeline!Lifecycle`
  is the refinement mapping, `KeepsPromise` the claim.
* **`Evaluation`** extends `JobQueue` with `EvaluationService.submit`,
  `EvaluationWorker.processJob` and the polling of `useEvaluationResult`. A
  result is its version and its place in insertion order; `Newest` is
  `sort({version: -1})`, which leaves the choice among equal versions open.
* **`GradingHistory`** is what a reader of `evaluation_results` is promised: versions
  appear one after the other, and who asks is shown the newest. `Evaluation!History`
  is the refinement mapping (of a sheet's results, the highest version), and
  `GradedOneByOne` the claim. It is the grading that `EvaluationPage` assumes of the
  server behind it.
* **`McqGeneration`** extends `JobQueue` with `McqService.generate`,
  `McqGenerationWorker.processJob`, its passes over ever smaller contexts, the
  retry loop of `AiService.generateCompletion` and the repair call. The worker
  reads chunks that the PDF worker writes without any synchronisation and without
  looking at the status. That other side is `PdfLifecycle`, which stands for
  `PdfPipeline` because `PdfPipelineProofs!ImplementsLifecycle` proves that it
  implements it; where `PdfLifecycle` promises nothing, the reader may find
  anything. `Retries` are the passes' `maxRetries`; `CallsFrom` counts calls. What
  `buildBoundedContext` leaves of a whole text is its leading `MaxChars[i]`
  characters in pass `i`; a stored test keeps which text it is about and up to where
  (`Context`).
* **`TextChunks`** is the loop of `PdfProcessingWorker.chunkText`. A character is
  a letter, a boundary (space, newline) or other white space; a chunk is the
  positions its trimmed content comes from. `ChunkEnds` is where a chunk ends,
  `Push` its numbering, `NextChunk` one round.
* **`McqGrading`** are the pure functions around a test: `buildBoundedContext`,
  `tryParseQuestions`, `normalizeQuestions` and the scoring loop of `submit`. A
  score is in tenths of a percent. `Collected` is the loop that keeps some elements of
  a list (the `map` and `filter` of `normalizeQuestions`, the `filter(Boolean)` of the
  options, the `continue` of `submit`). `Number` is JavaScript's, as far as it makes an option's
  index of something else: `null`, an empty text or an empty list becomes 0, `true`
  becomes 1, and the question is kept with that key. **`ExamSheets`** is how the paper and the answer
  key print options. `MCPracticePage` compares both with reference definitions on
  all small inputs (`ASSUME`s, which TLC evaluates).
* **`AuthSession`** is one account on the server: register, login, refresh, logout
  and the guard, one action between two awaits. An *exchange* is one HTTP request
  with its handler and its answer. Time is not modelled: any token may be found
  expired whenever it is verified. bcrypt reads 72 bytes, and all refresh tokens of
  an account begin with the same ones (`HashedPart`), so the comparison in
  `refresh` (`Matches`) succeeds for every token of the account: one that was replaced
  is answered with a new pair, and the branch that ends the session on reuse is
  not reached. `hash` is the pair whose refresh token was hashed last. A body the
  `ValidationPipe` refuses is `RefuseBody`.
* **`WebSession`** extends it with the browser: `client.ts` (request and response
  interceptor, the shared refresh promise, the one retry), `token.ts` and
  `useAuth.ts`. Tabs share the token store. What a tab does on an answer, promise
  continuations included, is one action; an answer can be lost only after its
  handler has ended.
* **`PracticePage`** extends `McqGrading` with `mcq/page.tsx`: selection, start or
  restart, the wait for a generated test with its two effects, the countdown and
  its effect, submission. `seen` is the `isSubmitting` of the last render, which
  handlers and effects read. Tests appear on the server at any time, with as many
  questions as the reply had well-formed ones; the page's list holds the newest. Of the
  selected PDFs the model keeps the first, the only one a test is asked of:
  `handleTogglePdf` changes it while nothing runs, but the effect on the list of READY
  PDFs (`SelectReady`) at any time, so that the panel may name another PDF, or none,
  beside a running session. What the user asked for is therefore kept apart (`asked`,
  a history variable that no guard reads). The timer counts units of two minutes, the time of a question.
* **`Pages`** says which page is mounted. **`PdfLibrary`** is the list of PDFs in
  the query cache (poll, one read in flight, invalidation, one retry), the dropzone
  and uploads; the server behind is `PdfLifecycle`, whose statuses the pipeline is
  proved to implement. **`AskPdf`** is the question page, **`Downloads`** the
  download centre with the two endpoints that make files, **`EvaluationPage`** the
  page that submits a sheet and polls for its result. **`StudyPages`** composes the
  four with `Navigate`, which unmounts one page and mounts another while requests
  are under way. **`AnswerText`** is `renderAiContent`, checked in `MCStudyPages`
  against what a layout must keep: every line once, in order, in a block of its kind.
* **`*Proofs`** hold the theorems; **`MC*`** the constants of the TLC runs.
* A definition `Action_Word` is `Action` with a plausible mistake (a forgotten
  delete, an unawaited insert, ...). No specification uses it; it exists to show
  that a property would notice that mistake.

History variables: `overrun` records the jobs a handler of which outlived its
lock, `calm` the requests made of a settled PDF, `asked` what a test was last started
of, `failures` the failed submissions. Properties that cannot hold with two handlers at once exclude them, and
others (`DuplicationBound`, `GradedOneByOne`, `CompletedHasResult`) say what
still holds for them.

## 4. Runs

| Run | Shows |
|---|---|
| `pdf_pipeline` | the invariants of section 1, `PdfLifecycle`, and settling unless a download hangs, over one PDF of two chunks, two slots, three attempts, one stall |
| `evaluation` | the same for grading, with a file answer: version numbering, what is shown, and `GradingHistory` as the abstract specification |
| `mcq_generation` | what a generation request costs is bounded, an acknowledged job has stored a test, an accepted request is settled; three passes, two attempts, one stall, beside a PDF that changes as `PdfLifecycle` allows |
| `mcq_overlap` | with a second slot and two passes: which text a test is made of and how much of it, and how many tests a request stores, when handlers overlap |
| `text_chunks` | the chunking loop loses no letter, respects `CHUNK_SIZE`, numbers chunks in reading order, cuts only long words and ends |
| `web_session` | two tabs that race to register, log in, refresh and log out: one account, one refresh per tab, every call settles, tokens of an ended session leave the browser |
| `practice_page` | the session is of the PDF and the number of questions that were asked for, also when the list of PDFs changes the selection meanwhile, and the result of the session, the score a share of the questions; waits end and expired sessions are graded, through a failed submission |
| `study_pages` | moving between the four pages while a PDF is uploaded and processed, questions are asked and a sheet is graded: the invariants of section 1, and that lists, answers and results arrive |
| `chunk_index_within_page` (violation) | the first chunk of the second page has index 3; `pdf-chunk.schema.ts:35` says the index is the position within the page |
| `processing_is_worked_on` (violation) | two crashes leave a PDF PROCESSING for ever; `pdf.schema.ts:10` says a worker is parsing it |
| `versions_unique` (violation) | two handlers store the same version; `evaluation-result.schema.ts:9` says version+1 |
| `replaced_token` (violation) | a refresh token that a newer one has replaced is answered with tokens; `auth.service.ts:119-120` says it fails after its first use, `auth.service.ts:145` that its reuse ends the session |

Why the bounds are enough. Jobs do not interact except by occupying slots, so
one job with two slots has every interleaving of a handler with its zombie; two
chunks are the least with a proper prefix; attempts are the code's
(`queue.service.ts:53`), the stall limit is BullMQ's default. Nothing else is
bounded: attempts and stalls make the state space finite by themselves. A chunk
of 11 characters is the least whose last fifth has room for a boundary before its
last character, and 34 characters fill more than the three chunks of a page.
TLAPS covers the other sizes.

`mcq_generation` has the code's three passes and their retries with one slot, which is
what the number of calls and the end of a request depend on; as no property of it asks
how much text a test is about, its passes share one cut (`OneCut`). `mcq_overlap` has
two slots and two passes without retries, cut at 12,000 and 8,000 characters, so that
tests of different passes are told apart.
`web_session`: three calls in two tabs (a page and a form in one, a form in the
other) have every race of two refreshes, of a refresh with a logout or a login, and
of two registrations; two token pairs tell an old one from a new one.
`replaced_token` gives each tab a call of a page (`PageBesidePage`), so that tokens
are replaced by refreshes only.
`practice_page`: two PDFs and one or two questions, so that a test of another PDF or
another length can arrive first; a list of two of at most three tests
(`Limit`, 20 in the code; `MaxTests`), so that one drops out; one failed submission
(`MaxFailures`); replies of at most three items (`MaxQuestions`). The replies are: two questions, one whose
key is null and one with a blank option too many; one good question among refused ones;
and none. The user picks the first option or none (`Picks`), which is right for some
questions and wrong for others; the proofs are about any options.
`study_pages`: a PDF that is there and one that is uploaded, one lost call
(`MaxLosses`), two questions with answers typed in one step (`MaxQuestions`,
`AnswerLength`), two sheets with two versions (`MaxSheets`, `MaxVersions`) and one
file (`MaxFiles`): two pending answers and a second version are the least in which
they can be mixed up. That two files are not mixed up is covered by
the proof alone.

## 5. Fairness

Weak fairness of the handler's next step: the event loop resumes an awaited call that
has ended, and the calls end. Those to an AI provider are aborted by a timer
(`ai.service.ts`), those to MongoDB by `socketTimeoutMS` (`mongoose.config.ts:39-41`),
and the client of Redis settles its calls when a connection is lost. The download of a
PDF is the exception: it has no timeout and no handler for an error of its response
(`pdf-processing.worker.ts:137-149`), so that `FetchAndParse` may go to `hung`, from
where no fair step leads on. `SettlesUnlessHung` says what is left: a job settles for
good unless some handler hangs for ever. Weak fairness also of claiming (BullMQ's
workers poll), of the stalled check and of the backoff timer (BullMQ's timers) and, for
the page, of polling (`refetchInterval: 4000`). In `WebSession` a call is with its
handler or with its page, and either goes on (`WF` of `Progress`: every handler awaits
calls that end, and a request that is cut off is an error; the axios instance itself
sets no timeout); access tokens that are used again and again come to their expiry (`SF`
of `Expiry`, they live 15 minutes). In `PracticePage`, effects run after a render,
timers run on, requests are answered and the list is read every three seconds
(`use-mcq.ts:11`; the model may read it at any time, as an invalidation does). In
`StudyPages` the list, the answers and the result each go on while the browser runs
(`WF` of `ListStep`, `AnswerStep`, `ResultStep`). No click, no new test, and no
processing job is promised. The chunking loop is synchronous and goes on until it ends.
Requests, crashes and lock losses are owed nothing. `SettlesUnlessHung` needs no bound
on crashes beyond the stall limit, which the queue enforces. `ExpiredIsGraded` holds as
failed submissions come to an end (`MaxFailures`): while they fail, the page submits
again after every render, without a pause and without end.

## 6. Proofs

`JobQueueProofs` shows `QInv` inductive: the lock is held by a slot running the
job, and every start is accounted for by a throw, a stall or the one start that
is open or completed; `RunBudget` follows. `PdfPipelineProofs` shows `IInv`
inductive. `ReadyIsExact` alone is not: one has to know what a handler has
inserted so far (`Progress`), that it is the only one unless its PDF is overrun
(`SoleHandler`, from the queue's lock), and that the record exists by then
(`RequestOrder`, `QueuedIsStored`). From `IInv` follow `SettledIsFinal` (an
action property) and the refinement of `PdfLifecycle`, step by step.
`EvaluationProofs` shows the analogue; the key fact is that the version a
handler has read is still the newest while it is alone (`ReadIsNewest`) and a
stored one in any case (`ReadIsStored`). `McqGenerationProofs` shows the call
budget for any list of passes and retries: what a handler has spent and what its
pass and the later ones may still spend never exceed the total (`SpentSoFar`),
which needs that a pass starts with all its retries (`HandlerInStep`). That a
test of a calm request is about the PDF's own text, up to the budget of one of the
passes (`CalmTestsKeepToTheText`), follows from `ReadyIsWhole`, a fact about
`PdfLifecycle`, from a settled PDF staying as it is (`PdfStepKeeps`), and from
`pass` being that of the answer when the test is stored.
`TextChunksProofs` shows the loop for every text and chunk size; what makes its
properties inductive is that chunks lie behind the cursor and are numbered
through (`ChunksBehind`), and that the longest chunk the loop may cut ends in a
boundary (`EndFacts`).

Three bounds are counted rather than read off a state. `JobQueueProofs` shows that
the handlers of a job that still run are at most its stalls and its open start
(`HandlersAccountedFor`). With that, what is stored plus what the handlers that have
not passed their insert may still store never exceeds the starts: `GradingsAreBounded`
and `TestsAreBounded`. For the chunks of a PDF it is the handlers past their
delete: copies plus those that may still insert the chunk are at most one more than the
stalls (`CopiesAreBounded`), because a new start deletes what the earlier ones left.

A job is given up only when its attempts are used or its stalls exceed what BullMQ
forgives (`FailedIsExhausted`, the other side of `RunBudget`), and once it is settled and
its last handler has ended, zombies included, no queue action wakes it (`RestStays`).
So the results of a submission and the tests of a request are final then
(`HistoryIsFinal`, `TestsAreFinal`), and a submission that kept its lock is there as soon
as it is settled (`SettledRests`).

`WebSessionProofs`: `WaitersShareOneRefresh` needs that a refresh in flight belongs
to the tab that awaits it and the call that started it is among the waiting
(`RefreshIsAwaited`, `AwaitedIsInFlight`), and `OneAccountPerEmail` that a call that
is past the unique index created the account.
`StudyPagesProofs` takes the pages one by one, with a frame lemma for each, and
then the moves between them (`OnlyMounted`); `AnsweredIsNotMissed` is the part that
is not obvious: an invalidation cancels the read that is older than the upload.

`EvaluationProofs` also shows the refinement of `GradingHistory`, action by action: a
handler that inserts either adds the next version or, overtaken by another, one that is
there already (`ReaderGrades`), because what it has read is a stored version and no
version is skipped below it; a poll shows the highest (`ReaderPolls`); nothing else is
visible (`ReaderStill`). So overlapping handlers, which do break `VersionsUnique`, never
make a reader miss a version or go back to a lower one (`ShownIsNoOlder`); between two
results of the same version the page may change then, which is why `ShownMovesForward`
excludes them.

`TextChunksProofs` shows as well that each round passes more than four fifths of a
chunk (`LoopGetsOn`), which is what `Terminates` needs besides the loop being
scheduled, and from it the number of chunks of a text (`ChunksAreFew`).

`PracticePageProofs` shows first (`PInv`) that the session is of what was asked for and
the result of the session, for any list of stored tests and whatever the selection
becomes; that `Newest` picks a test of the list needs the finiteness of the list.
`PageIsSafe` and `ScoreIsTheShare` then look at the data, for replies with any items.
What a loop collects is shown by induction over its rounds. The library's induction
theorems have an operator as parameter and cannot be used, but one about well-founded
relations (`WFMin`) has none: `NatSet` is induction for a *set* of numbers, and
`Recursion` shows from it that a function on `0..n` that is defined by its steps exists.
On these rest `CollectedPlaces` (a loop collects the taken elements, each once, in
order) and `TakenSteps`. From the first follow that questions that are stored have four
options and a key among them (`ParsedQuestions`), that a submission with one entry for
every question is judged entry by entry (`EntriesJudged`), and that its questions are
right, wrong or skipped (`EveryQuestionCounts`); with `TenthsRound`, about the rounding,
that is `ScoreIsShare`. To say of a score that it is the stored test's, the invariant
`FInv` adds to the run's `IInv` that what is shown is what `submit` gave for what was
sent (`GradedBySubmit`). The same lemmas give, of the operators themselves and for
inputs of any size, what `MCPracticePage` compares on small ones: `QuestionsFollowReply`
(the questions are those of the items kept, each once, in the reply's order, with the
key `Number` makes of the item's), `ContextIsBounded`, `KeyIsWhatCounts`.

Assumptions, all named and evaluated by TLC: `QueueAssumption`, `SlotsAssumption`,
`NumChunksAssumption`, `WithFileAssumption`, `ChunkAssumption`, `GenerationAssumption`
(what `CallsFrom` means; a cut for every pass), `TabAssumption`, `AsksAssumption`,
`OwnedAssumption`, replies are arrays of at most `MaxQuestions` items whose options are
arrays (`RepliesAssumption`; `normalizeQuestions` turns everything else into no item),
the bounds are numbers (`BoundsAssumption`, `LossesAssumption`, `QuestionsAssumption`,
`SheetsAssumption`, `FilesAssumption`), and the null values differ from what they stand
beside (`NoPairAssumption`, `NoHashAssumption`, `NoOrderAssumption`, `KeyAssumption`,
`NoCallAssumption`, `NoListAssumption`, `NoAnswerAssumption`, `NoRequestAssumption`,
`NoTestAssumption`, and `SkipAssumption`: -1 is not the index of an option).

Model-checked only: the liveness properties (`SettlesUnlessHung`, `AcceptedIsAnswered`,
`GenerationSettles`, `Terminates`, `CallsSettle`, `DeadTokensAreDropped`, `WaitEnds`,
`ExpiredIsGraded`, `ListCatchesUp`, `AnswersArrive`), which are out of TLAPS's reach, and
the layout of answers (`AnswerText`, on all small inputs in `MCStudyPages`). Every
invariant and every action property of the passing runs is proved.

## 7. Not modelled

* Redis and MongoDB clients, the HTTP frame, validation, configuration, logging and
  the components of `components/ui` keep no state whose order matters; the models use
  what is behind them as calls that succeed or fail. The layout of printed pages and the sheet
  of long questions have no logic beyond their text. The content of texts, prompts and
  gradings is abstracted. Finding the JSON in a reply of the AI is a choice between a
  list of items and `Garbled`.
* Blobs are never deleted by the code: those of a failed upload request, of a PDF
  that failed, or of a download whose answer was lost stay. The models show
  them (`PdfPipeline`, `Downloads!files`); no property claims otherwise.
* In the browser: the reload of a tab, the redirects after login and logout, the
  expiry of a query's cache time, flags on questions, and of the PDFs selected on the
  practice page all but the first. Cached data other than the PDF list are read when they are used.
  The indicator of the question page is left out; nothing is read from it.
* The dashboard's figures (one read of three lists), the page of long questions
  (`mock-tests/long-questions/page.tsx`, fixed sample questions), the list of earlier
  evaluations (its endpoint is a stub, so that the list is always empty) and components
  no page uses (`UploadCard`, `PdfList`, `PDFCard`, `PDFGrid`, `McqCard`, `ResultCard`,
  `AnswerPanel`, `QuestionPanel`).

* Below a call of `AiService` the provider's client may send its request again: the OpenAI
  client retries twice by default (`ai.service.ts:69-74`). `CallsBounded` counts the calls
  of `AiService`.

What the models rest on outside the code: `OneAccountPerEmail` on the unique index
of `users.email`, which Mongoose builds in development only (`autoIndex` is off in production,
`mongoose.config.ts:32`) and a deployment has to create.

Behaviour met while modelling that no property claims to be otherwise:

* The invalidation after an upload joins the list's first read instead of cancelling
  it, and one that happens while no page observes the list is cleared by a read
  that is already in flight; the upload may then be missing from the list
  (`use-pdfs.ts:25`; hence `promised` speaks of uploads answered while a list is
  shown). Two reads lost in a row have the same effect.
* The upload's answer can be lost and the page says failed (`UploadFails` after
  `StoreUpload`); the dropzone stays at "processing" and takes a drop during another
  upload; the upload card names 10 MB and the controller allows 50.
* A late logout or a late failed refresh clears the tokens of a newer login
  (`useAuth.ts:36`, `client.ts:61`).
* A click on Submit just before the countdown's effect, or before the mutation is
  rendered, stores two attempts (`SubmitLast` before `RenderSubmission`), and answers
  can be changed while they are graded.
* `submit` scores a question twice that is named twice, and the score may then exceed
  100; the page names each once, which is what `ScoreIsShare` rests on.
* The context budget does not count the separators between chunks, and a blank option
  that is dropped moves the options behind it while the key stays; a key that is null, or an
  empty text or list, becomes 0 (`McqGrading`). So a question's key is the AI's only when
  the reply is as the prompt asks.
* Every page of a PDF yields text, a scan's too: the parser adds a marker for each page,
  and a scan is READY with chunks of nothing else.
* The panel of the practice page may select another PDF than the session's, or none
  (`SelectReady`); a restart still takes the session's test.
* A refresh that has read the hash before a logout clears it writes a new one after: the
  account has a session again, whose tokens the browser may hold.
* A selected PDF that is no longer READY is still the one asked about; the answer's
  indicator stays on when the answer comes within 1.2 seconds, as its first
  timer is not cleared; chunks are read whatever the status of the PDF
  (`ai.service.ts:258`).
* The download centre says nothing of a failed download.

What could follow: a model of several accounts and devices over `AuthSession` (one
hash per user means that the logout of one device ends the session of all), and the
theorem that `renderAiContent` keeps every line, by the induction of
`PracticePageProofs`.
