# A verification project for Cui

Cui is a research environment: a user opens question workspaces, writes claims,
puts them through review rounds in which generated challenges are answered, lets
evidence candidates through a gate, gives verdicts, and cites papers that live
sources find. Every fact is an event of an append-only log, and every status is
computed from the log. An older kernel with the same idea, one list of events per
parked idea, is kept as an archive, and its corpus is imported. This directory holds
TLA+ modules of that program, the TLC runs that check them on small instances, and
theorems that TLAPS proves for instances of any size.

Paths below are relative to `src/`; `ru/` stands for `backend/cui/research_universe/`,
`la/` for `backend/cui/legacy_archive/`.

## 1. Inventory

| Component | State | Operations | What makes it correct | Modules |
|---|---|---|---|---|
| Native event store, Postgres (`ru/store/event_store.py`, `schema.py`) | tables `research_universes`, `ru_commits`, `ru_streams`, `ru_events`, `ru_commit_fence`; row and advisory locks | `append`, `lookup_command`, `read_events`, `command_execution`, `create_active_universe` | one commit per command id; gapless streams; commits become visible in the order of positions; retries replay; every call ends | `CommandLog`, `NativeEventStore` |
| Native event store, in memory (same file) | dictionaries under one lock | the same protocol | the same | `CommandLog` has its shape |
| Review rounds, challenges, verdicts (`ru/application.py`, `ru/api/slice1.py`, `slice3.py`, `slice6.py`) | events of streams `review_round`, `challenge` | start, one more challenge, answer, defer, withdraw, verdict | what is closed stays closed; statuses only advance; retries replay | `Review` |
| Evidence gate (`ru/application.py`, `ru/api/slice4.py`) | events of `evidence_candidate`, `material` | add material, propose, generate, confirm, correct, reject, withdraw | one decision per candidate; a contradiction is challenged in the same commit; a failed parse is never silent | `Review`, `Capture` |
| Command guard (`ru/command_guard.py`, `command_execution`) | one lock per command | enter, leave | one generation per command at a time, none after its commit | `Review` |
| Workspaces, notes, anchors, claims (`slice1.py`) | events of `workspace`, `claim` | create, save note, anchor, create claim, forge from a capture | a claim drawn from a gap follows its confirmation; a provenance follows the release | `Workspace`, `Capture` |
| Workspace positions, directions, crystallisation (`slice5.py`) | events of `workspace`, `direction`, `workspace_direction_link`, `workspace_crystallization` | pause, reopen, conclude, branch, absorb; create, declare, rephrase; attach, detach; crystallise | only allowed transitions; no orphan direction; crystals rest on a conclusion | `Workspace` |
| Gap candidates, landscape (`slice8.py`) | events of `gap_candidate` | propose, confirm, correct, reject, withdraw | one decision per gap | `Capture` |
| External captures, literature challenges (`_capture_externals`, `_replay_commit`, `ru/corpus.py`) | workspace and material streams with derived ids | capture together with a challenge or a gap | a paper is snapshot once, no later than it is cited; retries replay | `Capture` |
| Sealed park (`ru/store/sealed_park_store.py`, `slice2.py`) | tables `sealed_park_captures`, `sealed_park_commands` | capture, release, forge | one capture per command; a release names its capture | `Capture` |
| Literature dialogue, corpus search (`slice7.py`, `slice9.py`, `ru/dialogue_sources.py`; `la/search/`) | none | search, pick, draft, check; search over all sources, merge, rank | the search returns; a check reports what the checker said; a merge loses nothing | `Papers`, `Literature` |
| Application factory (`backend/cui/api/app.py`, `ru/api/routes.py`) | the one library, the active universe | boot, provision | one library, one active universe | `Importer` |
| v4 importer (`backend/cui/tools/v4_importer*.py`) | a plan, files beside the corpus | plan, boot, import | imported once; files follow the corpus; a clean run is complete | `Importer` |
| Archived trajectory kernel (`backend/cui/store/`, `backend/cui/domain/`) | tables `events`, `artifacts`, `claims`, `materials` | append, read; projections | causes before effects; versions replay to the document | `Projections`, `Trajectory` |
| Archived services (`la/services/`) | none of their own | park, collect, challenge, answer, verdict, bypass, ground, confirm, retract, promote; Lens: scan, taste, link, graph | a reported contradiction is challenged; the Lens eats signed claims only | `Trajectory`, `Lens` |
| Web client (`frontend/src/features/research-universe/`) | projections on the screen, local drafts | every command | a command carries the sequence the screen showed | `Issue`, `Ask` |
| Generators, LLM clients, clients of sources (`ru/challenge_generator.py`, `backend/cui/llm/`, `la/search/arxiv.py`, `openalex.py`) | none | generate, search | external | any answer, or none |
| Exporters, templates, prompts, migrations, linter, canaries | files | one-off tools | no shared state | not modelled |

How they interact. A request is served by a thread of FastAPI's pool. The handler
of `Slice1Service` reads the whole event log of the universe, computes projections,
checks them, and calls `append` with the expected sequence the client sent and the
streams it targets; ids of new aggregates are derived from the command id. All
coordination between threads and processes is in the database: nothing read before
`append` is protected, except through the expected sequence of the targets. The web
client takes a sequence from the projection it shows, binds it to a fresh command id,
and may send the same envelope again. The importer is a client of the same handlers
with command ids derived from what it imports. The archived services have neither
expected sequences nor command ids: they read, check and append. Nor are they reached in
production: `create_native_app` mounts the reading router of the archive and nothing
else of it (`backend/cui/api/app.py:104`), and the one caller of the services,
`backend/scripts/canary_l3.py`, runs them in one thread on a store in memory.

What is hard: two handlers that both read before either appends; a check on one
stream and an append fenced by another; a retry of a command that has been committed
and has thereby changed what the handler reads; fingerprints computed from state that
moves; snapshots shared by all who cite a paper; an identity sequence that does not
follow commit order by itself; a chain of locks; a thread or process lost at any
point; a generator called inside or outside a guard; sources that hang; processes that
boot against an empty database at once. `PROJECT.json` lists each of these at its
line, with the properties that face it.

## 2. Modules

### CommandLog: what the store promises

The abstract specification. `Publish` adds, in one step, the commit, the events and
the new stream lengths of one request: at a position above every published one, if
the command is unknown and every stream has its expected length. `Acknowledge`
answers with a durable commit. It is written after the in-memory adapter, which does
all of this under one lock. A request keeps its command id, its expected sequences
and how many events it appends to each stream; its type and payload are one value,
`body`, since only the fingerprint depends on them.

### NativeEventStore: the Postgres adapter

One action per statement of `append` that takes a lock, reads or writes, after the
lookup every caller makes first. The control of a call is `pc[c]`:

    idle - Call -> lookup - Lookup -> append - LockFence -> command - LockCommand ->
    recheck - Recheck -> universe - LockUniverse -> streams - LockStream ... ->
    InsertCommit -> commit - Commit -> answer - Reply -> idle

with the early exits `RefuseCoverage`, `UniverseMissing`, `StaleStream`, a conflict
or a replay in `Lookup` and `Recheck`, and `Crash` at any point. `held[c]` are the
row and advisory locks of the transaction, released together when it ends.
`sequence` is the identity sequence, which a rollback does not return. What a
transaction wrote is invisible to the others until `Commit`, so the inserts and
updates before it are one step. `Call` picks any request, so a retry of an old one,
at any time, by any thread, is an ordinary behaviour.

Abstractions: addresses are numbers in the order in which they are sorted; two
commands or streams never share a 32-bit advisory key (a collision would only make
two transactions wait that the fence already separates); payload validation and the
check that the fence row exists are left out; no universe is ever archived, as in
the code.

### Review: review rounds and the evidence gate

The handlers of `Slice1Service` over `CommandLog`. A user binds an intent to a
command id (`Issue`), with the sequence the screen shows; any thread executes it any
number of times (`Send`). A handler goes through

    read - Read -> [guard - AcquireGuard ->] lookup - Lookup -> [generate ->] append

and the log moves on between any two of these steps. The order differs by operation,
as in the code: `start` looks up inside the guard and generates afterwards; `more`
and `generate` call the generator first, without a guard; `answer`, `defer`,
`withdraw` and `verdict` check the state before the lookup (`Admissible`), a
decision after it (`Decidable`), on what it read before. A handler ends with an answer
(`Publish`, `Replay`), with a refusal (`Refuse`: 404, 409 or 422 at one of three places,
or 502 because the generator failed, `RefuseGenerate`), or is lost and answers nobody
(`Abandon`). `state[t]` is what a
handler keeps of its read. `Publish` is `CommandLog`'s `Publish` for the row the
handler builds, with the payload fields that matter kept in `facts`; that the
adapter implements this step is the theorem `Refinement`.

Streams are named by kind and creating command, which is what uuid5 makes of them.
`Offered` and `Draft` only admit what the web client can send: a target
that exists and the sequence shown with it. A client that guesses sequences could
defeat every fence of the application; it is outside the model.

Abstractions: one universe and one claim, whose reviews do not interact; materials
exist from the start and belong to the workspace of the claim; texts, reasons and
verdict types are left out; the anchors an answer cites are not modelled; a handler
that reads the log twice reads what cannot change in between (`correct` reads the
parse status of a material again, materials are immutable).

### Workspace: positions, directions and crystallisation

The commands of `slice1.py` and `slice5.py` on workspaces, directions and the links
between them, over `CommandLog` like `Review`. None of them takes a guard or calls a
generator, so a handler has two steps:

    read - Read -> append - Publish, Replay or a refusal

`Read` makes the checks of the handler (`Admissible`) and keeps what it copies: the
version a rephrasing replaces, and whether a crystallisation found its direction
linked already. The log moves on before `append`. The lookup in between changes
nothing when it finds nothing, and `append` looks again, so the two are one step.
`Stream` is the stream whose expected sequence the client sends; `Further` are the
streams that `branch` and `crystallize` create beside it, in the same commit. What a
projection says (`Position`, `Conclusion`, `VersionBefore`, `LiveLinks`) is computed
from `facts`, in the order of the stream, as the code does it.

`EventType` maps an operation to the event it appends; `Fact` keeps of a payload the
workspace (`from`), the direction or other workspace (`to`) and what is referred to
(`ref`): a note revision, a conclusion, a version. A conclusion, a revision and a
version are named by the command that gave them.

Abstractions: one universe; texts and reasons are left out; the status a direction is
declared to have stands alone, since no check reads it; an intent names what the
screen offers (`Targets`, `Others`, `Refs`), so the refusals for unknown ids are left
out. `Refs` offers every conclusion, also those of other workspaces: the server is
what has to tell them apart.

### Capture: materials, gaps, literature challenges, claims, sealed captures

The commands in which one commit writes streams that others may write too. A gap or
a literature challenge may cite papers outside the library; `_capture_externals`
snapshots each one that has no snapshot yet, under an id drawn from the universe and
the locator, in the commit of what cites it, and makes their container with the first.

    replay - Replay -> [generate - Generate ->] snapshot - TakeSnapshots -> append - Write
    lookup - Lookup -> dedupe - Dedupe -> append               (add_material)
    read - ReadGap -> decide - Decide -> append                (decisions on a gap)
    read - Read -> append                                      (claim, release, forge)
    select - SelectCapture -> insert - InsertCapture           (the sealed store)

Every step reads `commits` anew, as the code does, which calls `read_events` in each
of these places. `Replay` is `_replay_commit`: it rebuilds the targets from the events
of the first commit. `Write` is `append` with its lookup and its fences; that the
adapter does this as one step is the refinement of `NativeEventStore`. The sealed store
is a table of its own without the fence, so its select and its insert are two steps;
an insert that hits the unique key fails and tells the caller nothing new. `Ask` binds a
request to a command id and, for a decision, to the sequence on the screen; `Deliver`
is any delivery of it, `Lose` its loss. `call[t].known` remembers whether the answer
was there already when the request was delivered, and `denied` which calls were then
refused: they carry the properties and decide nothing.

Abstractions: a commit is its command, its request and the expected sequences of its
targets, for what its events say follows from these; texts, reasons and titles are left
out, so two requests under one command id with different texts do not occur; a release
without a workspace makes one, but claims in such a workspace are left out; `Menu`
limits what a command id may be used for.

### Papers and Literature: search, picks, drafts

`Papers` has the pure part. `Normalise` is where an answer of a source is found,
`Canonical` how locators are compared: in lower case, with the URLs of doi.org, arxiv.org
and openalex.org and the version of an arXiv id (the spelling `"url"`) recognised.
`MergeKey`, `Merged` and `Dedupe` are `la/search/dedupe.py`, `Rank` is `rank_by_idf` of
`la/search/ranking.py` over texts that are sets of words. `RareTermsRank` compares a text
that has a rarer term with texts that have only universal ones; that rare terms
"dominate" (`ranking.py:107`) is not said for every weight, and `RicherTextsRankFirst`
(section 5) is what is proved beyond it. Scores are sums of logarithms; they are compared
as the fractions they are the logarithms of, so the comparison is exact.

`Literature` runs one dialogue after the other: `Search`, the sources that answer in any
order or never (`Answer`, `ArxivTimeout`), `Gather`, the model's `Pick`, the choice of
the researcher (`Choose`: materials of the store, and papers that come with the request,
whether they were shown or not), a draft (`Write`) and its check (`Check`); and the
archived search over all sources (`SearchAll`, `Merge`). The corpus may grow at any time.
What a model says is any choice among what it is shown, as it is, in lower case or as a
URL, and one locator it makes up; the checker may judge any part of the pairs it is
shown.

Abstractions: how a text is cut into words and how a Chinese query is translated; what a
page of a source looks like; a title stands with its year, and abstracts count by length.

### Importer: how a library comes to be and is filled

Applications and importers as processes. `Start` boots one, at most `MaxStarts` times;
`CheckHead`, `SelectLibraries`, `InsertLibrary`, `FindUniverse` and `CreateUniverse` are
the statements of `_assert_database_at_head`, `_resolve_library_context` and the
provisioning of the universe, each of which another process may come before. The
importer builds its plan first (`Plan`, from the database unless it is archived, and
from the parsed files), ensures its workspaces, and takes the entries in the order of
the plan: `ReadEntry` and `WriteEntry` are `add_material`, whose lookups and whose append
are apart, `WriteFile` the file that follows. A text is what is plain in it and whether it
holds control characters: the command gets it sanitised (`Excerpt`), the file as it was
planned. `Lose` ends a process anywhere. `AddByHand`
is a user with the same paper, `Archive` the rename of the v4 database, which an operator
does while no importer runs. `settled`, `planned` and `failed` remember what the
properties speak of: what stood at the start, the whole plan, and the report of the run.

### Projections and Trajectory: the archived kernel

`Projections` are the functions of `backend/cui/domain/projections.py` on the events of
one artifact, as sets; the order of a stream is `Precedes`, that of (`ts`, `seq`), in which
the stores return it. Rows that agree in both come in an order the database chooses; the
model takes that of their ids, and as either of two threads may draw its id first, it
has both orders. `SnapshotProjection` computes the
versions of the document event by event, as the code does.

`Trajectory` has one action per service call that reads and checks, then `Stamp`
(`make_event`), `ReadSeq` and `AppendEvent` (the two statements of the transaction, which
locks nothing, so two appends may take the same number), with other threads in between,
and `Lose`. The time of an event is that of the one before it or later: there is one
clock, which does not go back, and it may tie. An answer or a verdict names any challenge
id at all (`Named`), for nobody looks it up. Park writes an artifact, a claim and the
event; `Collect` saves and tells paper by paper; `Confirm` and `BatchConfirm` append what
a contradiction calls for after the confirmation itself (`due`, `todo`). `confirmed` are
the events whose confirmation was reported. `OldLog` is what the archive holds at the
start; `OldLogAssumption` says of it only what the services would have left.

Abstractions: a payload is a judgement, the event it is about and the claims and papers it
names; ids are numbers in the order in which events are made; a revival condition is part
of its outcome. That two threads run these services at once is what the store and the
services admit; the canary that runs them has one thread (section 1), a behaviour of
`Trajectory` in which the other stays idle.

### Lens: services that read every claim

`LensSpec` adds to `Trajectory` the services that read the streams of all claims and let
the model propose challenges and links: `AutoChallenge`, `ScanContradictions` with one
step per claim of the shortlist (`ScanNext` reads the stream again), `AssessTaste`,
`LinkClaims`, and `GraphEdges`, the corpus graph. `GrilledClaims`, `Prefilter` and
`KillPrecedents` are what the model is shown.

## 3. Runs

| Run | Instance | What it shows |
|---|---|---|
| `store` | 2 threads, 2 universes, 2 streams, 6 requests, 1 crash | the safety properties of the adapter, that it implements `CommandLog`, and that every call returns |
| `review` | 2 threads, 4 commands: a round; a candidate or a move on the challenge; two rival commands on challenge, candidate or round; one parsed and one failed material | closing is final, statuses advance, generation is guarded, a contradiction gets its challenge, a failed parse is never silent, a start, a proposal and a decision sent again replay |
| `workspace` | 2 threads, 5 commands: two workspaces or a conclusion, then moves, links, rephrasings and crystallisations that get in each other's way | checks made on stale reads hold at the append; a direction born from a conclusion is no orphan; crystals are grounded |
| `capture` | 2 threads, 4 commands, 2 workspaces, 2 papers | one snapshot per paper and no later than its citation; one decision per gap; grounded claims and provenances; retries replay; duplicates only from calls that overlap |
| `importer` | 1 application, 2 importers, 4 anchors, texts with and without control characters, 3 starts, 1 paper by hand | one library, no settled boot refused, entries imported once, files that are the corpus but for control characters, clean runs that are complete |
| `trajectory` | 2 threads, a claim under a question with grounds and an unsigned verdict, every type of event once more, confirmations twice; two times, a challenge id that does not exist | causes before effects; a reported contradiction is challenged; the versions replay to the document |
| `lens` | 2 threads, 3 claims (survived, killed, open), every type once more, links twice | generated events name signed claims and papers only; only a retraction takes back |
| `literature` | 3 sources, papers that share DOIs, a corpus of up to 3 materials, an article brought along by its URL, lists cut at 2 | rank, checks and merges are what they claim; the search returns |
| `review_late_answer` | as `review` | an answer lands after the verdict |
| `review_retry` | as `review` | the retry of a committed verdict is refused |
| `literature_pick` | as `literature` | a locator copied as shown is dropped |
| `capture_replay` | as `capture` | a capturing command that is delivered twice at once is refused |

Why the bounds suffice. Every race here is one of two: a thread that has read and not
yet appended, and another that appends meanwhile; two threads produce each of them, and
a thread that finishes is free to play a third. The requests of `store` collide in every
way `append` distinguishes: the same command with the same and with another fingerprint,
a stale stream, a stream that does not exist yet, two streams at once, another universe
that shares the fence, expectations that miss a stream. `Positions` is `1..5`: four
commits are possible, and the one crash `MaxCrashes` allows wastes a position. Command
ids bound `Review`, `Workspace` and `Capture`: each is bound once, retries are unbounded.
The menus keep an instance to the operations that interact, and still let every action
of the module fire; threads are a symmetry set there (not in `store` and `literature`,
which check liveness, nor where the threads are asked for different things). In
`workspace` the shortest interesting histories need five commands: a workspace, its
conclusion, a direction born from it, and two rivals that rephrase the direction or
detach the link; or two workspaces, and three moves that absorb, reopen and conclude.
In `capture` four suffice: two that cite or add the same paper, or a gap, and two that
decide or use it; or a capture, its release, a claim and the provenance.

`MaxStarts` 3 is one more than the importers of `importer`: all three may boot at once,
or one may be lost and started again beside the other. Of its anchors one has rows and a
file that disagree, one a row only, one a file only, one an empty row and a file with
nothing usable, and there are control characters in rows, which are the cases
`build_plan` and `add_material` tell apart. `MaxEvents` is 8 in `trajectory` (5 old
events, 3 new ones) and 15 in `lens` (13 and 2): a cause, what rests on it and what
removes it. `MaxTime` is the time of the last old event and one more in `trajectory`, so
that three events tie or follow each other, and in `lens` that of the last old event, so
that all new ones tie with it. `Limit` bounds the events of a type, `Decided` those a
person signs or retracts, `Ops` what a thread is asked for. `TopK` and `PrecedentBudget`
are below the number of claims, `HitLimit` and `MaxPicks` below the number of hits, so
that every cut happens; `MaxResults` and `MaxCites` bound what the model lists and a
draft cites.

Deadlock is checked in all runs but those of `trajectory`, `lens` and `importer`, where
the bounds on events and starts do end the instance.

Fairness. `store` is checked under `FairSpec`, which assumes that a thread that can
take its next step does so (`WF` on `Progress`: threads are scheduled, and no lock
past the fence is ever contended) and that a thread waiting for the fence row gets
it although others take it in between (`SF` on `LockFence`: Postgres queues the
waiters of a row lock). The clients promise nothing: they need not call, or retry.
`literature` assumes `WF` on the time limit of arXiv and on gathering (both are steps of
the event loop) and that OpenAlex answers or fails in the end, as its client has a time
limit of its own; of arXiv nothing is assumed. The other modules state no liveness: a
generator may take for ever, the code gives it no deadline, and between two calls of
the store a handler waits for nobody.

## 4. Findings

- **Late answers** (`review_late_answer`, `ru/application.py:746`). A verdict grows the
  stream of its round; an answer, deferral or withdrawal is fenced by the stream of its
  challenge. One that read before the verdict appends after it. The projection hides it
  (`StatusOnlyAdvances` holds), the trajectory keeps it.
- **Refused retries** (`review_retry`, `ru/application.py:777`). Answer, defer, withdraw
  and verdict check the state before the lookup, so the retry of a success is answered
  with 409. The decisions on evidence have the right order, and `DecisionRetryReplays`
  holds.
- **Dropped picks** (`literature_pick`, `ru/api/slice9.py:394`). The model's choice is
  looked up in lower case among locators as they were written. An OpenAlex id with its
  capital W is never found.
- **Conflicting deliveries** (`capture_replay`, `ru/application.py:535`). The second of two
  deliveries at once finds no commit to replay, then finds the snapshot the first has just
  taken, appends other targets, and is refused for its fingerprint. Sent again once
  the first is committed and known, it is replayed (`RetryReplays`).

Divergences without a run of their own, noted while modelling:

- A generated proposal and a further challenge call the generator before the command is
  looked up (`ru/application.py:732`, 656). Sent again after it was committed, the command
  is generated, and paid for, once more, and answered 502 if the generator fails now
  (`RefuseGenerate`). `docs/plan-research-universe-phase1.md:173` promises the original
  result without another execution; literature challenges (line 702) and first challenges
  (line 631) keep to it. `CommandRetryReplays` is violated by this, too, and
  `DecisionRetryReplays` names it as the one exception for these two commands: without
  the exception TLC refutes it.
- The docstring of `command_execution` (`ru/store/event_store.py:141`) orders the locks
  guard, append-command, stream, fence; `append` (line 190) takes the fence first. All
  transactions take the same order, so nothing deadlocks (`EveryCallReturns`).
- One more challenge, and a confirmed contradiction, join a round after its verdict
  (`ru/application.py:642`); `docs/spec-research-universe-mvp.md:57` wants a new round.
- A crystallisation compares its conclusion with the one it read (`ru/application.py:1031`);
  the docstring above it asks for the current one. Nothing it writes is fenced by the
  workspace, so a reopening and another conclusion may come in between. It is a
  conclusion of that workspace all the same (`CrystalIsGrounded`).
- Whether a direction is attached already (line 1082) is read before the append and fenced
  by nothing: two crystallisations may both attach it, one that races with a detachment
  leaves it unlinked, and a retry that sees other links than the commit did is refused,
  against the comments at lines 1073 and 1081.
- `pause`, `reopen`, `conclude`, `branch` and `absorb` refuse the retry of a success
  (line 915) as `review_retry` shows it for verdicts.
- Two workspaces may absorb each other (line 1014): each checks that the other exists and
  fences only its own stream. No text says what that would mean.
- The importer commits `sanitize_text(entry.text)` and writes `entry.text` to the file
  (`backend/cui/tools/v4_importer.py:208`, 221), so a text with control characters is not
  the same in both. `docs/plan-v5-slice0.md:192` calls `sanitize_text` the gate of the
  importer, after such characters had been met; the files pass beside it.
- `confirm_event` of the archived services appends the confirmation and the challenge of a
  contradiction in two transactions (`la/services/event_service.py:63`). Lost in between,
  the claim is not challenged, although the module's docstring (lines 11-13) has it
  challenged always. `ReportedContradictionIsChallenged` speaks of the confirmations that
  were reported, and holds.
- The in-memory `append` (`ru/store/event_store.py:120`) has taken a position before it
  validates payloads. Its callers validate first.

## 5. Proofs

Assumptions are the named ones of the modules: requests are well formed, menus and
bounds have their types, the sources of the importer and the old log of the archive are
what their writers left, the clients of the literature sources answer papers
(`PaperRecords`), and a vocabulary is finite. Nothing bounds the sets of users, threads,
streams, papers or processes. Every invariant and every action property of the passing
runs is proved, and so are four refinements of `CommandLog`: the adapter implements what
the three modules of handlers use.

    Review, Workspace, Capture  =>  CommandLog  <=  NativeEventStore

`NativeEventStoreProofs` proves, for any sets of threads, universes, streams,
commands and requests that satisfy the named assumptions of `NativeEventStore`, all
the safety properties of the run `store` and the refinement. The assumptions say that
requests are well formed, that addresses are numbers and that positions are positive.
The inductive invariant is

    IInv == TypeOK /\ FenceSerializes /\ PositionsDrawn /\ CommandOnce /\ StreamHistory

`CommandOnce` and `StreamHistory` are not inductive alone: `Commit` writes on the
strength of comparisons made several steps earlier. `FenceSerializes` carries them:
whoever is past the fence is alone there, so the command it did not find is still
absent, the streams it compared still have that length, and the position it drew is
still the highest. It needs `PositionsDrawn` (no position on record lies above the
identity sequence) for the last of these. `ReplayOrder` and `RetryNeverRefused` are
then facts about one step, and in `Refinement` `Commit` is `Publish`, an answer is
`Acknowledge`, and everything else stutters.

`ReviewProofs` has four parts, for any users, threads, rounds and candidates. The first
proves `ClosingIsFinal`, the reason the stale checks of the handlers do no harm, and
`GuardedGeneration`. Its invariant `RInv` says that events lie below the length of their stream
(`Bounded`), that an intent names its own new streams or a target that exists, with an
expected sequence that was once the length (`IntentsBehind`), and, decisively, that a
handler which found its stream open and whose stream has been closed since holds an
expectation that is now too small (`Fenced`). Generation adds `Guarded`: one thread per
command inside the guard, and no commit of the command while it generates or appends.

The second part goes on from there and proves `SilentOnlyIfParsed` and
`ContradictionIsChallenged`. Its invariant `EInv` adds to `RInv` what the log says of a
candidate (`LogWell`): the first event of its stream is the proposal, which names the
material, every later one is a decision, and all of them are of one round. No handler
holds a silence about a material that failed to parse (`Honest`): the proposal is refused
at the read, the generator is overruled, a correction is refused at the lookup, and what a
decision reads of a candidate is on record already. Standing contradictions and the
challenges that face them come in pairs of one commit (`Matched`); a second challenge for
a candidate would need a second decision, which `Fenced` excludes.

The third part proves `StatusOnlyAdvances`, `RetriesKeepFingerprint` and
`DecisionRetryReplays` on top of that. Only the row of a confirmation depends on what its
handler read, so the invariant (`Steady`) follows the relation: whoever is about to confirm
holds the relation of the proposal, or the candidate was corrected and he comes too late
(`Held`); the commit of a confirmation is about the proposal (`Kept`). A handler that comes
back reads a candidate its own commit has decided, and finds the same relation, hence
the same targets and the same fingerprint. A committed proposal was admissible, and what is
admissible does not depend on the log, so the read refuses no retry. A first generation runs
under the guard and after the lookup, so it never fails for a committed command
(`GuardedAlways`); a further challenge or a generated proposal may, and is excepted. For the
statuses, nothing is appended to what is closed, and the events of a challenge are of one
round (`OneRound`).

`WorkspaceProofs` proves `PositionsFollowTransitions`, `RephrasingsChain` and
`DetachedIsFinal` together, for any users, threads, workspaces, directions and links.
The three have one reason, the conjunct `Current` of the invariant `WInv`: a handler
that still holds the length of its stream has read what is still so. Its own stream
tells it, since every event that could change the position of a workspace, the version
of a proposition or the detachment of a link lies in that stream. It needs
`IntentsBehind` (an expected sequence was once the length, so a stream that grows
leaves every other intent behind) and `Bounded` (what a commit adds lies above all that
a projection below an old length looks at, `PublishKeeps`). What crystallisations check
lies in streams of others, and there the argument, and the code, fails.

`CrystalIsGrounded` and `NoOrphanDirection` hold all the same, and the module proves them on
a second invariant, `GInv`. A conclusion that was read has been made, whatever the workspace
does next (`Grounds`). The link of a new direction is left out only if the handler found a
link to that direction, which then exists (`LinksLead`), so the commit that would create it
again fails. That a workspace with a conclusion has a latest one (`LatestConclusion`) gives
the projection its value.

`ReviewImplementsLog`, the fourth part of `ReviewProofs`, and `WorkspaceImplementsLog` show
that a handler, whatever it has read, passes a well-formed request to the store
(`RowType`): its targets are streams of their own or existing ones, no two of them the same,
each with a number as its expectation. `AppendRefusesNothingElse` says that the model hides
no further refusal: if the command is unknown and no stream is stale, nothing `Publish` asks
of the log is missing, and the events the handler writes are one on each target of its row, at
the expected sequence (`FactsFollowRow`). So what the payloads say, which the projections
read, and what the store keeps are the same events. TLC cannot check these two refinements, as
the requests of the store range over all functions to `Nat`.

`CaptureProofs` proves all five invariants of the run `capture` and `DuplicatesOverlap`.
Its invariant `Inv` joins the log (`LogInv`: the targets of a commit have the shape its
request gives them, shared streams are written once, a gap has one decision) with what a
thread holds at each step (`Ready`). A thread in flight is described by four facts:
`Fresh`, that an answer which was there at delivery would have ended the call before;
`Pending`, that a decision on a gap decided meanwhile holds a sequence that is too low;
`Brings`, that what it cites is snapshot already or is among its targets; and the `Shape`
of these targets. The append's comparison of lengths then does the rest: a snapshot that
somebody else has taken makes the stream longer than the 0 the thread expects.
`CaptureImplementsLog` reads the commits of this module as rows of the store, with streams
that are as long as there are commits with them as targets, and shows that `Write` is one
`Publish` of `CommandLog` and that nothing else writes.

`ImporterProofs` proves the five invariants of the run `importer`, in two parts. `LInv`
says that there is no library or the one all processes name, that a process keeps a
library that exists, and that what is settled stays settled. `CInv` says that the command
of an import tells its anchor, that importers at work at the same time have plans of the
same sources (nobody archives meanwhile), that what was read as absent is compared again
at the append, and that an entry which has left the plan without failing is in the corpus
and in its file. Of a file they say that its text, sanitised, is the excerpt of the material:
sanitising is done for every command, whichever plan it comes from.

`TrajectoryProofs` proves the three properties of the run `trajectory` and the two of the
run `lens`, all for `LensSpec`, whose steps include those of `Spec`, although nothing is
locked. `Inv` says that what a thread is about to make has its cause in the log, is stamped no
earlier than it, and gets a higher number (`Founded`): a log that only grows keeps what was
read, the clock does not go back, and the number comes after every number on the stream at
that moment, the cause's among them. Events that raced may tie in both, but neither is then
the cause of the other. `Owed` ties what a thread still has to append to where it
comes from: the ground a confirmation confirms, or the links the Lens proposed at once. On
that rest four arguments.

- `ReportedContradictionIsChallenged` adds that ids are unique, and that a thread which
  tells of a confirmed contradiction found its challenge or carries it (`Reported`, `Told`).
- `OnlySignedIsNamed` adds `Naming`: what the model was shown, and what the draft of a
  generated event cites, had been signed in the log that was read (`Shown`). A signature
  is an event, so it is there for good, whatever is retracted meanwhile.
  `ArchiveAssumption` says the same of the events the archive starts with.
- `OnlyRetractionTakesBack`: an event other than a retraction takes back no signature on its
  stream, and signs one event more at most; so claims judged and grounds signed stay, and
  with them the edges. A new verdict replaces an outcome and leaves the claim judged.
- `VersionsReplayDoc`: `SnapshotProjection` is a recursive function over the places in the
  stream (`Until`). The versions up to a place replay to the document up to there
  (`SteppingReplays`); an event that changes the document makes a version with the
  difference, one that does not makes none.

`PapersProofs` proves, for lists of any length, what `Dedupe` and `Rank` give.
`DedupeIsFaithful`: one record per key, in the order of first appearance, with the longest
abstract, the most citations and every source of the papers that share the key; `Placed`
keeps it (`EnrichedStep`, `AppendedStep`). `RicherTextsRankFirst`: a text that hits all that
another one hits and a term more comes before it. The score of a text is a product of
fractions (n + df)/df, each above one, so a further term raises it (the comparison is of
`over * under`, crosswise); `Before` is a total order, so a sorted list exists and `Rank`
is one.

`LiteratureProofs` carries these to the dialogue: `RareTermsRank` and `MergeIsFaithful`
follow from them where the corpus and the answers are lists of the right type (`TypeInv`)
and what was merged stands until the next request begins (`MergeStands`);
`ChecksAreHonest` is part of the same invariant, `LiteratureInv`.

The induction theorems of the library are of no use to the provers here, so the proofs
by induction over data take another way. A recursive function or a fold is unfolded by proving
that the function it chooses exists, and what holds of it at every step is proved
from the least number at which it would fail (`LeastNatural`, from the well-foundedness of
the naturals).

Model-checked only: `EveryCallReturns` and `SearchReturns` (liveness under fairness, out of
the prover's reach). `Review` and `Workspace` state no type invariant of their own; their
proofs carry the part they need (`Shapes`). The four runs that expect a violation refute
what they check, so there is nothing to prove of them.

## 6. Not modelled

- LLM clients, prompts, the parsing of model output, the HTTP clients of the sources:
  external; the modules take any answer and any failure.
- The connection pool under the guard (`ru/store/event_store.py:146`): the session that
  holds the guard keeps a connection while `append` asks for a second. The size of the
  pool is configuration, and the wait it can cause is plain without a model.
- The in-memory adapter's partial failure, which only tests could see.
- The text of anchors and quotes, word splitting, query translation, exporters,
  templates, rendering and the local drafts of the web client: formatting of data.
- `--limit` of the importer, a prefix of its plan.
- Migrations, the linter and the canary scripts: deployment and development tools.
