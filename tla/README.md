# PSTForge: a TLA+ verification project

PSTForge recovers mail from Outlook PST files, damaged ones included, and
writes it into new PST files ("parts") of bounded size.  Jobs run for hours on
data that exists once; the code is therefore full of durable ledgers, batches,
renames, checkpoints and resumes.  This project models the protocols that must
hold across crashes, signals, retries and resumes, and the path of a message
from the damaged store through the worker's pipe, the ledger and the translation
into a finished part.

All paths below are relative to `src/`; `lib.rs` is
`crates/pstforge-job/src/lib.rs`, `split.rs`, `recovery.rs`, `worker.rs`,
`report.rs`, `source.rs`, `canonical.rs` and `writer_input.rs` are in
`crates/pstforge-core/src/`, `catalog.rs` is `crates/libpff-sys/src/catalog.rs`
and `writer.rs` is `crates/pstforge-pst/src/writer.rs`.

## 1. The system

    pstforge split / recover / report           crates/pstforge-cli
        |
        +- source guard    (source.rs)   opens, leases, hashes, re-checks the PST
        +- supervisor      (recovery.rs) spawns the parser process, watchdog, retries
        |     |  frames over a pipe      (worker.rs)
        |     +- worker process: catalog traversal through libpff (libpff-sys)
        +- job ledger      (lib.rs)      SQLite + payload pack + parts/ + manifests/
        +- part builder    (split.rs)    canonical mail -> writer input -> PST parts
        |     +- PST writer (crates/pstforge-pst/src/writer.rs)
        +- report          (report.rs)   reads the stored report back, or refuses

| Component | State | Operations | What is hard | Correct when |
|---|---|---|---|---|
| Payload ledger (lib.rs) | SQLite rows with an open transaction and a savepoint, the pack file, its synchronised length, the open candidate and blob | `begin_candidate`, the event handlers, `finish_blob`, `commit_candidate_batch`, `abort_worker_attempt`, `rollback`, `open_expected` | four nested levels (committed, batch, candidate, blob) that are each undone by truncating the same file; deduplication inside it; stops between write, sync and COMMIT | every row names durable bytes; a reopen is never refused; at most one batch is replayed |
| Part publication (lib.rs) | `parts`, `publication_intents`, candidate status, the files of `parts/`, `manifests/`, `partial/` | `publish_part_with_interrupt`, `reconcile_publications`, `remove_stale_partials`, `validate_part_store`, `mark_candidate_rejections` | six durable steps, resumed by looking at what is on disk | an item is in one part, no part is lost, no stray file blocks an index |
| Part builder (split.rs) | candidate index, open part, batch checkpoint, replay flag | the loop of `split_recovered_job_with_interrupt` | sizes are projected per batch; a batch that crosses the limit is undone and replayed | the parts are those of the plain rule; the loop ends |
| Split command (split.rs, recovery.rs, cli) | job metadata, stored report, interrupt flag, stage, exit status | `split`, `recover_source`, `split_direct_recovered_job`, `finalize_private_work_expected`, `publish_report_artifacts`, `report` | a signal may be seen in any stage, and each maps it to an error of its own | success is earned; a resume finishes; the report can be read back |
| Watchdog (recovery.rs) | two threads, a channel of one slot, the child, its pipe, the idle timer | `AttemptWatchdog`, `WorkerProcess::stop`, `finish_worker_attempt`, `DirectWorkerProcess` | a verdict racing the child's exit and the supervisor's `stop`; dropped progress signals | a hung child ends, a live one is left alone, a kill is reported as what it was |
| Worker supervision (recovery.rs) | attempts, failures per unit, isolated units, the replay list | the attempt loop of `recover_source` | retries of partly durable work, blame, nested retry loops | a bad unit is isolated, the rest is recorded once, the loop ends |
| Catalog traversal (catalog.rs) | the path to the current folder, the visited identifiers, issues, the payloads put off | the walk over folders, associated and normal messages, embedded messages, recovered items, orphans; three orders | every libpff call may fail; an error is contained at one of five levels; embedded messages before or after their parent | damage is marked, frames stay well formed, nothing is dropped without an issue |
| Worker protocol (worker.rs, sink in lib.rs) | the open unit and candidate, the metadata buffer and its budget, the registered streams | `receive_worker_catalog_body_with_progress`, `next_one_pass_candidate`, `handle_event` | two processes, one pipe: the worker sends in its order, the writer pulls in its own | what is recorded can be assembled; every registered stream reaches the writer |
| Direct split (split.rs) | the open part, its layout, the published parts, the report | `split_direct_recovered_job` | payload is streamed once, there is no second try; folders become known while parts are built | parts are cut where the plain rule cuts them; the report is what was published |
| PST writer (writer.rs) | the private file with its cursor, the rows of the folders' tables, the checkpoint, the plan of finalization, the temporary file | `TransactionalMailStoreWriter`: append (five ways in), `observe_folder`, `begin_batch`, `rollback_batch`, `finalize` | map pages at fixed offsets, identifiers handed out in order, reference counts added up by hand, a size projected before it is written, validators that hang | no extent on another or on a map; every count right; what was accepted can be finalized; published whole or not at all |
| Heaps of contexts and tables (writer.rs) | heap pages, the tree of records, fill levels | `heap_page`, `push_heap_allocation`, `fill_heap_page`, `update_heap_fill_levels` | full pages, padding, bitmap pages, trees of several levels | a reader finds what was written |
| Canonical mail and writer input (canonical.rs, writer_input.rs, writer.rs) | ledger rows and events, the translated message, the input of the writer, the finished store | `load_canonical_folders`, `build_mail_inner`, `translate_message`, `validate_message`, the `validate_completed` functions | four separate pieces of code with rules that must agree | every item settled, omissions counted, own output accepted |
| Source guard (source.rs) | descriptor, lease, identity | `open`, `verify_unchanged`, `protect_source` | the source may change during hours of work | output is only reported for an unchanged source |
| Packing, inspection, developer tooling | read-only passes, dead code, scripts | | | |

How they interact: the worker streams candidates to the supervisor, which
feeds the ledger.  When the traversal is complete (or its retries are
exhausted) a completion row is written; from then on the builder reads spooled
candidates and publishes parts through the ledger; when every candidate is
disposed of, the payload is deleted and the report stored.  In direct mode the
builder consumes the stream while it arrives and nothing can be resumed.  One
flag, set by SIGINT, SIGTERM or a broken lease, is read by every stage.

`PROJECT.json` lists the hazards with their lines; every property below is
aimed at some of them.

## 2. Modules

| Module | Models | Extends / uses |
|---|---|---|
| `PayloadLedger` | the payload ledger | |
| `PayloadLedgerProofs` | its inductive invariant and theorems | `PayloadLedger`, TLAPS |
| `PublishedParts` | abstract: a set of published parts that only grows, by parts with new items | |
| `PartPublication` | publication, reconciliation, stops of process and host | instantiates `PublishedParts` |
| `PartPublicationProofs` | its inductive invariant, the refinement and theorems | `PartPublication`, TLAPS |
| `PartBuilder` | batches, rollback and exact replay | |
| `PartBuilderProofs` | its parts are those of the reference | `PartBuilder`, TLAPS |
| `DirectSplit` | the one-pass builder of direct mode | |
| `DirectSplitProofs` | its inductive invariant and theorems | `DirectSplit`, TLAPS |
| `SplitCommand` | invocations, stages, signals, exit status, stored report | |
| `SplitCommandProofs` | its inductive invariant and theorems | `SplitCommand`, TLAPS |
| `Watchdog` | one attempt: child, pipe, supervisor thread, watchdog thread | |
| `WorkerSupervision` | all attempts and invocations of one restartable recovery | |
| `SupervisionProofs` | the inductive invariants and theorems of both | `Watchdog`, `WorkerSupervision`, TLAPS |
| `CatalogTraversal` | the worker's walk through the store | |
| `CanonicalRules` | what the assembly demands of one attachment | |
| `WorkerProtocol` | the supervisor's end of the pipe and the durable sink, over the walk | `CatalogTraversal`, `CanonicalRules` |
| `PstAllocation` | where extents go between the map pages | |
| `PstStructures` | data trees, subnode trees, contexts and tables as blocks | `PstAllocation` |
| `StorePublication` | the end of finalization: validators, rename, directory sync | |
| `PstWriter` | the transactional writer | `PstStructures`, `StorePublication` |
| `PstWriterProofs` | where an extent may lie; extents never overlap; rows follow their folders; finalization agrees with itself; a store is published whole | `PstWriter`, TLAPS |
| `HeapPages` | the heap of a property context or table | |
| `HeapPagesProofs` | its inductive invariant and theorem | `HeapPages`, TLAPS |
| `FolderLayout` | folder rows to folder paths and roles, and the writer's hierarchy rules | |
| `MailInput` | `translate_message`: canonical mail to writer input | `FolderLayout` |
| `CanonicalMail` | what the sink records of a message and how it is assembled | `MailInput`, `CanonicalRules` |
| `MessageValidation` | `validate_message` and what it calls | `MailInput` |
| `StoredMail` | what is stored of a message and the `validate_completed` functions | `MessageValidation` |
| `MailPipeline` | the composition: candidate by candidate from the ledger to a settled item | `CanonicalMail`, `StoredMail` |
| `MC*` | instances for TLC | |

### PayloadLedger

`db` is the last COMMIT, `work` the open transaction, `save` the savepoint of
the current candidate; `pack` is the payload file and `synced` the length known
to be durable.  One action per event of `handle_event` that touches a payload
(`PropertyStart`, `PropertyData`, `finish_property`, `PropertyAbort`,
`AttachmentStart`, `AttachmentData`, `finish_attachment`, `MessageEnd`,
`MessageEndIncomplete`), `start_candidate`, the two halves of
`commit_candidate_batch` (the pack is synchronised first, so a stop can come
between them), `abort_worker_attempt`, `rollback` after a failed COMMIT,
`ProcessStop` (the pack keeps what was written), `HostStop` (only the
synchronised prefix is certain) and `open_expected`, which truncates the pack
and refuses a ledger that does not agree with it.

A content is the sequence of its bytes over a small alphabet instead of its
SHA-256: two contents are the same exactly when they are equal.  Deduplication,
offsets and truncation are as in the code.

### PartPublication

Every durable step of `publish_part_with_interrupt` is an action, in the order
of the code: create the sidecar, write it, record the intent, rename the PST, synchronise
`parts/`, rename the sidecar, synchronise `manifests/`, commit.  `fs` is what
the running system sees, `disk` what a host stop would leave; a directory sync
copies entries from one to the other, and unsynchronised entries may survive or
not.  A sidecar is torn between its creation and
its sync.  `Interrupt` may end a publication between any two steps;
`reconcile_publications` and its steps, `remove_stale_partials` and
`validate_part_store` are what `open_expected` then does.

### PartBuilder

The loop of `split_recovered_job_with_interrupt` with its thresholds as
constants.  A message is its position in the sorted order and a size; which
messages the writer rejects is chosen in `Init`.  `Spooled` is the header pass:
what the ledger still offers, in order.  The reference `GreedyTo` places one
message after another and opens a part whenever the next does not fit.  It is assumed that the
projected size of a part is the size finalization gives it and grows with every
message; that is a property of the writer, outside this module.

### SplitCommand

One action per stage of `split`.  Whether a stage notices the flag, and what
that becomes, is taken from the error conversions: `Interrupted` (130) where the
code maps it, otherwise the status of the error that carries it.  `job` holds
the metadata rows that decide later stages and the report's digest.  `Rerun` is
the operator's `--resume`, with or without `--keep-work`.  Making the job
directory (`spawn_worker`) and recording what it is bound to (`bind_job`) are
two steps, and a job left between them is refused whichever way it is run again.

### Watchdog

The watchdog's loop is cut where it can be overtaken: `Sample` (the resource
sample at the top), `Receive` or `Timeout` (`recv_timeout`), and `Judge` (flag,
then idle limit, then kill).  The supervisor reads frames (`ReadFrame`), sees
the end of the stream (`ReadEnd`), and then leaves in the order of its path:
the restartable path stops the watchdog and then waits for the child, the
direct path collects the child first (`Wait`, `TryWait`) and stops the watchdog
afterwards.  `Stop` is the blocking send, `Join` the join and everything after
it.  The child may work, send, exit or do nothing for ever; it closes its files
(`Exit`) before it can be collected (`Gone`), which is why an end of stream can
be seen while `try_wait` still finds no status.  A frame is what the two loops
tell apart: an ordinary one, the end of a top-level message, completion, error.
Time is counted in resource samples (1 s); `IdleLimit` stands for 900 of them.
The clock does not tick while a sample is due, since the watchdog polls ten
times between two samples.  `/proc` is taken to be readable.

`quiet`, `lull` and `stray` are ghosts: nothing the program does reads them.

### WorkerSupervision

A source is a sequence of recovery units with the folder units above each, the
candidates in each (a top-level message and the embedded ones) and the
identifier of its top-level message.  The worker visits the units in order
except the isolated ones and what lies below them; it is deterministic up to
the point where it fails, and it may fail anywhere.  `rows` counts the rows per
candidate, `batch` is the open transaction, `active` the unit the supervisor
blames, `replay` the durable candidates the worker must show again.  The
worker's output is a buffer of 1 MiB that is flushed when a unit is announced:
`UnitLeft` is the worker being done with a unit, `Message` and `UnitEnd` are the
supervisor taking what was written, and a worker that fails in between takes the
rest with it.  What the worker writes inside a unit and the supervisor has not
taken yet needs no state of its own: nothing depends on it until it is taken.  `Failure`
is the retry branch of `recover_source` from the abort of the attempt to the
decision what to start next; `SpawnFails` covers both spawn loops.

### CatalogTraversal and WorkerProtocol

The walk is a list of tasks (`todo`); a task is one step of catalog.rs between
two libpff calls that may fail, and pushes the tasks of the recursion before the
rest.  An error drops the tasks up to the handler that contains it: the
property, the attachment, the message, the unit or the walk.  The constants are
a store; `faults` counts failed calls, `hurt` is the ghost set of messages for
which one failed, `damage` the ghost set of the failures that some property
names.  In the order "Direct" payloads above the prefix are put off and sent
after the metadata of their top-level message.

The supervisor receives frames one by one.  In the catalog modes each goes to
the sink, `handle_event` of lib.rs, whose state is the open unit, the stack of
active candidates and the rows; a frame in the wrong state makes it `bad`.  In
direct mode `BufferMetadata` collects the frames of one top-level message under
the budget, `EmitMetadata` feeds them to the sink, children first, and then the
writer pulls the streams it was promised (`OpenBlob`) in its own order, draining
(`DrainPayload`) what it does not want.  Frame encoding is left out.

### PstAllocation, PstStructures, PstWriter, StorePublication

`PstAllocation` and `PstStructures` are pure: extents around map pages, and
builders that take the next block index and return a root, blocks and the next
index.  Sizes are in units of eight bytes and only capacities are scaled.
`PstWriter` has the writer's own state.  A message is what its blocks depend on,
and `build_message_blocks` works through it as a list of steps with a stack of
frames for embedded messages, so that a failure (`AppendFails`) can fall between
any two.  `checkpoint` and `restore` are those of the code, including what they
do not restore.  Finalization collects what is still to be built, in the order
in which it takes identifiers (`WantedBlocks`), builds it (`BuildInOrder`),
computes nodes and reference counts, writes both B-trees and compares the extent
with its projection.  A row's value that is too large for the heap has a block
of its own under the table (every `LargeEvery`-th row has one), and the
named-property map grows from one block over one with its entry stream in a
node to a context of several pages.  A plan that needs what no file can have
(a folder whose name and class do not fit on one page, writer.rs:3286 and 3560;
a table that cannot be named, 10961; a shared block with more than 65535
references, 3501) makes finalization fail: the model does not measure names and
lets any plan fail in this way (`TooLarge`).  `append_declared_data_tree` and
`append_reader_data_tree` are copies of one loop in the code and one definition
here; that they agree was read, not checked.  `StorePublication` goes on from there: read back, the two
independent readers in their process groups with a deadline, the no-clobber
rename, the directory sync and the check of the destination, while another
process may create the destination and a signal may arrive.

### HeapPages

Records are added one by one; the heap is built on one page if it fits, else the
values are pushed on continuation pages, then the leaves and branches of the
tree, then every page but the last is padded and the fill levels are written.
Header sizes, the limits of a heap identifier (allocations of a page, pages) and
the distance of bitmap pages are constants.  Property contexts and tables differ
in where small values go, as in the code, and in what happens when the values of
the one-page form cannot all be named (`Nameable`): `property_context` reports a
heap that is too large and goes external, `write_table_value` an error of its
own that `build_table_context` passes on (`TableRefused`).

### FolderLayout, MailInput, CanonicalMail, MessageValidation, StoredMail, MailPipeline

A property keeps what the code branches on: identifier, type, name, declared and
captured size, whether its bytes are deferred, well formed, readable.  A stored
value is the token of what it was made from, so that a comparison in a validator
is an equality of tokens.  `CanonicalMail` turns a source into the rows and
events that the sink writes and assembles them again as `build_mail_inner` does.
`MailInput` translates property by property, with the attachment and the
embedded message in it as a stack; `FieldFate` and its companions say what
becomes of each identifier.  `MessageValidation` has one operator per rule of
`validate_message`, `StoredMail` one per check of the finished store, together
with the reader's budget that the check runs under.  `MailPipeline` takes the
candidates one after another, in the order of the split, into a part that never
fills up, finalizes it and settles the rows.

### DirectSplit

A message is a size, a folder and what becomes of it; folders become known at
points chosen in `Init`.  A part carries its private extent (`eof`), which grows
with every append, so that it is compared and not recomputed, as in the code.
One action per branch of the loop, the two closing
sequences (rollover, last part) and every place at which an interruption is
looked at.

## 3. Runs

| Run | Instance | Shows |
|---|---|---|
| `ledger` | 3 candidates in batches of 2, 2 bytes, blobs of at most 1 byte, 2 events each, 1 stop | payload of committed and of working rows intact; a reopen is never refused, a stop costs at most one batch, a durable candidate is never touched again |
| `publication` | 3 items, 1 rejection, 2 process and 2 host stops, fairness | refinement of `PublishedParts` by the ledger; every file of the output accounted for and no item twice; an uninterrupted publication survives host stops; every item disposed of, but for a lost file or a torn sidecar |
| `part_builder` | 5 messages of 3 sizes, batches of 3, 1 stop, fairness | parts as the reference, never too large, termination |
| `split` | both modes, 2 parts, 2 signals, 2 failures, fairness | success earned and its report readable, traversal once, resume finishes |
| `watchdog` | both paths, idle limit 3 ticks, pipe of one frame, fairness | kills attributed, nothing left behind, stalls only after quiet spells, hung and interrupted attempts end |
| `supervision` | 4 units, a folder with a message linked twice and a recovered item, batch of 2, 1 global retry, 1 restart, fairness | candidates once and counters right, nothing lost but what is isolated, blame on the last announced unit, termination |
| `worker_protocol` | 2 folders, 6 messages with attachments of every kind, embedding below and above the depth limit, 2 failing calls, isolated units, three orders | what is recorded assembles, refusals explained, no silent loss, streams delivered |
| `worker_protocol_broken` | the same store | **violation**, see 6 |
| `direct_split` | 4 messages, 2 folders, 1 refused or unwritable of each | parts cut as the reference, failures explained, report exact |
| `writer` | up to 2 appends of 4 kinds of message, 5 ways in, 3 folders, 1 failure, a file of several regions | extents sound, references exact, finalization agrees, rows follow folders, published whole, publication ends |
| `heap` | up to 7 records of 4 sizes, property context and table | what is written is what a reader finds |
| `mail` | sources with pairs of properties, recipients, attachments, embedded trees and folders, in both capture modes (`MCMail`) | items settled, omissions counted, assembled as recorded, folders agree, refusals known, own output accepted |

Bounds, and why they are enough.  The ledger's hazards need two candidates in
one batch (an abort must spare the first), two equal contents (deduplication)
and two different ones, and a third candidate for a batch that overflows.
Publication needs two parts so that a stray file can meet a later index, and
three items so that an item can be in neither; two stops let a stop hit the
reconciliation of the first.  The split needs two parts so that a run can stop
after the first, and two stops so that a resume is stopped as well.  The
watchdog needs an idle limit of three ticks, so that a sign of life can be
unseen, sampled and forgotten before the limit, and a pipe that fills.  The
supervision needs a folder unit with messages below it, a unit with an embedded
message (so that a failure can fall between two of its candidates), a batch
smaller than the source, and a restart.  `MaxUnitRetries` is 0 as in the code;
`MaxWorkerRetries` is 3 in the code and 1 in the run.

The walk needs an embedded message below a message with a long payload (its
streams interleave with its parent's), a recovered copy of a message already
shown, a chain deeper than `MaxDepth`, and two faults, so that one can fall into
the handling of another.  `MaxBuffered` 19 is what the largest graph without
damage needs, so that the budget is hit only together with damage.  The writer's
address space is scaled so that more than eight regions with all kinds of map
pages are reached: a region is 16 slots, a page 2, a page map in every second
region, the other maps from the second and the fourth.  Block capacity 10 gives data trees of
two levels and subnode trees with a branch; two appends are enough for a first
message (which owns the fixed blocks) and one that is taken back or retried.
The heap has limits of seven allocations per page and six continuation pages, so
that seven records reach seven pages, both bitmap pages, a tree of three levels,
a page that needs double padding, heaps that are refused at either limit, and
tables that are refused because they have more than three values.  Heaps are
built alone: nothing in a heap depends on what was built before.  The mail sources hold every pair of message
properties and of attachment properties, because a rule relates at most two
(three for a distribution list and an OLE or reference attachment, which have
sources of their own), trees of three levels of embedded messages, folders of
every shape with mail in them, and three messages whose keys do not follow the
order of their folders.  Sizes are taken on both sides of the limits of the
code, and are those of the code: texts of 4096 and 4098 bytes wherever the
writer measures one, attachment tables of exactly one page (two attachments, and
40) and two bytes more, three and four property names of 4096 bytes, 128 and 129
MiB of named properties in a message and the one it holds.  The values that one
table page can name are the constant `MaxTableValues`, 19 in the run, so that
four recipients are taken and five refused; `MaxPropertyBytes` is 1,000,000,000,
below `i32::MAX` so that sums stay within TLC's integers.  Direct mode
needs four messages for a second part that closes, and sizes
chosen so that each of the four cases of `DirectFailureExplained` is the only
explanation of some failure.

Every bound (`Max*` of stops, signals, failures, faults, restarts, appends,
events and blob bytes) is a constant that limits what the environment does or sends; the timers and
`worker_attempts` count up to just above the limit they are compared with.

Fairness.  `PartPublication` and `SplitCommand` assume weak fairness of the
program's own steps, which are sequential code with no waiting, and of the
operator's running the job again; stops and signals are bounded and not fair.
`PartBuilder` assumes weak fairness of the loop.  `Watchdog` assumes it of the
two threads (the operating system schedules both), of the clock and of the
kernel's teardown of a dead process, and nothing of the child.
`PstWriter` assumes weak fairness of the steps of finalization and of the
validator's deadline, and nothing of the validators or their pipes.
`WorkerSupervision` assumes it of the supervisor together with the worker it
watches, which `Watchdog` justifies: an attempt makes progress or is ended.
How often workers fail is not bounded.

Every property has a mutant: a plausible bug in one definition that makes TLC
find the property violated.  The mutants are the operators preceded by a
comment that begins with `Mutant`; nothing else uses them.

## 4. Proofs

`PayloadLedgerProofs` proves, for every set of candidates and bytes and all
bounds, that the ledger's type invariant, `CommittedPayloadIntact` and
`WorkingPayloadIntact` hold in every reachable state.  The assumptions are those
named in `PayloadLedger`: the bounds are natural numbers and the batch limit is
positive.

Neither property is inductive: whether a truncation is safe depends on where
the levels above begin.  The invariant `IInv` says, for each level, that
everything that must survive its undoing ends before the offset it cuts at:
committed rows end within `synced` and before `batch.start` (`CommittedSafe`,
`BatchSafe`), the savepoint's rows before `packStart` (`CandidateSafe`), the
working rows before the open blob, whose bytes are the tail of the pack
(`BlobSafe`); `PhaseSafe` records that between the two halves of a commit the
whole pack is synchronised.  Each action has a lemma; those that close a blob,
end a candidate or fall back to the committed state share one
(`CloseBlobIInv`, `EndCandidateIInv`, `BackToCommittedIInv`).

It also proves the action and safety property `StopCostsOneBatch`.  That a
reopen is accepted is a statement about every row of the committed ledger, and
any state of the open transaction may become that ledger; so a second invariant,
`CostInv`, says it of the committed rows, of the working rows and of those at the
savepoint: a blob is there for an event, an event's blob is there, no two blobs
share a byte, and what was durable before is unchanged (`RowsInv`,
`SavepointInv`).  The number of candidates a stop loses is at most the counter of
the batch (`CountInv`), for any set of keys, infinite ones included.

`SupervisionProofs` proves of `Watchdog`, for every idle limit, every pipe capacity and both
paths, `KillAttributed`, `ExitAttributed`, `NothingLeftBehind` and
`RestartableKillsOwnChild`, and the action property `StallIsQuiet`.  The
assumptions are those named in `Watchdog`.  What a returned result says about
the child depends on the order in which the threads got there, so the invariant
`OrderInv` adds that order: the watchdog has an outcome exactly when it has returned
(`DogOrder`); a child has a status once it stopped working, is dead when
collected, and is killed only by a verdict or at the end (`ChildOrder`); an
attempt ends with the watchdog joined and the child collected, and the
restartable path collects only after the join (`SupOrder`).  `StallIsQuiet`
rests on a second invariant, `Timing`: as long as no sign of life is unseen the
idle timer is at most the quiet spell; an unseen one sits in `busy` or in the
channel, is consumed before the next sample or verdict, and lets the timer run
ahead by one tick.

Of `WorkerSupervision` it proves `CandidateOnce` and `NothingLost`, for every
source, all retry limits and batch sizes and any number of failures, kills and
resumptions.  Both compare the ledger with what one worker showed, although the
ledger also holds what earlier workers showed.  `Shown` is the part of the
ledger that this worker has gone past: it lies before the worker's place, and
its size is the worker's count (`Place`); every unit behind the worker is in the
ledger or linked to one that is (`Coverage`); `Isolation` ties the isolated units
to the failures (the unit the supervisor blames is the last one the worker
announced, whether the worker is still in it or not), and `Ending` says what the last two phases may rely on.  The
counts need that a set of candidates grows by one with each new one, from
`FiniteSetTheorems`.

`SplitCommandProofs` proves `SuccessIsEarned` and the action property
`ParsedOnce`, for every number of parts, signals and failures and for either
mode.  An invocation relies on what an earlier one left in the ledger, so the
invariant says for every stage what the stages before it have established
(`Established`, among it that the job is bound), which stages a mode has (`ModeStages`), that an intent belongs
to an unpublished part and is gone once the next invocation has opened the job
(`Intents`), that a direct job counts down to its completion (`DirectCount`),
and what is behind a report that speaks of no interruption (`Reportable`).

`PartPublicationProofs` proves `OutputAccountedFor`, `PublishedDurableInOneRun`
and the refinement of `PublishedParts`, for every finite set of items and any
number of rejections, process stops and host stops.  The invariant has four
parts beside the types: there is at most one intent, for the next index and for
items still offered (`LedgerInv`); each step of the process is about one file,
and its two halves are where that step left them (`ProcessInv`); a final file
that a host stop could bring back is also the one that is seen (`FilesInv`);
and without a process stop whatever a step relies on was synchronised before it
(`DurableInv`).  For the refinement, every action leaves `parts` alone but the
two commits, and those add one part of spooled items at a new index.

`PartBuilderProofs` proves `PartsAsReference`, for every number of messages, all
sizes, every maximum and all thresholds of the batches.  The reference and the
size of a part are recursive functions, and no installed prover uses the
library's induction theorems; the first section derives an induction principle
for sets of numbers from facts about finite sets, and with it that such a
function satisfies its equation.  The invariant says, for some number `w` of
messages: what is published is the reference for the first `w`, and none of it
grows (`Durable`); every message behind them is a candidate or was rejected
(`Run`); the open part at the checkpoint fits and is what the reference puts
behind the published parts, and so is the part as it is now unless it is too
large, which it never is in an exact replay (`Filling`); and a part is closed
only when the next message to be written does not fit (`Closed`).
The step that matters is the accepted batch: its messages were appended without
a look at the size, and the projection at its end bounds that of every prefix,
because sizes only grow.

`DirectSplitProofs` proves `DirectCutsAsReference`, `DirectFailureExplained` and
`DirectReportExact`, for every number of messages and folders, all sizes, every
maximum and every divisor of the boundary.  `Durable(n)` says that the published
parts hold the writable messages up to `n`, in order, numbered, none too large,
each begun by a message that did not fit in the one before.  `Open(n)` says that
the open part holds those after `n` up to the current message (`Content`), which
message begins it and which folders it knew then (`Beginning`), and that it is
too large only if nobody looked: projections were ruled out or its private
extent is below the boundary (`Checked`), or folders without messages joined it
at the end (`LateFolder`) or with the message that closes it (`LateHome`).

`PstWriterProofs` proves `PublishedWhole` over the whole writer, for every
set of messages and folders and every geometry.  What a step of publication may
rely on depends on which step it is, so the invariant `Inv` records for every
phase the checks behind it (`Progress`), that a file is public exactly in the
phases after the rename and in the results that say so, and then has passed
what is required (`Public`), what became of the temporary file (`Temporary`),
that a reader runs only in a reader's phase (`Reader`), and that nothing happens
to the output before the writer hands it over (`HandedOver`).  The steps of
publication end the work, advance it or leave the phase alone; each of these has
a lemma, and the steps of the writer leave the output untouched.

It also proves `ExtentPlaced`, a fact about `allocate_extent` for
every cursor, every size up to `MaxExtent` and both alignments, from
`GeometryAssumption` alone: pages are whole slots, regions whole pages, and four
map pages and any one extent fit in a region.  The proof is arithmetic on
multiples: a region starts on a page, its map pages end on one
(`ReservedEnds`), the pages that `write_allocation_pages` writes lie before that
end (`MapPagesReserved`), and what does not fit behind the maps of one region
fits behind those of the next.

`ExtentsSound` is proved for every set of messages and folders, every geometry,
and all sizes of blocks and pages.  It is about what is in use now, and a call
that fails, a measure and a batch that is taken back set the cursor back over
what was written.  The invariant `SpaceInv` says what makes that harmless:
whatever is written lies clear of the maps, in order and before the cursor
(`StreamOK`); the checkpoints of a call and of a batch name a prefix of it and a
cursor behind that prefix, and the call's is not before the batch's
(`CheckpointOK`, `SavedOK`, `BatchOK`); what a call is building are frames,
steps and queues of blocks, nested as the embedded messages are (`WorkOK`,
`Nesting`); what finalization is about to write fits, and the index pages of a
sealed file lie behind the cursor and before the end (`WritingOK`, `SealedOK`).
Every builder has a lemma that its blocks are a sequence, and a block that was
not refused has an extent that `ExtentPlaced` applies to.  `PlacedRun` repeats
that along a run.  The assumptions are those named in the modules: the geometry,
the capacities (`StructureAssumption`), what a message and a folder consist of
(`MessageAssumption`, `FolderAssumption`; an empty path is refused at
writer.rs:1986), and B-trees whose pages hold at least two references
(`WriterAssumption`).

`RowsFollowFolders` rests on `SpaceInv` and on `RowsInv`.  A row names its
folder by a node that is computed from the folders observed so far, so the proof
begins with that function: observing a folder, and messages that come and go,
never change the node of a folder (`NodeStable`), and no two observed paths have
the same (`PathNodesDiffer`: of two paths one is observed first, and what is
observed before it is a proper subset of what is observed before the other).
`RowsInv` then says that between two calls the rows are balanced with the
folders; that inside a call there is one message more than at its checkpoint,
and its row once it is placed (`Pending`); and that the checkpoints of the call
and of the batch are balanced with the rows they keep (`Held`), also after
folders were observed behind them.

`FinalizationAgrees` says that neither of the two consistency checks of
finalization ever fires.  The plan: it lists the paths of the kept folders in
the order of their keys, which is a strict total order, so that no two have the
same rank and every rank is taken (`Ranked`, `PlannedOnce`); with `RowsInv` each
planned folder finds its rows, and no row is left over (`PlanAccepted`).  The
length: the projection counts the pages of a B-tree by one recursion and the
writer lays them out by another; `PagesCounted` shows by induction that they
agree, and `Projected` carries the projection from the plan to the indexes.

`HeapPagesProofs` proves `HeapSound`, for values of any sizes, both kinds of
heap and every geometry that `HeapAssumption` allows (MaxPage is even,
the head of the heap and any one allocation leave room on a page of their own,
an allocation holds two entries of the tree: 8176, 3580, 66, 12, 8 and 6 in the
code).  `HeapSound` speaks of the finished heap, so the invariant `HeapInv` says
what the phases before keep: every page pushed so far has three bytes to spare,
and its allocations are neither empty nor too large (`PagesOK`); every
identifier handed out names its own allocation on those pages, which a push
never moves (`Names`, `Pushed`); and the k-th node of a level covers the k-th run
of entries below it, also while the level grows (`LevelOK`, `LevelWhole`).  TLC
checked `HeapInv` on the instance of the run first.  The rest is about operators:
where allocations end (`EndsAre`), how many padding allocations are enough and
that none is empty (`EnoughPadding`, `LeftIs`, `PaddingIs`; three bytes to spare
are exactly what this needs), that a padded page is exactly full and keeps what
it held (`FilledIs`), which index a value of the compact form has (`CompactIs`),
and that the page which holds a fill level has a slot for it (`LevelsAtIs`).
Recursive functions are unfolded with the induction principle that
`PartBuilderProofs` uses, too.

Writing the proofs changed the models where they could not be reasoned about or
were less than the code.  `PublishedParts` had `SUBSET Keys \ {{}}`, which
excludes the empty set from `Keys` and not the empty part; the refinement could
not be proved before the parentheses were there.  `PartBuilder` and
`DirectSplit` state their references without folds.  In `PstWriter` the
messages that may be embedded became a constant (`Bodies`), with the shape of
messages and folders as assumptions; the end of an embedded message carries the
depth of the frame it returns to; names that a message repeats are prepared
once, as in the code; what is observed before a path is an operator of its own
(`ObservedBefore`), and rows are counted as sets.  A plan with a block above the
limit is refused as too large (`"oversized"`), apart from a plan that
contradicts the rows (`"refused"`), because the code tells them apart and only
the second can be excluded for every input; and a planned folder takes its rows
away from the folders behind it, as `contents_rows.remove` does.  `HeapPages`
lacked the limit on the number of pages that an identifier can name (writer.rs
9511-9512 and 9534-9535); without it a page index is not bounded by anything.

Only model-checked:

- the liveness properties (fairness is out of the prover's reach);
- `WorkerProtocol`: the walk is a list of tasks that grows by whole lists, and
  its invariant would be about every suffix of that list;
- `MailPipeline`: what it states is about the result of recursive operators over
  one input;
- `ReferencesExact` of `PstWriter`: it counts references over blocks that nine
  builders return, each of which would need a theorem about which identifiers it
  hands out and how often it names them;

## 5. Not modelled

- libpff, SQLite, the kernel: external; only what the code can see of them is
  in the models.
- Source guard: comparisons of file metadata at single moments and a lease the
  kernel grants or refuses.  `SplitCommand` has the failure of a stage, and the
  flag that a broken lease sets.
- Values: MIME inference, code pages, rich-text conversion, property encodings,
  the bytes of pages and blocks and their checksums; the streams of the
  named-property map; frame encoding.  A size or a well-formedness bit stands
  for them where the code branches on one.
- Of validate_aggregate_properties what other rules imply: the counts of
  recipients and attachments (the shapes of their tables refuse earlier), the
  total of recipient texts, the stream of name entries (2048 of 8 bytes are
  16 KiB), the shapes of the property contexts (writer.rs 5636-5792: lengths that
  are bounded elsewhere); and the stream of GUIDs, which takes more than 1024
  property sets to fill.
- `MAX_EMBEDDED_MESSAGE_DEPTH`, messages with a
  folder identifier and no address (canonical.rs 1036-1063), the folder
  properties that `validate_completed_folder_store` compares, the heap of an
  empty table.
- Inline blobs and legacy blob files of the ledger.
- The legacy multi-message path (split.rs 2554-3036) and packing.rs: no command
  reaches them.
- Inspection, `verify`, performance metrics, disk preflight, logging, xtask.

`PROJECT.json` gives the status of every component.

## 6. Where the code and its documents disagree

One disagreement has a run of its own.  `worker_protocol_broken`:
`finish_attachment` (lib.rs:2931) records no terminal event for a complete
embedded attachment, because the row of its child will say what it holds.  A
worker that dies inside that child leaves a row which canonical.rs:832-841
refuses, and a row that cannot be assembled fails the split on every resume
(split.rs:2214-2230), where docs/PRODUCT_SPEC.md:322-323 has the parent mail
partial.

The others were met while modelling.  Where a property would be violated by one,
the property names it as an exception, and its comment says so.

Publication and the command:

- `reconcile_publications` commits a part whose directory entry nobody
  synchronised (lib.rs:4734-4750 synchronises only `manifests/`), against
  docs/WRITER_CONFORMANCE.md:361.  `PublishedDurableInOneRun` is about
  publications that are not interrupted.
- A host stop may take the staged sidecar of a renamed PST; if another stop cuts
  the sidecar that `reconcile_publications` then writes (lib.rs:4735), the torn
  file is refused at every later open (lib.rs:4729-4733) and the job never
  finishes.  The same refusal meets a part of the item above whose file was lost.
  `EveryItemDisposed` names both (`SidecarTorn`, `FileLost`).
- A run stopped after the job directory was made and before its source, mode
  and configuration are recorded (recovery.rs:310-333) leaves a job that a new
  run refuses as existing (lib.rs:531-539) and a resume as incomplete
  (lib.rs:4078-4093), where docs/PRODUCT_SPEC.md:445 has interrupted restartable
  jobs resumable.  `SplitFinishes` names it (`Unresumable`).
- A signal during publication exits with 4, not 130 (split.rs:2437;
  PRODUCT_SPEC.md:172-173).
- The report of an interrupted direct job is refused by `pstforge report`,
  because the attempt is not recorded (split.rs:1797), and so is that of a
  restartable job interrupted after the interrupted row was cleared
  (split.rs:2481; the next resume repairs it).
- A resume with `--keep-work` does not retry a pending compaction (lib.rs:1027).
- The watchdog looks at the interrupt flag only when no frame arrives for
  100 ms, so a worker that streams steadily is not terminated by an interrupt
  until it pauses or ends (recovery.rs:842).
- The direct path collects the child before it stops the watchdog, which may
  then signal a process ID that was given back (recovery.rs:672, 695).
  `RestartableKillsOwnChild` states that the other path does not.

Recovery:

- The worker flushes its output when it announces a unit (worker.rs:1578-1582)
  and not when it ends one (worker.rs:1599-1601; the buffer is that of main.rs:21
  of the command).  A crash or a stall between two units is therefore blamed on
  the one that was finished, which is isolated with whatever of it was still in
  the buffer and, if it is a folder, with everything below it, where
  .agent/EXECPLAN.md:6013-6014 has "isolate an exact damaged unit".
  `NothingLost` names it (`unheard`): a unit without a failure may be isolated,
  and it is always the one announced last.
- Isolating a folder unit hides its durable messages from the worker but leaves
  them in the replay list, and every later attempt fails (recovery.rs:341-348).
- A message linked in two folders can be recorded under both, since the visited
  identifiers do not survive an attempt (catalog.rs:975).
- An attachment whose data and properties are both put off is sent in the other
  order than the writer asks for it (catalog.rs:1379-1389, 1469; worker.rs:1141);
  a direct split then fails.  A deferred payload that cannot be read, a limit
  exceeded inside an embedded message and a root folder that cannot be read
  also end in a refused stream.  `RefusalExplained` names these cases.
- Children of a row with status `unsupported` are followed as if it were the
  top (canonical.rs:309-320, lib.rs:1983), and the tree is refused as a whole.
- Mail without a folder takes the role of Deleted Items when the store has no
  such folder, since None equals None (canonical.rs:935), and the writer refuses
  two folders of that role.  `AssembledAsRecorded` names both.

Direct mode:

- `begin_direct_part` uses the folder list without the filter that later
  observations have, so one refused folder fails the split (split.rs:1021,
  1421-1423; 1721-1757).
- Empty folders first seen after part 1 closed are counted but in no part
  (split.rs:1736-1741); folders added after the last projection can push part 1
  over the maximum.  So can the folder of the very message that closes it: it is
  observed on the open part before the message is projected (split.rs:1493-1503),
  part 1 keeps it although it holds nothing, and a part that was exactly full
  fails the split (split.rs:1099).  `DirectFailureExplained` names both.

Mail that is refused or loses something where the documents promise less
(PRODUCT_SPEC.md:321-322); `RefusalKnown` and `OmissionsCounted` name them:

- an empty body property, a body identifier with a scalar type, 0x0E30, 0x0E33
  and 0x0E34 of another type, a recipient with an empty name;
- a text above 2048 UTF-16 units: class, subject, sender, recipient, file name,
  any other text of an attachment, or the name of a property (writer.rs:5816-5833,
  6004, 6293, 6457), where the catalog takes strings of 1 MiB (catalog.rs:14);
- more than 510 recipients, and attachments whose rows and file names do not fit
  in one page (writer.rs:5576-5634): about 130 of them with short names;
- in a message and the ones it holds together: more than 2048 properties, more
  than 128 MiB of values kept in memory, content within its overhead of
  `i32::MAX`, more than 16 KiB of property names (writer.rs:5361-5554);
- a streamed plain body above a quarter of the reader's 64 MiB makes the check
  of the finished part fail (writer.rs:7331);
- a second 0x3007 or 0x3008 replaces the first, one of a wrong type is marked
  partial and not counted; provider type, permissions and path of an attachment
  by value are dropped;
- the folder depth limit is off by one between the list and a message
  (canonical.rs:1007), and a message under a nested 0x8022 gets another folder
  than the list has.  `FoldersAgree` is stated for stores without one.

Writer (docs/WRITER_CONFORMANCE.md): a compact heap does not enforce the
allocation limit (396); more than 2047 small allocations on a page are refused
rather than moved to the next (410), and so is a table with more than 2043
variable values (1022 child folders, 511 recipients), which the external form
would hold (writer.rs:10957, 10661: the compact attempt runs first and its error
is not the one that leads to the external form); a rollback leaves bytes behind the cursor
and named identities in the catalog (368); templates of a store hold rows (511);
the attachment table has no external form, and the subnodes of one attachment
no second block.

## 7. Plan

1. Done: every protocol component, the writer and the mail pipeline are
   modelled and checked; proofs for the ledger, publication, both builders, the
   split command, the watchdog, the supervision, heaps, the publication of a store,
   and of the writer the extents, the rows and the agreement of finalization.
2. Left: `ReferencesExact`, beginning with the identifiers: every builder hands
   out those from its first to the next one, each once, and a checkpoint cuts
   both the identifiers and what is written.  The graph of references comes
   after that.
3. Left: `WorkerProtocol` and the measure of a message, whose invariants would
   be about a whole list of steps to come.
