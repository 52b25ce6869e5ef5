# Chyme in TLA+

Chyme indexes the objects of S3 buckets in Redis, turns them into tasks on an
SQS queue, and runs each task as a Docker container on one of many worker
machines. This directory models the parts of it that carry its logic, checks
them with TLC on small instances and proves the main safety properties with
TLAPS for every size. Paths below are relative to `src/`.

    indexer --SADD--> resource set --SPOP--> tasker --SendMessage--> SQS queue
    (HTTP)             (Redis)      <--SADD--  |                        |
                                              SADD                ReceiveMessage
                                               v                        v
                                            task set                 worker --> dead
                                            (Redis)      S3, host directories   letter
                                                         and Docker containers  queue

## 1. Inventory

| component | state | operations | hard behaviour |
|---|---|---|---|
| worker main loop (`cmd/worker.go`) | the context, the signal channel, `errCh` | poll loop, `cancelOnSignal`, exit | `os.Exit` under running goroutines; one reader takes one error |
| worker service (`internal/worker/service.go`) | `inProcess`, one goroutine and one timer per message | `Poll`, `processMessage`, `Process` | goroutines, timeout against completion, cancellation, clean-up after errors, a panic that ends everything |
| state persister (`internal/worker/persistance.go`) | `.chstate.json` in the task's workspace | `Persist`, `Load` | written on cancellation only; nothing loads it |
| task queue (`internal/core/task.go`, `pkg/aws/sqs.go`) | SQS messages, receipts, the dead letter queue, `Task.isDeleted` | `Enqueue`, `Dequeue`, `Delete`, `Fail` | redelivery, stale receipts, lost replies, a delete and a send that are not atomic |
| tasker (`cmd/tasker.go`, `internal/tasker/service.go`) | the slice being worked through | `Poll`, `CreateTasks`, `enqueueTasks` | the deferred return of what is left; failures between three stores; several taskers |
| templates (`internal/tasker/template*`) | none | the task for a resource | at most one matches |
| resource and task sets (`internal/core/resource.go`, `task.go`) | two Redis sets | `Pop`, `Add`, `Count`, bulk insert | shared by every process |
| ingest service (`internal/ingest`) | none between requests | `Ingest`, `ingestPrefix` | what an answer promises |
| bulk inserter (`internal/core/resource.go`) | a `redis-cli --pipe` | `Insert`, `Close` | concurrent writers, a child process that dies |
| S3 bucket (`pkg/aws/s3.go`) | the objects | `ListObjects`, uploads, downloads, `DeletePrefix` | a tree of goroutines under nested errgroups; truncated listings; listings that are old when used; uploads of many files |
| task loader, resource loaders (`internal/core/task.go`, `loader.go`) | the workspace of a task | `CreateWorkspace`, `Download`, `Upload`, `Clean` | directories and keys shared by every attempt at the task; an output directory that nothing clears before a run; a delete before the upload that replaces |
| Docker executor (`internal/core/executor_docker.go`) | containers named by the task's hash | `Execute`, `Clean` | adopted containers, name conflicts, timeouts, nil results |
| container images (`images/`) | `/in`, `/out` | the processing scripts | status 0 whatever happened |
| hooks, hashing, counters, configuration and clients | | | see section 8 |

What makes each correct:

- worker and queue: work is not lost without a trace, however calls, goroutines
  and processes fail; a task is not failed and live at once; attempts at one
  message do not overlap where the queue keeps its word; the bookkeeping in
  `inProcess` follows the goroutines; every attempt ends;
- tasker: no resource is lost between Redis and SQS while Redis answers;
  failures alone make duplicates, and boundedly many; the task set names only
  tasks that were sent; every ingested resource comes to its turn;
- indexer: an answer without an error means that the selection is indexed;
  nothing outside it is; every request is answered;
- task host: an upload has all that the attempt's own container made of the
  whole input, and files of an earlier one only where that attempt failed or
  died; attempts leave nothing behind and do not stand in one another's way;
- loader and bucket: an answer without an error means that all was sent or
  fetched; what is stored is absent only between an upload's delete and its put,
  or after that upload failed or died; an upload leaves other keys alone;
- the whole: a resource that was ingested is in Redis, on its way, on the queue
  or answered by an attempt, and comes to be answered; a task is worked on twice
  at once only for a cause; what a request was answered without an error for is
  not lost on the way, and nothing is worked on that no request selected.

`PROJECT.json` lists the hazards behind these, each at its line.

## 2. Modules

| module | models | extended by |
|---|---|---|
| `TaskQueue` | a standard SQS queue as `sqs.go` calls it, and the dead letter queue | `Worker` |
| `Worker` | worker processes, their goroutines, timers, signals, crashes | `MCWorker`, `WorkerProofs` |
| `Tasker` | taskers between the Redis sets and the queue | `TaskerProofs` |
| `Delivery` | the abstract promise: at-least-once delivery of what was ingested | `DeliveryProofs` |
| `Pipeline` | taskers and workers on one queue, and the mapping to `Delivery` | `MCPipeline`, `PipelineProofs` |
| `Indexer` | one request to the ingest service: lister, bulk inserter, answer | `MCIndexer`, `IndexerProofs` |
| `Chyme` | the whole: a request, `Pipeline` behind it, and the resource set between them | `MCChyme`, `ChymeProofs` |
| `Ingestion` | the abstract promise of a request: one answer, and what it is worth | `Indexer` (instance) |
| `TaskHost` | what attempts at one task do to workspace, container and output | `TaskHostProofs` |
| `Loader` | uploads and downloads between directories or files and a bucket | `MCLoader`, `LoaderProofs` |

`Worker` composes the worker with the queue: its actions conjoin `TaskQueue`'s.
`Pipeline` extends `Worker` and instantiates `Tasker` on the same queue: a
tasker's send is a worker's message. `Delivery` is instantiated in `Pipeline`.
`Chyme` extends `Pipeline` and instantiates `Indexer`: what a request inserts is
what is ingested.
`TaskHost` opens what `Worker` keeps closed: there the stages of `Process` have
outcomes, here they have effects, and the worker's control is reduced to their
order. `Loader` opens the calls of `TaskHost` that reach S3, with names. The
operators whose comment begins with "Mutated form of" belong to no
specification. Each is a plausible slip in the action below it, kept to show
that a property notices it.

### Correspondence to the code

**TaskQueue.** A message is one `SendMessage`. Each `ReceiveMessage` returns a
fresh receipt, so that a receipt names one delivery. `DeleteMessage` with an
older receipt is answered with OK and may do nothing, which is what SQS
documents. The dead letter queue is the set of receipts whose task was sent to
it.

**Worker.** A goroutine of `service.Poll` is named by its receipt; `pc` is its
place in `processMessage`, `stage` the `ProcessStage` inside `Process`. `Begin`
is the part before the timer starts (hooks, remaining time, `AfterFunc`).
`CreateWorkspace`, `Download`, `Execute` and `Upload` either fall through to the
next stage, end with an error, or end because the context was canceled. `Clean`
is both `Clean` calls, `FailDelete` and `FailSend` are the two halves of `Fail`,
`Delete` and `TimerDeletes` the two callers of the idempotent `Delete`, `Report`
the send on `errCh`, `Clear` the goroutine's `clearInProcess`. `Kill` is any end
of the process (`os.Exit`, panic, crash): `live` loses its goroutines, `pc` and
`stage` keep what they had reached. Time is the flag `due` (less than ten
seconds are left of `message.Timeout`). `Disruptions` selects what may go wrong:
signals, crashes, infrastructure errors of the executor (which panic), failing
SQS calls whose request or only reply is lost.

**Tasker.** `pc` is the control of `CreateTasks`, `sources` its slice, `source`
the resource whose task is being enqueued. `Poll` is `SPOP` of a batch;
`Enqueue` and `Record` are the two calls of `enqueueTasks`; `Fail` is its error
return and `Requeue` the deferred `Add`. Every call has a failing twin whose
effect may have taken place all the same. `faults` counts the failures of the
queue and the task set, which the code answers by a retry, and `losses` those of
the resource set and deaths of a tasker, which it does not. `Faults` selects the
kinds of failure and `MaxFaults` bounds the number of both. A template is chosen
by the resource's extension, so that a resource has one task.

**Indexer.** A behaviour is one request. `listing` and `visiting` are the
goroutines that `lister.list` has started and the errgroups wait for; `Listed`
is the return of the outermost `Wait`. `List` reads one page of one prefix: the
code never asks for the next one, and passes the parent's continuation token
down (`ForeignToken`). `Apply`, `CliEnds` and `CliDies` are the `redis-cli`
process; `Count` is `Close`, whose error is dropped, and `SCARD`. To its client
the request is one of `Ingestion`: `asked` is what the filter and the depth
select, `inserted` is the same in both, `cut` says that a level in depth was
truncated or redis-cli died, and `answer` is the phase once there is one. The
walk and its goroutines are stutters; what redis-cli works off are the steps.

**TaskHost.** An attempt is one goroutine of one delivery of the task. The
input directory is not there, empty, or holds a part or everything. Of the
output, `own` is what the container last started on it has made: nothing yet, a
part, all of it (`"full"`), or what is left when it has read the whole input and
ended with status 0 although a tool failed (`"short"`): the images' scripts look
at no tool's status. `stale` says that there may be files of a container before
it, for `Download` clears the input directory only and `CreateWorkspace` keeps
what is there. `shouldRemove` is `CH_WORKER_DOCKER_REMOVE`: without it `Clean`
leaves the container, which the next attempt at the task finds. `maker`
stands for the container's id. An attempt takes whatever container bears the
name (`FindContainer`) and does not start it. `WaitContainer` waits as Docker's
"not-running" condition does. A panic of one attempt ends the process and all
active attempts; containers go on. A canceled attempt (`Canceled`) ends without
a clean-up, and its container goes on as well. `crossed` records that attempts
overlapped.

**Pipeline.** Every step is one of `Worker`'s with the taskers unchanged or one
of `Tasker`'s with the workers unchanged, except that `Enqueue`, or an
`EnqueueFails` that took place after all, also puts a message on the queue.
`sent` is no variable here: it counts the messages sent. The refinement mapping
to `Delivery` is six operators, computed from the stores and the control:

| of `Delivery` | in `Pipeline` |
|---|---|
| `submitted` | resources a template knows that were ever ingested |
| `pending` | those in the resource set, or in a tasker's slice |
| `unrecorded` | those some tasker has sent and not yet recorded |
| `lossy` | a call of the resource set failed, or a tasker died (`losses > 0`) |
| `queued` | messages visible or in flight |
| `answered` | messages some receipt of which accounts for: complete, dead letter, timed out, or failing |

`Delivery` allows a job to be sent again while it is pending, and allows
`Retry` as long as a send is unrecorded: that is the at-least-once of
`CreateTasks` and its defer. `Lose` is the one step that forgets pending jobs:
a popped batch lives in the tasker's slice alone, and goes with it. A message
leaves the queue only when it is answered.

**Chyme.** `Request` is a step of `Indexer`; where it inserts a resource (`Add`,
or a `SADD` that redis-cli works off) the same step is `Pipeline`'s `Ingest` of
it. `OtherRequest` is what requests beside it add (`Others`). `Working` is a step
of the taskers or the workers, which no request hears of. The three share the
resource set and nothing else, as the processes do.

**Loader.** A client is one call of `Upload` or `Download`; `call` says which
combination of prefix or object with directory or file it is, and which files
are at its path already. `bucket` maps a key to whose call wrote its object.
`local` follows each file of a download: `Create` opens one for every object,
making it (`"empty"`) or keeping what is in it (`"kept"`), for nothing is
truncated; after the fetch it has its object whole, or an older file's tail
behind it (`"torn"`). A directory's files are sent one by one and
an error does not stop the rest, as the upload manager does; an object is
deleted if it is there (`Look`, `Delete`) before the file is opened (`Open`) and
sent (`Put`). `Listing` is what `ListObjects` visits for a depth: the prefix
never reaches S3 (`s3.go:77`), so that it is the root, and nothing for the depth
0 that `Upload` passes to `DeletePrefix`. The tasks that the templates of today
make use an object's download and a prefix's upload; `Loader` has every
combination that `loader.go` implements.

## 3. Runs

| run | question | instance | distinct states |
|---|---|---|---|
| `worker_disrupted` | With signals, crashes, panics, failing SQS calls and early redelivery: is a message that left the queue accounted for, is a dead letter exclusive, does `inProcess` follow the goroutines? | 1 host, 1 message, 2 deliveries | 2,264,465 |
| `worker_live` | With failing SQS calls: is a message settled in the end, does every attempt end or wait on `errCh`? | 1 host, 1 message, 2 deliveries | 250,976 |
| `tasker_faulty` | Are duplicates bounded by failures, recorded tasks sent, resources kept while the resource set answers, and does every ingest become a message? | 2 taskers, 3 resources (one without a template, one ingested twice), batches of 2, 2 faults of any kind | 86,743 |
| `indexer_walk` | Is the answer right, is there one, and is it final (`Ingestion`)? | every request to 5 prefixes in 4 levels with 6 objects, one level truncated, one object filtered out, depths 0 to 4 | 23,250 |
| `task_host_shared` | Is the upload right, is anything left, does every attempt end? | 3 attempts, 1 fault, tools that fail unnoticed, containers removed or not | 1,796,227 |
| `loader` | Does an answer without an error mean that all was sent or fetched, does what is stored stay, are other keys left alone? | every pair of calls at once, onto files that are there or not, 1 prefix beside the root, 2 names, 2 faults | 670,172 |
| `pipeline` | Do taskers and workers implement `Delivery`; do no more attempts at a task run at once than it has causes, and never two on one message? | 1 tasker, 1 host, 1 ingest, 1 failing call of any store or death of the tasker, 2 messages, 2 deliveries, crashes of the worker | 1,255,767 |
| `chyme` | Is what a request was answered for kept; is only what was selected sent? | every request to 2 prefixes with 3 objects, one of them filtered out and added by another request, depths 0 and 1; 1 tasker, 1 host, 1 failing call or death of the tasker, failing S3, Redis and redis-cli, 2 messages, 1 delivery | 838,368 |
| `pipeline_live` | Is an ingest answered by a message of its own? | 1 tasker, 1 host, 1 ingest, 1 message, 2 deliveries, crashes of the worker | 237,476 |

Three runs show where the program does not do what its comments say:

| run | property | what TLC shows |
|---|---|---|
| `worker_exit_loses_task` | `NoTaskVanishes` | `Fail` deletes the message and then sends it to the dead letter queue (`task.go:133-137`). A signal lets the main loop call `os.Exit(0)` between the two, and the task is in neither. |
| `indexer_prefix` | `IndexesItsPrefix` | `ListObjects` leaves the prefix out of its request (`s3.go:77`): the whole bucket is walked from its root. |
| `task_host_created` | `CompleteIsProcessed` | The worker dies between `ContainerCreate` and `ContainerStart`. The container that was created and never started is adopted by the next attempt and "waited for" at once (`executor_docker.go:80`): the task completes with an empty output. A start that the daemon refuses ends the same way, unless Docker gives the container a status for it (`ExecuteFails` has both). The property speaks of the default, containers that are removed. |

### Why the bounds are enough

- Deliveries: every interaction between attempts in `Worker` is between an
  attempt and the one that superseded it, or between two attempts of one task;
  two receipts give both. The bound on deliveries is a disjunct of
  `EventuallySettled` and of `EveryIngestIsAnswered`, because a behaviour that
  has used up its receipts cannot say more. Several hosts differ from one only
  in `inProcess` and the context, which the runs exercise by restarts; the
  theorems hold for any number. `Garbled` and `Unhooked` are empty in the runs.
  A garbled message's action, `PollDrops`, is taken for lost replies; a task
  without hooks fails as one with an error does. The theorems hold for any sets.
- Pipeline: a message for each ingest and each call that may be retried
  (`EnoughMessages`), so that a send is never blocked for want of one. One
  failing call gives the duplicate that `OverlapHasCause` speaks of; two
  deliveries are one of each of the two messages, or both of one. Resources no
  template knows are `tasker_faulty`'s; signals and failing SQS calls of the
  worker are `worker_disrupted`'s, and the refinement is proved for them.
- Chyme: what is new here is the seam, so that each part is as small as lets it
  matter. Of the two jobs one lies at the requested depth and one below it; an
  object that the filter rejects comes from another request, so that the tasker
  works on something the request did not insert. The failures of the parts are
  all there, and so is a tasker that pops while the walk goes on. Disruptions of
  the worker are `pipeline`'s and `worker_disrupted`'s; the theorems about
  `Chyme` have them all.
- Loader: two clients are the fewest that race for a key, and every property
  speaks of one call and what another may do to it. One prefix beside the root
  tells a listing of the root from one of the prefix; two names let one file of
  a directory fail and the other succeed, or be there before and the other not. Two faults let a client die after
  another's call failed.
- Tasker: two taskers are the fewest that can take one another's members. A
  batch of two of three resources leaves one behind, and has one or two that a
  template knows, so that a failure comes before, between and after its tasks.
  One resource is ingested twice (`Repeated`), and may so come again while
  another tasker holds it. Two faults let a requeue fail after an enqueue failed.
  `Malformed` is empty in the runs: `Pop` drops such a URL and nothing comes of
  it; the theorems hold for any set.
- Indexer: the tree has a branch to each side of the requested depth, an empty
  prefix, a prefix below a truncated level, and the request's depth runs from
  none at all past the leaves.
- Task host: three attempts let one begin on what two others left, overlapping
  or not. One fault is one failing call, failing container, timeout or death at
  every place there is. A tool that fails in a script is no fault, and may fail
  in every container. `CH_WORKER_DOCKER_REMOVE` has both values in the run:
  without it the container stays.

Deadlock checking is off in every run: each model is bounded (deliveries,
ingests, attempts, one request) and stops when the bound is used up, and the
worker may really stop for good in front of `errCh` (`AttemptsEnd` says so).

## 4. Fairness

- `Worker`: weak fairness of the main loop's steps (a long poll returns), of
  every goroutine (the calls of the AWS and Docker clients return, the
  container's by its timeout), of the clock and the timers. Strong fairness of
  a message's delivery: an available message may be handed to others again and
  again, and is not withheld for ever. No fairness of restarts, signals or
  crashes.
- `Tasker`: weak fairness of each tasker's work (the ticker ticks and calls
  return); `EveryIngestIsEnqueued` assumes one tasker that stays up. `SPOP` is
  random; weak fairness suffices because a tick takes a whole batch and each
  fault is one of a bounded number.
- `Pipeline`: that of its parts, and no more; `EveryIngestIsAnswered` assumes
  one tasker and one host that stay up from some time on. A host may crash and
  start again any number of times before.
- `Indexer`: weak fairness of the handler, the lister's goroutines and
  `redis-cli`.
- `TaskHost`: weak fairness of each attempt's own calls and of the container's
  end. `killContainer` is not relied upon.

## 5. Proofs

Each proof module holds for every value of the constants, under the assumptions
named in the module it extends (disjoint sentinels, `Attempts \in Nat`, a finite
set of taskers, a tree of prefixes). A theorem that needs a quieter environment
says so in its own premises: `AttemptsDoNotOverlap` and `OverlapsHaveCauses` (no
early redelivery, SQS answers). The refinement has no such premise: it holds with
every failure and every crash.

**WorkerProofs.** `Typed` adds to the types what an attempt has established by
the place it has reached (a goroutine that deletes has completed its upload, one
that fails has an error). `NothingIsLostSilently` and
`DeadLettersAreExclusive` are inductive relative to it.
So is `InProcessFollows`, split into one lemma for each of its halves.
`AttemptsDoNotOverlap` (no early redelivery, SQS answers) rests on
`HoldsLatest`: an attempt inside `Process` holds the latest receipt of its
message, which is gone or has a timer that is still to delete it; an attempt
that has time left to enter `Process` holds its latest receipt. It
says no more than that: the timer stops with `Process`, so that a message may be
delivered again while an attempt is still cleaning up, and `TaskHost` lets
attempts overlap.

**TaskerProofs.** `Typed` says what control knows of the slice (`Slice`): it is
empty between polls and holds the source at hand during a call.
`OnlySentIsRecorded` and `DuplicatesAreBounded` hold with every fault, for any
number of taskers; the latter counts the slices that still hold a resource,
which takes the library's facts on cardinalities. `NothingIsLost` and
`RecordingCatchesUp` speak of behaviours in which nothing has failed yet that
the code does not retry (`losses = 0`).

**PipelineProofs.** Every step of the composition is a step of `Worker` or
leaves its variables alone (`WorkersWork`), and the same of `Tasker`
(`TaskersWork`), where the work is that counting the messages of a job goes up
by one with each send. Invariants of the parts then hold of the whole
(`PipelineLosesNothing`, `PipelineConserves`). `OverlapsHaveCauses` puts three
of them together: attempts at work on a task have a message each (`NoOverlap`
makes the map from attempts to messages one to one), all of which were sent
(`OnlySentIsHandedOut`), and there are no more of those than ingests and retried
calls (`DuplicatesNeedFaults`). `PipelineImplementsDelivery`
is the step simulation: ingests, sends, what a tasker does beside a send,
records, losses and the workers' steps each have a lemma that names the step of
`Delivery` they are, or the stutter. It rests on the conservation of resources,
as long as nothing was lost, and on `NoSilentLoss`, without which a message could
leave the queue unanswered. `PipelineKeepsJobs` and `PipelineSendsOnlyIngested`
carry what `DeliveryProofs` shows of `Delivery` (`NoJobLost`, `NothingUnasked`)
back through the mapping.

**ChymeProofs.** `Chyme` refines both of its parts (`RequestsIndex`,
`RequestsFeed`), so that their theorems hold of it, the two refinements first
(`ChymeKeepsItsPromises`). What is left to prove is that the parts speak of the
same resources: `Agrees`, inductive relative to their invariants, says that what
the request has inserted was ingested, and that what was ingested was inserted by
it or by others. `AnswersAreKept` then is a chain of
three: an answer without an error means that the selection was inserted
(`OkMeansIndexed`), so it was ingested (`Agrees`), so it is pending, queued or
answered (`NoJobLost`). `OnlySelectedIsWorkedOn` is the chain in the other
direction, `NothingUnasked`, `Agrees`, `OnlyWanted`.

**LoaderProofs.** `Typed` says which request has led a client to its place and
that a directory upload has only targets left to send. `BucketStep` sums up what
a step may do to the bucket: nothing, a write to a target of the client, or the
delete ahead of its own put. `OnlyTargetsChange` follows. `SentStays` and
`SentIsNew` are `StoredStays` and `StoredIsSent` of every file that was sent so
far, which makes them inductive; `Awaited` says that a file as it was opened is
to be fetched yet, that a torn one was there before, or that the call will not
end well.

**IndexerProofs.** `OkMeansIndexed` speaks of the end of a walk. `Walked` says
what holds in the middle: there is a set of prefixes that are done, whose
sub-prefixes are done or listed next, and whose accepted objects are written or
visited next. When nothing is left to list, that set and the prefixes below the
depth are closed under sub-prefixes, and `ReachableAssumption` (every prefix lies
below the root) makes it the whole bucket. This takes the place of an induction
over the tree. A request for a single resource has no walk: `Single`
says that what it inserted is its target, and `Added` that a walk inserts nothing
that was not written to `redis-cli`. `RequestImplementsIngestion` adds what the
steps do: an answer follows no other, and an insertion no answer without an
error. A panic of the root's listing is an answer too, so that it takes `Rooted`,
that the root is listed before anything else has happened.

**TaskHostProofs.** `Owned` follows an attempt that is alone, from the file in
its input directory to the listing of its output. `Tidy` says that such an
attempt finds no file in the output directory as long as none before it has
failed or died, so that what it starts a container on is empty; together they
give `OwnRuns`. `Kept` names, in every interleaving without a fault or a panic,
the attempt that is still to clean up for the directories and, if it is to be
removed, the container, and gives `NothingStays`. `Smooth` adds that nothing has
gone wrong on the host yet, and that a container which is not removed
(`Leftover`) belongs to a task that was delivered: an attempt that adopts it
uploads nothing. It gives `OnlyTroubleFails`.

Each of these invariants was checked with TLC before it was proved.

## 6. Only model-checked

The liveness properties (`EventuallySettled`, `AttemptsEnd` in two modules,
`EveryIngestIsEnqueued`, `EveryRequestIsAnswered`, `EveryIngestIsAnswered`), for
TLAPS has no rule for liveness under fairness that the installed provers could
use; and the three violations, which are counterexamples. That the whole
comes to an end has no run of its own: `EveryRequestIsAnswered` and
`EveryIngestIsAnswered` say it of the parts, and neither part can hold up the
other, for they share only a set that both may always add to.

## 7. Abstractions a reader should know

- A task is its hash: two messages with one task share `inProcess`, workspace
  and container. Tasks carry no further data.
- An infrastructure error of the executor comes with a nil result, and the line
  after the one that collects it reads `result.Err` (`service.go:161-162`): the
  process ends, and with it every task on it. `ExecutePanics` of `Worker` and
  `Panic` of `TaskHost` are this end; their properties say what holds beside it.
- In `Worker`, a lost reply and a lost request are both one failing call.
  A batch is one message, as `Poll` asks for one.
- In `Tasker`, the slice is a set: `SPOP` returns its members in random order
  and each is taken once. The popped URLs that do not parse are dropped, as
  `Pop` does.
- In `Indexer`, a write to the pipe is one step: `Insert` makes one `Write` of a
  whole command, and the file's lock keeps it whole. A panic in a request's own
  goroutine is recovered by `net/http` and counts as the answer `aborted`.
- In `Pipeline`, a task is named by the resource it was made of: templates make
  one task of a resource and take input and output from its URL. Which of the
  messages is sent is immaterial and left open.
- In `Loader`, an object is whose call wrote it, and objects have no length: a
  file that was there may be longer than the object, or not. Prefixes are one level deep: `DownloadPrefix` allows
  no more, and a directory's subdirectories would only be longer names.
  A download's files are made in one step, for nothing else looks at them. A
  listing that fails at the root panics (`CallFails`), and its client is dead.
- In `TaskHost`, the output has no names: the upload is nothing, a part or the
  whole of it, and files of two uploads are not told apart. What stale files lie
  beside a container's own output the code does not know either, and it uploads
  them: `OwnRunIsUploaded` says when there can be any. Failures of Docker end the
  process, by way of `result.Err`, and count as an end in `AttemptsEnd`.
- `redis-cli --pipe` is started without a host (`resource.go:90`) and so reaches
  the Redis of the indexer's own machine; the models take it to be the one that
  the taskers and `Count` use.

## 8. Not modelled

- `Persister.Load`, `DequeueAll`, `MessageCount`, `TaskRepository.Remove`,
  `Exists` and `CheckCapacity` of the loaders: nothing calls them. (`Size` of a
  prefix, which `CheckCapacity` would ask for, lists at depth 0 and is always 0.)
  The in-process notification channel is never set.
- The metadata stage, the hooks' bodies and the loggers: `makeResult` names no
  metadata paths, so that `UploadMetadata` uploads nothing; the hooks print a
  line. `Upload` is always called without metadata, so that no `tw-metadata`
  object is written.
- The batches of a thousand keys in `DeletePrefix`: it lists nothing, so that
  there is never one. For the same reason what an earlier upload left under a
  prefix stays there beside the new objects, although the caller asks for its
  removal (`remove`); `OnlyTargets` states the other half, that nothing else is
  deleted.
- `DownloadPrefix` fetches the objects at the root of the bucket whatever its
  prefix; `FetchedIsWhole` speaks of what was listed, not of what was meant.
- The command-line client (`cmd/ingest.go:60-92`): it posts a request and keeps
  no state. It makes errors of a failed post, of a status and of the answer, but
  uses none of them, and prints success in any case, so that the promise of
  `OkMeansIndexed` reaches a reader of the HTTP answer and not its user.
- The registry of loaders, the phony loader and `Tag`, which do nothing.
- `pkg/hash` is pure and sequential; every module takes a task for its hash.
  `pkg/util` counts bytes that its callers drop.
- Templates and configuration are data; ffmpeg, the extractor, Redis, Vault and
  the SDKs are outside.
- The content of the state file: it is opened without truncation, but never
  read.

## 9. State of the plan

The modules, runs and proofs the project set out to have are there: the parts
(`TaskQueue`, `Worker`, `Tasker`, `Indexer`, `TaskHost`, `Loader`), their
composition and its refinement (`Pipeline`, `Delivery`), and the whole
(`Chyme`, with `Ingestion` at its front). What would add to it:

1. Attempts at one task over `Loader`'s bucket: `TaskHost` with names, where two
   attempts' uploads to one prefix mix.
