# A verification of ccx-exporter

ccx-exporter reads the events of the assisted installer from Kafka, anonymises
and projects them, and writes them to S3 for the CCX data pipeline. This
directory holds TLA+ models of it, TLC configurations that check them on small
instances, and TLAPS proofs for all instances of every safety property.
`PROJECT.json` ties every definition to source lines, every property to the
hazards it is about and to a mutation of the code that breaks it.

    tlc -config MCJSONHandler_safety.cfg MCJSONHandler
    tlapm JSONHandlerProofs.tla

## The system

One binary, `ccx-exporter process`, deployed as one or more pods. Inside a pod:

| Component | State | Operations | Talks to |
|---|---|---|---|
| Runner and handler (`pkg/pipeline/runner.go`, `handler.go`, `cmd/.../process.go`) | the root context, the session's context, one goroutine per claimed partition | `Run`, `ConsumeClaim`, `processError`, signal handler | Kafka group (sarama), the two pipelines |
| Pipelines (`pkg/pipeline/processing.go`, `internal/factory/processing.go`) | prometheus counters and histograms | panic, count, late, duration, retry, parallel decorators | main processing, dead letter queue |
| Main processing (`internal/processing`) | none | `processClusterEvent`, `processClusterState`, `processHostState`, `processInfraEnv`, under a 4 s timeout | host repository, writers |
| Host repository (`internal/domain/repo/host`) | a Valkey hash per cluster, a TTL per hash | `WriteHostState` (HSET, EXPIRE), `GetHostStates` (HGETALL) | Valkey, shared by all pods |
| Writers (`internal/domain/repo/projectedevent`) | objects in several buckets | `WriteProjected...` in an errgroup | S3 |
| Dead letter queue (`internal/domain/repo/processingerror`) | one object per failed message | `WriteProcessingError` | S3 |
| Late data (`internal/processing/late.go`) | a counter | `computeDeadline` | a clock |
| Process command (`cmd/.../process.go`, `internal/config`, `internal/factory`) | the configuration and its credentials, what is to be closed, the metrics server | parse, open, run, close, exit | mounted secrets, Kafka, Valkey, the Deployment |
| Mirroring script (`scripts/sync.sh`, run by a CronJob) | an rclone configuration | list, compare, transfer | the exporter's bucket, a destination bucket |
| Clients, logging | none | | |

A message goes through these steps: it is received with a live context,
unmarshalled, processed, and marked; if processing fails and the context is
still alive, it is reported to the dead letter queue (or else dumped in the
log), and marked. Marks are committed to Kafka in the background and at the end
of the session. Delivery is therefore at least once, and everything downstream
has to live with messages that come again, out of a crash, a rebalance, or from
a pod that has not noticed yet that it lost its partition.

What is hard here, and hard to test:

* cancellation between a check of the context and its use (`processError`);
* commits, marks and positions under crashes, fencing and lost commits;
* two commands of Valkey with the clock and other writers in between;
* one bucket that fails, is late, or never answers, while the others go on;
* a cluster state whose hosts are read before it is written, under replays;
* unlimited retries, panics and cancellation against the metrics;
* day boundaries, and a clock read after the write;
* secrets read file by file while they are rotated, signals at any point of the
  start or of the end, a process that must release what it opened and come back;
* a mirror listed, compared by size and copied while its source is written, and
  writers that share a bucket.

`PROJECT.json` lists these hazards one by one, at their lines.

## The modules

| Module | Models | Composition |
|---|---|---|
| `DeliveryContract` | what the consumer promises: messages are handled in order, offsets only move forward over handled messages | abstract specification |
| `HostStore` | what the host store promises: hosts come one at a time and go with their cluster, never while one of them is owed | abstract specification |
| `JSONHandler` | runner, handler, signals, the life of pods, the consumer group | implements `DeliveryContract` |
| `JSONHandlerProofs` | theorems about `JSONHandler` | |
| `MainProcessing` | one partition end to end: the events, the host store, the buckets, reports, commits, replays | composes the summaries of the others; implements `HostStore` |
| `MainProcessingProofs` | theorems about `MainProcessing` | |
| `HostRepo` | the two commands of `WriteHostState`, TTL, clock | details the host write of `MainProcessing`; implements `HostStore` |
| `HostRepoProofs` | theorems about `HostRepo` | |
| `ParallelWriter` | one write to all buckets: errgroup, timeout, requests in flight | details the put of `MainProcessing` |
| `ParallelWriterProofs` | theorems about `ParallelWriter` | |
| `Pipeline` | the decorators around processing and reporting, and the metrics | details `ProcessFails`, `ReportFails`... of `JSONHandler` |
| `PipelineProofs` | theorems about `Pipeline` | |
| `LateData` | `CountLateData` and the downstream job it is about | |
| `LateDataProofs` | theorems about `LateData` | |
| `ProcessCmd` | a process from the parsing of its configuration to its exit, and its restarts | `JSONHandler` details its phase `run` |
| `ProcessCmdProofs` | theorems about `ProcessCmd` | |
| `Keys` | ids, object keys, prefixes and directories, as operators | used by `Mirror` |
| `Mirror` | the exporter's buckets, and the job that copies them | uses `Keys` for the puts of all writers |
| `MirrorProofs` | theorems about `Mirror` | |
| `MC*` | constants for TLC | |

Definitions named "Mutant" in their comment are plausible bugs. They are not
part of any specification: each replaces the definition that follows it, and
breaks the property that `PROJECT.json` associates with it.

### JSONHandler

The state is Kafka's (`committed`, `owner`), each process's (`pod`, `mainDone`,
`sessDone`), each claim's (`claims`, `stage`, `next`, `marked`), and what became
of each message (`projected`, `deadLettered`, `dumped`). `stage` is the place of
`ConsumeClaim` between two steps another goroutine could see: every call that
takes time (`Process`, the error pipeline, `MarkMessage`) is an action, and so is
every check of the context. `Process` and the error pipeline return nil or an
error after any delay. Sarama and the broker are modelled from their use: a
session has a context that ends with a rebalance or the root context, the offset
manager keeps the highest mark, a commit is refused for a partition that was
given away, the last commit of a session may be lost.

The environment disrupts: a rebalance, a signal, a kill (or a second signal), a
`Consume` that fails, a fencing where a pod goes on working on partitions it no
longer owns. Their number is bounded by `MaxDisruptions`; nothing else is.

### MainProcessing

One partition holds a log, one of `Logs`. A consumer processes its messages in
order; at any time it may crash and start again from the committed offset, or
another consumer may take over while the first goes on (`Takeover`, bounded by
`MaxTakeovers`). A HostState sets its host in the store, possibly although the
write fails; a ClusterState takes the store's hosts, then puts its object bucket
by bucket, or is rejected with its hosts; an Event or InfraEnv is put alone. The
hosts that were read stay in hand until the message is done, reported or not.
Payloads are abstract: a message is acceptable or not, its `id` stands for the
hash in its object key, and its object is known by the hosts it contains, as the
offsets they come from. Requests that land after they were given up are left to
`ParallelWriter`.

### HostRepo

`hosts[k]` and `ttl[k]` are a Valkey hash and its time to live, in the seconds
that `Expire().Seconds(...)` sends. A worker is between two commands in stages
`hset` and `expire`. A refused command restarts the write (it is the only
retryable kind, with TRYAGAIN), another failure ends it with the command applied
or not. `fresh`, `orphaned` and `raced` record what was promised, for the
properties.

### ParallelWriter

Each bucket's goroutine sends its PUT unless the group's context is done, and
ends with nil or an error; `groupErr` is errgroup's first error. S3 stores a
request at any time after it was sent, answered or not, even once the call has
ended and the next attempt is under way.

### Pipeline

One goroutine, and the counters of its process. Each `Process` or report is seen
at the level of the decorators: what they count and observe, whether they retry,
and what the handler does with the result. `MaxAttempt = 0` is what
`RetryConfig{}` means: no limit.

### LateData

Time is discrete: `InstantsPerDay` instants, the first of which is midnight and
`LastRun` 2PM. The downstream job exports, at 2PM, what is stored of the day
before. The count comes after the write, at a later time. `NoSilentLateData`
says that what no run exported was counted, once its run is over. `LateIsFinal`
says that what was counted is not exported by any run that comes after the count.
It does not say that the metric raises no false alarm, which the code does: an
object that is written before 2PM, exported at 2PM, and counted by a
`computeDeadline` that reads the clock after 2PM, is counted as late although the
run of its day had it. The instant of midnight itself is late a day too early, as
`computeDeadline` is compared with `After`; `LateIsFinal` excepts it. No line of
the repository says that either should be otherwise.

### ProcessCmd

`pc` is the place of the main goroutine. `parse` reads the secrets of the
configured buckets, file by file (`ReadFile`), while they are rotated, and fails
(`ParseFails`) on a file that is missing, as on a configuration file that cannot
be read or has an unknown encoder (`conf.file`); the other
phases open the metrics server and the clients, in the order of the code.
`open` holds the clients that are open, `deferred` the calls that will close
them: the two are not the same in `CreateValkeyClient`, which opens a client
(`NewValkeyClient`), then pings with the root context. If the ping fails
(`PingFails`: Valkey is gone, or a signal came), the client is returned to nobody
and closed by nobody; `pingFailed` records it. Whatever makes `Run` return, the
deferred calls run last to first, the metrics server's with a graceful timeout,
and the process exits with code 0; a failed parse, a signal before the handler
is installed, or a second one, exit with 1 and close nothing. The goroutine of
the metrics server listens when it is scheduled, perhaps after `Shutdown`.
`stale` and `torn` record the rotations that happened after and during the
reading of a secret. The broker's authentication and the configured one are part
of `conf`; `CreateKafkaConsumer` leaves SASL out when one credential is missing.

### Keys and Mirror

A text is a sequence of words and a key the sequence of its segments, so that a
prefix with a slash at its end and one without are different, as they are for
the code: the exporter concatenates, `sync.sh` adds a slash first. Ids are what
is hashed. A time and a number are one word each: no time is the beginning of
another one, since it ends with its `Z`, nor does a partition run into an offset,
since a dash separates them.

In `Mirror` writers (outputs and the dead letter queue) share a bucket and put
objects under their prefixes, again and again, with any size. A job reads its
configuration, lists and compares by size, and transfers each object as it is by
then; a transfer fails alone, the job as a whole, and is retried up to
`BackoffLimit`. rclone is external and modelled from its options in the script.

## The runs

| Run | Instance | Shows |
|---|---|---|
| `consumer_safety` | 2 pods, 1 partition, 2 messages (one malformed), 3 disruptions | nothing committed is unhandled, no owner works below the commit, `SessionInv` is what the proofs take it to be, the contract is implemented |
| `consumer_liveness` | 2 pods, 2 partitions, 1 message each, 1 disruption, fair | everything ends up committed; a signal stops a pod |
| `cancelled_report` | 1 pod, 2 disruptions | violation: a report that fails because of a cancellation is marked |
| `replays` | 2 consumers, 1 takeover, 2 buckets, 2 hosts, 3 logs of 4 messages | end-to-end delivery; the store and the hosts of an object or of a report are up to date; buckets that differ leave a trace; the store is used as `HostStore` says |
| `same_state_again` | a cluster state pushed twice | violation: the object of an id changes |
| `host_repo` | 2 workers, 2 hosts, TTL of 3.5 s | a host is only lost by the race; TTLs cover promises; no key is forgotten; `HostStore` is implemented |
| `insert_and_read` | the same | violation: a write returns nil, the host is gone |
| `buckets` | 3 buckets, 2 attempts, fair | nil means stored everywhere; the root cause is reported; buckets agree after successes; the call ends |
| `late_data` | 4 days of 4 instants | no object is missed silently; what was counted as late is not exported afterwards |
| `pipelines` | 3 deliveries of any kind, fair | outcomes and metrics add up; retryable errors are not reported; cancellation ends retries |
| `process_life` | 1 output and the dead letter queue, 2 files per secret, 1 rotation of each once it is mounted, 2 signals, 1 outage, fair | credentials are whole and current unless rotated; an exit with code 0 leaves nothing open but a Valkey client whose ping failed; a signal ends the process; it consumes again once it can |
| `mirror` | 3 writers of a bucket with prefixes `out/` and `out`, a job for `out/`, `out` or no prefix, 3 puts, 1 retry | a successful job has mirrored what it listed, up to size; the mirror holds nothing else; messages do not share objects, ambiguous events excepted |

Bounds. Two pods are enough to have an owner and one that lost the partition;
two messages, to have one skipped or abandoned and a later one marked; three
disruptions, for a fencing, a rebalance of the new owner and a kill. The
liveness run has one disruption but two partitions, so that the group can be
unbalanced. Three buckets separate the first error, a sibling and a bucket
already written; two attempts, a late request from the current one. The logs of
`replays` are: two versions of a host around two deliveries of a cluster state;
a cluster state that is rejected with its two hosts, then an event; an infra env
and a rejected event around a host and a cluster state. One cluster is enough,
as keys of the store are independent; one takeover is enough for a crash with a
replay or for two consumers at once. A day of four
instants has one before 2PM, 2PM, one after, and midnight; four days leave room
for events of two days before.

Deadlock is checked, except in `ParallelWriter`, `LateData` and `Mirror`, which
stop when their attempts, their clock, or their puts and jobs reach the bound. `JSONHandler` and
`MainProcessing` stutter explicitly (`Drained`) once the log is consumed: the
program then blocks on its channels.

Fairness. In `JSONHandler`, goroutines are scheduled, and a message in hand does
not stay there: an attempt has 4 seconds, an outage of Valkey that is retried
ends, and an S3 client gives up. The deployment restarts pods, the broker expires
members and the group redistributes partitions. Nothing is assumed of
disruptions, and none is needed for a session to end other than the ones the
code reacts to. In `ParallelWriter` only the clock and the process's own
goroutines are fair, S3 is not. In `Pipeline` an attempt ends (its timeout), a
report is only sure to end once its context is cancelled, and the `select` of
retry-go between its timer and the context is strongly fair, since Go chooses at
random among ready cases. In `ProcessCmd` the main goroutine goes on (its calls
are bounded in time, the shutdown by `gracefulDuration`), the Deployment starts
an exited process again, and setting the limits of the container, which the code
treats as fatal, does not fail for ever; services, secrets and signals owe
nothing, `Recovers` only asks for progress once they are there for good.
`HostRepo`, `MainProcessing`, `LateData` and `Mirror` are checked for safety only
and assume no fairness.

## The proofs

Every proof is for all values of the constants that satisfy the assumption its
module declares, which TLC evaluates on each run. The inductive invariants were
model-checked on the instances of the runs before they were proved.

`JSONHandlerProofs` is for all pods, partitions, log lengths, malformed messages
and numbers of disruptions, under `ConstantsAssumption`. The invariant is
`IInv == TypeOK /\ CommittedHandled /\ SessionInv`. `CommittedHandled` alone is
not inductive: a commit stores marks, so marks must be over handled messages
(`MarksHandled`); a mark is the position plus one, so everything before the
position must be handled as long as messages are received or worked on
(`PositionHandled`), except after a message was abandoned, where `sessDone`
guarantees that nothing is received any more; the message in hand must itself be
handled when it is marked (`InHandPending`); and a member that still owns a
partition must have marked what is committed (`CommitBehindMarks`), or its commit
would move the offset back. One lemma per family of actions (`ClaimStepInv`,
`GroupStepInv`, `DisruptionInv`) has one step per action; `FrameInv` and
`QuietInv` deal with what an action does not touch. From it:

* `TypeCorrect`, `NothingLost`, `SessionsSound`, `NoCommittedRedelivery`;
* `ImplementsContract`: initial states and steps of the consumer map to
  `DeliveryContract`, so in-order first handling and monotonic commits hold of
  every behaviour.

`HostRepoProofs` is for all workers, clusters, hosts and expirations, under
`RepoAssumption`. `RepoInv` adds to `LostOnlyByExpiryRace` that a write between
its commands has its host stored unless the key expired under it
(`PendingWriteStored`), and that the TTL of a key covers every promise made for
its hosts (`TtlCoversWrites`). From it `LossIsTheRace` and `ExpirationCovers`;
`NoKeyForgotten` is a second invariant over the first. `ImplementsStore` maps
each step to `HostStore`: a HSET is a `Write`, an EXPIRE a `Promise`
(`PendingWriteStored` says that its host is there, or lost to the race and not
owed), a key that expires is a `Forget`, to which nothing was owed
(`TtlCoversWrites`).

`MainProcessingProofs` is for all consumers, clusters, hosts, buckets and logs.
The properties of `MainProcessing` speak of the committed offset and, as long as
only owners wrote, of what is stored; none is inductive. `ProcessingInv` states
each of them of the position of a consumer: all it went past is handled, and
each bucket it is done with has the object in hand (`HandledInv`); the store is
not behind the owner (`LatestInv`); the buckets that the owner has written hold
its projection, and two that differ have a message that the owner will write
again or that is reported (`TracedInv`). `ShapeInv` says what a consumer has in
hand at each stage, and that the owner is past the committed offset, from which
`NothingIsLost`, `NewestHostStays`, `NoHostMissed` and `BucketsReconcile` follow.
`MessagesUseStore` is the refinement of `HostStore`. The assumption that
`Nothing` is no map of hosts to offsets says that "no object" and an object are
different things.

`ParallelWriterProofs` is for all buckets and numbers of attempts. `WriterInv`
relates the goroutines to what S3 stored and to the error of the group
(`CallInv`), numbers the requests S3 may still deal with (`RequestInv`), and says
that until a call fails only the current one has requests in flight
(`ContentInv`): a request that lands late can then not undo a newer object. It
gives `NilIsEverywhere`, `FirstErrorIsCause` and `SuccessesAgree`.

`PipelineProofs`: the sums only hold between two deliveries. `PipelineInv` counts
the delivery in flight, and whether its processing has failed, in each of them,
and gives `EveryDeliveryEnds` and `MetricsAgree` for any limit of attempts.
`TransientFailuresRetried` has the hypothesis `MaxAttempt = 0`, which is what the
code configures (`RetryConfig{}`); with a limit the property is false.

`LateDataProofs` is for any events, day and hour of the last run. It is about the
division of time into days: `LateInv` adds that the first day is over, so that
there is a deadline to compute; `WithinDay`, `DaysApart`... relate instants, days and
deadlines, and `NothingLateIsSilent` compares the deadline with the instant of
the last run that exports a day. `LateStaysOut` is an action property; the
invariant it needs is `CountedOver`: the last run for what was counted is over
when it is counted, midnight sharp excepted.

`ProcessCmdProofs` is for any sequence of buckets (with repetitions: two outputs
may be one bucket) and of fields. `PhaseInv` says what is deferred at each point of
`Run`, and `OpenInv` that the clients that are open are those, with the one that
`CreateValkeyClient` has opened and not returned; they give
`NothingElseLeftOpen`. `SecretsComplete` needs, of the files read so
far, that they are loaded from the current generation unless the secret is stale
(`ReadInv`), and that a secret that is not torn has one generation (`WholeInv`),
where the bucket whose files are being read is set apart: that of the files
already read must still be the mounted one. The lemmas on files turn the position
in the parsing into a bucket and a field. At least one generation, one output and
one field are assumed; the code requires them.

`MirrorProofs` is for any writers, prefixes, messages, sizes and retries. The
first half is about `Keys`: the elements of a key, replacing a prefix and back
(`MirrorBack`), the directory of a prefix that ends with a slash (`KeyType`), and
that two keys are the same only if prefix and message are (`KeysApart`): paths of
projections and of reports have different lengths, so the word of the day would
have to be a type, and paths of the same kind agree segment by segment. It
assumes of messages what the code puts in a key (`EventMessage`, `StateMessage`,
`ReportMessage`), and that no type reads like a day of the month. `MirrorInv` says
that objects are at the key of their message and only get newer (`BucketInv`),
that what was listed is still there (`ListInv`), that what is not to be
transferred any more is up to size unless a transfer failed (`CopyInv`), and how
many attempts there were (`AttemptInv`). It gives `SuccessMeansMirrored`,
`PathsMirrored` and, as an action property, `ObjectsStayApart`.

Only model-checked: all liveness (`EventuallyCommitted`, `SignalStopsPod`,
`CallEnds`, `CancelEndsDelivery`, `SignalEnds`, `Recovers`), which rests on
fairness and is out of the prover's reach; and the three counterexamples below,
which are runs of TLC.

## Where code, comments and tests disagree

* `cancelled_report`: `processError` says that with a cancelled context the
  offset is not committed and the message is reprocessed. The context is checked
  once, before the report; cancelled during the report, the message is dumped in
  the log and its offset marked.
* `insert_and_read`: `EXPIRE` answers 0 when the key is gone, the code ignores
  the answer, and a host whose write returned nil cannot be read.
* `same_state_again`: the hosts are sorted "to have a deterministic
  cluster_state_id", but the id is the hash of the event without its hosts; the
  same event pushed again later overwrites the object with other hosts, where
  the end-to-end test of idempotency expects a stable content.

More was met that no line of the repository contradicts. It is no finding, and
the properties that come near it except it by name:

* a Valkey client whose ping failed stays open until the process ends
  (`Abandoned`, in `CleanExit`);
* an object that is exported between its write and its count is counted as late,
  and so is one of midnight sharp (`LateIsFinal`, see above);
* a secret that is rotated while it is read, or since, leaves a process with
  mixed or old credentials (`torn` and `stale`, in `CredentialsLoaded`);
* with a broker that asks for SASL and a credential missing, each start fails and
  the process exits with code 0, again and again (`Recovers` only asks something
  of a configuration the broker accepts);
* events whose time, cluster and message read the same end to end share an object
  (`Ambiguous`, in `OneMessagePerObject`);
* a mirrored object that was overwritten by one of the same size is not copied
  again (`UpToSize`), and a prefix without a slash at its end names other objects
  for the exporter than for the job (`SeesOutputs`, both in `MirroredUpToSize`);
* with the metrics port taken, the process consumes without metrics, and with an
  expiration of 0 no host survives its write: no property speaks of them.

Those that no property covers at all are listed in `PROJECT.json` without one,
each with its reason.

## Not modelled

The fields of payloads, date formats and host inventories, whose conversions
change no state: a message is accepted or not. MD5 and JSON are taken as
injective. The content of dead letter objects, except for the hosts that travel
with an error; labels of metrics and limits of histogram buckets; the values of
the configuration that no property tells apart; the Kafka client id, the SCRAM
conversation, the options of the client libraries, the logger, the mocks. What
rclone does inside a transfer (multi-part uploads, its own retries, its
concurrency limit). A panic in a goroutine of an errgroup, which no decorator
recovers, is a kill of the process. Commands to Valkey that take effect after
they were given up, and after a later command, are not considered. Several
partitions that share a cluster are not composed: `HostRepo` has the concurrent
writers of a cluster, `MainProcessing` one partition.

## Plan

1. Done: consumer and contract, with proofs; host repository and host store,
   with proofs; bucket writer; pipelines; late data; one partition end to end;
   the process and its configuration; keys and the mirroring job.
2. Done: an inductive invariant and a proof for every safety property and both
   refinements.
3. Worth doing next: from `SuccessMeansMirrored` and `BucketsReconcile`, what a
   mirror may lack of a whole topic; that `ParallelWriter` implements the put of
   `MainProcessing`, and `HostRepo` its host write, as refinements rather than as
   details kept in line by hand.
