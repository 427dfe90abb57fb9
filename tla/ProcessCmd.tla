------------------------------ MODULE ProcessCmd ------------------------------
(***************************************************************************)
(* The life of one process: `ccx-exporter process` (cmd/.../process.go),   *)
(* its configuration (internal/config) and its clients (internal/factory). *)
(*                                                                         *)
(* PreRunE parses the configuration: defaults, file and environment, then  *)
(* the mounted secret of each bucket, one file after the other.  Run       *)
(* installs the signal handler, starts the metrics server, creates the     *)
(* clients and runs the consumer; what it opened is closed by the deferred *)
(* calls, last opened first.  The deployment starts the process again.     *)
(* JSONHandler.tla has what happens between "run" and the end of Run.      *)
(***************************************************************************)
EXTENDS Naturals, Sequences, FiniteSets

CONSTANTS Outputs,        \* the buckets of output.s3, in order
          Dlq,            \* the bucket of the dead letter queue
          Fields,         \* the files of a secret, in the order they are read
          MaxGeneration,  \* bound on the rotations of a secret
          MaxSignals,     \* bound on the signals sent
          MaxOutages      \* bound on the outages of Kafka and Valkey

RangeOf(s) == {s[i] : i \in 1 .. Len(s)}
Bucket == RangeOf(Outputs) \cup {Dlq}
Field == RangeOf(Fields)

ASSUME CommandAssumption ==
    /\ Outputs \in Seq(Bucket) \ {<<>>} /\ Fields \in Seq(Field) \ {<<>>}
    /\ MaxGeneration \in Nat \ {0} /\ MaxSignals \in Nat /\ MaxOutages \in Nat

VARIABLES conf,           \* the configuration file and environment
          secret,         \* secret[m]: generation mounted, 0: a file is missing
          down,           \* services that cannot be reached
          pc,             \* where the process is
          read,           \* secret files read so far
          loaded,         \* loaded[m][f]: generation in use, 0: none
          stale,          \* secrets rotated after one of their files was read
          torn,           \* secrets rotated between two reads of their files
          deferred,       \* what Run is to close, last opened last
          open,           \* clients that are open
          pingFailed,     \* history: the start gave up on a ping
          server,         \* the metrics server
          scraped,        \* a scrape is being answered
          cancelled,      \* the root context is cancelled
          exitCode,       \* of the last process
          signals, outages

configVars == <<read, loaded, stale, torn>>
serverVars == <<server, scraped>>
openVars == <<deferred, open, pingFailed>>
boundVars == <<signals, outages>>
envVars == <<conf, secret, down, boundVars>>
vars == <<envVars, configVars, pc, openVars, serverVars, cancelled, exitCode>>

Service == {"kafka", "valkey"}
Phase == {"parse", "metrics", "kafka", "dlq", "valkey", "ping", "outputs", "run",
          "return", "shutdown", "exited"}

\* The configured buckets, in the order their secrets are loaded.
Configured == SubSeq(Outputs, 1, conf.outputs) \o <<Dlq>>
Files == Len(Configured) * Len(Fields)

\* The n-th file, counting from 0: a bucket's files before the next bucket's.
FileBucket(n) == Configured[(n \div Len(Fields)) + 1]
FileField(n) == Fields[(n % Len(Fields)) + 1]

ReadFrom(m) == \E n \in 0 .. read - 1 : FileBucket(n) = m
ReadNext(m) == pc = "parse" /\ read < Files /\ FileBucket(read) = m

\* CreateKafkaConsumer: SASL only if it is asked for and both are there, else
\* none, silently.  The broker wants one or the other.
UsesSasl == conf.scram = "complete"
Authenticates == conf.brokerSasl = UsesSasl

NothingLoaded == [m \in Bucket |-> [f \in Field |-> 0]]

Conf == [file : {"valid", "unreadable", "wrong encoder"},
         outputs : 0 .. Len(Outputs), brokerSasl : BOOLEAN,
         scram : {"not asked for", "partial", "complete"}]

Init ==
    /\ conf \in Conf
    /\ secret \in [Bucket -> {0, 1}]
    /\ down \in SUBSET Service
    /\ pc = "parse"
    /\ read = 0
    /\ loaded = NothingLoaded
    /\ stale = {} /\ torn = {}
    /\ deferred = <<>> /\ open = {} /\ pingFailed = FALSE
    /\ server = "none" /\ scraped = FALSE
    /\ cancelled = FALSE
    /\ exitCode = 0
    /\ signals = 0 /\ outages = 0

-------------------------------------------------------------------------------
(* PreRunE: config.Parse.                                                  *)

Exits(code) ==
    /\ pc' = "exited"
    /\ exitCode' = code

\* Mutant: the fields of a nested struct (Creds) are not loaded.
ReadTopLevelFile ==
    /\ pc = "parse" /\ read < Files
    /\ conf.file # "unreadable" /\ secret[FileBucket(read)] > 0
    /\ read' = read + 1
    /\ loaded' = IF FileField(read) = Fields[Len(Fields)] THEN loaded
                 ELSE [loaded EXCEPT ![FileBucket(read)][FileField(read)] =
                         secret[FileBucket(read)]]
    /\ UNCHANGED <<envVars, stale, torn, pc, openVars, serverVars, cancelled,
                   exitCode>>

\* loadSecretRecursive: one file of a secret, over what the configuration says.
ReadFile ==
    /\ pc = "parse" /\ read < Files
    /\ conf.file # "unreadable" /\ secret[FileBucket(read)] > 0
    /\ read' = read + 1
    /\ loaded' = [loaded EXCEPT ![FileBucket(read)][FileField(read)] =
                    secret[FileBucket(read)]]
    /\ UNCHANGED <<envVars, stale, torn, pc, openVars, serverVars, cancelled,
                   exitCode>>

\* The configuration file cannot be read, or not into the configuration; a file
\* of a secret is missing; the logger does not know its encoder: the command
\* ends with an error, before Run.
ParseFails ==
    /\ pc = "parse"
    /\ \/ conf.file = "unreadable"
       \/ read < Files /\ secret[FileBucket(read)] = 0
       \/ read = Files /\ conf.file = "wrong encoder"
    /\ Exits(1)
    /\ UNCHANGED <<envVars, configVars, openVars, serverVars, cancelled>>

\* Run starts: from here on signals are handled.
Parsed ==
    /\ pc = "parse" /\ read = Files /\ conf.file = "valid"
    /\ pc' = "metrics"
    /\ UNCHANGED <<envVars, configVars, openVars, serverVars, cancelled, exitCode>>

-------------------------------------------------------------------------------
(* Run: open, consume, close.                                              *)

StartMetrics ==
    /\ pc = "metrics"
    /\ server' = "starting"
    /\ deferred' = Append(deferred, "metrics")
    /\ pc' = "kafka"
    /\ UNCHANGED <<envVars, configVars, open, pingFailed, scraped, cancelled, exitCode>>

\* Max procs or the memory limit could not be set.
SetLimitsFails ==
    /\ pc = "metrics"
    /\ pc' = "return"
    /\ UNCHANGED <<envVars, configVars, openVars, serverVars, cancelled, exitCode>>

\* The goroutine of the server: the port may be taken, which is only logged.
Listen ==
    /\ server = "starting" /\ pc # "exited"
    /\ server' \in {"listening", "broken"}
    /\ UNCHANGED <<envVars, configVars, pc, openVars, scraped, cancelled, exitCode>>

\* Mutant: what is opened first is closed first.
DefersToCloseFirst(name, next) ==
    /\ deferred' = <<name>> \o deferred
    /\ pc' = next
    /\ UNCHANGED <<envVars, configVars, pingFailed, serverVars, cancelled, exitCode>>

\* A client was returned to Run, which defers its Close.
Defers(name, next) ==
    /\ deferred' = Append(deferred, name)
    /\ pc' = next
    /\ UNCHANGED <<envVars, configVars, pingFailed, serverVars, cancelled, exitCode>>

CreateKafkaConsumer ==
    /\ pc = "kafka"
    /\ "kafka" \notin down /\ Authenticates
    /\ open' = open \cup {"kafka"}
    /\ Defers("kafka", "dlq")

\* CreateValkeyClient connects first, without a context.
NewValkeyClient ==
    /\ pc = "valkey"
    /\ "valkey" \notin down
    /\ open' = open \cup {"valkey"}
    /\ pc' = "ping"
    /\ UNCHANGED <<envVars, configVars, deferred, pingFailed, serverVars,
                   cancelled, exitCode>>

\* It then pings with the root context, and returns the client.
PingValkey ==
    /\ pc = "ping"
    /\ "valkey" \notin down /\ ~cancelled
    /\ Defers("valkey", "outputs")
    /\ UNCHANGED open

\* Or it returns an error only: nobody closes the client, and Run returns.
PingFails ==
    /\ pc = "ping"
    /\ "valkey" \in down \/ cancelled
    /\ pingFailed' = TRUE
    /\ pc' = "return"
    /\ UNCHANGED <<envVars, configVars, deferred, open, serverVars, cancelled,
                   exitCode>>

\* S3 clients connect to nothing; the SDK may give up with the root context.
CreateS3Clients ==
    /\ \/ pc = "dlq" /\ pc' = "valkey"
       \/ pc = "outputs" /\ conf.outputs > 0 /\ pc' = "run"
    /\ UNCHANGED <<envVars, configVars, openVars, serverVars, cancelled, exitCode>>

StartFails ==
    \/ pc = "kafka" /\ ("kafka" \in down \/ ~Authenticates)
    \/ pc = "valkey" /\ "valkey" \in down
    \/ pc = "outputs" /\ conf.outputs = 0
    \/ pc \in {"dlq", "outputs"} /\ cancelled

\* Mutant: the failure is logged with Fatal, which runs no deferred call.
FatalStart ==
    /\ StartFails
    /\ Exits(0)
    /\ UNCHANGED <<envVars, configVars, openVars, serverVars, cancelled>>

\* The failure is logged, and Run returns.
ReturnFromStart ==
    /\ StartFails
    /\ pc' = "return"
    /\ UNCHANGED <<envVars, configVars, openVars, serverVars, cancelled, exitCode>>

\* runner.Run consumes, see JSONHandler.tla: nothing changes here.
Consume == pc = "run" /\ UNCHANGED vars

\* runner.Run returns: the root context is cancelled, or Consume failed, which
\* is logged.
RunnerReturns ==
    /\ pc = "run"
    /\ cancelled \/ "kafka" \in down
    /\ pc' = "return"
    /\ UNCHANGED <<envVars, configVars, openVars, serverVars, cancelled, exitCode>>

Pop == deferred' = SubSeq(deferred, 1, Len(deferred) - 1)
LastOpened == deferred[Len(deferred)]

\* The clients are closed.
CloseClient ==
    /\ pc = "return"
    /\ deferred # <<>> /\ LastOpened \in Service
    /\ Pop
    /\ open' = open \ {LastOpened}
    /\ UNCHANGED <<envVars, configVars, pc, pingFailed, serverVars, cancelled, exitCode>>

\* Shutdown closes the listener, or prevents ListenAndServe from opening it.
Shutdown ==
    /\ pc = "return"
    /\ deferred # <<>> /\ LastOpened = "metrics"
    /\ server' = "closed"
    /\ pc' = "shutdown"
    /\ UNCHANGED <<envVars, configVars, openVars, scraped, cancelled, exitCode>>

\* Mutant: Shutdown with the root context instead of one with a timeout.
ShutdownWaits ==
    /\ pc = "shutdown"
    /\ ~scraped
    /\ Pop
    /\ pc' = "return"
    /\ UNCHANGED <<envVars, configVars, open, pingFailed, serverVars, cancelled, exitCode>>

\* It returns when all requests are answered, or after gracefulDuration.
ShutdownReturns ==
    /\ pc = "shutdown"
    /\ Pop
    /\ pc' = "return"
    /\ UNCHANGED <<envVars, configVars, open, pingFailed, serverVars, cancelled, exitCode>>

\* Whatever made Run return, the process ends with code 0.
Exit ==
    /\ pc = "return"
    /\ deferred = <<>>
    /\ Exits(0)
    /\ UNCHANGED <<envVars, configVars, openVars, serverVars, cancelled>>

Step ==
    \/ ReadFile \/ ParseFails \/ Parsed
    \/ StartMetrics \/ CreateKafkaConsumer
    \/ NewValkeyClient \/ PingValkey \/ PingFails
    \/ CreateS3Clients \/ ReturnFromStart
    \/ RunnerReturns
    \/ CloseClient \/ Shutdown \/ ShutdownReturns \/ Exit

-------------------------------------------------------------------------------
(* The signals, the deployment and the environment.                        *)

Kills(code) ==
    /\ Exits(code)
    /\ UNCHANGED <<configVars, openVars, serverVars, cancelled>>

\* Without a handler a signal ends the process.  The first one that is handled
\* cancels the root context, the second one exits at once.
Signal ==
    /\ pc # "exited"
    /\ signals < MaxSignals
    /\ signals' = signals + 1
    /\ \/ pc = "parse" /\ Kills(1)
       \/ pc # "parse" /\ ~cancelled /\ cancelled' = TRUE
          /\ UNCHANGED <<configVars, pc, openVars, serverVars, exitCode>>
       \/ pc # "parse" /\ cancelled /\ Kills(1)
    /\ UNCHANGED <<conf, secret, down, outages>>

StartAgain ==
    /\ pc' = "parse"
    /\ read' = 0
    /\ loaded' = NothingLoaded
    /\ stale' = {} /\ torn' = {}
    /\ deferred' = <<>> /\ open' = {} /\ pingFailed' = FALSE
    /\ server' = "none" /\ scraped' = FALSE
    /\ cancelled' = FALSE
    /\ UNCHANGED <<envVars, exitCode>>

\* Mutant: the process is only started again after a failure.
RestartOnFailure ==
    /\ pc = "exited" /\ exitCode # 0
    /\ StartAgain

\* The Deployment starts the process again, with any exit code.
Restart ==
    /\ pc = "exited"
    /\ StartAgain

\* Prometheus reads the metrics, and may never end to.
Scrape ==
    /\ server = "listening" /\ pc # "exited"
    /\ scraped' = ~scraped
    /\ UNCHANGED <<envVars, configVars, pc, openVars, server, cancelled, exitCode>>

\* A secret is created or rotated: all its files change at once.
Rotate(m) ==
    /\ secret[m] < MaxGeneration
    /\ secret' = [secret EXCEPT ![m] = @ + 1]
    /\ stale' = IF ReadFrom(m) THEN stale \cup {m} ELSE stale
    /\ torn' = IF ReadFrom(m) /\ ReadNext(m) THEN torn \cup {m} ELSE torn
    /\ UNCHANGED <<conf, down, boundVars, pc, read, loaded, openVars, serverVars,
                   cancelled, exitCode>>

Break(s) ==
    /\ s \notin down
    /\ outages < MaxOutages
    /\ outages' = outages + 1
    /\ down' = down \cup {s}
    /\ UNCHANGED <<conf, secret, signals, configVars, pc, openVars, serverVars,
                   cancelled, exitCode>>

Repair(s) ==
    /\ s \in down
    /\ down' = down \ {s}
    /\ UNCHANGED <<conf, secret, boundVars, configVars, pc, openVars, serverVars,
                   cancelled, exitCode>>

Next ==
    \/ Step
    \/ SetLimitsFails
    \/ Listen
    \/ Consume
    \/ Signal
    \/ Restart
    \/ Scrape
    \/ \E m \in Bucket : Rotate(m)
    \/ \E s \in Service : Break(s) \/ Repair(s)

\* The process runs, its calls are bounded in time, and the deployment works;
\* setting the limits of a container fails for a while at most.
Fairness ==
    /\ WF_vars(Step)
    /\ WF_vars(Restart)
    /\ SF_vars(StartMetrics)

Spec == Init /\ [][Next]_vars /\ Fairness

-------------------------------------------------------------------------------
(* Properties.                                                             *)

\* What is deferred is in the order in which it was opened.
Deferrable == {SubSeq(<<"metrics", "kafka", "valkey">>, 1, n) : n \in 0 .. 3}

\* Every variable has its type.
TypeOK ==
    /\ conf \in Conf
    /\ secret \in [Bucket -> 0 .. MaxGeneration]
    /\ down \subseteq Service
    /\ pc \in Phase
    /\ read \in 0 .. Files
    /\ loaded \in [Bucket -> [Field -> 0 .. MaxGeneration]]
    /\ stale \subseteq Bucket /\ torn \subseteq stale
    /\ deferred \in Deferrable /\ open \subseteq Service /\ pingFailed \in BOOLEAN
    /\ server \in {"none", "starting", "listening", "broken", "closed"}
    /\ scraped \in BOOLEAN /\ cancelled \in BOOLEAN
    /\ exitCode \in {0, 1}
    /\ signals \in 0 .. MaxSignals /\ outages \in 0 .. MaxOutages

\* Once the configuration is parsed, each configured bucket has every field of
\* its secret: the current ones unless the secret was rotated since it was
\* read, and of one generation unless it was rotated while it was read, when
\* the code may use a key of one generation with the secret of another.
CredentialsLoaded ==
    pc \notin {"parse", "exited"} =>
        \A m \in RangeOf(Configured) :
            /\ \A f \in Field : loaded[m][f] > 0
            /\ m \notin stale => \A f \in Field : loaded[m][f] = secret[m]
            /\ m \notin torn => \A f, g \in Field : loaded[m][f] = loaded[m][g]

\* Run gave up on a client that was open already, and cannot close.
Abandoned == IF pingFailed THEN {"valkey"} ELSE {}

\* A process that ends with code 0, however far it came and whatever failed,
\* has closed the clients it opened, and leaves no metrics server behind, not
\* even one whose goroutine had not listened yet when Run returned.  It may only
\* leave the Valkey client of which the ping failed, which CreateValkeyClient
\* neither closes nor returns.
CleanExit ==
    pc = "exited" /\ exitCode = 0 =>
        open \subseteq Abandoned /\ server \notin {"starting", "listening"}

\* A signal ends the process, wherever it is, and however long a scrape takes.
SignalEnds == cancelled ~> pc = "exited"

Configurable == conf.file = "valid" /\ conf.outputs > 0 /\ Authenticates
Available == down = {} /\ \A m \in RangeOf(Configured) : secret[m] > 0

\* A failed start and a failed runner end the process with code 0; once the
\* services can be reached and the secrets are there, it consumes for good.
Recovers == Configurable /\ <>[]Available => <>[](pc = "run")

===============================================================================
