--------------------------- MODULE ProcessCmdProofs ---------------------------
(***************************************************************************)
(* Proofs about ProcessCmd.tla, for any number of outputs and fields of a  *)
(* secret, rotations, signals and outages.                                 *)
(*                                                                         *)
(* PhaseInv says what is deferred at each point of Run, and OpenInv that   *)
(* what is open is deferred, but for the Valkey client while it is pinged: *)
(* the exit rests on both.  ReadInv and WholeInv say what the files read so far have     *)
(* loaded; WholeInv sets apart the bucket whose files are being read.      *)
(***************************************************************************)
EXTENDS ProcessCmd, TLAPS, SequenceTheorems

\* What is open after each of the three calls that defer a Close.
MetricsOpen == <<"metrics">>
KafkaOpen == <<"metrics", "kafka">>
ValkeyOpen == <<"metrics", "kafka", "valkey">>

\* What Run has deferred and not closed yet, by phase, and the metrics server.
PhaseInv ==
    /\ pc \in {"parse", "metrics"} => deferred = <<>> /\ server = "none"
    /\ pc = "kafka" => deferred = MetricsOpen
    /\ pc \in {"dlq", "valkey", "ping"} => deferred = KafkaOpen
    /\ pc \in {"outputs", "run"} => deferred = ValkeyOpen
    /\ pc = "shutdown" => deferred = MetricsOpen /\ server = "closed"
    /\ pc = "return" /\ deferred = <<>> => server \in {"none", "closed"}
    /\ pc \notin {"parse", "exited"} => read = Files

\* While the process runs, the clients that are open are deferred or, once the
\* ping has failed, abandoned.
OpenInv ==
    pc # "exited" =>
        /\ pingFailed => pc \in {"return", "shutdown"} /\ deferred # ValkeyOpen
        /\ deferred \in {<<>>, MetricsOpen} => open = Abandoned
        /\ deferred = KafkaOpen =>
              open = Abandoned \cup IF pc = "ping" THEN Service ELSE {"kafka"}
        /\ deferred = ValkeyOpen => open = Service

\* A file that was read is loaded, with the current generation unless the
\* secret is stale.
ReadInv ==
    \A n \in 0 .. read - 1 :
        LET m == FileBucket(n) IN
        /\ loaded[m][FileField(n)] > 0
        /\ m \notin stale => loaded[m][FileField(n)] = secret[m]

\* Some files of bucket m are read, and others come next.
Halfway(m) == read % Len(Fields) # 0 /\ FileBucket(read) = m

\* A bucket that is not torn has one generation: that of the files read so
\* far is still the current one while there are more to read.
WholeInv ==
    \A m \in Bucket \ torn :
        /\ pc = "parse" /\ Halfway(m) =>
              \A n \in 0 .. read - 1 :
                  n \div Len(Fields) = read \div Len(Fields) =>
                      loaded[m][FileField(n)] = secret[m]
        /\ ~Halfway(m) /\ ReadFrom(m) =>
              \A f, g \in Field : loaded[m][f] = loaded[m][g]

CommandInv == TypeOK /\ PhaseInv /\ OpenInv /\ CleanExit /\ ReadInv /\ WholeInv

-------------------------------------------------------------------------------
(* What is deferred.                                                       *)

\* The three sequences are prefixes of one another.
LEMMA Openings ==
  /\ Deferrable = {<<>>, MetricsOpen, KafkaOpen, ValkeyOpen}
  /\ Append(<<>>, "metrics") = MetricsOpen
  /\ Append(MetricsOpen, "kafka") = KafkaOpen
  /\ Append(KafkaOpen, "valkey") = ValkeyOpen
  /\ Len(MetricsOpen) = 1 /\ MetricsOpen[1] = "metrics"
  /\ Len(KafkaOpen) = 2 /\ KafkaOpen[2] = "kafka"
  /\ Len(ValkeyOpen) = 3 /\ ValkeyOpen[3] = "valkey"
  /\ SubSeq(MetricsOpen, 1, 0) = <<>>
  /\ SubSeq(KafkaOpen, 1, 1) = MetricsOpen
  /\ SubSeq(ValkeyOpen, 1, 2) = KafkaOpen
<1> DEFINE Opened == {"metrics", "kafka", "valkey"}
<1>1. /\ MetricsOpen \in Seq(Opened) /\ Len(MetricsOpen) = 1
      /\ MetricsOpen[1] = "metrics"
      /\ KafkaOpen \in Seq(Opened) /\ Len(KafkaOpen) = 2
      /\ KafkaOpen[1] = "metrics" /\ KafkaOpen[2] = "kafka"
      /\ ValkeyOpen \in Seq(Opened) /\ Len(ValkeyOpen) = 3
      /\ ValkeyOpen[1] = "metrics" /\ ValkeyOpen[2] = "kafka"
      /\ ValkeyOpen[3] = "valkey"
  BY DEF MetricsOpen, KafkaOpen, ValkeyOpen
<1>2. \A n \in 0 .. 3 :
         /\ SubSeq(ValkeyOpen, 1, n) \in Seq(Opened)
         /\ Len(SubSeq(ValkeyOpen, 1, n)) = n
         /\ \A i \in 1 .. n : SubSeq(ValkeyOpen, 1, n)[i] = ValkeyOpen[i]
  BY <1>1
<1>3. /\ SubSeq(ValkeyOpen, 1, 0) = <<>>
      /\ SubSeq(ValkeyOpen, 1, 1) = MetricsOpen
      /\ SubSeq(ValkeyOpen, 1, 2) = KafkaOpen
      /\ SubSeq(ValkeyOpen, 1, 3) = ValkeyOpen
  BY <1>1, <1>2, SeqEqual
<1>4. {SubSeq(ValkeyOpen, 1, n) : n \in 0 .. 3} =
         {<<>>, MetricsOpen, KafkaOpen, ValkeyOpen}
  <2>1. 0 .. 3 = {0, 1, 2, 3}
    OBVIOUS
  <2>2. {SubSeq(ValkeyOpen, 1, n) : n \in {0, 1, 2, 3}} =
           {SubSeq(ValkeyOpen, 1, 0), SubSeq(ValkeyOpen, 1, 1),
            SubSeq(ValkeyOpen, 1, 2), SubSeq(ValkeyOpen, 1, 3)}
    OBVIOUS
  <2> QED  BY <1>3, <2>1, <2>2
<1>5. SubSeq(KafkaOpen, 1, 1) = MetricsOpen /\ SubSeq(MetricsOpen, 1, 0) = <<>>
  <2>1. SubSeq(KafkaOpen, 1, 1) \in Seq(Opened)
    BY <1>1
  <2> QED  BY <1>1, <2>1, SeqEqual
<1>6. /\ Append(MetricsOpen, "kafka") = KafkaOpen
      /\ Append(KafkaOpen, "valkey") = ValkeyOpen
  <2>1. ASSUME NEW n \in 1 .. 2
        PROVE  SubSeq(ValkeyOpen, 1, n + 1) =
                  Append(SubSeq(ValkeyOpen, 1, n), ValkeyOpen[n + 1])
    BY <1>1, SubSeqRecursiveSecond
  <2>2. /\ SubSeq(ValkeyOpen, 1, 1 + 1) = Append(SubSeq(ValkeyOpen, 1, 1), ValkeyOpen[1 + 1])
        /\ SubSeq(ValkeyOpen, 1, 2 + 1) = Append(SubSeq(ValkeyOpen, 1, 2), ValkeyOpen[2 + 1])
    BY <2>1
  <2>3. 1 + 1 = 2 /\ 2 + 1 = 3
    OBVIOUS
  <2>4. /\ KafkaOpen = Append(MetricsOpen, ValkeyOpen[2])
        /\ ValkeyOpen = Append(KafkaOpen, ValkeyOpen[3])
    BY <1>3, <2>2, <2>3, Zenon
  <2> QED  BY <1>1, <2>4, Zenon
<1>7. Append(<<>>, "metrics") = MetricsOpen
  BY DEF MetricsOpen
<1> QED  BY <1>1, <1>3, <1>4, <1>5, <1>6, <1>7 DEF Deferrable, ValkeyOpen

-------------------------------------------------------------------------------
(* The files.                                                              *)

\* The n-th file is one of a configured bucket, and one of its fields; every
\* field of every configured bucket is some n-th file.
LEMMA FileOrder ==
  ASSUME conf \in Conf
  PROVE  /\ Len(Fields) \in Nat \ {0} /\ Files \in Nat
         /\ Files % Len(Fields) = 0
         /\ \A n \in 0 .. Files - 1 :
               FileBucket(n) \in Bucket /\ FileField(n) \in Field
         /\ RangeOf(Configured) \subseteq Bucket
         /\ \A m \in RangeOf(Configured), f \in Field :
               \E n \in 0 .. Files - 1 : FileBucket(n) = m /\ FileField(n) = f
<1>1. /\ Outputs \in Seq(Bucket) /\ Fields \in Seq(Field) /\ Fields # <<>>
      /\ conf.outputs \in 0 .. Len(Outputs)
  BY CommandAssumption DEF Conf
<1>2. Len(Fields) \in Nat \ {0} /\ \A j \in 1 .. Len(Fields) : Fields[j] \in Field
  BY <1>1, EmptySeq
<1>3. SubSeq(Outputs, 1, conf.outputs) \in Seq(Bucket) /\ <<Dlq>> \in Seq(Bucket)
  BY <1>1 DEF Bucket
<1>4. /\ Configured \in Seq(Bucket) /\ Len(Configured) \in Nat
      /\ \A i \in 1 .. Len(Configured) : Configured[i] \in Bucket
  <2> HIDE DEF Bucket
  <2> QED  BY <1>3 DEF Configured
<1> DEFINE L == Len(Fields)
           M == Len(Configured)
<1>5. L \in Nat \ {0} /\ M \in Nat /\ Files = M * L
  BY <1>2, <1>4 DEF Files
<1> HIDE DEF L, M
<1>6. ASSUME NEW n \in 0 .. Files - 1
      PROVE  FileBucket(n) \in Bucket /\ FileField(n) \in Field
  <2>1. n \div L \in 0 .. M - 1 /\ n % L \in 0 .. L - 1
    BY <1>5
  <2>2. (n \div L) + 1 \in 1 .. M /\ (n % L) + 1 \in 1 .. L
    BY <1>5, <2>1
  <2> QED  BY <1>2, <1>4, <2>2 DEF FileBucket, FileField, L, M
<1>7. ASSUME NEW m \in RangeOf(Configured), NEW f \in Field
      PROVE  \E n \in 0 .. Files - 1 : FileBucket(n) = m /\ FileField(n) = f
  <2>1. PICK i \in 1 .. M : Configured[i] = m
    BY DEF RangeOf, M
  <2>2. PICK j \in 1 .. L : Fields[j] = f
    BY DEF Field, RangeOf, L
  <2> DEFINE a == i - 1
             b == j - 1
             n == a * L + b
  <2>3. a \in 0 .. M - 1 /\ b \in 0 .. L - 1 /\ a + 1 = i /\ b + 1 = j
    BY <1>5
  <2> HIDE DEF a, b
  <2>4. n \in 0 .. M * L - 1 /\ n \div L = a /\ n % L = b
    BY <1>5, <2>3
  <2> HIDE DEF n
  <2>5. FileBucket(n) = m /\ FileField(n) = f
    BY <2>1, <2>2, <2>3, <2>4 DEF FileBucket, FileField, L
  <2> QED  BY <1>5, <2>4, <2>5
<1>8. Files % L = 0 /\ Files \in Nat
  BY <1>5
<1> QED  BY <1>2, <1>4, <1>6, <1>7, <1>8 DEF L, RangeOf

\* The configuration file does not change, nor do the files to be read.
LEMMA ConfFrame ==
  ASSUME [Next]_vars
  PROVE  /\ conf' = conf /\ Files' = Files
         /\ RangeOf(Configured)' = RangeOf(Configured)
         /\ \A n : FileBucket(n)' = FileBucket(n)
<1>1. conf' = conf
  BY DEF Next, Step, ReadFile, ParseFails, Parsed, StartMetrics, SetLimitsFails,
     Listen, CreateKafkaConsumer, NewValkeyClient, PingValkey, PingFails,
     CreateS3Clients, Defers,
     ReturnFromStart, Consume, RunnerReturns, CloseClient, Shutdown,
     ShutdownReturns, Exit, Signal, Restart, StartAgain, Scrape, Rotate, Break,
     Repair, vars, envVars
<1> QED  BY <1>1 DEF Files, Configured, FileBucket, RangeOf

-------------------------------------------------------------------------------
(* Types and phases.                                                       *)

\* What is closed is what was opened last, and only when Run returns; the
\* server is shut down before Run ends, even if it had not listened yet.
LEMMA PhaseStep ==
  ASSUME TypeOK, PhaseInv, [Next]_vars
  PROVE  PhaseInv' /\ deferred' \in {<<>>, MetricsOpen, KafkaOpen, ValkeyOpen}
<1> USE Openings, ConfFrame DEF PhaseInv, openVars
<1>1. deferred \in {<<>>, MetricsOpen, KafkaOpen, ValkeyOpen}
  BY DEF TypeOK
<1>2. CASE ReadFile \/ Parsed \/ ParseFails
  <2>1. CASE ReadFile
    BY <1>1, <2>1 DEF ReadFile, serverVars
  <2>2. CASE Parsed
    BY <1>1, <2>2 DEF Parsed, serverVars, configVars
  <2>3. CASE ParseFails
    BY <1>1, <2>3 DEF ParseFails, Exits, serverVars, configVars
  <2> QED  BY <1>2, <2>1, <2>2, <2>3
<1>3. CASE StartMetrics \/ SetLimitsFails
  BY <1>1, <1>3 DEF StartMetrics, SetLimitsFails, serverVars, configVars
<1>4. CASE Listen
  BY <1>1, <1>4 DEF Listen, configVars
<1>5. CASE CreateKafkaConsumer \/ NewValkeyClient \/ CreateS3Clients
  BY <1>1, <1>5 DEF CreateKafkaConsumer, NewValkeyClient, CreateS3Clients, Defers,
     serverVars, configVars
<1>6. CASE PingValkey \/ PingFails
  BY <1>1, <1>6 DEF PingValkey, PingFails, Defers, serverVars, configVars
<1>7. CASE ReturnFromStart \/ RunnerReturns
  BY <1>1, <1>7 DEF ReturnFromStart, StartFails, RunnerReturns, serverVars, configVars
<1>8. CASE CloseClient
  <2>1. \/ deferred = KafkaOpen /\ deferred' = MetricsOpen
        \/ deferred = ValkeyOpen /\ deferred' = KafkaOpen
    BY <1>1, <1>8 DEF CloseClient, LastOpened, Pop, Service
  <2> QED  BY <1>8, <2>1 DEF CloseClient, serverVars, configVars
<1>9. CASE Shutdown
  <2>1. deferred = MetricsOpen
    BY <1>1, <1>9 DEF Shutdown, LastOpened
  <2> QED  BY <1>9, <2>1 DEF Shutdown, configVars
<1>10. CASE ShutdownReturns
  <2>1. deferred = MetricsOpen /\ deferred' = SubSeq(MetricsOpen, 1, 0)
    BY <1>10 DEF ShutdownReturns, Pop
  <2>2. /\ pc = "shutdown" /\ pc' = "return" /\ read' = read
        /\ server = "closed" /\ server' = server
    BY <1>10 DEF ShutdownReturns, serverVars, configVars
  <2> QED  BY <2>1, <2>2
<1>11. CASE Exit
  BY <1>11 DEF Exit, Exits, serverVars, configVars
<1>12. CASE Signal
  BY <1>1, <1>12 DEF Signal, Kills, Exits, serverVars, configVars
<1>13. CASE Restart
  BY <1>13 DEF Restart, StartAgain
<1>14. ASSUME \/ Scrape \/ Consume \/ UNCHANGED vars
              \/ \E m \in Bucket : Rotate(m)
              \/ \E s \in Service : Break(s) \/ Repair(s)
       PROVE  UNCHANGED <<pc, deferred, server, read, exitCode>>
  BY <1>14 DEF Scrape, Consume, Rotate, Break, Repair, vars, serverVars, configVars
<1>15. CASE UNCHANGED <<pc, deferred, server, read, exitCode>>
  BY <1>1, <1>15
<1> QED
  BY <1>2, <1>3, <1>4, <1>5, <1>6, <1>7, <1>8, <1>9, <1>10, <1>11, <1>12, <1>13,
     <1>14, <1>15 DEF Next, Step

\* A client is opened before its Close is deferred and closed with it, but for
\* the one whose ping fails.
LEMMA OpenStep ==
  ASSUME TypeOK, PhaseInv, OpenInv, CleanExit, [Next]_vars
  PROVE  OpenInv' /\ CleanExit'
<1> USE Openings DEF OpenInv, Abandoned, Service
<1>1. /\ deferred \in {<<>>, MetricsOpen, KafkaOpen, ValkeyOpen}
      /\ MetricsOpen # <<>> /\ KafkaOpen # <<>> /\ ValkeyOpen # <<>>
      /\ MetricsOpen # KafkaOpen /\ MetricsOpen # ValkeyOpen
      /\ KafkaOpen # ValkeyOpen
  BY DEF TypeOK
<1>2. CASE StartMetrics
  BY <1>1, <1>2 DEF StartMetrics, PhaseInv, CleanExit
<1>3. CASE CreateKafkaConsumer
  BY <1>1, <1>3 DEF CreateKafkaConsumer, Defers, PhaseInv, CleanExit
<1>4. CASE NewValkeyClient
  BY <1>1, <1>4 DEF NewValkeyClient, PhaseInv, CleanExit
<1>5. CASE PingValkey
  BY <1>1, <1>5 DEF PingValkey, Defers, PhaseInv, CleanExit
<1>6. CASE PingFails
  BY <1>1, <1>6 DEF PingFails, PhaseInv, CleanExit
<1>7. CASE CloseClient
  <2>1. \/ /\ deferred = KafkaOpen /\ deferred' = MetricsOpen
           /\ open' = open \ {"kafka"}
        \/ /\ deferred = ValkeyOpen /\ deferred' = KafkaOpen
           /\ open' = open \ {"valkey"}
    BY <1>1, <1>7 DEF CloseClient, LastOpened, Pop
  <2>2. pc = "return" /\ UNCHANGED <<pc, pingFailed>>
    BY <1>7 DEF CloseClient
  <2> QED  BY <1>1, <2>1, <2>2 DEF CleanExit
<1>8. CASE ShutdownReturns
  <2>1. /\ pc = "shutdown" /\ pc' = "return" /\ UNCHANGED <<open, pingFailed>>
        /\ deferred = MetricsOpen /\ deferred' = <<>>
    BY <1>8 DEF ShutdownReturns, Pop, PhaseInv
  <2> QED  BY <1>1, <2>1 DEF CleanExit
<1>9. CASE Exit
  BY <1>1, <1>9 DEF Exit, Exits, PhaseInv, CleanExit, openVars, serverVars
<1>10. CASE Restart
  BY <1>1, <1>10 DEF Restart, StartAgain, CleanExit
<1>11. CASE Signal
  <2>1. CASE pc' = pc /\ UNCHANGED openVars
    BY <1>11, <2>1 DEF Signal, openVars, CleanExit
  <2>2. CASE pc' = "exited" /\ exitCode' = 1
    BY <2>2 DEF CleanExit
  <2> QED  BY <1>11, <2>1, <2>2 DEF Signal, Kills, Exits
<1>12. CASE ReadFile \/ Parsed \/ ParseFails
  <2>1. /\ pc = "parse" /\ pc' \in {"parse", "metrics", "exited"}
        /\ pc' = "exited" => exitCode' = 1
        /\ UNCHANGED <<open, pingFailed, deferred>>
    BY <1>12 DEF ReadFile, Parsed, ParseFails, Exits, openVars
  <2> QED  BY <1>1, <2>1 DEF CleanExit
<1>13. CASE \/ SetLimitsFails \/ CreateS3Clients \/ ReturnFromStart
            \/ RunnerReturns \/ Shutdown
  <2>1. /\ pc \notin {"ping", "exited", "shutdown"} /\ pc' \notin {"ping", "exited"}
        /\ pc = "return" => pc' = "shutdown"
        /\ UNCHANGED <<open, pingFailed, deferred>>
    BY <1>13 DEF SetLimitsFails, CreateS3Clients, ReturnFromStart, StartFails,
       RunnerReturns, Shutdown, openVars
  <2> QED  BY <1>1, <2>1 DEF CleanExit
<1>14. ASSUME \/ Listen \/ Scrape \/ Consume \/ UNCHANGED vars
              \/ \E m \in Bucket : Rotate(m)
              \/ \E s \in Service : Break(s) \/ Repair(s)
       PROVE  /\ UNCHANGED <<pc, openVars, exitCode>>
              /\ pc = "exited" => server' = server
  BY <1>14 DEF Listen, Scrape, Consume, Rotate, Break, Repair, vars, serverVars
<1>15. CASE UNCHANGED <<pc, openVars, exitCode>> /\ (pc = "exited" => server' = server)
  BY <1>15 DEF openVars, CleanExit
<1> QED
  BY <1>2, <1>3, <1>4, <1>5, <1>6, <1>7, <1>8, <1>9, <1>10, <1>11, <1>12, <1>13,
     <1>14, <1>15 DEF Next, Step

\* Only the configuration files need a look: a file that is read is one of a
\* mounted secret.
LEMMA TypeStep ==
  ASSUME TypeOK, PhaseInv, [Next]_vars
  PROVE  TypeOK'
<1> USE ConfFrame, CommandAssumption
    DEF TypeOK, Phase, Service, openVars, configVars, serverVars, boundVars, envVars
<1>1. deferred' \in Deferrable
  BY PhaseStep, Openings
<1>2. CASE ReadFile
  <2>1. /\ FileBucket(read) \in Bucket /\ FileField(read) \in Field
        /\ read' \in 0 .. Files
    BY <1>2, FileOrder DEF ReadFile
  <2>2. secret[FileBucket(read)] \in 0 .. MaxGeneration
    BY <2>1
  <2>3. loaded' \in [Bucket -> [Field -> 0 .. MaxGeneration]]
    BY <1>2, <2>1, <2>2 DEF ReadFile
  <2> HIDE DEF Files, FileBucket
  <2> QED  BY <1>1, <1>2, <2>1, <2>3 DEF ReadFile
<1>3. CASE ParseFails \/ Parsed
  BY <1>1, <1>3 DEF ParseFails, Parsed, Exits
<1>4. CASE \/ StartMetrics \/ SetLimitsFails \/ Listen \/ CreateS3Clients
           \/ ReturnFromStart \/ RunnerReturns \/ Shutdown \/ ShutdownReturns \/ Exit
  BY <1>1, <1>4, ZenonT(60) DEF StartMetrics, SetLimitsFails, Listen,
     CreateS3Clients, ReturnFromStart, RunnerReturns, Shutdown, ShutdownReturns, Exit, Exits
<1>5. CASE CreateKafkaConsumer \/ NewValkeyClient \/ CloseClient
  <2>1. open' \subseteq Service
    BY ONLY <1>5, TypeOK DEF CreateKafkaConsumer, NewValkeyClient, CloseClient,
       TypeOK, Service
  <2> QED  BY <1>1, <1>5, <2>1, ZenonT(60) DEF CreateKafkaConsumer, NewValkeyClient,
     CloseClient, Defers
<1>6. CASE PingValkey \/ PingFails
  BY <1>1, <1>6, ZenonT(60) DEF PingValkey, PingFails, Defers
<1>7. CASE Signal
  <2>1. signals' \in 0 .. MaxSignals
    BY <1>7 DEF Signal
  <2> QED  BY <1>1, <1>7, <2>1 DEF Signal, Kills, Exits
<1>8. CASE Restart
  <2>1. loaded' \in [Bucket -> [Field -> 0 .. MaxGeneration]]
    BY <1>8 DEF Restart, StartAgain, NothingLoaded
  <2>2. /\ server' = "none" /\ pc' = "parse" /\ stale' = {} /\ torn' = {}
        /\ read' = 0 /\ scraped' \in BOOLEAN /\ cancelled' \in BOOLEAN
        /\ open' = {} /\ pingFailed' \in BOOLEAN
    BY <1>8, Zenon DEF Restart, StartAgain
  <2>3. UNCHANGED envVars /\ exitCode' = exitCode
    BY <1>8 DEF Restart, StartAgain
  <2> HIDE DEF Files
  <2>4. read' \in 0 .. Files
    BY <2>2, FileOrder
  <2> QED  BY <1>1, <2>1, <2>2, <2>3, <2>4, ZenonT(60)
<1>9. CASE Scrape
  BY <1>1, <1>9 DEF Scrape
<1>10. ASSUME NEW m \in Bucket, Rotate(m)
      PROVE  TypeOK'
  <2>1. /\ secret' \in [Bucket -> 0 .. MaxGeneration]
        /\ stale' \subseteq Bucket /\ torn' \subseteq stale'
    BY <1>10, SMTT(30) DEF Rotate
  <2> QED  BY <1>1, <1>10, <2>1 DEF Rotate
<1>11. ASSUME NEW s \in Service, Break(s) \/ Repair(s)
      PROVE  TypeOK'
  <2>1. down' \subseteq Service
    BY ONLY <1>11, TypeOK, s \in Service DEF Break, Repair, TypeOK
  <2>2. outages' \in 0 .. MaxOutages
    BY ONLY <1>11, TypeOK, CommandAssumption, SMTT(30)
       DEF CommandAssumption, Break, Repair, TypeOK, envVars
  <2> QED  BY <1>1, <1>11, <2>1, <2>2, ZenonT(60) DEF Break, Repair
<1>12. CASE Consume \/ UNCHANGED vars
  BY <1>1, <1>12, ZenonT(60) DEF Consume, vars
<1> QED
  BY <1>2, <1>3, <1>4, <1>5, <1>6, <1>7, <1>8, <1>9, <1>10, <1>11, <1>12
     DEF Next, Step

-------------------------------------------------------------------------------
(* CredentialsLoaded.                                                      *)

\* The other steps neither read nor rotate a secret, and PreRunE does not come
\* back without a restart.
LEMMA SecretFrame ==
  ASSUME [Next]_vars, ~ReadFile, ~Restart, ~\E m \in Bucket : Rotate(m)
  PROVE  UNCHANGED <<secret, read, loaded, stale, torn>> /\ (pc' = "parse" => pc = "parse")
<1> USE DEF configVars, envVars
<1>1. ASSUME Step
      PROVE  UNCHANGED <<secret, read, loaded, stale, torn>>
             /\ (pc' = "parse" => pc = "parse")
  BY <1>1 DEF Step, ParseFails, Parsed, StartMetrics, CreateKafkaConsumer,
     NewValkeyClient, PingValkey, PingFails, CreateS3Clients, Defers,
     ReturnFromStart, RunnerReturns, CloseClient, Shutdown, ShutdownReturns, Exit, Exits
<1>2. ASSUME SetLimitsFails \/ Listen \/ Consume \/ Signal \/ Scrape
      PROVE  UNCHANGED <<secret, read, loaded, stale, torn>>
             /\ (pc' = "parse" => pc = "parse")
  BY <1>2 DEF SetLimitsFails, Listen, Consume, Signal, Kills, Exits, Scrape, vars
<1>3. ASSUME NEW s \in Service, Break(s) \/ Repair(s)
      PROVE  UNCHANGED <<secret, read, loaded, stale, torn>>
             /\ (pc' = "parse" => pc = "parse")
  BY <1>3 DEF Break, Repair
<1>4. ASSUME UNCHANGED vars
      PROVE  UNCHANGED <<secret, read, loaded, stale, torn>>
             /\ (pc' = "parse" => pc = "parse")
  BY <1>4 DEF vars
<1> QED  BY <1>1, <1>2, <1>3, <1>4 DEF Next

\* A file is read over what was loaded; a rotation makes what was read stale.
LEMMA ReadStep ==
  ASSUME TypeOK, ReadInv, [Next]_vars
  PROVE  ReadInv'
<1> SUFFICES ASSUME NEW n \in 0 .. read' - 1
             PROVE  /\ loaded'[FileBucket(n)][FileField(n)] > 0
                    /\ FileBucket(n) \notin stale' =>
                          loaded'[FileBucket(n)][FileField(n)] = secret'[FileBucket(n)]
  BY ConfFrame DEF ReadInv, FileField
<1> USE DEF TypeOK
<1>1. ASSUME n \in 0 .. read - 1
      PROVE  /\ FileBucket(n) \in Bucket /\ FileField(n) \in Field
             /\ loaded[FileBucket(n)][FileField(n)] > 0
             /\ FileBucket(n) \notin stale =>
                   loaded[FileBucket(n)][FileField(n)] = secret[FileBucket(n)]
  BY <1>1, FileOrder DEF ReadInv
<1>2. CASE ReadFile
  <2>1. /\ FileBucket(read) \in Bucket /\ FileField(read) \in Field
        /\ secret[FileBucket(read)] > 0 /\ read' = read + 1
        /\ UNCHANGED <<secret, stale>>
        /\ loaded' = [loaded EXCEPT ![FileBucket(read)][FileField(read)] =
                         secret[FileBucket(read)]]
    BY <1>2, FileOrder DEF ReadFile, envVars
  <2>2. n \in 0 .. read - 1 \/ n = read
    BY <2>1, FileOrder
  <2> HIDE DEF FileBucket, FileField
  <2> QED  BY <1>1, <2>1, <2>2
<1>3. CASE Restart
  BY <1>3 DEF Restart, StartAgain
<1>4. ASSUME NEW m \in Bucket, Rotate(m)
      PROVE  /\ loaded'[FileBucket(n)][FileField(n)] > 0
             /\ FileBucket(n) \notin stale' =>
                   loaded'[FileBucket(n)][FileField(n)] = secret'[FileBucket(n)]
  <2>1. n \in 0 .. read - 1 /\ loaded' = loaded
    BY <1>4 DEF Rotate
  <2>2. CASE FileBucket(n) = m
    BY <1>1, <1>4, <2>1, <2>2 DEF Rotate, ReadFrom
  <2>3. CASE FileBucket(n) # m
    BY <1>1, <1>4, <2>1, <2>3 DEF Rotate
  <2> QED  BY <2>2, <2>3
<1>5. CASE ~ReadFile /\ ~Restart /\ ~\E m \in Bucket : Rotate(m)
  BY <1>1, <1>5, SecretFrame
<1> QED  BY <1>2, <1>3, <1>4, <1>5

\* The next number has the same quotient, unless it is a multiple.
LEMMA Division ==
  ASSUME NEW d \in Nat \ {0}, NEW n \in Nat
  PROVE  /\ n \div d \in Nat /\ n = (n \div d) * d + (n % d)
         /\ (n + 1) % d # 0 => (n + 1) \div d = n \div d
         /\ (n + 1) % d = 0 => n % d = d - 1
<1>1. (n + 1) % d # 0 => (n + 1) \div d = n \div d
  OBVIOUS
<1>2. (n + 1) % d = 0 => n % d = d - 1
  <2> SUFFICES ASSUME n % d # d - 1
               PROVE  (n + 1) % d = (n % d) + 1
    OBVIOUS
  <2>1. PICK q \in Nat, r \in 0 .. d - 1 : n = q * d + r /\ r = n % d
    <3>1. /\ n = (n \div d) * d + (n % d)
          /\ n \div d \in Nat /\ n % d \in 0 .. d - 1
      OBVIOUS
    <3> QED  BY <3>1
  <2>2. n + 1 = q * d + (r + 1) /\ r + 1 \in 0 .. d - 1
    BY <2>1
  <2>3. ASSUME NEW b \in 0 .. d - 1
        PROVE  (q * d + b) % d = b
    OBVIOUS
  <2> QED  BY <2>1, <2>2, <2>3
<1> QED  BY <1>1, <1>2

\* Of two numbers with the same quotient, the second is no multiple.
LEMMA NotFirst ==
  ASSUME NEW d \in Nat \ {0}, NEW n \in Nat, NEW r \in Nat,
         n < r, n \div d = r \div d
  PROVE  r % d # 0
<1>1. /\ n = (n \div d) * d + (n % d) /\ n % d \in 0 .. d - 1
      /\ r = (r \div d) * d + (r % d)
  OBVIOUS
<1>2. PICK q \in Nat, a \in Nat, b \in Nat :
         q = n \div d /\ a = n % d /\ b = r % d
  OBVIOUS
<1>3. n = q * d + a /\ r = q * d + b
  BY <1>1, <1>2
<1> QED  BY <1>2, <1>3

\* The files of a secret are read one after the other.
LEMMA NextFile ==
  ASSUME TypeOK
  PROVE  /\ (read + 1) % Len(Fields) # 0 =>
               /\ (read + 1) \div Len(Fields) = read \div Len(Fields)
               /\ FileBucket(read + 1) = FileBucket(read)
         /\ (read + 1) % Len(Fields) = 0 =>
               \A f \in Field : \E n \in 0 .. read :
                  /\ n \div Len(Fields) = read \div Len(Fields)
                  /\ FileField(n) = f
<1> DEFINE L == Len(Fields)
<1>1. L \in Nat \ {0} /\ read \in Nat
  BY FileOrder DEF TypeOK
<1>2. ASSUME (read + 1) % L # 0
      PROVE  (read + 1) \div L = read \div L
  BY <1>1, <1>2, Division
<1>3. ASSUME (read + 1) % L = 0, NEW f \in Field
      PROVE  \E n \in 0 .. read : n \div L = read \div L /\ FileField(n) = f
  <2>1. PICK j \in 1 .. L : Fields[j] = f
    BY DEF Field, RangeOf
  <2> DEFINE i == read \div L
             b == j - 1
             n == i * L + b
  <2> HIDE DEF L
  <2>2. i \in Nat /\ b \in 0 .. L - 1 /\ b + 1 = j /\ read = i * L + (L - 1)
    <3>1. read % L = L - 1
      BY <1>1, <1>3, Division
    <3>2. read = i * L + (read % L)
      BY <1>1, Division
    <3>3. i \in Nat
      BY <1>1, Division
    <3> QED  BY <1>1, <3>1, <3>2, <3>3
  <2> HIDE DEF i, b
  <2>3. n \in 0 .. read /\ n \div L = i /\ n % L = b
    BY <1>1, <2>2
  <2> HIDE DEF n
  <2> QED  BY <2>1, <2>2, <2>3 DEF FileField, L, i
<1> QED  BY <1>2, <1>3 DEF FileBucket

\* A bucket whose secret is rotated while its files are read is torn; another
\* one has the files of one generation when the last of them is read.
LEMMA WholeStep ==
  ASSUME TypeOK, WholeInv, [Next]_vars
  PROVE  WholeInv'
<1> DEFINE L == Len(Fields)
<1>1. /\ L \in Nat \ {0} /\ Files \in Nat /\ Files % L = 0
      /\ read \in Nat /\ read <= Files
  BY FileOrder DEF TypeOK
<1>2. \A m : /\ Halfway(m)' <=> (read' % L # 0 /\ FileBucket(read') = m)
             /\ ReadFrom(m)' <=> \E n \in 0 .. read' - 1 : FileBucket(n) = m
  BY ConfFrame DEF Halfway, ReadFrom, FileBucket, Configured
<1>3. ASSUME NEW m \in Bucket \ torn', ReadFile
      PROVE  /\ pc' = "parse" /\ Halfway(m)' =>
                   \A n \in 0 .. read' - 1 :
                       n \div L = read' \div L =>
                           loaded'[m][FileField(n)] = secret'[m]
             /\ ~Halfway(m)' /\ ReadFrom(m)' =>
                   \A f, g \in Field : loaded'[m][f] = loaded'[m][g]
  <2>1. /\ FileBucket(read) \in Bucket /\ FileField(read) \in Field
        /\ read' = read + 1 /\ pc = "parse" /\ m \notin torn /\ secret' = secret
        /\ read < Files
        /\ loaded' = [loaded EXCEPT ![FileBucket(read)][FileField(read)] =
                         secret[FileBucket(read)]]
    BY <1>3, FileOrder DEF ReadFile, envVars, TypeOK
  <2>2. CASE FileBucket(read) = m
    <3>1. ASSUME NEW n \in 0 .. read, n \div L = read \div L
          PROVE  loaded'[m][FileField(n)] = secret[m]
      <4>1. CASE FileField(n) = FileField(read)
        BY <2>1, <2>2, <4>1 DEF TypeOK
      <4>2. CASE FileField(n) # FileField(read)
        <5>1. n \in 0 .. read - 1
          BY <1>1, <4>2
        <5>2. read % L # 0
          <6>1. n \in Nat /\ n < read
            BY <1>1, <5>1
          <6> QED  BY <1>1, <3>1, <6>1, NotFirst
        <5>3. loaded[m][FileField(n)] = secret[m]
          BY <2>1, <2>2, <3>1, <5>1, <5>2 DEF WholeInv, Halfway
        <5>4. loaded'[m][FileField(n)] = loaded[m][FileField(n)]
          BY <2>1, <2>2, <4>2 DEF TypeOK
        <5> QED  BY <5>3, <5>4
      <4> QED  BY <4>1, <4>2
    <3>2. CASE (read + 1) % L # 0
      BY <1>1, <1>2, <2>1, <2>2, <3>1, <3>2, NextFile
    <3>3. CASE (read + 1) % L = 0
      <4>1. \A f \in Field : loaded'[m][f] = secret[m]
        BY <3>1, <3>3, NextFile
      <4> QED  BY <1>2, <2>1, <3>3, <4>1
    <3> QED  BY <3>2, <3>3
  <2>3. CASE FileBucket(read) # m
    <3>1. ~Halfway(m) /\ loaded'[m] = loaded[m]
      BY <2>1, <2>3 DEF Halfway, TypeOK
    <3>2. ~Halfway(m)'
      BY <1>2, <2>1, <2>3, NextFile
    <3>3. ReadFrom(m)' => ReadFrom(m)
      <4> SUFFICES ASSUME NEW n \in 0 .. read' - 1, FileBucket(n) = m
                   PROVE  ReadFrom(m)
        BY <1>2
      <4>1. n \in 0 .. read - 1
        BY <1>1, <2>1, <2>3
      <4> QED  BY <4>1 DEF ReadFrom
    <3> QED  BY <2>1, <3>1, <3>2, <3>3 DEF WholeInv
  <2> QED  BY <2>2, <2>3
<1>4. ASSUME NEW k \in Bucket, Rotate(k), NEW m \in Bucket \ torn'
      PROVE  /\ pc' = "parse" /\ Halfway(m)' =>
                   \A n \in 0 .. read' - 1 :
                       n \div L = read' \div L =>
                           loaded'[m][FileField(n)] = secret'[m]
             /\ ~Halfway(m)' /\ ReadFrom(m)' =>
                   \A f, g \in Field : loaded'[m][f] = loaded'[m][g]
  <2>1. /\ UNCHANGED <<pc, read, loaded>> /\ m \notin torn
        /\ m # k => secret'[m] = secret[m]
        /\ m = k => ~(ReadFrom(m) /\ ReadNext(m))
    BY <1>4 DEF Rotate, TypeOK
  <2>2. (Halfway(m)' <=> Halfway(m)) /\ (ReadFrom(m)' <=> ReadFrom(m))
    BY <1>2, <2>1 DEF Halfway, ReadFrom
  <2>3. ASSUME pc = "parse", Halfway(m)
        PROVE  ReadFrom(m) /\ ReadNext(m)
    <3>1. read # 0 /\ read # Files
      BY <1>1, <2>3 DEF Halfway
    <3>2. PICK r \in Nat : r + 1 = read
      <4>1. read - 1 \in Nat /\ (read - 1) + 1 = read
        BY <1>1, <3>1
      <4> QED  BY <4>1
    <3>3. read \div L = r \div L
      BY <1>1, <2>3, <3>2, Division DEF Halfway
    <3>4. FileBucket(r) = m /\ r \in 0 .. read - 1
      BY <1>1, <2>3, <3>2, <3>3 DEF FileBucket, Halfway
    <3>5. read < Files
      BY <1>1, <3>1
    <3> QED  BY <2>3, <3>4, <3>5 DEF ReadFrom, ReadNext, Halfway
  <2> QED  BY <2>1, <2>2, <2>3 DEF WholeInv
<1>5. CASE Restart
  <2>1. read' = 0 /\ 0 % L = 0
    BY <1>1, <1>5 DEF Restart, StartAgain
  <2>2. \A m : ~Halfway(m)' /\ ~ReadFrom(m)'
    BY <1>2, <2>1
  <2> QED  BY <2>2 DEF WholeInv
<1>6. CASE ~ReadFile /\ ~Restart /\ ~\E m \in Bucket : Rotate(m)
  <2>1. UNCHANGED <<secret, read, loaded, torn>> /\ (pc' = "parse" => pc = "parse")
    BY <1>6, SecretFrame
  <2>2. \A m : (Halfway(m)' <=> Halfway(m)) /\ (ReadFrom(m)' <=> ReadFrom(m))
    BY <1>2, <2>1 DEF Halfway, ReadFrom
  <2> QED  BY <2>1, <2>2, ConfFrame DEF WholeInv, FileField
<1> QED
  BY <1>3, <1>4, <1>5, <1>6 DEF WholeInv, FileField

-------------------------------------------------------------------------------
(* The theorems.                                                           *)

\* Nothing is open, read or loaded when a process starts.
LEMMA InitCommand ==
  ASSUME Init
  PROVE  CommandInv
<1>1. conf \in Conf
  BY DEF Init
<1>2. Files \in Nat /\ Len(Fields) \in Nat \ {0}
  BY <1>1, FileOrder
<1>3. TypeOK
  <2>1. /\ secret \in [Bucket -> 0 .. MaxGeneration]
        /\ loaded \in [Bucket -> [Field -> 0 .. MaxGeneration]]
    BY CommandAssumption DEF Init, NothingLoaded
  <2>2. deferred \in Deferrable
    BY Openings DEF Init
  <2>3. read \in 0 .. Files /\ signals \in 0 .. MaxSignals /\ outages \in 0 .. MaxOutages
    BY <1>2, CommandAssumption DEF Init
  <2>4. /\ down \subseteq Service /\ pc \in Phase /\ exitCode \in {0, 1}
        /\ server \in {"none", "starting", "listening", "broken", "closed"}
        /\ stale \subseteq Bucket /\ torn \subseteq stale /\ open \subseteq Service
    BY DEF Init, Phase
  <2>5. scraped \in BOOLEAN /\ cancelled \in BOOLEAN /\ pingFailed \in BOOLEAN
    BY DEF Init
  <2> QED  BY <1>1, <2>1, <2>2, <2>3, <2>4, <2>5 DEF TypeOK
<1>4. PhaseInv /\ OpenInv /\ CleanExit
  BY Openings DEF Init, PhaseInv, OpenInv, CleanExit, Abandoned
<1>5. ReadInv
  BY DEF Init, ReadInv
<1>6. WholeInv
  <2>1. read = 0 /\ read % Len(Fields) = 0
    BY <1>2 DEF Init
  <2>2. \A m : ~Halfway(m) /\ ~ReadFrom(m)
    BY <2>1 DEF Halfway, ReadFrom
  <2> QED  BY <2>2 DEF WholeInv
<1> QED  BY <1>3, <1>4, <1>5, <1>6 DEF CommandInv

\* CommandInv is inductive.
LEMMA CommandInvariance == Spec => []CommandInv
<1>1. Init => CommandInv
  BY InitCommand
<1>2. CommandInv /\ [Next]_vars => CommandInv'
  BY TypeStep, PhaseStep, OpenStep, ReadStep, WholeStep DEF CommandInv
<1> QED  BY <1>1, <1>2, PTL DEF Spec

\* The command keeps the types of its variables.
THEOREM TypeCorrect == Spec => []TypeOK
<1>1. CommandInv => TypeOK
  BY DEF CommandInv
<1> QED  BY <1>1, CommandInvariance, PTL

\* Run never uses a bucket without all the fields of its secret, nor with those
\* of two generations, unless the secret changed while it was read.
THEOREM SecretsComplete == Spec => []CredentialsLoaded
<1>1. CommandInv => CredentialsLoaded
  <2> SUFFICES ASSUME CommandInv, pc \notin {"parse", "exited"},
                      NEW m \in RangeOf(Configured)
               PROVE  /\ \A f \in Field : loaded[m][f] > 0
                      /\ m \notin stale => \A f \in Field : loaded[m][f] = secret[m]
                      /\ m \notin torn => \A f, g \in Field : loaded[m][f] = loaded[m][g]
    BY DEF CredentialsLoaded
  <2>1. read = Files /\ conf \in Conf
    BY DEF CommandInv, PhaseInv, TypeOK
  <2>2. \A f \in Field : \E n \in 0 .. read - 1 : FileBucket(n) = m /\ FileField(n) = f
    BY <2>1, FileOrder
  <2>3. /\ \A f \in Field : loaded[m][f] > 0
        /\ m \notin stale => \A f \in Field : loaded[m][f] = secret[m]
    BY <2>2 DEF CommandInv, ReadInv
  <2>4. \A f \in Field : ~Halfway(m) /\ ReadFrom(m) /\ m \in Bucket
    BY <2>1, <2>2, FileOrder DEF Halfway, ReadFrom
  <2>5. m \notin torn => \A f, g \in Field : loaded[m][f] = loaded[m][g]
    BY <2>4 DEF CommandInv, WholeInv
  <2> QED  BY <2>3, <2>5
<1> QED  BY <1>1, CommandInvariance, PTL

\* A process that ends by itself has closed its clients and its server, from
\* whichever point of the start it gave up, except the Valkey client if it gave
\* up on its ping.
THEOREM NothingElseLeftOpen == Spec => []CleanExit
<1>1. CommandInv => CleanExit
  BY DEF CommandInv
<1> QED  BY <1>1, CommandInvariance, PTL
===============================================================================
