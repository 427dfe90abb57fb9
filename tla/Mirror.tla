-------------------------------- MODULE Mirror --------------------------------
(***************************************************************************)
(* A bucket that the exporter's writers share, and the job that copies one *)
(* of its prefixes to another bucket (scripts/sync.sh, run by              *)
(* openshift/jobs/sync-s3.yaml): it lists both sides, compares sizes only, *)
(* and transfers, while the exporter goes on.  rclone and the Job          *)
(* controller are modelled from how they are called.                       *)
(***************************************************************************)
EXTENDS Keys, FiniteSets

CONSTANTS Writer,        \* the outputs that share the bucket, and the DLQ
          Dlq,           \* the writer of the reports
          Prefix,        \* Prefix[w]: key prefix of a writer
          Word,          \* what texts are made of
          Message,       \* what is projected or reported
          Size,          \* the sizes of objects
          SrcPrefixes,   \* values of --src-prefix
          DstPrefix,     \* the value of --dst-prefix
          BackoffLimit,  \* retries of the Job
          MaxPuts, MaxJobs

\* A prefix has at least one segment, if only an empty one.
Text == Seq(Word)
KeyPrefix == Seq(Text) \ {<<>>}

\* A time, or a number, is one word: neither starts another one and goes on.
OneWord == {<<w>> : w \in Word}

\* What keys are computed from.
EventMessage ==
    [type : {".events"}, day : Text, time : OneWord, cluster : Text, message : Text]
StateMessage == [type : Word \ {".events", "report"}, day : Text, payload : Text]
ReportMessage ==
    [type : {"report"}, day : [1 .. 3 -> Word], topic : Text,
     partition : OneWord, offset : OneWord]

ASSUME MirrorAssumption ==
    /\ Dlq \in Writer
    /\ Prefix \in [Writer -> KeyPrefix]
    /\ SrcPrefixes \subseteq KeyPrefix /\ DstPrefix \in KeyPrefix
    /\ ".events" \in Word
    /\ Message \subseteq EventMessage \cup StateMessage \cup ReportMessage
    \* ".clusters" is no day of a month.
    /\ \A m, n \in Message : IsReport(n) => m.type # n.day[3]
    /\ BackoffLimit \in Nat /\ MaxPuts \in Nat /\ MaxJobs \in Nat

VARIABLES srcPrefix,     \* of the job
          src, dst,      \* the objects of both buckets, by key
          puts,          \* objects put so far
          job,           \* where the job is
          listed,        \* the source objects that were listed
          asOf,          \* puts when they were listed
          todo,          \* listed objects that are still to be transferred
          incomplete,    \* a transfer failed
          attempts, jobs

bucketVars == <<src, puts>>
copyVars == <<listed, asOf, todo, incomplete>>
vars == <<srcPrefix, bucketVars, dst, job, copyVars, attempts, jobs>>

Object == [by : Writer, of : Message, version : 1 .. MaxPuts, size : Size]
NoObjects == [k \in {} |-> 0]

Put(bucket, key, object) ==
    [k \in DOMAIN bucket \cup {key} |-> IF k = key THEN object ELSE bucket[k]]

Writes(w) == {m \in Message : IsReport(m) <=> w = Dlq}

Init ==
    /\ srcPrefix \in SrcPrefixes
    /\ src = NoObjects /\ dst = NoObjects
    /\ puts = 0
    /\ job = "idle"
    /\ listed = NoObjects /\ asOf = 0
    /\ todo = {}
    /\ incomplete = FALSE
    /\ attempts = 0 /\ jobs = 0

-------------------------------------------------------------------------------
(* The exporter.                                                           *)

\* A projection or a report, new or again: at its next delivery it may have
\* another size, or other contents of the same size.
PutObject(w, m, size) ==
    /\ puts < MaxPuts
    /\ puts' = puts + 1
    /\ src' = Put(src, ObjectKey(Prefix[w], m),
                  [by |-> w, of |-> m, version |-> puts + 1, size |-> size])
    /\ UNCHANGED <<srcPrefix, dst, job, copyVars, attempts, jobs>>

-------------------------------------------------------------------------------
(* The job.                                                                *)

SrcDir == Directory(srcPrefix)
DstDir == Directory(DstPrefix)

\* Mutant: the source is copied with its prefix.
MirroredWithPrefix(key) == DstDir \o key

\* s3://src/prefix1/path is copied to s3://dst/prefix2/path
Mirrored(key) == DstDir \o SubSeq(key, Len(SrcDir) + 1, Len(key))

\* The Job is created.
StartJob ==
    /\ job \in {"idle", "done", "gaveUp"}
    /\ jobs < MaxJobs
    /\ jobs' = jobs + 1
    /\ attempts' = 1
    /\ job' = "config"
    /\ UNCHANGED <<srcPrefix, bucketVars, dst, copyVars>>

\* Both secrets are read into the configuration of rclone.
GenerateConfig ==
    /\ job = "config"
    /\ job' = "list"
    /\ UNCHANGED <<srcPrefix, bucketVars, dst, copyVars, attempts, jobs>>

\* Mutant: --ignore-existing
IsMissing(key) == Mirrored(key) \notin DOMAIN dst

\* --size-only
IsDifferent(key) ==
    Mirrored(key) \in DOMAIN dst => dst[Mirrored(key)].size # src[key].size

\* Both sides are listed, and what differs is to be transferred.
List ==
    /\ job = "list"
    /\ LET found == {k \in DOMAIN src : Within(SrcDir, k)} IN
          /\ listed' = [k \in found |-> src[k]]
          /\ todo' = {k \in found : IsDifferent(k)}
    /\ asOf' = puts
    /\ incomplete' = FALSE
    /\ job' = "copy"
    /\ UNCHANGED <<srcPrefix, bucketVars, dst, attempts, jobs>>

\* The object is copied as it is by now, not as it was listed.
Transfer(k) ==
    /\ job = "copy"
    /\ k \in todo
    /\ todo' = todo \ {k}
    /\ dst' = Put(dst, Mirrored(k), src[k])
    /\ UNCHANGED <<srcPrefix, bucketVars, job, listed, asOf, incomplete, attempts,
                   jobs>>

\* The others are still copied.
TransferFails(k) ==
    /\ job = "copy"
    /\ k \in todo
    /\ todo' = todo \ {k}
    /\ incomplete' = TRUE
    /\ UNCHANGED <<srcPrefix, bucketVars, dst, job, listed, asOf, attempts, jobs>>

\* rclone ends well, and so does the script.
CopyEnds ==
    /\ job = "copy"
    /\ todo = {} /\ ~incomplete
    /\ job' = "done"
    /\ UNCHANGED <<srcPrefix, bucketVars, dst, copyVars, attempts, jobs>>

\* rclone ends with an error, a secret lacks a file, a bucket does not answer,
\* or the pod is killed.
Fails ==
    /\ job \in {"config", "list", "copy"}
    /\ job' = "failed"
    /\ listed' = NoObjects /\ asOf' = 0
    /\ todo' = {}
    /\ incomplete' = FALSE
    /\ UNCHANGED <<srcPrefix, bucketVars, dst, attempts, jobs>>

\* Mutant: attempts are counted, but not compared with the limit.
RetryUnlimited ==
    /\ job = "failed"
    /\ attempts' = attempts + 1
    /\ job' = "config"
    /\ UNCHANGED <<srcPrefix, bucketVars, dst, copyVars, jobs>>

\* restartPolicy Never: a new pod, as often as the limit allows.
Retry ==
    /\ job = "failed"
    /\ attempts' = attempts + 1
    /\ job' = IF attempts > BackoffLimit THEN "gaveUp" ELSE "config"
    /\ UNCHANGED <<srcPrefix, bucketVars, dst, copyVars, jobs>>

JobStep ==
    \/ GenerateConfig \/ List \/ CopyEnds \/ Fails \/ Retry
    \/ \E k \in todo : Transfer(k) \/ TransferFails(k)

Next ==
    \/ \E w \in Writer, size \in Size : \E m \in Writes(w) : PutObject(w, m, size)
    \/ StartJob
    \/ JobStep

Spec == Init /\ [][Next]_vars

-------------------------------------------------------------------------------
(* Properties.                                                             *)

\* Every variable has its type.
TypeOK ==
    /\ srcPrefix \in SrcPrefixes
    /\ puts \in 0 .. MaxPuts
    /\ \A bucket \in {src, dst, listed} :
          \A k \in DOMAIN bucket : bucket[k] \in Object
    /\ job \in {"idle", "config", "list", "copy", "failed", "done", "gaveUp"}
    /\ asOf \in 0 .. puts
    /\ todo \subseteq DOMAIN listed
    /\ incomplete \in BOOLEAN
    /\ attempts \in 0 .. BackoffLimit + 2
    /\ jobs \in 0 .. MaxJobs

\* Writers that share a bucket stay apart: an object is only replaced by one of
\* the same message under the same prefix.  The exception is two events of the
\* same time whose cluster and message read the same end to end, which needs
\* cluster ids of different lengths: the later event replaces the earlier one.
OneMessagePerObject ==
    [][\A k \in DOMAIN src :
          \/ src'[k].of = src[k].of /\ Prefix[src'[k].by] = Prefix[src[k].by]
          \/ /\ Ambiguous(src'[k].of, src[k].of)
             /\ Prefix[src'[k].by] = Prefix[src[k].by]]_vars

\* What a successful job promises: each object it listed is there, as it was
\* listed or newer, unless the mirror already had an object of its very size.
UpToSize(k) ==
    /\ Mirrored(k) \in DOMAIN dst
    /\ LET copy == dst[Mirrored(k)] IN
          \/ copy.version >= listed[k].version
          \/ copy.size = listed[k].size

\* ... and it listed what a writer of the same prefix had put, provided that the
\* prefix is empty or ends with a slash: the job adds a slash, the writer none.
SeesOutputs ==
    \A k \in DOMAIN src :
        /\ src[k].version <= asOf
        /\ Prefix[src[k].by] = srcPrefix /\ Terminated(srcPrefix)
        => k \in DOMAIN listed

MirroredUpToSize ==
    job = "done" => SeesOutputs /\ \A k \in DOMAIN listed : UpToSize(k)

\* The mirror holds nothing else: each of its objects is, or was, the object of
\* the same path under the source prefix, and is not newer than that.
MirrorsThePath ==
    \A d \in DOMAIN dst :
        /\ Within(DstDir, d)
        /\ LET key == SrcDir \o SubSeq(d, Len(DstDir) + 1, Len(d)) IN
              /\ key \in DOMAIN src
              /\ dst[d].version <= src[key].version
===============================================================================
