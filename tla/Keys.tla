--------------------------------- MODULE Keys ---------------------------------
(***************************************************************************)
(* The names of things: the ids computed from messages                     *)
(* (internal/processing), the object keys computed from ids and messages   *)
(* (projectedevent/s3.go, processingerror/s3.go), and how a key prefix is  *)
(* read by the exporter and by the mirroring script (scripts/sync.sh).     *)
(*                                                                         *)
(* A text is a sequence of words; a key is the sequence of its segments,   *)
(* the texts between its slashes, so that "out/" is <<<<"out">>, <<>>>>.   *)
(* MD5 and the JSON encoding are taken as injective: an id is its input.   *)
(***************************************************************************)
EXTENDS Naturals, SequencesExt

NoText == <<>>
EmptyPrefix == <<NoText>>

-------------------------------------------------------------------------------
(* Messages: `type` is where the object goes.                              *)

IsEvent(m) == m.type = ".events"
IsReport(m) == m.type = "report"

\* computeEventID: time, cluster and message put end to end.
EventID(m) == m.time \o m.cluster \o m.message

\* HashPayload: the id of a state covers all its payload, but not its hosts.
ID(m) == IF IsEvent(m) THEN EventID(m) ELSE m.payload

\* Two events that put end to end may give the same text: the time ends with
\* its Z, but the cluster may run into the message.
Ambiguous(m, n) == IsEvent(m) /\ IsEvent(n) /\ Len(m.cluster) # Len(n.cluster)

-------------------------------------------------------------------------------
(* Keys.                                                                   *)

\* A prefix and what is put at its end, with no slash in between.
Under(prefix, path) ==
    Front(prefix) \o <<Last(prefix) \o Head(path)>> \o Tail(path)

\* Mutant: the outputs of a bucket share its keys.
UnprefixedKey(prefix, m) == <<<<m.type>>, m.day, ID(m)>>

\* <prefix><eventType>/<year>-<month>-<day>/<id>.ndjson
ProjectionKey(prefix, m) == Under(prefix, <<<<m.type>>, m.day, ID(m)>>)

\* <prefix><year>/<month>/<day>/<topic>/<partition>-<offset>.json: the day of
\* the Kafka message, so that each delivery has the same key.
ReportKey(prefix, m) ==
    Under(prefix, [i \in 1 .. 3 |-> <<m.day[i]>>]
                      \o <<m.topic, m.partition \o m.offset>>)

ObjectKey(prefix, m) ==
    IF IsReport(m) THEN ReportKey(prefix, m) ELSE ProjectionKey(prefix, m)

-------------------------------------------------------------------------------
(* Directories.                                                            *)

Terminated(prefix) == Last(prefix) = NoText

\* Mutant: the slash is added to every prefix.
NormalizedAlways(prefix) == Append(prefix, NoText)

\* sync.sh: a slash is added to a prefix that does not end with one.
Normalized(prefix) ==
    IF Terminated(prefix) THEN prefix ELSE Append(prefix, NoText)

Directory(prefix) == Front(Normalized(prefix))

Within(dir, key) == IsPrefix(dir, key)
===============================================================================
