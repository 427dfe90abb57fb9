------------------------------- MODULE MCMirror -------------------------------
(* Three writers that share a bucket, and a job for one prefix. *)
EXTENDS Mirror

Slash == <<<<"out">>, NoText>>
NoSlash == <<<<"out">>>>
Event(cluster, message) ==
    [type |-> ".events", day |-> <<"2025-03-03">>, time |-> <<"t">>,
     cluster |-> cluster, message |-> message]

MCWord == {"out", "copy", ".events", ".clusters", "report", "2025-03-03", "2025",
           "03", "t", "c", "m", "p", "topic", "0", "7"}
MCWriter == {"output-0", "output-1", "dlq"}
MCDlq == "dlq"
MCPrefix == [w \in MCWriter |-> IF w = "output-0" THEN Slash ELSE NoSlash]
MCSrcPrefixes == {Slash, NoSlash, EmptyPrefix}
MCDstPrefix == <<<<"copy">>>>
\* The two events read the same end to end: t c c m.
MCMessage == {
    Event(<<"c">>, <<"c", "m">>),
    Event(<<"c", "c">>, <<"m">>),
    [type |-> ".clusters", day |-> <<"2025-03-03">>, payload |-> <<"p">>],
    [type |-> "report", day |-> <<"2025", "03", "03">>, topic |-> <<"topic">>,
     partition |-> <<"0">>, offset |-> <<"7">>] }
===============================================================================
