--------------------------- MODULE MCMainProcessing ---------------------------
(* Messages for the instances of MainProcessing.tla checked by TLC. *)
EXTENDS MainProcessing, TLC

CONSTANTS c1, c2, b1, b2, k1, h1, h2

TwoConsumers == {c1, c2}
TwoBuckets == {b1, b2}
TwoHosts == {h1, h2}
BucketSymmetry == Permutations(TwoBuckets)
Symmetry == Permutations(TwoConsumers) \cup Permutations(TwoBuckets)

Msg(name, host, id, valid) ==
    [name |-> name, cluster |-> k1, host |-> host, id |-> id, day |-> 1,
     valid |-> valid]

\* A host is updated between two deliveries of the same cluster state.
Updated == << Msg("HostState", h1, 0, TRUE),
              Msg("ClusterState", h1, 1, TRUE),
              Msg("HostState", h1, 0, TRUE),
              Msg("ClusterState", h1, 1, TRUE) >>

\* A cluster state that is rejected with its two hosts.
Rejected == << Msg("HostState", h1, 0, TRUE),
               Msg("HostState", h2, 0, TRUE),
               Msg("ClusterState", h1, 1, FALSE),
               Msg("Event", h1, 1, TRUE) >>

\* The other kinds around a cluster state.
Mixed == << Msg("InfraEnv", h1, 1, TRUE),
            Msg("HostState", h2, 0, TRUE),
            Msg("Event", h1, 2, FALSE),
            Msg("ClusterState", h1, 1, TRUE) >>

\* The host is not updated any more when the same cluster state is pushed
\* again.
PushedAgain == << Msg("HostState", h1, 0, TRUE),
                  Msg("ClusterState", h1, 1, TRUE),
                  Msg("ClusterState", h1, 1, TRUE) >>

AllLogs == {Updated, Rejected, Mixed}
PushedAgainOnly == {PushedAgain}
===============================================================================
