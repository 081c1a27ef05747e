-------------------------- MODULE MCClusterAdmission --------------------------
(* One Cluster of every kind, and one that may have been given its prefix. *)
EXTENDS ClusterAdmission

CONSTANTS a, b, x, y

MCClusters == {a, b}
MCPrefixes == {x, y}
MCManifests ==
    {m \in [MCClusters -> Manifest] :
        /\ m[a].prefix = x
        /\ m[b] \in [prefix : MCPrefixes, boot : {"initdb"}, optOut : {FALSE}, archives : {TRUE}]}
MCTwins == {m \in MCManifests : m[a] = m[b]}

=============================================================================
