----------------------- MODULE MCConnectionStatsQuery -----------------------
(* Small files: fewer lines than the cache holds, as many, and more. *)
EXTENDS ConnectionStatsQuery

CONSTANTS Clusters, MaxLines, MaxLength

Lines == [ip : Ips, cluster : Clusters, length : 1..MaxLength]
SmallIpFiles == UNION {[1..n -> Lines] : n \in 1..MaxLines}
SmallStatsFiles == UNION {[1..n -> Clusters] : n \in 0..MaxLines}
=============================================================================
