------------------------ MODULE ConnectionStatsQuery ------------------------
(***************************************************************************)
(* ConnectionStatsQuery of quic_simple_dispatcher.cc and the dispatcher    *)
(* that asks it: Initialize loads the statistics of each cluster and the   *)
(* last size_ lines of the ip-cluster log, which it finds by seeking back  *)
(* from the end of the file; CreateQuicSession then queries it for the     *)
(* address of every new connection.                                        *)
(*                                                                         *)
(* A file is a sequence of lines.  The byte at a position of the ip log is *)
(* the number of its line, or NewLine.  The two caches are the lists of    *)
(* module LRUCache, most recently used entry first.                        *)
(***************************************************************************)
EXTENDS Integers, Sequences, SequencesExt, FiniteSets

CONSTANTS
    IpSize,        \* size_
    ClusterNum,    \* clusterNum_
    IpFiles,       \* ip-cluster files: sequences of [ip, cluster, length]
    StatsFiles,    \* cluster-min-max-mean files: sequences of cluster ids
    Ips,           \* addresses of clients
    Missing,       \* a file that cannot be opened
    NoStats        \* Query returned false

ASSUME SizeAssumption == {IpSize, ClusterNum} \subseteq Nat \ {0}

\* What writes the files leaves no line and no ip-cluster file empty.
ASSUME FilesAssumption ==
    \A f \in IpFiles : f # <<>> /\ \A i \in DOMAIN f : f[i].length > 0

NewLine == 0
EndOfFile == -1
Failed == -1        \* tellg() of a stream whose last seek failed

VARIABLES
    pc,             \* where Initialize is, "serving" when it has returned
    statsLog, ipLog,            \* the two files
    row,                        \* lines read of the file being read
    pos,                        \* position in ipLog
    nCurentPos, i,              \* the variables of the backward seek
    cluster_to_stats, ip_to_cluster,
    answer                      \* the last query: [ip, stats]

vars == <<pc, statsLog, ipLog, row, pos, nCurentPos, i, cluster_to_stats,
          ip_to_cluster, answer>>

Init ==
    /\ pc = "stats"
    /\ statsLog \in StatsFiles \cup {Missing}
    /\ ipLog \in IpFiles \cup {Missing}
    /\ row = 0
    /\ pos = 0 /\ nCurentPos = -2 /\ i = 0
    /\ cluster_to_stats = <<>> /\ ip_to_cluster = <<>>
    /\ answer = [ip |-> NoStats, stats |-> NoStats]

-----------------------------------------------------------------------------
\* The caches.

Entry(k, v) == [key |-> k, data |-> v]

Without(cache, k) == SelectSeq(cache, LAMBDA e : e.key # k)

Has(cache, k) == \E n \in DOMAIN cache : cache[n].key = k

\* The entry becomes the first; the last one goes when there is no room.
ToFront(cache, size, e) ==
    <<e>> \o (IF Len(cache) = size THEN Front(cache) ELSE cache)

\* Mutant: a key that is cached keeps its datum.
PutKeeps(cache, size, k, v) ==
    IF Has(cache, k) THEN cache ELSE ToFront(cache, size, Entry(k, v))

Put(cache, size, k, v) == ToFront(Without(cache, k), size, Entry(k, v))

Lookup(cache, k) == cache[CHOOSE n \in DOMAIN cache : cache[n].key = k].data

\* A hit moves the entry to the front, a miss changes nothing that is seen.
Get(cache, k) ==
    IF Has(cache, k) THEN <<Entry(k, Lookup(cache, k))>> \o Without(cache, k)
    ELSE cache

-----------------------------------------------------------------------------
\* The ip log as a stream of bytes.

Text(file) ==
    FlattenSeq([n \in DOMAIN file |-> [b \in 1..file[n].length |-> n] \o <<NewLine>>])

peek == IF pos = Failed \/ pos >= Len(Text(ipLog)) THEN EndOfFile
        ELSE Text(ipLog)[pos + 1]

\* seekg(d, cur): it fails before the beginning, and then all others do.
Seek(from, d) == IF from = Failed \/ from + d < 0 THEN Failed ELSE from + d

-----------------------------------------------------------------------------
\* Initialize.

exit ==
    /\ \/ pc = "stats" /\ statsLog = Missing
       \/ pc = "open" /\ ipLog = Missing
    /\ pc' = "exit"
    /\ UNCHANGED <<statsLog, ipLog, row, pos, nCurentPos, i, cluster_to_stats,
                   ip_to_cluster, answer>>

\* The statistics of a cluster are named by the line they come from.
ReadStats ==
    /\ pc = "stats" /\ statsLog # Missing
    /\ IF row < Len(statsLog)
       THEN /\ row' = row + 1
            /\ cluster_to_stats' =
                  Put(cluster_to_stats, ClusterNum, statsLog[row + 1], row + 1)
            /\ UNCHANGED pc
       ELSE /\ pc' = "open"
            /\ UNCHANGED <<row, cluster_to_stats>>
    /\ UNCHANGED <<statsLog, ipLog, pos, nCurentPos, i, ip_to_cluster, answer>>

\* Mutant: the search starts on the newline that ends the file.
OpenIpLogAtEnd ==
    /\ pc = "open" /\ ipLog # Missing
    /\ pos' = Seek(Len(Text(ipLog)), -1)
    /\ pc' = "seek"
    /\ UNCHANGED <<statsLog, ipLog, row, nCurentPos, i, cluster_to_stats,
                   ip_to_cluster, answer>>

OpenIpLog ==
    /\ pc = "open" /\ ipLog # Missing
    /\ pos' = Seek(Len(Text(ipLog)), -2)
    /\ pc' = "seek"
    /\ UNCHANGED <<statsLog, ipLog, row, nCurentPos, i, cluster_to_stats,
                   ip_to_cluster, answer>>

\* Mutant: the beginning of the file is not looked for.
SeekBackBlindly ==
    /\ pc = "seek" /\ i < IpSize /\ peek # NewLine
    /\ nCurentPos' = pos
    /\ pos' = Seek(pos, -1)
    /\ UNCHANGED <<pc, statsLog, ipLog, row, i, cluster_to_stats, ip_to_cluster,
                   answer>>

\* One turn of the inner loop: no newline here.
SeekBack ==
    /\ pc = "seek" /\ i < IpSize /\ peek # NewLine
    /\ nCurentPos' = pos
    /\ IF pos = 0
       THEN pc' = "rewind" /\ UNCHANGED pos
       ELSE pos' = Seek(pos, -1) /\ UNCHANGED pc
    /\ UNCHANGED <<statsLog, ipLog, row, i, cluster_to_stats, ip_to_cluster,
                   answer>>

\* The inner loop stops at a newline: one more line is passed.
PassLine ==
    /\ pc = "seek" /\ i < IpSize /\ peek = NewLine
    /\ pos' = Seek(pos, -1)
    /\ i' = i + 1
    /\ UNCHANGED <<pc, statsLog, ipLog, row, nCurentPos, cluster_to_stats,
                   ip_to_cluster, answer>>

\* The search is over: forward over the newline and to the line after it, or
\* to the beginning of the file.
Reposition ==
    /\ pc = "rewind" \/ (pc = "seek" /\ i = IpSize)
    /\ pos' = IF nCurentPos = 0 THEN 0 ELSE Seek(pos, 2)
    /\ pc' = "ips"
    /\ UNCHANGED <<statsLog, ipLog, row, nCurentPos, i, cluster_to_stats,
                   ip_to_cluster, answer>>

\* getline and Put: the line that the bytes from pos on belong to.
ReadIp ==
    /\ pc = "ips"
    /\ IF peek = EndOfFile
       THEN /\ pc' = "serving"
            /\ UNCHANGED <<row, pos, ip_to_cluster>>
       ELSE LET line == ipLog[peek] IN
            /\ pos' = 1 + CHOOSE p \in pos..(Len(Text(ipLog)) - 1) :
                            /\ Text(ipLog)[p + 1] = NewLine
                            /\ \A q \in pos..(p - 1) : Text(ipLog)[q + 1] # NewLine
            /\ ip_to_cluster' = Put(ip_to_cluster, IpSize, line.ip, line.cluster)
            /\ UNCHANGED <<row, pc>>
    /\ UNCHANGED <<statsLog, ipLog, nCurentPos, i, cluster_to_stats, answer>>

-----------------------------------------------------------------------------
\* Serving.

Query(ip) ==
    LET cluster == Lookup(ip_to_cluster, ip) IN
    /\ ip_to_cluster' = Get(ip_to_cluster, ip)
    /\ IF Has(ip_to_cluster, ip) /\ Has(cluster_to_stats, cluster)
       THEN /\ cluster_to_stats' = Get(cluster_to_stats, cluster)
            /\ answer' = [ip |-> ip, stats |-> Lookup(cluster_to_stats, cluster)]
       ELSE /\ answer' = [ip |-> ip, stats |-> NoStats]
            /\ UNCHANGED cluster_to_stats

\* CreateQuicSession: the answer sets the windows and the round-trip times of
\* the connection, which are else the defaults.
CreateQuicSession(ip) ==
    /\ pc = "serving"
    /\ Query(ip)
    /\ UNCHANGED <<pc, statsLog, ipLog, row, pos, nCurentPos, i>>

Initialize ==
    exit \/ ReadStats \/ OpenIpLog \/ SeekBack \/ PassLine \/ Reposition \/ ReadIp

Next == Initialize \/ \E ip \in Ips : CreateQuicSession(ip)

Spec == Init /\ [][Next]_vars

\* Initialize runs on the thread of the constructor, which nothing interrupts.
FairSpec == Spec /\ WF_vars(Initialize)

-----------------------------------------------------------------------------
\* What the files say.

\* The lines of the log that are to be loaded.
LastLines ==
    SubSeq(ipLog, IF Len(ipLog) > IpSize THEN Len(ipLog) - IpSize + 1 ELSE 1,
           Len(ipLog))

\* The last line of LastLines about ip, 0 if there is none.
LineOf(ip) == SelectLastInSeq(LastLines, LAMBDA l : l.ip = ip)

\* The last statistics of a cluster, 0 if there are none or ClusterNum other
\* clusters follow them.
StatsOf(cluster) ==
    LET last == SelectLastInSeq(statsLog, LAMBDA c : c = cluster)
    IN IF Cardinality({statsLog[n] : n \in (last + 1)..Len(statsLog)}) < ClusterNum
       THEN last ELSE 0

Opened == statsLog # Missing /\ ipLog # Missing

TypeOK ==
    /\ pc \in {"stats", "open", "seek", "rewind", "ips", "serving", "exit"}
    /\ Opened => /\ row \in 0..Len(statsLog)
                 /\ pos \in -1..Len(Text(ipLog))
                 /\ nCurentPos \in -2..Len(Text(ipLog))
    /\ i \in 0..IpSize
    /\ Len(ip_to_cluster) <= IpSize /\ Len(cluster_to_stats) <= ClusterNum

\* Seeking back from the end of the ip-cluster log finds the beginning of the
\* last size_ lines, or of the file when it has no more: the cache then holds
\* exactly the addresses on those lines, each with its newest cluster, and no
\* Put has evicted one of them.  All the while the positions stay in the files
\* and the caches within their sizes.
LoadsLastLines ==
    /\ TypeOK
    /\ pc = "serving" =>
        /\ {ip_to_cluster[n].key : n \in DOMAIN ip_to_cluster}
                = {LastLines[n].ip : n \in DOMAIN LastLines}
        /\ \A n \in DOMAIN ip_to_cluster :
              ip_to_cluster[n].data = LastLines[LineOf(ip_to_cluster[n].key)].cluster

\* What CreateQuicSession is told about a client depends on the two files
\* only, never on the connections before it, though every query reorders the
\* caches: the newest statistics of the client's newest cluster, and nothing
\* when either was left out for lack of room.
AnswersFollowFiles ==
    answer.ip # NoStats =>
        LET stats == StatsOf(LastLines[LineOf(answer.ip)].cluster)
        IN answer.stats = IF LineOf(answer.ip) = 0 \/ stats = 0 THEN NoStats
                          ELSE stats

\* The backward search of Initialize ends, at a newline or at the beginning
\* of the file, and the server starts (or exits when a file is missing).
InitializeEnds == <>(pc \in {"serving", "exit"})
=============================================================================
