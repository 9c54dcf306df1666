------------------------------ MODULE LRUCache ------------------------------
(***************************************************************************)
(* net::LRUCache<K,T> of model/net/tools/quic/quic_simple_dispatcher.h (a  *)
(* copy of tools/mapreduce/lrucache.h, which is not built): a fixed        *)
(* array of entries, a hash map from keys to entries, a list of free       *)
(* entries and a doubly linked list between two sentinels, most recently   *)
(* used entry first.                                                       *)
(*                                                                         *)
(* The pointers are modelled as they are: next and prev are the members of *)
(* struct Node, an entry that was never attached holds the indeterminate   *)
(* pointers that new Node[size] leaves in it (Wild), and detach and attach *)
(* are the four assignments of the code in their order.                    *)
(***************************************************************************)
EXTENDS Naturals, FiniteSets

CONSTANTS
    Keys,      \* the keys (type K)
    Values,    \* the data (type T)
    Entries,   \* the nodes of the array entries_
    Head,      \* the sentinel head_
    Tail,      \* the sentinel tail_
    NULL,      \* the null pointer
    Absent,    \* hashmap_ has no element for the key
    Wild,      \* an indeterminate pointer, key or datum
    None       \* no value was returned

Sentinels == {Head, Tail}
Nodes == Entries \cup Sentinels

ASSUME EntriesAssumption == IsFiniteSet(Entries) /\ Entries # {}
ASSUME SentinelsAssumption ==
    /\ Head # Tail
    /\ Entries \cap Sentinels = {}
ASSUME NotNodesAssumption ==
    /\ {NULL, Absent, Wild} \cap Nodes = {}
    /\ NULL # Absent
ASSUME WildAssumption == Wild \notin Keys
ASSUME NoneAssumption == None \notin Values

VARIABLES
    hashmap,   \* hashmap_: the node of each key; operator[] inserts NULL
    free,      \* free_entries_ (which free entry is taken never matters)
    next,      \* Node::next
    prev,      \* Node::prev
    key,       \* Node::key
    data,      \* Node::data
    count,     \* the cache miss count
    call,      \* the operation last called: <<key, data>>, None for a Get
    result,    \* what the last Get stored in its out parameter
    lastUse,   \* history: when each entry was last attached
    clock      \* history: the number of attachments so far

vars == <<hashmap, free, next, prev, key, data, count, call, result, lastUse,
          clock>>

Attached == Entries \ free

TypeOK ==
    /\ hashmap \in [Keys -> Entries \cup {NULL, Absent}]
    /\ free \subseteq Entries
    /\ next \in [Nodes -> Nodes \cup {NULL, Wild}]
    /\ prev \in [Nodes -> Nodes \cup {NULL, Wild}]
    /\ key \in [Entries -> Keys \cup {Wild}]
    /\ data \in [Entries -> Values \cup {Wild}]
    /\ count \in Nat
    /\ call \in (Keys \cup {None}) \X (Values \cup {None})
    /\ result \in Values \cup {None}
    /\ lastUse \in [Entries -> Nat]
    /\ clock \in Nat

Init ==
    /\ hashmap = [k \in Keys |-> Absent]
    /\ free = Entries
    /\ next = [n \in Nodes |-> IF n = Head THEN Tail
                               ELSE IF n = Tail THEN NULL ELSE Wild]
    /\ prev = [n \in Nodes |-> IF n = Head THEN NULL
                               ELSE IF n = Tail THEN Head ELSE Wild]
    /\ key = [e \in Entries |-> Wild]
    /\ data = [e \in Entries |-> Wild]
    /\ count = 0
    /\ call = <<None, None>>
    /\ result = None
    /\ lastUse = [e \in Entries |-> 0]
    /\ clock = 0

-----------------------------------------------------------------------------
(* The list operations, as functions of the pointer fields l.              *)

links == [next |-> next, prev |-> prev]

\* Mutant of detach: the successor keeps pointing at the detached node.
detachForward(l, n) ==
    [next |-> [l.next EXCEPT ![l.prev[n]] = l.next[n]], prev |-> l.prev]

detach(l, n) ==
    LET next1 == [l.next EXCEPT ![l.prev[n]] = l.next[n]]
    IN  [next |-> next1,
         prev |-> [l.prev EXCEPT ![next1[n]] = l.prev[n]]]

attach(l, n) ==
    LET next1 == [[l.next EXCEPT ![n] = l.next[Head]] EXCEPT ![Head] = n]
    IN  [next |-> next1,
         prev |-> [[l.prev EXCEPT ![next1[n]] = n] EXCEPT ![n] = Head]]

SetLinks(l) ==
    /\ next' = l.next
    /\ prev' = l.prev

\* The history: n has just become the most recently used entry.
Used(n) ==
    /\ lastUse' = [lastUse EXCEPT ![n] = clock + 1]
    /\ clock' = clock + 1

Fill(n, k, v) ==
    /\ key' = [key EXCEPT ![n] = k]
    /\ data' = [data EXCEPT ![n] = v]

-----------------------------------------------------------------------------
(* Put, one action per branch.                                             *)

\* Mutant of PutPresent: the entry moves to the front with its old datum.
PutPresentTouches(k, v) ==
    LET node == hashmap[k] IN
    /\ node \in Entries
    /\ SetLinks(attach(detach(links, node), node))
    /\ Used(node)
    /\ result' = None
    /\ UNCHANGED <<hashmap, free, key, data, count>>

PutPresent(k, v) ==
    LET node == hashmap[k] IN
    /\ node \in Entries
    /\ SetLinks(attach(detach(links, node), node))
    /\ Fill(node, k, v)
    /\ Used(node)
    /\ result' = None
    /\ UNCHANGED <<hashmap, free, count>>

PutFree(k, v) ==
    /\ hashmap[k] \notin Entries
    /\ \E node \in free :
          /\ free' = free \ {node}
          /\ Fill(node, k, v)
          /\ hashmap' = [hashmap EXCEPT ![k] = node]
          /\ SetLinks(attach(links, node))
          /\ Used(node)
    /\ result' = None
    /\ UNCHANGED count

PutEvict(k, v) ==
    LET node == prev[Tail] IN
    /\ hashmap[k] \notin Entries
    /\ free = {}
    /\ SetLinks(attach(detach(links, node), node))
    /\ hashmap' = [[hashmap EXCEPT ![key[node]] = Absent] EXCEPT ![k] = node]
    /\ Fill(node, k, v)
    /\ Used(node)
    /\ result' = None
    /\ UNCHANGED <<free, count>>

Put(k, v) ==
    /\ call' = <<k, v>>
    /\ PutPresent(k, v) \/ PutFree(k, v) \/ PutEvict(k, v)

-----------------------------------------------------------------------------
(* Get.  A miss leaves the NULL that hashmap_[key] inserted.               *)

GetHit(k) ==
    LET node == hashmap[k] IN
    /\ node \in Entries
    /\ SetLinks(attach(detach(links, node), node))
    /\ result' = data[node]
    /\ Used(node)
    /\ UNCHANGED <<hashmap, free, key, data, count>>

GetMiss(k) ==
    /\ hashmap[k] \notin Entries
    /\ hashmap' = [hashmap EXCEPT ![k] = NULL]
    /\ count' = count + 1
    /\ result' = None
    /\ UNCHANGED <<free, next, prev, key, data, lastUse, clock>>

Get(k) ==
    /\ call' = <<k, None>>
    /\ GetHit(k) \/ GetMiss(k)

Next == \E k \in Keys : Get(k) \/ \E v \in Values : Put(k, v)

Spec == Init /\ [][Next]_vars

-----------------------------------------------------------------------------
(* Properties.                                                             *)

\* Where a node stands in the order of use; the sentinels bound it.
Rank(n) == IF n = Head THEN clock + 1
           ELSE IF n = Tail THEN 0 ELSE lastUse[n]

\* attach and detach (quic_simple_dispatcher.h:220-234) keep one doubly
\* linked list from head_ to tail_ through exactly the entries in use: next and prev are
\* inverse, no indeterminate or null pointer is ever followed, and next[n] is
\* the entry used immediately before n, whatever mix of hits, replacements,
\* insertions and evictions came before.
ListInOrderOfUse ==
    /\ \A n \in Attached \cup {Head} :
          /\ next[n] \in Attached \cup {Tail}
          /\ prev[next[n]] = n
          /\ Rank(next[n]) < Rank(n)
          /\ \A m \in Attached : Rank(m) < Rank(n) => Rank(m) <= Rank(next[n])
    /\ \A n \in Attached \cup {Tail} :
          /\ prev[n] \in Attached \cup {Head}
          /\ next[prev[n]] = n

\* The hash map and the list describe the same cache
\* (quic_simple_dispatcher.h:170-198): a key leads to an entry that is in use and holds that key, every entry in use is
\* found under its key, and a reused entry leaves no stale key behind.
IndexMatchesList ==
    /\ \A k \in Keys : hashmap[k] \in Entries =>
          hashmap[k] \in Attached /\ key[hashmap[k]] = k
    /\ \A e \in Attached : key[e] \in Keys /\ hashmap[key[e]] = e

\* An entry in use is given to another key only when no entry is free and it
\* is the one that has gone unused the longest (quic_simple_dispatcher.h:182-187).
EvictsLeastRecentlyUsed ==
    [][\A e \in Attached : key'[e] # key[e] =>
          free = {} /\ \A other \in Attached : lastUse[e] <= lastUse[other]]_vars

\* The cache as its callers see it.
storeBar == [k \in Keys |-> IF hashmap[k] \in Entries
                            THEN data[hashmap[k]] ELSE None]
ageBar == [k \in Keys |-> IF hashmap[k] \in Entries
                          THEN lastUse[hashmap[k]] ELSE 0]

Abstract == INSTANCE LRU WITH store <- storeBar, age <- ageBar,
                              Size <- Cardinality(Entries)

\* The pointer implementation is a least-recently-used cache of
\* Cardinality(Entries) keys: every Put and Get of the code is a step of
\* module LRU, the value returned included.
ImplementsLRU == Abstract!Spec
=============================================================================
