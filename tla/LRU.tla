-------------------------------- MODULE LRU --------------------------------
(***************************************************************************)
(* What a least-recently-used cache promises: the abstract specification   *)
(* that the linked list of quic_simple_dispatcher.h (module LRUCache)      *)
(* implements, and that the connection statistics query uses.              *)
(*                                                                         *)
(* A cache maps at most Size keys to values.  A read or a write of a key   *)
(* makes it the most recently used one; a write of a key that is not       *)
(* cached evicts the least recently used key when the cache is full.       *)
(***************************************************************************)
EXTENDS Naturals, FiniteSets

CONSTANTS
    Keys,      \* the keys a client may use
    Values,    \* the values a client may store
    Size,      \* the number of entries
    None       \* not a value: "this key is not cached"

VARIABLES
    store,     \* [Keys -> Values \cup {None}]: the cached value of each key
    age,       \* [Keys -> Nat]: when each cached key was last used, else 0
    clock,     \* the number of uses so far
    call,      \* the operation last called: <<key, value>>, None to read
    result     \* what the last operation returned to its caller

vars == <<store, age, clock, call, result>>

Cached == {k \in Keys : store[k] # None}

TypeOK ==
    /\ store \in [Keys -> Values \cup {None}]
    /\ age \in [Keys -> Nat]
    /\ clock \in Nat
    /\ call \in (Keys \cup {None}) \X (Values \cup {None})
    /\ result \in Values \cup {None}

Init ==
    /\ store = [k \in Keys |-> None]
    /\ age = [k \in Keys |-> 0]
    /\ clock = 0
    /\ call = <<None, None>>
    /\ result = None

Touch(k) ==
    /\ age' = [age EXCEPT ![k] = clock + 1]
    /\ clock' = clock + 1

\* k is cached: its value is replaced in place.
Replace(k, v) ==
    /\ k \in Cached
    /\ store' = [store EXCEPT ![k] = v]
    /\ Touch(k)
    /\ result' = None

\* k is not cached and there is room.
Insert(k, v) ==
    /\ k \notin Cached
    /\ Cardinality(Cached) < Size
    /\ store' = [store EXCEPT ![k] = v]
    /\ Touch(k)
    /\ result' = None

\* k is not cached and the cache is full: the least recently used key goes.
EvictFor(k, v) ==
    /\ k \notin Cached
    /\ Cardinality(Cached) = Size
    /\ \E victim \in Cached :
          /\ \A other \in Cached : age[victim] <= age[other]
          /\ store' = [store EXCEPT ![victim] = None, ![k] = v]
          /\ age' = [age EXCEPT ![victim] = 0, ![k] = clock + 1]
    /\ clock' = clock + 1
    /\ result' = None

Put(k, v) ==
    /\ call' = <<k, v>>
    /\ Replace(k, v) \/ Insert(k, v) \/ EvictFor(k, v)

Hit(k) ==
    /\ k \in Cached
    /\ result' = store[k]
    /\ Touch(k)
    /\ UNCHANGED store

Miss(k) ==
    /\ k \notin Cached
    /\ result' = None
    /\ UNCHANGED <<store, age, clock>>

Get(k) ==
    /\ call' = <<k, None>>
    /\ Hit(k) \/ Miss(k)

Next == \E k \in Keys : Get(k) \/ \E v \in Values : Put(k, v)

Spec == Init /\ [][Next]_vars
============================================================================
