------------------------ MODULE CacheAndAlarmProofs ------------------------
(***************************************************************************)
(* Proofs about QuicAlarm and LRUCache, two components that stand alone.   *)
(***************************************************************************)
EXTENDS LRUCache, QuicAlarm, FiniteSetTheorems, TLAPS

(* QuicAlarm, for every owner, every time and every bound: it has at most  *)
(* one event in the simulator, and it never goes off early, late or for a  *)
(* deadline that was withdrawn.                                            *)


\* While an event is pending the alarm is set, and the event is the deadline
\* that the last request amounts to.
Pending ==
  events # {} =>
    /\ IsSet
    /\ alarm.deadline = alarm.task_deadline
    /\ asked.deadline < alarm.deadline + Larger(SmallDelay, 1)
    /\ alarm.deadline <= Larger(asked.deadline, asked.at)

AlarmIInv ==
  /\ AlarmTypeOK
  /\ now # 0
  /\ OneTask
  /\ Pending
  /\ FiresOnTime

\* Rounding a deadline moves it by less than SmallDelay, and never past now.
LEMMA TaskTimeBounds ==
  ASSUME now \in Nat \ {0}, NEW d \in Nat \ {0}
  PROVE  /\ TaskTime(d) \in Nat \ {0}
         /\ d < TaskTime(d) + Larger(SmallDelay, 1)
         /\ TaskTime(d) <= Larger(d, now)
BY AlarmConstants DEF TaskTime, Larger, AlarmConstants

\* SetImpl with no event pending leaves at most the event it posts.
LEMMA SetImplPosts ==
  ASSUME now \in Nat \ {0}, NEW a \in Alarms, NEW d \in Nat \ {0},
         NEW u \in Uids, SetImpl(a, {}, d, u)
  PROVE  /\ alarm' \in Alarms
         /\ events' \subseteq [uid : Uids, at : Nat]
         /\ events' # {} =>
              /\ alarm'.deadline = TaskTime(d)
              /\ alarm'.task_deadline = TaskTime(d)
              /\ alarm'.id = u
              /\ events' = {[uid |-> u, at |-> TaskTime(d)]}
<1>1. TaskTime(d) \in Nat \ {0}
  BY TaskTimeBounds
<1>2. CASE TaskSuffices(a, d)
  BY <1>2 DEF SetImpl, Alarms
<1>3. CASE ~TaskSuffices(a, d)
  BY <1>1, <1>3 DEF SetImpl, Alarms
<1> QED
  BY <1>2, <1>3

\* A request accepted with no event pending establishes the invariant again.
LEMMA RequestKeepsInvariant ==
  ASSUME AlarmIInv, NEW a \in Alarms, NEW d \in Nat \ {0}, NEW u \in Uids,
         SetImpl(a, {}, d, u),
         asked' = [deadline |-> d, at |-> now],
         UNCHANGED <<now, fired>>
  PROVE  AlarmIInv'
<1> now \in Nat \ {0}
  BY DEF AlarmIInv, AlarmTypeOK
<1>1. /\ alarm' \in Alarms
      /\ events' \subseteq [uid : Uids, at : Nat]
      /\ events' # {} =>
           /\ alarm'.deadline = TaskTime(d)
           /\ alarm'.task_deadline = TaskTime(d)
           /\ alarm'.id = u
           /\ events' = {[uid |-> u, at |-> TaskTime(d)]}
  BY SetImplPosts
<1>2. AlarmTypeOK'
  BY <1>1 DEF AlarmIInv, AlarmTypeOK, Request
<1>3. OneTask'
  BY <1>1 DEF OneTask
<1>4. Pending'
  BY <1>1, TaskTimeBounds DEF Pending, IsSet, Larger
<1>5. FiresOnTime'
  BY DEF AlarmIInv, FiresOnTime
<1> QED
  BY <1>2, <1>3, <1>4, <1>5 DEF AlarmIInv

\* Every step of the owner, of the alarm and of the simulator.
LEMMA AlarmStep == AlarmIInv /\ [AlarmNext]_alarmVars => AlarmIInv'
<1> SUFFICES ASSUME AlarmIInv, [AlarmNext]_alarmVars PROVE AlarmIInv'
  OBVIOUS
<1> alarm \in Alarms /\ now \in Nat \ {0}
  BY DEF AlarmIInv, AlarmTypeOK
<1> Times \subseteq Nat
  BY AlarmConstants DEF Times, AlarmConstants
<1>0. /\ ~IsSet => events = {}
      /\ CancelImpl(alarm) = {}
      /\ \A e \in events : events \ {e} = {}
  BY DEF AlarmIInv, Pending, OneTask, CancelImpl
<1>c. Cancelled(alarm) \in Alarms
  BY DEF Cancelled, Alarms
<1>1. ASSUME NEW d \in Times \ {0}, Set(d) PROVE AlarmIInv'
  <2>1. events = {}
    BY <1>0, <1>1 DEF Set
  <2>2. PICK u \in Uids : SetImpl(alarm, {}, d, u)
    BY <1>1, <2>1 DEF Set, FreeUids
  <2> QED
    BY <1>1, <2>2, RequestKeepsInvariant DEF Set
<1>2. CASE Cancel
  <2>1. alarm' \in Alarms /\ events' = {}
    BY <1>0, <1>c, <1>2 DEF Cancel
  <2> QED
    BY <1>2, <2>1 DEF Cancel, AlarmIInv, AlarmTypeOK, OneTask, Pending, FiresOnTime
<1>3. ASSUME NEW d \in Times \ {0}, NEW g \in Granularities, Update(d, g)
      PROVE  AlarmIInv'
  <2>1. CASE IsSet
    <3>1. PICK u \in Uids : SetImpl(Cancelled(alarm), {}, d, u)
      BY <1>0, <1>3, <2>1 DEF Update, FreeUids
    <3> QED
      BY <1>3, <1>c, <3>1, RequestKeepsInvariant DEF Update
  <2>2. CASE ~IsSet
    <3>1. PICK u \in Uids : SetImpl(alarm, {}, d, u)
      BY <1>0, <1>3, <2>2 DEF Update, FreeUids
    <3> QED
      BY <1>3, <3>1, RequestKeepsInvariant DEF Update
  <2> QED
    BY <2>1, <2>2
<1>4. ASSUME NEW e \in events, OnAlarm(e) PROVE AlarmIInv'
  <2>1. /\ IsSet
        /\ e.at = alarm.deadline
        /\ asked.deadline < alarm.deadline + Larger(SmallDelay, 1)
        /\ alarm.deadline <= Larger(asked.deadline, asked.at)
    BY DEF AlarmIInv, Pending, OneTask
  <2>2. /\ alarm' = [[alarm EXCEPT !.task_deadline = 0] EXCEPT !.deadline = 0]
        /\ events' = {}
        /\ fired' = [at |-> now, deadline |-> asked.deadline,
                     asked_at |-> asked.at]
        /\ UNCHANGED <<now, asked>>
    BY <1>0, <1>4, <2>1 DEF OnAlarm, Alarms
  <2>3. AlarmTypeOK'
    BY <2>2 DEF AlarmIInv, AlarmTypeOK, Alarms, Request, Firing
  <2>4. FiresOnTime'
    BY <1>4, <2>1, <2>2 DEF FiresOnTime, OnAlarm
  <2> QED
    BY <2>2, <2>3, <2>4 DEF AlarmIInv, OneTask, Pending
<1>5. CASE Tick
  BY <1>5 DEF Tick, AlarmIInv, AlarmTypeOK, OneTask, Pending, IsSet, FiresOnTime
<1>6. CASE UNCHANGED alarmVars
  BY <1>6 DEF alarmVars, AlarmIInv, AlarmTypeOK, OneTask, Pending, IsSet, FiresOnTime
<1> QED
  BY <1>1, <1>2, <1>3, <1>4, <1>5, <1>6 DEF AlarmNext, RunEvent

LEMMA AlarmStart == AlarmInit => AlarmIInv
BY AlarmConstants
   DEF AlarmInit, AlarmIInv, AlarmTypeOK, OneTask, Pending, FiresOnTime, AlarmConstants,
       Alarms, Request, Firing

\* Whatever its owner calls, an alarm never has an event in the simulator that
\* it does not remember: SetImpl never overwrites the id of a pending event.
THEOREM AlarmHasOneTask == AlarmSpec => []OneTask
<1>1. AlarmIInv => OneTask
  BY DEF AlarmIInv
<1> QED
  BY AlarmStart, AlarmStep, <1>1, PTL DEF AlarmSpec

\* Whatever its owner calls, the delegate is invoked only for the deadline
\* asked for last, not before it and not after it.
THEOREM AlarmFiresOnTime == AlarmSpec => []FiresOnTime
<1>1. AlarmIInv => FiresOnTime
  BY DEF AlarmIInv
<1> QED
  BY AlarmStart, AlarmStep, <1>1, PTL DEF AlarmSpec

-----------------------------------------------------------------------------
(* LRUCache, for every finite set of entries, every set of keys and every  *)
(* set of values.                                                          *)


USE EntriesAssumption, SentinelsAssumption, NotNodesAssumption,
    WildAssumption, NoneAssumption

\* Entries in use were last used at distinct times up to the clock, and hold
\* data.
UsesDistinct ==
    /\ \A e \in Attached : lastUse[e] \in 1..clock /\ data[e] \in Values
    /\ \A e, f \in Attached : lastUse[e] = lastUse[f] => e = f

IInv == TypeOK /\ ListInOrderOfUse /\ IndexMatchesList /\ UsesDistinct

LEMMA InitIInv == Init => IInv
BY DEF Init, IInv, TypeOK, ListInOrderOfUse, IndexMatchesList, UsesDistinct,
       Attached, Rank, Nodes, Sentinels

\* Moving an entry in use to the front (detach, then attach) keeps the list in
\* the order of use.
LEMMA MoveToFront ==
    ASSUME IInv, NEW n \in Attached,
           SetLinks(attach(detach(links, n), n)), Used(n), UNCHANGED free
    PROVE  ListInOrderOfUse'
<1> DEFINE p == prev[n]
           q == next[n]
           f == next[Head]
<1> USE DEF Nodes, Sentinels
<1>1. /\ p \in Attached \cup {Head} /\ next[p] = n
      /\ q \in Attached \cup {Tail} /\ prev[q] = n
      /\ p # n /\ q # n /\ p # q
  BY DEF IInv, TypeOK, ListInOrderOfUse, Attached, Rank
<1>2. /\ next' = [[[next EXCEPT ![p] = q] EXCEPT ![n] = IF p = Head THEN q ELSE f]
                    EXCEPT ![Head] = n]
      /\ prev' = [[[prev EXCEPT ![q] = p] EXCEPT ![IF p = Head THEN q ELSE f] = n]
                    EXCEPT ![n] = Head]
  BY Zenon, <1>1 DEF IInv, TypeOK, ListInOrderOfUse, Attached, SetLinks, attach, detach,
              links
<1>3. \A m \in Attached \ {n} : Rank(m)' = Rank(m) /\ Rank(m) \in 1..clock
  BY DEF Rank, Used, IInv, TypeOK, UsesDistinct, Attached
<1>4. /\ Rank(n)' = clock + 1 /\ Rank(Head)' = clock + 2 /\ Rank(Tail)' = 0
      /\ Rank(n) \in 1..clock /\ Rank(Head) = clock + 1 /\ Rank(Tail) = 0
      /\ clock \in Nat
  BY DEF Rank, Used, IInv, TypeOK, UsesDistinct, Attached
<1>5. Attached' = Attached
  BY DEF Attached
<1>6. ASSUME NEW m \in Attached \cup {Head}
      PROVE  /\ next'[m] \in Attached \cup {Tail}
             /\ prev'[next'[m]] = m
             /\ Rank(next[m])' < Rank(m)'
             /\ \A o \in Attached : Rank(o)' < Rank(m)' => Rank(o)' <= Rank(next[m])'
  <2>1. CASE m = Head
    BY <2>1, <1>1, <1>2, <1>3, <1>4 DEF IInv, TypeOK, Attached
  <2>2. CASE m = n
    BY <2>2, <1>1, <1>2, <1>3, <1>4 DEF IInv, TypeOK, ListInOrderOfUse, Attached
  <2>3. CASE m = p /\ m # Head
    <3>1. next'[m] = q /\ prev'[q] = p /\ q # Head
      BY <2>3, <1>1, <1>2 DEF IInv, TypeOK, ListInOrderOfUse, Attached
    <3>2. Rank(q) < Rank(n) /\ Rank(n) < Rank(p)
      BY <2>3, <1>1 DEF IInv, ListInOrderOfUse
    <3>3. \A o \in Attached : Rank(o) < Rank(p) => o = n \/ Rank(o) <= Rank(q)
      BY SMTT(30), <2>3, <1>1, <1>3, <1>4 DEF IInv, ListInOrderOfUse, UsesDistinct, Rank, Attached
    <3> QED BY <2>3, <3>1, <3>2, <3>3, <1>1, <1>3, <1>4
  <2>4. CASE m \notin {Head, n, p}
    <3>1. next'[m] = next[m] /\ next[m] \in Attached \cup {Tail} /\ next[m] # n
      BY <2>4, <1>1, <1>2 DEF IInv, TypeOK, ListInOrderOfUse, Attached
    <3>2. prev'[next[m]] = m
      BY <2>4, <3>1, <1>1, <1>2 DEF IInv, TypeOK, ListInOrderOfUse, Attached
    <3>3. /\ Rank(next[m]) < Rank(m)
          /\ \A o \in Attached : Rank(o) < Rank(m) => Rank(o) <= Rank(next[m])
      BY <2>4 DEF IInv, ListInOrderOfUse
    <3> QED BY <2>4, <3>1, <3>2, <3>3, <1>3, <1>4
  <2> QED BY <2>1, <2>2, <2>3, <2>4
<1>7. ASSUME NEW m \in Attached \cup {Tail}
      PROVE  prev'[m] \in Attached \cup {Head} /\ next'[prev'[m]] = m
  BY <1>1, <1>2 DEF IInv, TypeOK, ListInOrderOfUse, Attached
<1> QED BY <1>5, <1>6, <1>7 DEF ListInOrderOfUse

\* Attaching a free entry keeps the list in the order of use.
LEMMA AttachFree ==
    ASSUME IInv, NEW n \in free,
           SetLinks(attach(links, n)), Used(n), free' = free \ {n}
    PROVE  ListInOrderOfUse'
<1> DEFINE f == next[Head]
<1> USE DEF Nodes, Sentinels
<1>1. /\ n \in Entries /\ n \notin Attached
      /\ f \in Attached \cup {Tail} /\ prev[f] = Head
  BY DEF IInv, TypeOK, ListInOrderOfUse, Attached
<1>2. /\ next' = [[next EXCEPT ![n] = f] EXCEPT ![Head] = n]
      /\ prev' = [[prev EXCEPT ![f] = n] EXCEPT ![n] = Head]
  BY Zenon, <1>1 DEF IInv, TypeOK, Attached, SetLinks, attach, links
<1>3. \A m \in Attached : Rank(m)' = Rank(m) /\ Rank(m) \in 1..clock
  BY <1>1 DEF Rank, Used, IInv, TypeOK, UsesDistinct, Attached
<1>4. /\ Rank(n)' = clock + 1 /\ Rank(Head)' = clock + 2 /\ Rank(Tail)' = 0
      /\ Rank(Head) = clock + 1 /\ Rank(Tail) = 0
      /\ clock \in Nat
  BY <1>1 DEF Rank, Used, IInv, TypeOK, Attached
<1>5. Attached' = Attached \cup {n}
  BY <1>1 DEF Attached, IInv, TypeOK
<1>6. ASSUME NEW m \in Attached' \cup {Head}
      PROVE  /\ next'[m] \in Attached' \cup {Tail}
             /\ prev'[next'[m]] = m
             /\ Rank(next[m])' < Rank(m)'
             /\ \A o \in Attached' : Rank(o)' < Rank(m)' => Rank(o)' <= Rank(next[m])'
  <2>1. CASE m = Head
    BY <2>1, <1>1, <1>2, <1>3, <1>4, <1>5 DEF IInv, TypeOK, Attached
  <2>2. CASE m = n
    BY <2>2, <1>1, <1>2, <1>3, <1>4, <1>5 DEF IInv, TypeOK, ListInOrderOfUse, Attached
  <2>3. CASE m \in Attached
    <3>1. next'[m] = next[m] /\ next[m] \in Attached \cup {Tail} /\ next[m] # n
      BY <2>3, <1>1, <1>2 DEF IInv, TypeOK, ListInOrderOfUse, Attached
    <3>2. prev'[next[m]] = m
      BY <2>3, <3>1, <1>1, <1>2 DEF IInv, TypeOK, ListInOrderOfUse, Attached
    <3>3. /\ Rank(next[m]) < Rank(m)
          /\ \A o \in Attached : Rank(o) < Rank(m) => Rank(o) <= Rank(next[m])
      BY <2>3 DEF IInv, ListInOrderOfUse
    <3> QED BY <2>3, <3>1, <3>2, <3>3, <1>3, <1>4, <1>5
  <2> QED BY <2>1, <2>2, <2>3, <1>5
<1>7. ASSUME NEW m \in Attached' \cup {Tail}
      PROVE  prev'[m] \in Attached' \cup {Head} /\ next'[prev'[m]] = m
  BY SMTT(30), <1>1, <1>2, <1>5 DEF IInv, TypeOK, ListInOrderOfUse, Attached
<1> QED BY <1>6, <1>7 DEF ListInOrderOfUse

\* The types of the pointer fields after a move to the front or an attachment.
LEMMA LinksType ==
    ASSUME IInv, NEW n \in Entries,
           \/ n \in Attached /\ SetLinks(attach(detach(links, n), n))
           \/ SetLinks(attach(links, n))
    PROVE  /\ next' \in [Nodes -> Nodes \cup {NULL, Wild}]
           /\ prev' \in [Nodes -> Nodes \cup {NULL, Wild}]
BY DEF IInv, TypeOK, ListInOrderOfUse, Attached, Nodes, Sentinels, SetLinks, attach,
       detach, links

\* The least recently used entry is the one before the tail sentinel.
LEMMA OldestAtTail ==
    ASSUME IInv, free = {}
    PROVE  /\ prev[Tail] \in Attached
           /\ \A o \in Attached : lastUse[prev[Tail]] <= lastUse[o]
<1> USE DEF Nodes, Sentinels
<1>1. prev[Tail] \in Attached
  <2>1. PICK e \in Attached : TRUE
    BY DEF Attached
  <2>2. next[Head] # Tail
    BY <2>1 DEF IInv, TypeOK, ListInOrderOfUse, UsesDistinct, Rank, Attached
  <2> QED BY <2>2 DEF IInv, ListInOrderOfUse
<1>2. ASSUME NEW o \in Attached, lastUse[o] < lastUse[prev[Tail]]
      PROVE  FALSE
  BY <1>1, <1>2 DEF IInv, TypeOK, ListInOrderOfUse, UsesDistinct, Rank, Attached
<1> QED BY <1>1, <1>2 DEF IInv, TypeOK, Attached

LEMMA PutPresentStep ==
    ASSUME IInv, NEW k \in Keys, NEW v \in Values, PutPresent(k, v),
           call' = <<k, v>>
    PROVE  IInv'
<1> DEFINE n == hashmap[k]
<1>1. n \in Attached /\ key[n] = k
  BY DEF PutPresent, IInv, IndexMatchesList
<1>2. /\ SetLinks(attach(detach(links, n), n)) /\ Used(n) /\ Fill(n, k, v)
      /\ UNCHANGED <<hashmap, free, count>> /\ result' = None
  BY DEF PutPresent
<1>3. ListInOrderOfUse'
  BY <1>1, <1>2, MoveToFront
<1>4. TypeOK'
  BY <1>1, <1>2, LinksType DEF IInv, TypeOK, Used, Fill, Attached
<1>5. IndexMatchesList'
  BY <1>1, <1>2 DEF IInv, TypeOK, IndexMatchesList, Fill, Attached
<1>6. UsesDistinct'
  BY <1>1, <1>2 DEF IInv, TypeOK, UsesDistinct, Fill, Used, Attached
<1> QED BY <1>3, <1>4, <1>5, <1>6 DEF IInv

LEMMA PutFreeStep ==
    ASSUME IInv, NEW k \in Keys, NEW v \in Values, PutFree(k, v),
           call' = <<k, v>>
    PROVE  IInv'
<1>1. PICK n \in free :
        /\ free' = free \ {n} /\ Fill(n, k, v)
        /\ hashmap' = [hashmap EXCEPT ![k] = n]
        /\ SetLinks(attach(links, n)) /\ Used(n)
  BY ZenonT(40) DEF PutFree
<1>2. hashmap[k] \notin Entries /\ result' = None /\ count' = count
  BY DEF PutFree
<1>3. n \in Entries /\ n \notin Attached /\ Attached' = Attached \cup {n}
  BY <1>1 DEF IInv, TypeOK, Attached
<1>4. ListInOrderOfUse'
  BY <1>1, AttachFree
<1>5. TypeOK'
  BY <1>1, <1>2, <1>3, LinksType DEF IInv, TypeOK, Used, Fill
<1>6. IndexMatchesList'
  BY <1>1, <1>2, <1>3 DEF IInv, TypeOK, IndexMatchesList, Fill, Attached
<1>7. UsesDistinct'
  BY <1>1, <1>2, <1>3 DEF IInv, TypeOK, UsesDistinct, Fill, Used, Attached
<1> QED BY <1>4, <1>5, <1>6, <1>7 DEF IInv

LEMMA PutEvictStep ==
    ASSUME IInv, NEW k \in Keys, NEW v \in Values, PutEvict(k, v),
           call' = <<k, v>>
    PROVE  IInv'
<1> DEFINE n == prev[Tail]
<1>1. n \in Attached /\ n \in Entries /\ key[n] \in Keys /\ key[n] # k
  BY OldestAtTail DEF PutEvict, IInv, IndexMatchesList, Attached
<1>2. /\ SetLinks(attach(detach(links, n), n)) /\ Used(n) /\ Fill(n, k, v)
      /\ UNCHANGED <<free, count>> /\ result' = None
      /\ hashmap' = [[hashmap EXCEPT ![key[n]] = Absent] EXCEPT ![k] = n]
      /\ hashmap[k] \notin Entries
  BY Zenon DEF PutEvict
<1>3. ListInOrderOfUse'
  BY Zenon, <1>1, <1>2, MoveToFront
<1>4. TypeOK'
  BY SMTT(30), <1>1, <1>2, LinksType DEF IInv, TypeOK, Used, Fill
<1>5. IndexMatchesList'
  <2>1. Absent \notin Entries
    BY DEF Nodes
  <2> QED BY <1>1, <1>2, <2>1 DEF IInv, TypeOK, IndexMatchesList, Fill, Attached
<1>6. UsesDistinct'
  BY <1>1, <1>2 DEF IInv, TypeOK, UsesDistinct, Fill, Used, Attached
<1> QED BY <1>3, <1>4, <1>5, <1>6 DEF IInv

LEMMA GetHitStep ==
    ASSUME IInv, NEW k \in Keys, GetHit(k),
           call' = <<k, None>>
    PROVE  IInv'
<1> DEFINE n == hashmap[k]
<1>1. n \in Attached
  BY DEF GetHit, IInv, IndexMatchesList
<1>2. /\ SetLinks(attach(detach(links, n), n)) /\ Used(n) /\ result' = data[n]
      /\ UNCHANGED <<hashmap, free, key, data, count>>
  BY DEF GetHit
<1>3. ListInOrderOfUse'
  BY Zenon, <1>1, <1>2, MoveToFront
<1>4. TypeOK'
  BY <1>1, <1>2, LinksType DEF IInv, TypeOK, UsesDistinct, Used, Attached
<1>5. IndexMatchesList'
  BY <1>1, <1>2 DEF IInv, TypeOK, IndexMatchesList, Attached
<1>6. UsesDistinct'
  BY <1>1, <1>2 DEF IInv, TypeOK, UsesDistinct, Used, Attached
<1> QED BY <1>3, <1>4, <1>5, <1>6 DEF IInv

LEMMA GetMissStep ==
    ASSUME IInv, NEW k \in Keys, GetMiss(k),
           call' = <<k, None>>
    PROVE  IInv'
<1>1. NULL \notin Entries
  BY DEF Nodes
<1>2. TypeOK' /\ UsesDistinct'
  BY DEF IInv, TypeOK, UsesDistinct, GetMiss, Attached
<1>3. IndexMatchesList'
  BY ZenonT(40), <1>1 DEF IInv, TypeOK, IndexMatchesList, GetMiss, Attached
<1>4. ListInOrderOfUse'
  BY DEF IInv, ListInOrderOfUse, Rank, GetMiss, Attached
<1> QED BY <1>2, <1>3, <1>4 DEF IInv

LEMMA NextIInv == IInv /\ [Next]_vars => IInv'
<1> SUFFICES ASSUME IInv, [Next]_vars PROVE IInv'
  OBVIOUS
<1>1. ASSUME NEW k \in Keys, Get(k) PROVE IInv'
  BY <1>1, GetHitStep, GetMissStep DEF Get
<1>2. ASSUME NEW k \in Keys, NEW v \in Values, Put(k, v) PROVE IInv'
  BY Zenon, <1>2, PutPresentStep, PutFreeStep, PutEvictStep DEF Put
<1>3. CASE UNCHANGED vars
  BY <1>3 DEF IInv, TypeOK, ListInOrderOfUse, IndexMatchesList, UsesDistinct, Rank,
              Attached, vars
<1> QED BY <1>1, <1>2, <1>3 DEF Next

LEMMA Inductive == Spec => []IInv
BY InitIInv, NextIInv, PTL DEF Spec

\* Every field keeps its type: no null or indeterminate pointer gets into the
\* hash map as an entry, for every number of entries (quic_simple_dispatcher.h:169-234).
THEOREM TypeCorrect == Spec => []TypeOK
<1>1. IInv => TypeOK
  BY DEF IInv
<1> QED BY <1>1, Inductive, PTL

\* The nodes between head_ and tail_ are exactly the entries in use, in the
\* order of their last use (attach and detach, quic_simple_dispatcher.h:220-234).
THEOREM ListSafe == Spec => []ListInOrderOfUse
<1>1. IInv => ListInOrderOfUse
  BY DEF IInv
<1> QED BY <1>1, Inductive, PTL

\* The hash map and the list never disagree (quic_simple_dispatcher.h:169-218).
THEOREM IndexSafe == Spec => []IndexMatchesList
<1>1. IInv => IndexMatchesList
  BY DEF IInv
<1> QED BY <1>1, Inductive, PTL

\* Only the least recently used entry is ever given to another key, and only
\* when the cache is full (quic_simple_dispatcher.h:182-187).
THEOREM EvictionSafe == Spec => EvictsLeastRecentlyUsed
<1> DEFINE A == \A e \in Attached : key'[e] # key[e] =>
                   free = {} /\ \A other \in Attached : lastUse[e] <= lastUse[other]
<1>1. ASSUME IInv, Next PROVE A
  <2>1. ASSUME NEW k \in Keys, Get(k) PROVE A
    BY <2>1 DEF Get, GetHit, GetMiss
  <2>2. ASSUME NEW k \in Keys, NEW v \in Values, PutPresent(k, v) PROVE A
    BY <1>1, <2>2 DEF PutPresent, Fill, IInv, TypeOK, IndexMatchesList, Attached
  <2>3. ASSUME NEW k \in Keys, NEW v \in Values, PutFree(k, v) PROVE A
    BY Zenon, <1>1, <2>3 DEF PutFree, Fill, IInv, TypeOK, Attached
  <2>4. ASSUME NEW k \in Keys, NEW v \in Values, PutEvict(k, v) PROVE A
    BY <1>1, <2>4, OldestAtTail DEF PutEvict, Fill, IInv, TypeOK, Attached
  <2> QED BY Zenon, <1>1, <2>1, <2>2, <2>3, <2>4 DEF Next, Put
<1>2. IInv /\ [Next]_vars => [A]_vars
  BY Zenon, <1>1
<1> QED BY <1>2, Inductive, PTL DEF Spec, EvictsLeastRecentlyUsed

-----------------------------------------------------------------------------
(* Refinement.                                                             *)

\* The keys the abstract cache holds are those the hash map leads to an entry.
LEMMA CachedKeys ==
    ASSUME IInv
    PROVE  Abstract!Cached = {k \in Keys : hashmap[k] \in Attached}
BY DEF Abstract!Cached, storeBar, IInv, UsesDistinct, IndexMatchesList, Attached

\* The instance's Cardinality is the one of FiniteSets.
LEMMA SameCardinality ==
    ASSUME NEW S
    PROVE  Abstract!Cardinality(S) = Cardinality(S)
BY Zenon DEF Abstract!Cardinality, Cardinality

\* There are as many of them as there are entries in use.
LEMMA CachedCardinality ==
    ASSUME IInv
    PROVE  Cardinality(Abstract!Cached) = Cardinality(Attached)
<1> DEFINE S == {k \in Keys : hashmap[k] \in Attached}
           b == [e \in Attached |-> key[e]]
<1>1. IsFiniteSet(Attached)
  BY ZenonT(40), FS_Difference DEF Attached
<1>2. b \in Bijection(Attached, S)
  BY DEF Bijection, Injection, Surjection, IsInjective, IInv, IndexMatchesList, Attached
<1>3. Cardinality(S) = Cardinality(Attached)
  BY <1>1, <1>2, FS_Bijection DEF ExistsBijection
<1> QED BY <1>3, CachedKeys

\* Fewer entries are in use than there are as long as one is free.
LEMMA RoomWhenFree ==
    ASSUME TypeOK, free # {}
    PROVE  Cardinality(Attached) < Cardinality(Entries)
<1>1. Attached \subseteq Entries /\ Attached # Entries
  BY DEF TypeOK, Attached
<1> QED BY <1>1, FS_Subset, FS_CardinalityType

LEMMA RefineInit == Init => Abstract!Init
BY Zenon DEF Init, Abstract!Init, storeBar, ageBar, Nodes

LEMMA RefinePutPresent ==
    ASSUME IInv, NEW k \in Keys, NEW v \in Values, PutPresent(k, v)
    PROVE  Abstract!Replace(k, v)
<1>1. hashmap[k] \in Attached /\ hashmap[k] \in Entries
  BY DEF PutPresent, IInv, IndexMatchesList
<1>2. k \in Abstract!Cached
  BY <1>1, CachedKeys
<1>3. storeBar' = [storeBar EXCEPT ![k] = v]
  BY ZenonT(40), <1>1 DEF PutPresent, Fill, storeBar, IInv, TypeOK, IndexMatchesList
<1>4. ageBar' = [ageBar EXCEPT ![k] = clock + 1]
  BY ZenonT(40), <1>1 DEF PutPresent, Used, ageBar, IInv, TypeOK, IndexMatchesList
<1> QED BY Zenon, <1>2, <1>3, <1>4 DEF PutPresent, Used, Abstract!Replace, Abstract!Touch

LEMMA RefinePutFree ==
    ASSUME IInv, NEW k \in Keys, NEW v \in Values, PutFree(k, v)
    PROVE  Abstract!Insert(k, v)
<1>1. PICK n \in free :
        /\ free' = free \ {n} /\ Fill(n, k, v)
        /\ hashmap' = [hashmap EXCEPT ![k] = n] /\ Used(n)
  BY ZenonT(40) DEF PutFree
<1>2. n \in Entries /\ n \notin Attached /\ hashmap[k] \notin Entries
  BY DEF IInv, TypeOK, Attached, PutFree
<1>3. k \notin Abstract!Cached
  BY <1>2, CachedKeys DEF Attached
<1>4. Cardinality(Abstract!Cached) < Cardinality(Entries)
  BY CachedCardinality, RoomWhenFree DEF IInv
<1>5. \A j \in Keys \ {k} : hashmap'[j] = hashmap[j] /\ hashmap[j] # n
  BY <1>1, <1>2 DEF IInv, TypeOK, IndexMatchesList
<1>6. /\ hashmap'[k] = n /\ data'[n] = v /\ lastUse'[n] = clock + 1
      /\ \A e \in Entries \ {n} : data'[e] = data[e] /\ lastUse'[e] = lastUse[e]
  BY <1>1, <1>2 DEF IInv, TypeOK, Fill, Used
<1>7. storeBar' = [storeBar EXCEPT ![k] = v]
  BY ZenonT(40), <1>2, <1>5, <1>6 DEF storeBar
<1>8. ageBar' = [ageBar EXCEPT ![k] = clock + 1]
  BY ZenonT(40), <1>2, <1>5, <1>6 DEF ageBar
<1>9. clock' = clock + 1 /\ result' = None
  BY <1>1 DEF Used, PutFree
<1> QED BY <1>3, <1>4, <1>7, <1>8, <1>9, SameCardinality DEF Abstract!Insert, Abstract!Touch

LEMMA RefinePutEvict ==
    ASSUME IInv, NEW k \in Keys, NEW v \in Values, PutEvict(k, v)
    PROVE  Abstract!EvictFor(k, v)
<1> DEFINE n == prev[Tail]
           w == key[n]
<1>1. /\ n \in Attached /\ n \in Entries /\ free = {}
      /\ \A o \in Attached : lastUse[n] <= lastUse[o]
  BY Zenon, OldestAtTail DEF PutEvict, Attached
<1>2. w \in Keys /\ hashmap[w] = n /\ hashmap[k] \notin Entries /\ w # k
  BY Zenon, <1>1 DEF PutEvict, IInv, IndexMatchesList
<1>3. k \notin Abstract!Cached /\ w \in Abstract!Cached
  BY <1>1, <1>2, CachedKeys DEF Attached
<1>4. Cardinality(Abstract!Cached) = Cardinality(Entries)
  <2>1. Attached = Entries
    BY Zenon, <1>1 DEF Attached
  <2> QED BY <2>1, CachedCardinality
<1>5. \A other \in Abstract!Cached : ageBar[w] <= ageBar[other]
  BY Zenon, <1>1, <1>2, CachedKeys DEF ageBar, Attached
<1>6. /\ Fill(n, k, v) /\ Used(n) /\ result' = None
      /\ hashmap' = [[hashmap EXCEPT ![w] = Absent] EXCEPT ![k] = n]
  BY Zenon DEF PutEvict
<1>7. \A j \in Keys \ {k, w} : hashmap'[j] = hashmap[j] /\ hashmap[j] # n
  BY Zenon, <1>1, <1>2, <1>6 DEF IInv, TypeOK, IndexMatchesList
<1>8. /\ hashmap'[k] = n /\ hashmap'[w] = Absent /\ Absent \notin Entries
      /\ data'[n] = v /\ lastUse'[n] = clock + 1
      /\ \A e \in Entries \ {n} : data'[e] = data[e] /\ lastUse'[e] = lastUse[e]
  BY <1>1, <1>2, <1>6 DEF IInv, TypeOK, Fill, Used, Nodes
<1> HIDE DEF w, n
<1>9. storeBar' = [storeBar EXCEPT ![w] = None, ![k] = v]
  <2>1. /\ storeBar'[k] = v /\ storeBar'[w] = None
        /\ \A j \in Keys \ {k, w} : storeBar'[j] = storeBar[j]
    BY Zenon, <1>1, <1>2, <1>7, <1>8 DEF storeBar
  <2>2. /\ storeBar = [j \in Keys |-> storeBar[j]]
        /\ storeBar' = [j \in Keys |-> storeBar'[j]]
    BY DEF storeBar
  <2> QED BY Zenon, <1>2, <2>1, <2>2
<1>10. ageBar' = [ageBar EXCEPT ![w] = 0, ![k] = clock + 1]
  BY ZenonT(40), <1>1, <1>2, <1>7, <1>8 DEF ageBar
<1>11. clock' = clock + 1
  BY <1>6 DEF Used
<1> QED BY ZenonT(40), <1>3, <1>4, <1>5, <1>6, <1>9, <1>10, <1>11,
            SameCardinality DEF Abstract!EvictFor

LEMMA RefineGetHit ==
    ASSUME IInv, NEW k \in Keys, GetHit(k)
    PROVE  Abstract!Hit(k)
<1>1. hashmap[k] \in Attached /\ hashmap[k] \in Entries
  BY DEF GetHit, IInv, IndexMatchesList
<1>2. k \in Abstract!Cached
  BY <1>1, CachedKeys
<1>3. storeBar' = storeBar /\ storeBar[k] = data[hashmap[k]]
  BY <1>1 DEF GetHit, storeBar
<1>4. ageBar' = [ageBar EXCEPT ![k] = clock + 1]
  BY ZenonT(40), <1>1 DEF GetHit, Used, ageBar, IInv, TypeOK, IndexMatchesList
<1> QED BY <1>2, <1>3, <1>4 DEF GetHit, Used, Abstract!Hit, Abstract!Touch

LEMMA RefineGetMiss ==
    ASSUME IInv, NEW k \in Keys, GetMiss(k)
    PROVE  Abstract!Miss(k)
<1>1. k \notin Abstract!Cached
  BY CachedKeys DEF GetMiss, Attached
<1>2. storeBar' = storeBar /\ ageBar' = ageBar
  BY DEF GetMiss, storeBar, ageBar, IInv, TypeOK, Nodes
<1> QED BY <1>1, <1>2 DEF GetMiss, Abstract!Miss

\* The linked-list cache implements the abstract one, for every number of
\* entries and whatever keys and values it is used with (quic_simple_dispatcher.h:147-234).
THEOREM Refinement == Spec => ImplementsLRU
<1>1. ASSUME IInv, [Next]_vars PROVE [Abstract!Next]_(Abstract!vars)
  <2>1. ASSUME NEW k \in Keys, Get(k) PROVE Abstract!Get(k)
    BY <1>1, <2>1, RefineGetHit, RefineGetMiss DEF Get, Abstract!Get
  <2>2. ASSUME NEW k \in Keys, NEW v \in Values, Put(k, v) PROVE Abstract!Put(k, v)
    BY <1>1, <2>2, RefinePutPresent, RefinePutFree, RefinePutEvict DEF Put, Abstract!Put
  <2>3. CASE UNCHANGED vars
    BY <2>3 DEF vars, Abstract!vars, storeBar, ageBar
  <2> QED BY <1>1, <2>1, <2>2, <2>3 DEF Next, Abstract!Next
<1> QED BY <1>1, RefineInit, Inductive, PTL DEF Spec, ImplementsLRU, Abstract!Spec
=============================================================================
