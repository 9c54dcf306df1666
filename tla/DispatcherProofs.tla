-------------------------- MODULE DispatcherProofs --------------------------
(***************************************************************************)
(* Proofs about module Dispatcher, for any number of connections and any   *)
(* limits: the properties that the model checker checks for three          *)
(* connections and four packets.                                           *)
(***************************************************************************)
EXTENDS Dispatcher, FiniteSetTheorems, NaturalsInduction, WellFoundedInduction, TLAPS

-----------------------------------------------------------------------------
(* The inductive invariant.                                                *)

Packets == [n : Nat, kind : Kinds, alpn : Alpns]
Tags    == Alpns \cup {NoAlpn}
Lists   == [conn : Conns, packets : Seq(Packets), created : Nat, alpn : Tags]
Records == [conn : Conns, num_packets : Nat, added : Nat, replies : Nat]
Sessions == [alpn : Tags, given : Seq(Packets)]
Hellos  == [conn : Conns, packet : Packets]

\* A list of records is a map: no connection id is in it twice.
Keyed(list) == \A i, j \in DOMAIN list : list[i].conn = list[j].conn => i = j

Once(s) == \A i, j \in DOMAIN s : s[i] = s[j] => i = j

Throttled(r) == r.replies > 0 => PowerOfTwo[r.replies - 1] <= r.num_packets

TimeWaitInv(list) ==
  /\ list \in Seq(Records)
  /\ Keyed(list)
  /\ Len(list) <= MaxTimeWait
  /\ \A i \in DOMAIN list : Throttled(list[i])

\* Packets that arrived, in their order from one of them on.
InOrder(packets, first, a) ==
  /\ \A i \in DOMAIN packets : packets[i].n <= a
  /\ \A i, j \in first .. Len(packets) : i < j => packets[i].n < packets[j].n

HelloFirst(packets, a) ==
  /\ Len(packets) >= 1
  /\ packets[1].kind = "chlo"
  /\ \A i \in 2 .. Len(packets) : packets[i].n # packets[1].n
  /\ InOrder(packets, 2, a)

\* The packets of an entry of the store, and whether its client hello has come.
QueueInv(packets, hello, a) ==
  IF hello
  THEN HelloFirst(packets, a) /\ Len(packets) <= MaxUndecryptable + 1
  ELSE InOrder(packets, 1, a) /\ Len(packets) \in 1 .. MaxUndecryptable

StoreInv(store, hellos, a) ==
  /\ store \in Seq(Lists) /\ Keyed(store)
  /\ hellos \in Seq(Conns) /\ Once(hellos)
  /\ Range(hellos) \subseteq Listed(store)
  /\ Len(store) <= MaxStore
  /\ Len(store) - Len(hellos) <= MaxWithoutChlo
  /\ \A i \in DOMAIN store :
       QueueInv(store[i].packets, store[i].conn \in Range(hellos), a)

\* The alarm of the store goes off in time for each of its entries.
AgeInv(store, expiration, t) ==
  /\ \A i, j \in DOMAIN store : i < j => store[i].created <= store[j].created
  /\ \A i \in DOMAIN store : /\ store[i].created <= t
                             /\ expiration < store[i].created + 2 * LifeSpan
  /\ expiration \in Nat
  /\ store # <<>> => expiration # NoExpiration
  /\ expiration # NoExpiration => t <= expiration /\ expiration <= t + LifeSpan

SessionInv(sessions, a) ==
  /\ DOMAIN sessions \subseteq Conns /\ IsFiniteSet(DOMAIN sessions)
  /\ \A c \in DOMAIN sessions : /\ sessions[c] \in Sessions
                                /\ HelloFirst(sessions[c].given, a)

\* A client hello that is being decided is not among the buffered packets.
DecidingInv(deciding, store, a) ==
  /\ deciding \subseteq Hellos
  /\ \A r, s \in deciding : r.conn = s.conn => r = s
  /\ \A r \in deciding :
       /\ r.packet.kind = "chlo" /\ r.packet.n <= a
       /\ \A i \in DOMAIN store : store[i].conn = r.conn =>
            \A k \in DOMAIN store[i].packets : store[i].packets[k].n # r.packet.n

\* Where a connection with a session, or one whose client hello waits for a
\* session, is not.
RouteInv(conns, store, hellos, deciding, time_wait) ==
  /\ \A c \in conns : c \notin Listed(store) \cup Listed(time_wait)
  /\ \A c \in Range(hellos) : c \notin Listed(time_wait)
  /\ \A r \in deciding : r.conn \notin conns \cup Range(hellos)

Fields == {"sessions", "store", "with_chlo", "deciding", "time_wait",
           "expiration", "allowed", "alpn"}

IsDispatcher(d) == d = [f \in Fields |-> d[f]]

\* All but where a connection may be at the same time.
PartsInv(d, a, t) ==
  /\ IsDispatcher(d)
  /\ d.allowed \in Int /\ d.alpn \in Tags
  /\ TimeWaitInv(d.time_wait)
  /\ StoreInv(d.store, d.with_chlo, a)
  /\ AgeInv(d.store, d.expiration, t)
  /\ SessionInv(d.sessions, a)
  /\ DecidingInv(d.deciding, d.store, a)

DispatcherInv(d, a, t) ==
  /\ PartsInv(d, a, t)
  /\ RouteInv(DOMAIN d.sessions, d.store, d.with_chlo, d.deciding, d.time_wait)

IInv ==
  /\ DispatcherInv(dispatcher, arrived, now)
  /\ arrived \in Nat /\ now \in Nat
  /\ closed \in Nat /\ alarm \in BOOLEAN
  /\ closed > 0 => alarm

-----------------------------------------------------------------------------
(* Lists.                                                                  *)

\* t is s without its element at k.
Removal(s, t, k) ==
  /\ k \in DOMAIN s
  /\ Len(t) = Len(s) - 1
  /\ \A i \in 1 .. Len(s) - 1 : t[i] = s[IF i < k THEN i ELSE i + 1]

\* DropAt leaves the other elements, in their order.
LEMMA DropAtRemoves ==
  ASSUME NEW S, NEW s \in Seq(S), NEW k \in DOMAIN s
  PROVE  /\ DropAt(s, k) \in Seq(S)
         /\ Removal(s, DropAt(s, k), k)
<1>1. /\ k \in 1 .. Len(s) /\ Len(s) \in Nat
      /\ \A i \in 1 .. Len(s) : s[i] \in S
  OBVIOUS
<1> DEFINE p == SubSeq(s, 1, k - 1)
           q == SubSeq(s, k + 1, Len(s))
<1>2. p \in Seq(S) /\ Len(p) = k - 1 /\ \A i \in 1 .. k - 1 : p[i] = s[i]
  BY <1>1
<1>3. q \in Seq(S) /\ Len(q) = Len(s) - k /\ \A i \in 1 .. Len(s) - k : q[i] = s[k + i]
  BY <1>1
<1> HIDE DEF p, q
<1>4. p \o q \in Seq(S) /\ Len(p \o q) = Len(s) - 1
  BY <1>1, <1>2, <1>3
<1>5. ASSUME NEW i \in 1 .. Len(s) - 1
      PROVE  (p \o q)[i] = s[IF i < k THEN i ELSE i + 1]
  BY <1>1, <1>2, <1>3, SMTT(30)
<1>6. DropAt(s, k) = p \o q
  BY DEF DropAt, p, q
<1> QED BY <1>1, <1>4, <1>5, <1>6 DEF Removal

\* Erase takes out an element that is there once.
LEMMA EraseRemoves ==
  ASSUME NEW S, NEW s \in Seq(S), Once(s), NEW k \in DOMAIN s
  PROVE  /\ Erase(s, s[k]) \in Seq(S)
         /\ Removal(s, Erase(s, s[k]), k)
<1>1. \A i \in DOMAIN s : s[i] = s[k] <=> i = k
  BY DEF Once
<1>2. (CHOOSE i \in DOMAIN s : s[i] = s[k]) = k
  BY <1>1
<1>3. Erase(s, s[k]) = DropAt(s, k)
  BY <1>2, Zenon DEF Erase, Range
<1> QED BY <1>3, DropAtRemoves

\* Without takes out the record of a connection.
LEMMA WithoutRemoves ==
  ASSUME NEW S, NEW s \in Seq(S), Keyed(s), NEW k \in DOMAIN s
  PROVE  /\ Without(s, s[k].conn) \in Seq(S)
         /\ Removal(s, Without(s, s[k].conn), k)
<1>1. \A i \in DOMAIN s : s[i].conn = s[k].conn <=> i = k
  BY DEF Keyed
<1>2. (CHOOSE i \in DOMAIN s : s[i].conn = s[k].conn) = k
  BY <1>1
<1>3. Without(s, s[k].conn) = DropAt(s, k)
  BY <1>2, Zenon DEF Without, Listed
<1> QED BY <1>3, DropAtRemoves

\* What is not there is not taken out.
LEMMA NothingToRemove ==
  /\ \A s, c : c \notin Range(s) => Erase(s, c) = s
  /\ \A s, c : c \notin Listed(s) => Without(s, c) = s
BY DEF Erase, Without

-----------------------------------------------------------------------------
(* Loops.                                                                  *)

\* A set with 0 and with the successor of each of its numbers has all of Nat.
LEMMA CountUp ==
  ASSUME NEW G, 0 \in G, \A k \in Nat : k \in G => k + 1 \in G
  PROVE  \A k \in Nat : k \in G
<1> SUFFICES ASSUME Nat \ G # {} PROVE FALSE
  OBVIOUS
<1>1. IsWellFoundedOn(OpToRel(<, Nat), Nat)
  BY Zenon, NatLessThanWellFounded
<1>2. PICK m \in Nat \ G : \A k \in Nat \ G : ~(<<k, m>> \in OpToRel(<, Nat))
  <2>1. Nat \ G \subseteq Nat
    OBVIOUS
  <2> HIDE DEF OpToRel
  <2> QED BY Zenon, <1>1, <2>1, WFMin
<1>3. m \in Nat /\ m # 0 /\ m \notin G
  BY Zenon, <1>2
<1>4. m - 1 \in Nat /\ m - 1 < m /\ (m - 1) + 1 = m
  BY <1>3
<1>5. m - 1 \notin G
  BY <1>3, <1>4
<1>6. <<m - 1, m>> \in OpToRel(<, Nat)
  BY <1>3, <1>4 DEF OpToRel
<1> QED BY Zenon, <1>2, <1>4, <1>5, <1>6

\* g holds the states of a loop up to turn n: turn k goes from d to step[k, d].
IsRun(D, step, d0, n, g) ==
  /\ g \in [0 .. n -> D]
  /\ g[0] = d0
  /\ \A k \in 0 .. n - 1 : g[k + 1] = step[<<k, g[k]>>]

\* A loop can run for any number of turns.
LEMMA RunExists ==
  ASSUME NEW D, NEW step \in [Nat \X D -> D], NEW d0 \in D
  PROVE  \A n \in Nat : \E g : IsRun(D, step, d0, n, g)
<1> DEFINE G == {n \in Nat : \E g : IsRun(D, step, d0, n, g)}
<1>1. 0 \in G
  <2>1. IsRun(D, step, d0, 0, [k \in 0 .. 0 |-> d0])
    BY DEF IsRun
  <2> QED BY <2>1
<1>2. ASSUME NEW n \in Nat, n \in G PROVE n + 1 \in G
  <2>1. PICK g : IsRun(D, step, d0, n, g)
    BY <1>2
  <2> DEFINE h == [k \in 0 .. n + 1 |-> IF k <= n THEN g[k] ELSE step[<<n, g[n]>>]]
  <2>2. g[n] \in D /\ step[<<n, g[n]>>] \in D
    BY <2>1 DEF IsRun
  <2>3. h \in [0 .. n + 1 -> D] /\ h[0] = d0
    BY <2>1, <2>2 DEF IsRun
  <2>4. ASSUME NEW k \in 0 .. (n + 1) - 1 PROVE h[k + 1] = step[<<k, h[k]>>]
    <3>1. CASE k = n
      BY <3>1
    <3>2. CASE k # n
      <4>1. k \in 0 .. n - 1 /\ k + 1 <= n /\ k <= n
        BY <3>2
      <4>2. h[k + 1] = g[k + 1] /\ h[k] = g[k]
        BY <4>1
      <4> QED BY <2>1, <4>1, <4>2 DEF IsRun
    <3> QED BY <3>1, <3>2
  <2>5. IsRun(D, step, d0, n + 1, h)
    BY Zenon, <2>3, <2>4 DEF IsRun
  <2> QED BY <2>5
<1> HIDE DEF G
<1>3. \A n \in Nat : n \in G
  BY <1>1, <1>2, CountUp
<1> QED BY <1>3 DEF G

AgreeAt(m, g, h) == g[m] = h[m]

\* Two runs of a loop agree as far as both go.
LEMMA RunsAgree ==
  ASSUME NEW D, NEW step, NEW d0,
         NEW m \in Nat, NEW n \in Nat, m <= n, NEW g, NEW h,
         IsRun(D, step, d0, m, g), IsRun(D, step, d0, n, h)
  PROVE  AgreeAt(m, g, h)
<1> DEFINE G == {k \in Nat : k <= m => g[k] = h[k]}
<1>1. 0 \in G
  BY DEF IsRun
<1>2. ASSUME NEW k \in Nat, k \in G PROVE k + 1 \in G
  <2>1. CASE k + 1 <= m
    <3>1. k \in 0 .. m - 1 /\ k \in 0 .. n - 1 /\ g[k] = h[k]
      BY <1>2, <2>1
    <3>2. g[k + 1] = step[<<k, g[k]>>] /\ h[k + 1] = step[<<k, h[k]>>]
      BY <3>1 DEF IsRun
    <3> QED BY <3>1, <3>2
  <2> QED BY <2>1
<1> HIDE DEF G
<1>3. \A k \in Nat : k \in G
  BY <1>1, <1>2, CountUp
<1> QED BY <1>3 DEF G, AgreeAt

\* f holds all the states of a loop.
IsLoop(D, step, d0, f) ==
  /\ f \in [Nat -> D]
  /\ f[0] = d0
  /\ \A k \in Nat : f[k + 1] = step[<<k, f[k]>>]

\* A loop has such a function.
LEMMA LoopExists ==
  ASSUME NEW D, NEW step \in [Nat \X D -> D], NEW d0 \in D
  PROVE  \E f : IsLoop(D, step, d0, f)
<1> DEFINE run(n) == CHOOSE g : IsRun(D, step, d0, n, g)
           f == [n \in Nat |-> run(n)[n]]
<1>1. ASSUME NEW n \in Nat PROVE IsRun(D, step, d0, n, run(n))
  <2>1. \E g : IsRun(D, step, d0, n, g)
    BY Zenon, RunExists
  <2> QED BY <2>1, Zenon
<1> HIDE DEF run
<1>2. f \in [Nat -> D]
  BY <1>1 DEF IsRun
<1>3. f[0] = d0
  BY <1>1 DEF IsRun
<1>4. ASSUME NEW k \in Nat PROVE f[k + 1] = step[<<k, f[k]>>]
  <2>1. k + 1 \in Nat /\ k <= k + 1 /\ k \in 0 .. (k + 1) - 1
    OBVIOUS
  <2>2. run(k)[k] = run(k + 1)[k]
    <3>1. IsRun(D, step, d0, k, run(k)) /\ IsRun(D, step, d0, k + 1, run(k + 1))
      BY <1>1, <2>1
    <3>2. AgreeAt(k, run(k), run(k + 1))
      BY <2>1, <3>1, RunsAgree
    <3> QED BY <3>2 DEF AgreeAt
  <2>3. run(k + 1)[k + 1] = step[<<k, run(k + 1)[k]>>]
    BY <1>1, <2>1 DEF IsRun
  <2> QED BY <2>1, <2>2, <2>3
<1>5. IsLoop(D, step, d0, f)
  BY <1>2, <1>3, <1>4 DEF IsLoop
<1> QED BY <1>5

-----------------------------------------------------------------------------
(* The time-wait list.                                                     *)

\* The equation that defines PowerOfTwo has a solution.
LEMMA PowersOfTwo ==
  /\ PowerOfTwo \in [Nat -> Nat \ {0}]
  /\ PowerOfTwo[0] = 1
  /\ \A k \in Nat : PowerOfTwo[k + 1] = 2 * PowerOfTwo[k]
<1> DEFINE D == Nat \ {0}
           step == [x \in Nat \X D |-> 2 * x[2]]
           IsPower(f) == f = [i \in Nat |-> IF i = 0 THEN 1 ELSE 2 * f[i - 1]]
<1>1. step \in [Nat \X D -> D] /\ 1 \in D
  OBVIOUS
<1>2. PICK f : /\ f \in [Nat -> D] /\ f[0] = 1
               /\ \A k \in Nat : f[k + 1] = step[<<k, f[k]>>]
  <2> HIDE DEF D, step
  <2>1. \E f : IsLoop(D, step, 1, f)
    BY <1>1, LoopExists
  <2> QED BY <2>1 DEF IsLoop
<1>3. IsPower(f)
  <2>1. ASSUME NEW i \in Nat PROVE f[i] = IF i = 0 THEN 1 ELSE 2 * f[i - 1]
    <3>1. CASE i # 0
      <4>1. i - 1 \in Nat /\ (i - 1) + 1 = i /\ f[i - 1] \in D
        BY <1>2, <3>1
      <4>2. f[i] = step[<<i - 1, f[i - 1]>>]
        BY <1>2, <4>1
      <4> QED BY <3>1, <4>1, <4>2
    <3> QED BY <1>2, <3>1
  <2> QED BY <1>2, <2>1
<1>4. IsPower(PowerOfTwo)
  <2>1. PowerOfTwo = CHOOSE g : IsPower(g)
    BY DEF PowerOfTwo
  <2> HIDE DEF IsPower
  <2> QED BY <1>3, <2>1, Zenon
<1>5. /\ PowerOfTwo[0] = 1
      /\ \A k \in Nat : PowerOfTwo[k + 1] = 2 * PowerOfTwo[k]
      /\ PowerOfTwo = [i \in Nat |-> PowerOfTwo[i]]
  <2> HIDE DEF PowerOfTwo
  <2>1. PowerOfTwo = [i \in Nat |-> IF i = 0 THEN 1 ELSE 2 * PowerOfTwo[i - 1]]
    BY <1>4
  <2> QED BY <2>1
<1> DEFINE G == {k \in Nat : PowerOfTwo[k] \in D}
<1>6. \A k \in Nat : k \in G
  <2> HIDE DEF PowerOfTwo
  <2>1. 0 \in G
    BY <1>5
  <2>2. ASSUME NEW k \in Nat, k \in G PROVE k + 1 \in G
    <3>1. PowerOfTwo[k + 1] = 2 * PowerOfTwo[k] /\ PowerOfTwo[k] \in D
      BY Zenon, <1>5, <2>2
    <3>2. PowerOfTwo[k + 1] \in D
      BY <3>1
    <3> QED BY <3>2
  <2> HIDE DEF G
  <2> QED BY <2>1, <2>2, CountUp
<1> HIDE DEF PowerOfTwo
<1> QED BY Zenon, <1>5, <1>6

\* Powers of two grow.
LEMMA PowersGrow ==
  ASSUME NEW i \in Nat, NEW j \in Nat, i <= j
  PROVE  PowerOfTwo[i] <= PowerOfTwo[j]
<1> USE PowersOfTwo
<1> HIDE DEF PowerOfTwo
<1> DEFINE G == {k \in Nat : PowerOfTwo[i] <= PowerOfTwo[i + k]}
<1>1. 0 \in G
  OBVIOUS
<1>2. ASSUME NEW k \in Nat, k \in G PROVE k + 1 \in G
  <2>1. i + k \in Nat /\ (i + k) + 1 = i + (k + 1)
    OBVIOUS
  <2>2. PowerOfTwo[(i + k) + 1] = 2 * PowerOfTwo[i + k] /\ PowerOfTwo[i + k] \in Nat
        /\ PowerOfTwo[i] \in Nat
    BY <2>1
  <2> QED BY <1>2, <2>1, <2>2
<1> HIDE DEF G
<1>3. \A k \in Nat : k \in G
  BY <1>1, <1>2, CountUp
<1>4. j - i \in Nat /\ i + (j - i) = j
  OBVIOUS
<1> QED BY Zenon, <1>3, <1>4 DEF G

\* A record of the list with other counts.
Counted(r, m, n) == [r EXCEPT !.num_packets = m, !.replies = n]

\* It is of the same connection.
LEMMA CountedRecord ==
  ASSUME NEW r \in Records, NEW m \in Nat, NEW n \in Nat
  PROVE  /\ Counted(r, m, n) \in Records
         /\ Counted(r, m, n).conn = r.conn
         /\ Counted(r, m, n).num_packets = m
         /\ Counted(r, m, n).replies = n
BY Zenon DEF Records, Counted

\* The packet that is answered is the next power of two.
LEMMA AnswersThrottled ==
  ASSUME NEW r \in Records, Throttled(r)
  PROVE  /\ Answered(r) \in Records
         /\ Answered(r).conn = r.conn
         /\ Throttled(Answered(r))
<1> DEFINE m == r.num_packets
           q == r.replies
           e == Answered(r)
           n == IF ShouldSendResponse(m + 1) THEN q + 1 ELSE q
<1>1. m \in Nat /\ q \in Nat
  BY DEF Records
<1>2. /\ e \in Records
      /\ e.conn = r.conn /\ e.num_packets = m + 1 /\ e.replies = n
  <2>1. n \in Nat
    BY <1>1
  <2>2. e = [r EXCEPT !.num_packets = m + 1, !.replies = n]
    BY DEF Answered
  <2>3. e = Counted(r, m + 1, n) /\ m + 1 \in Nat
    BY <1>1, <2>2 DEF Counted
  <2> HIDE DEF n, e
  <2> DEFINE k == m + 1
             w == Counted(r, k, n)
  <2>4. k \in Nat /\ e = w
    BY <2>3
  <2> HIDE DEF k
  <2>5. w \in Records /\ w.conn = r.conn /\ w.num_packets = k /\ w.replies = n
    BY <2>1, <2>4, CountedRecord
  <2> HIDE DEF w
  <2> QED BY <2>4, <2>5 DEF k
<1> HIDE DEF e
<1>3. q > 0 => PowerOfTwo[q - 1] <= m
  BY DEF Throttled
<1>4. CASE ShouldSendResponse(m + 1)
  <2>1. PICK i \in 0 .. m + 1 : m + 1 = PowerOfTwo[i]
    BY <1>4 DEF ShouldSendResponse
  <2> HIDE DEF PowerOfTwo
  <2>2. q <= i
    <3> SUFFICES ASSUME q > i PROVE FALSE
      BY <1>1
    <3>1. q - 1 \in Nat /\ i <= q - 1 /\ q > 0
      BY <1>1
    <3>2. PowerOfTwo[i] <= PowerOfTwo[q - 1] /\ PowerOfTwo[q - 1] \in Nat
      BY <3>1, PowersGrow, PowersOfTwo
    <3> QED BY <1>1, <1>3, <2>1, <3>1, <3>2
  <2>3. PowerOfTwo[q] <= m + 1
    BY <1>1, <2>1, <2>2, PowersGrow
  <2>4. e.replies = q + 1 /\ (q + 1) - 1 = q
    BY <1>1, <1>2, <1>4
  <2> QED BY <1>2, <2>3, <2>4 DEF Throttled, e
<1>5. CASE ~ShouldSendResponse(m + 1)
  <2> HIDE DEF PowerOfTwo
  <2>1. e.replies = q
    BY <1>2, <1>5
  <2>2. q > 0 => PowerOfTwo[q - 1] <= m + 1
    <3>1. q > 0 => PowerOfTwo[q - 1] \in Nat
      BY <1>1, PowersOfTwo
    <3> QED BY <1>1, <1>3, <3>1
  <2> QED BY <1>2, <2>1, <2>2 DEF Throttled, e
<1> QED BY <1>4, <1>5

\* Of finds the one record of a connection.
LEMMA OfListed ==
  ASSUME NEW s, Keyed(s), NEW k \in DOMAIN s
  PROVE  Of(s, s[k].conn) = s[k]
<1>1. s[k] \in Range(s)
  BY DEF Range
<1>2. ASSUME NEW r \in Range(s), r.conn = s[k].conn PROVE r = s[k]
  <2>1. PICK i \in DOMAIN s : r = s[i]
    BY DEF Range
  <2> QED BY <1>2, <2>1 DEF Keyed
<1> QED BY <1>1, <1>2, Zenon DEF Of

\* A record is taken out of the time-wait list.
LEMMA RecordsWithout ==
  ASSUME NEW list, TimeWaitInv(list), NEW c
  PROVE  /\ TimeWaitInv(Without(list, c))
         /\ Listed(Without(list, c)) \subseteq Listed(list) \ {c}
<1>1. list \in Seq(Records) /\ Keyed(list) /\ Len(list) <= MaxTimeWait
      /\ (\A i \in DOMAIN list : Throttled(list[i])) /\ MaxTimeWait \in Nat
  BY DispatcherConstants DEF TimeWaitInv
<1>2. CASE c \in Listed(list)
  <2>1. PICK k \in DOMAIN list : list[k].conn = c
    BY <1>2 DEF Listed
  <2> DEFINE w == Without(list, c)
  <2>2. w \in Seq(Records) /\ Removal(list, w, k)
    BY Zenon, <1>1, <2>1, WithoutRemoves
  <2> HIDE DEF w
  <2>3. /\ DOMAIN w = 1 .. Len(list) - 1 /\ DOMAIN list = 1 .. Len(list)
        /\ Len(w) = Len(list) - 1 /\ Len(list) \in Nat
        /\ k \in 1 .. Len(list)
    BY <1>1, <2>2 DEF Removal
  <2> DEFINE at(i) == IF i < k THEN i ELSE i + 1
  <2>4. ASSUME NEW i \in DOMAIN w
        PROVE  w[i] = list[at(i)] /\ at(i) \in DOMAIN list /\ at(i) # k
    BY <2>2, <2>3 DEF Removal
  <2>5. Keyed(w)
    <3> SUFFICES ASSUME NEW i \in DOMAIN w, NEW j \in DOMAIN w, w[i].conn = w[j].conn
                 PROVE  i = j
      BY DEF Keyed
    <3>1. at(i) = at(j)
      <4> HIDE DEF at
      <4> QED BY <1>1, <2>4 DEF Keyed
    <3> QED BY <2>3, <3>1
  <2>6. \A i \in DOMAIN w : Throttled(w[i])
    <3> HIDE DEF at
    <3> QED BY <1>1, <2>4
  <2>7. Listed(w) \subseteq Listed(list) \ {c}
    <3> SUFFICES ASSUME NEW i \in DOMAIN w
                 PROVE  w[i].conn \in Listed(list) /\ w[i].conn # c
      BY DEF Listed
    <3> HIDE DEF at
    <3>1. w[i].conn # list[k].conn
      BY <1>1, <2>4 DEF Keyed
    <3> QED BY <2>1, <2>4, <3>1 DEF Listed
  <2>8. Len(w) <= MaxTimeWait
    BY <1>1, <2>3
  <2> QED BY <2>2, <2>5, <2>6, <2>7, <2>8 DEF TimeWaitInv, w
<1>3. CASE c \notin Listed(list)
  <2>1. Without(list, c) = list
    BY <1>1, <1>3, NothingToRemove
  <2> QED BY <1>3, <2>1
<1> QED BY <1>2, <1>3

\* TrimTimeWaitListIfNeeded makes room.
LEMMA RecordsTrimmed ==
  ASSUME NEW list, TimeWaitInv(list)
  PROVE  /\ TimeWaitInv(Trimmed(list))
         /\ Len(Trimmed(list)) < MaxTimeWait
         /\ Listed(Trimmed(list)) \subseteq Listed(list)
<1>1. list \in Seq(Records) /\ Keyed(list) /\ Len(list) <= MaxTimeWait
      /\ (\A i \in DOMAIN list : Throttled(list[i])) /\ MaxTimeWait \in Nat \ {0}
  BY DispatcherConstants DEF TimeWaitInv
<1> DEFINE k == IF Len(list) < MaxTimeWait THEN 0 ELSE Len(list) - MaxTimeWait + 1
           w == Trimmed(list)
<1>2. k \in 0 .. Len(list) /\ Len(list) - k < MaxTimeWait /\ Len(list) \in Nat
  BY <1>1
<1>3. w = SubSeq(list, 1 + k, Len(list))
  BY DEF Trimmed
<1> HIDE DEF k, w
<1>4. /\ w \in Seq(Records) /\ Len(w) = Len(list) - k
      /\ \A i \in 1 .. Len(list) - k : w[i] = list[k + i]
  BY <1>1, <1>2, <1>3
<1>5. DOMAIN w = 1 .. Len(list) - k /\ DOMAIN list = 1 .. Len(list)
  BY <1>1, <1>4
<1>6. \A i \in DOMAIN w : w[i] = list[k + i] /\ k + i \in DOMAIN list
  BY <1>2, <1>4, <1>5
<1>7. Keyed(w)
  <2> SUFFICES ASSUME NEW i \in DOMAIN w, NEW j \in DOMAIN w, w[i].conn = w[j].conn
               PROVE  i = j
    BY DEF Keyed
  <2>1. k + i = k + j
    BY <1>1, <1>6 DEF Keyed
  <2> QED BY <1>2, <1>5, <2>1
<1>8. Listed(w) \subseteq Listed(list) /\ \A i \in DOMAIN w : Throttled(w[i])
  BY <1>1, <1>6 DEF Listed
<1>9. Len(w) <= MaxTimeWait /\ Len(w) < MaxTimeWait
  BY <1>1, <1>2, <1>4
<1> QED BY <1>4, <1>7, <1>8, <1>9 DEF TimeWaitInv, w

\* A record of another connection is added.
LEMMA RecordsAppended ==
  ASSUME NEW list, TimeWaitInv(list), Len(list) < MaxTimeWait,
         NEW r \in Records, Throttled(r), r.conn \notin Listed(list)
  PROVE  /\ TimeWaitInv(Append(list, r))
         /\ Listed(Append(list, r)) = Listed(list) \cup {r.conn}
<1>1. list \in Seq(Records) /\ Keyed(list) /\ Len(list) \in Nat
      /\ (\A i \in DOMAIN list : Throttled(list[i])) /\ MaxTimeWait \in Nat \ {0}
  BY DispatcherConstants DEF TimeWaitInv
<1> DEFINE w == Append(list, r)
<1>2. /\ w \in Seq(Records) /\ Len(w) = Len(list) + 1
      /\ DOMAIN w = DOMAIN list \cup {Len(list) + 1}
      /\ DOMAIN list = 1 .. Len(list)
      /\ \A i \in DOMAIN list : w[i] = list[i]
      /\ w[Len(list) + 1] = r
  BY <1>1
<1> HIDE DEF w
<1>3. Keyed(w)
  <2> SUFFICES ASSUME NEW i \in DOMAIN w, NEW j \in DOMAIN w, w[i].conn = w[j].conn
               PROVE  i = j
    BY DEF Keyed
  <2>1. \A m \in DOMAIN list : w[m].conn # r.conn
    BY <1>2 DEF Listed
  <2> QED BY <1>1, <1>2, <2>1 DEF Keyed
<1>4. \A i \in DOMAIN w : Throttled(w[i])
  BY <1>1, <1>2
<1>5. Listed(w) = Listed(list) \cup {r.conn}
  BY <1>2 DEF Listed
<1>6. Len(w) <= MaxTimeWait
  BY <1>1, <1>2
<1> QED BY <1>2, <1>3, <1>4, <1>5, <1>6 DEF TimeWaitInv, w

-----------------------------------------------------------------------------
(* What the parts of the dispatcher change of it.                          *)

Changes(d, e, F) == IsDispatcher(e) /\ \A f \in Fields \ F : e[f] = d[f]

\* AddConnectionIdToTimeWait keeps the time-wait list in order and adds one
\* connection to it.
LEMMA AddsToTimeWait ==
  ASSUME NEW d, IsDispatcher(d), TimeWaitInv(d.time_wait), NEW c \in Conns, now \in Nat
  PROVE  /\ Changes(d, AddConnectionIdToTimeWait(d, c), {"time_wait"})
         /\ TimeWaitInv(AddConnectionIdToTimeWait(d, c).time_wait)
         /\ Listed(AddConnectionIdToTimeWait(d, c).time_wait)
              \subseteq Listed(d.time_wait) \cup {c}
<1> DEFINE list == d.time_wait
           w == Trimmed(Without(list, c))
           r == [conn |-> c, num_packets |-> PacketsSoFar(d, c), added |-> now,
                 replies |-> RepliesSoFar(d, c)]
           e == AddConnectionIdToTimeWait(d, c)
<1>1. TimeWaitInv(w) /\ Len(w) < MaxTimeWait /\ Listed(w) \subseteq Listed(list) \ {c}
  <2>1. TimeWaitInv(Without(list, c)) /\ Listed(Without(list, c)) \subseteq Listed(list) \ {c}
    BY RecordsWithout, Zenon
  <2>2. TimeWaitInv(w) /\ Len(w) < MaxTimeWait /\ Listed(w) \subseteq Listed(Without(list, c))
    BY <2>1, RecordsTrimmed, Zenon
  <2> QED BY <2>1, <2>2, Zenon
<1>2. r \in Records /\ Throttled(r) /\ r.conn = c
  <2>1. CASE IsConnectionIdInTimeWait(d, c)
    <3>1. PICK k \in DOMAIN list : list[k].conn = c
      BY <2>1 DEF IsConnectionIdInTimeWait, Listed
    <3>2. Of(list, c) = list[k] /\ list[k] \in Records /\ Throttled(list[k])
      BY <3>1, OfListed DEF TimeWaitInv
    <3>3. r = [conn |-> c, num_packets |-> list[k].num_packets, added |-> now,
               replies |-> list[k].replies]
      BY Zenon, <2>1, <3>2 DEF PacketsSoFar, RepliesSoFar
    <3> QED BY <3>2, <3>3 DEF Records, Throttled
  <2>2. CASE ~IsConnectionIdInTimeWait(d, c)
    <3>1. r = [conn |-> c, num_packets |-> 0, added |-> now, replies |-> 0]
      BY <2>2 DEF PacketsSoFar, RepliesSoFar
    <3> QED BY <3>1 DEF Records, Throttled
  <2> QED BY <2>1, <2>2
<1>3. e = [d EXCEPT !.time_wait = Append(w, r)]
  BY DEF AddConnectionIdToTimeWait
<1> HIDE DEF w, r, e
<1>4. e.time_wait = Append(w, r) /\ Changes(d, e, {"time_wait"})
  BY Zenon, <1>3 DEF IsDispatcher, Changes, Fields
<1>5. TimeWaitInv(e.time_wait) /\ Listed(e.time_wait) = Listed(w) \cup {c}
  BY <1>1, <1>2, <1>4, RecordsAppended
<1> QED BY <1>1, <1>4, <1>5 DEF e

\* ProcessPacket of the time-wait list counts a packet.
LEMMA CountsInTimeWait ==
  ASSUME NEW d, IsDispatcher(d), TimeWaitInv(d.time_wait), NEW c
  PROVE  /\ Changes(d, ProcessInTimeWait(d, c), {"time_wait"})
         /\ TimeWaitInv(ProcessInTimeWait(d, c).time_wait)
         /\ Listed(ProcessInTimeWait(d, c).time_wait) = Listed(d.time_wait)
<1> DEFINE list == d.time_wait
           w == [i \in DOMAIN list |->
                   IF list[i].conn # c THEN list[i] ELSE Answered(list[i])]
           e == ProcessInTimeWait(d, c)
<1>1. e = [d EXCEPT !.time_wait = w]
  BY DEF ProcessInTimeWait
<1>2. list \in Seq(Records) /\ \A i \in DOMAIN list : list[i] \in Records /\ Throttled(list[i])
  BY DEF TimeWaitInv
<1>3. \A i \in DOMAIN list : w[i] \in Records /\ w[i].conn = list[i].conn /\ Throttled(w[i])
  BY <1>2, AnswersThrottled
<1>4. DOMAIN w = DOMAIN list
  OBVIOUS
<1> HIDE DEF w, e
<1>5. e.time_wait = w /\ Changes(d, e, {"time_wait"})
  BY <1>1 DEF IsDispatcher, Changes, Fields
<1>6. w \in Seq(Records) /\ Len(w) = Len(list)
  <2>1. DOMAIN w = 1 .. Len(list) /\ Len(list) \in Nat
    BY <1>2, <1>4
  <2>2. w = [i \in 1 .. Len(list) |-> w[i]]
    BY Zenon, <2>1 DEF w
  <2> QED BY <1>3, <1>4, <2>1, <2>2
<1>7. Keyed(w) /\ Listed(w) = Listed(list)
  BY <1>3, <1>4 DEF Keyed, Listed, TimeWaitInv
<1>8. TimeWaitInv(w)
  BY Zenon, <1>3, <1>4, <1>6, <1>7 DEF TimeWaitInv
<1> QED BY <1>5, <1>7, <1>8 DEF e

-----------------------------------------------------------------------------
(* Entries leave the store.                                                *)

\* w has only elements of s, and in the order of s.
Sublist(s, w) ==
  /\ \A i \in DOMAIN w : \E j \in DOMAIN s : w[i] = s[j]
  /\ \A i, j \in DOMAIN w : i < j =>
       \E p, q \in DOMAIN s : p < q /\ w[i] = s[p] /\ w[j] = s[q]

\* Without keeps the other entries.
LEMMA WithoutKeeps ==
  ASSUME NEW S, NEW s \in Seq(S), Keyed(s), NEW c
  PROVE  /\ Without(s, c) \in Seq(S)
         /\ Keyed(Without(s, c))
         /\ Sublist(s, Without(s, c))
         /\ Listed(Without(s, c)) = Listed(s) \ {c}
         /\ Len(Without(s, c)) = IF c \in Listed(s) THEN Len(s) - 1 ELSE Len(s)
<1>1. CASE c \in Listed(s)
  <2>1. PICK k \in DOMAIN s : s[k].conn = c
    BY <1>1 DEF Listed
  <2> DEFINE w == Without(s, c)
             at(i) == IF i < k THEN i ELSE i + 1
  <2>2. w \in Seq(S) /\ Removal(s, w, k)
    BY <2>1, WithoutRemoves
  <2> HIDE DEF w
  <2>3. /\ DOMAIN w = 1 .. Len(s) - 1 /\ DOMAIN s = 1 .. Len(s)
        /\ Len(w) = Len(s) - 1 /\ Len(s) \in Nat /\ k \in 1 .. Len(s)
    BY <2>2 DEF Removal
  <2>4. ASSUME NEW i \in DOMAIN w
        PROVE  w[i] = s[at(i)] /\ at(i) \in DOMAIN s /\ at(i) # k
    BY <2>2, <2>3 DEF Removal
  <2>5. ASSUME NEW i \in DOMAIN w, NEW j \in DOMAIN w, i < j PROVE at(i) < at(j)
    BY <2>3, <2>5
  <2>6. ASSUME NEW m \in DOMAIN s, m # k PROVE \E i \in DOMAIN w : at(i) = m
    <3> DEFINE i == IF m < k THEN m ELSE m - 1
    <3>1. i \in DOMAIN w /\ at(i) = m
      BY <2>3, <2>6
    <3> QED BY <3>1
  <2>7. ASSUME NEW i \in DOMAIN w, NEW j \in DOMAIN w, at(i) = at(j) PROVE i = j
    BY <2>3, <2>7
  <2> HIDE DEF at
  <2>8. Keyed(w)
    BY <2>4, <2>7 DEF Keyed
  <2>9. Sublist(s, w)
    BY <2>4, <2>5 DEF Sublist
  <2>10. Listed(w) = Listed(s) \ {c}
    <3>1. ASSUME NEW i \in DOMAIN w PROVE w[i].conn \in Listed(s) \ {c}
      <4>1. w[i].conn # s[k].conn
        BY <2>4 DEF Keyed
      <4> QED BY <2>1, <2>4, <4>1 DEF Listed
    <3>2. ASSUME NEW m \in DOMAIN s, s[m].conn # c PROVE s[m].conn \in Listed(w)
      <4>1. PICK i \in DOMAIN w : at(i) = m
        BY <2>1, <2>6, <3>2
      <4> QED BY <2>4, <4>1 DEF Listed
    <3> QED BY <3>1, <3>2 DEF Listed
  <2> QED BY <1>1, <2>2, <2>3, <2>8, <2>9, <2>10 DEF w
<1>2. CASE c \notin Listed(s)
  <2>1. Without(s, c) = s
    BY <1>2, NothingToRemove
  <2>2. Sublist(s, s)
    BY DEF Sublist
  <2> QED BY <1>2, <2>1, <2>2
<1> QED BY <1>1, <1>2

\* h is the queue of client hellos without that of c.
LosesHello(hellos, h, c) ==
  /\ h \in Seq(Conns) /\ Once(h)
  /\ Range(h) = Range(hellos) \ {c}
  /\ Len(h) = IF c \in Range(hellos) THEN Len(hellos) - 1 ELSE Len(hellos)

\* DiscardPackets forgets the client hello of a connection.
LEMMA RemoveFirstLoses ==
  ASSUME NEW hellos \in Seq(Conns), Once(hellos), NEW c
  PROVE  LosesHello(hellos, Erase(hellos, c), c)
<1>1. CASE c \in Range(hellos)
  <2>1. PICK k \in DOMAIN hellos : hellos[k] = c
    BY <1>1 DEF Range
  <2> DEFINE h == Erase(hellos, c)
             at(i) == IF i < k THEN i ELSE i + 1
  <2>2. h \in Seq(Conns) /\ Removal(hellos, h, k)
    BY Zenon, <2>1, EraseRemoves
  <2> HIDE DEF h
  <2>3. /\ DOMAIN h = 1 .. Len(hellos) - 1 /\ DOMAIN hellos = 1 .. Len(hellos)
        /\ Len(h) = Len(hellos) - 1 /\ Len(hellos) \in Nat /\ k \in 1 .. Len(hellos)
    BY <2>2 DEF Removal
  <2>4. ASSUME NEW i \in DOMAIN h
        PROVE  h[i] = hellos[at(i)] /\ at(i) \in DOMAIN hellos /\ at(i) # k
    BY <2>2, <2>3 DEF Removal
  <2>5. ASSUME NEW m \in DOMAIN hellos, m # k PROVE \E i \in DOMAIN h : at(i) = m
    <3> DEFINE i == IF m < k THEN m ELSE m - 1
    <3>1. i \in DOMAIN h /\ at(i) = m
      BY <2>3, <2>5
    <3> QED BY <3>1
  <2>6. ASSUME NEW i \in DOMAIN h, NEW j \in DOMAIN h, at(i) = at(j) PROVE i = j
    BY <2>3, <2>6
  <2> HIDE DEF at
  <2>7. Once(h)
    BY <2>4, <2>6 DEF Once
  <2>8. Range(h) = Range(hellos) \ {c}
    <3>1. ASSUME NEW i \in DOMAIN h PROVE h[i] \in Range(hellos) \ {c}
      BY <2>1, <2>4 DEF Once, Range
    <3>2. ASSUME NEW m \in DOMAIN hellos, hellos[m] # c PROVE hellos[m] \in Range(h)
      <4>1. PICK i \in DOMAIN h : at(i) = m
        BY <2>1, <2>5, <3>2
      <4> QED BY Zenon, <2>4, <4>1 DEF Range
    <3> QED BY Zenon, <3>1, <3>2 DEF Range
  <2> QED BY Zenon, <1>1, <2>2, <2>3, <2>7, <2>8 DEF LosesHello, h
<1>2. CASE c \notin Range(hellos)
  <2>1. Erase(hellos, c) = hellos
    BY <1>2, NothingToRemove
  <2> QED BY <1>2, <2>1 DEF LosesHello
<1> QED BY <1>1, <1>2

\* So does DeliverPacketsForNextConnection, for the first.
LEMMA TailLoses ==
  ASSUME NEW hellos \in Seq(Conns), Once(hellos), hellos # <<>>
  PROVE  /\ LosesHello(hellos, Tail(hellos), Head(hellos))
         /\ Head(hellos) \in Range(hellos)
<1> DEFINE h == Tail(hellos)
<1>1. /\ h \in Seq(Conns) /\ Len(h) = Len(hellos) - 1 /\ Len(hellos) \in Nat \ {0}
      /\ DOMAIN h = 1 .. Len(hellos) - 1 /\ DOMAIN hellos = 1 .. Len(hellos)
      /\ \A i \in DOMAIN h : h[i] = hellos[i + 1]
      /\ Head(hellos) = hellos[1] /\ 1 \in DOMAIN hellos
  OBVIOUS
<1> HIDE DEF h
<1>2. \A i \in DOMAIN h : i + 1 \in DOMAIN hellos /\ i + 1 # 1
  BY <1>1
<1>3. Once(h)
  <2> SUFFICES ASSUME NEW i \in DOMAIN h, NEW j \in DOMAIN h, h[i] = h[j] PROVE i = j
    BY DEF Once
  <2>1. i + 1 = j + 1
    BY <1>1, <1>2 DEF Once
  <2> QED BY <1>1, <2>1
<1>4. Range(h) = Range(hellos) \ {Head(hellos)}
  <2>1. ASSUME NEW i \in DOMAIN h PROVE h[i] \in Range(hellos) \ {Head(hellos)}
    BY <1>1, <1>2 DEF Once, Range
  <2>2. ASSUME NEW m \in DOMAIN hellos, hellos[m] # Head(hellos) PROVE hellos[m] \in Range(h)
    <3>1. m - 1 \in DOMAIN h /\ (m - 1) + 1 = m
      BY <1>1, <2>2
    <3> QED BY <1>1, <3>1 DEF Range
  <2> QED BY <2>1, <2>2 DEF Range
<1>5. Head(hellos) \in Range(hellos)
  BY Zenon, <1>1 DEF Range
<1> QED BY <1>1, <1>3, <1>4, <1>5 DEF LosesHello, h

\* The store without the packets of a connection.
LEMMA StoreDrops ==
  ASSUME NEW a, NEW store, NEW hellos, StoreInv(store, hellos, a),
         NEW c, NEW h, LosesHello(hellos, h, c)
  PROVE  /\ StoreInv(Without(store, c), h, a)
         /\ Listed(Without(store, c)) = Listed(store) \ {c}
<1> DEFINE w == Without(store, c)
<1>1. /\ store \in Seq(Lists) /\ Keyed(store) /\ hellos \in Seq(Conns)
      /\ Range(hellos) \subseteq Listed(store)
      /\ Len(store) <= MaxStore /\ Len(store) - Len(hellos) <= MaxWithoutChlo
      /\ \A i \in DOMAIN store :
           QueueInv(store[i].packets, store[i].conn \in Range(hellos), a)
  BY Zenon DEF StoreInv
<1>2. /\ w \in Seq(Lists) /\ Keyed(w) /\ Sublist(store, w)
      /\ Listed(w) = Listed(store) \ {c}
      /\ Len(w) = IF c \in Listed(store) THEN Len(store) - 1 ELSE Len(store)
  BY <1>1, WithoutKeeps
<1> HIDE DEF w
<1>3. h \in Seq(Conns) /\ Once(h) /\ Range(h) \subseteq Listed(w)
  BY Zenon, <1>1, <1>2 DEF LosesHello
<1>4. Len(w) <= MaxStore /\ Len(w) - Len(h) <= MaxWithoutChlo
  <2>1. MaxStore \in Nat /\ MaxWithoutChlo \in Nat /\ Len(store) \in Nat /\ Len(hellos) \in Nat
    BY <1>1, DispatcherConstants
  <2>2. c \in Range(hellos) => c \in Listed(store)
    BY <1>1
  <2>3. Len(h) = IF c \in Range(hellos) THEN Len(hellos) - 1 ELSE Len(hellos)
    BY DEF LosesHello
  <2>4. Len(w) = IF c \in Listed(store) THEN Len(store) - 1 ELSE Len(store)
    BY <1>2
  <2>5. Len(store) <= MaxStore /\ Len(store) - Len(hellos) <= MaxWithoutChlo
    BY Zenon, <1>1
  <2> QED BY <2>1, <2>2, <2>3, <2>4, <2>5
<1>5. ASSUME NEW i \in DOMAIN w
      PROVE  QueueInv(w[i].packets, w[i].conn \in Range(h), a)
  <2>1. PICK j \in DOMAIN store : w[i] = store[j]
    BY Zenon, <1>2 DEF Sublist
  <2>2. w[i].conn \in Listed(w)
    BY DEF Listed
  <2>3. (w[i].conn \in Range(h)) = (store[j].conn \in Range(hellos))
    BY <1>2, <2>1, <2>2 DEF LosesHello
  <2> QED BY <1>1, <2>1, <2>3
<1> QED BY <1>2, <1>3, <1>4, <1>5 DEF StoreInv, w

\* What is left is no older, and no client hello being decided is in it.
LEMMA AgeAndDecidingDrop ==
  ASSUME NEW a, NEW t, NEW store \in Seq(Lists), Keyed(store), NEW expiration, NEW c
  PROVE  /\ AgeInv(store, expiration, t) => AgeInv(Without(store, c), expiration, t)
         /\ \A deciding : DecidingInv(deciding, store, a)
                            => DecidingInv(deciding, Without(store, c), a)
<1> DEFINE w == Without(store, c)
<1>1. w \in Seq(Lists) /\ Sublist(store, w) /\ (w # <<>> => store # <<>>)
  <2>1. w \in Seq(Lists) /\ Sublist(store, w)
        /\ Len(w) = IF c \in Listed(store) THEN Len(store) - 1 ELSE Len(store)
    BY WithoutKeeps
  <2> HIDE DEF w
  <2> QED BY <2>1 DEF Sublist
<1> HIDE DEF w
<1>2. ASSUME AgeInv(store, expiration, t) PROVE AgeInv(w, expiration, t)
  BY <1>1, <1>2 DEF AgeInv, Sublist
<1>3. ASSUME NEW deciding, DecidingInv(deciding, store, a)
      PROVE  DecidingInv(deciding, w, a)
  BY <1>1, <1>3 DEF DecidingInv, Sublist
<1> QED BY <1>2, <1>3 DEF w

-----------------------------------------------------------------------------
(* Packets enter the store.                                                *)

\* The parts of a packet and of an entry.
LEMMA FieldTypes ==
  /\ \A p \in Packets : p.n \in Nat
  /\ \A r \in Lists : r.conn \in Conns /\ r.packets \in Seq(Packets) /\ r.created \in Nat
                     /\ r.alpn \in Tags
  /\ \A s \in Sessions : s.given \in Seq(Packets)
BY DEF Packets, Lists, Sessions

\* Queues stay in order when more packets have arrived.
LEMMA QueueGrows ==
  ASSUME NEW a \in Nat, NEW b \in Nat, a <= b, NEW q \in Seq(Packets)
  PROVE  /\ HelloFirst(q, a) => HelloFirst(q, b)
         /\ \A hello \in BOOLEAN : QueueInv(q, hello, a) => QueueInv(q, hello, b)
<1>1. \A i \in DOMAIN q : q[i].n \in Nat
  BY FieldTypes
<1>2. \A first : InOrder(q, first, a) => InOrder(q, first, b)
  BY <1>1 DEF InOrder
<1> QED BY <1>2 DEF HelloFirst, QueueInv

\* A packet that is newer than all those of a queue goes to its end.
LEMMA QueueAppends ==
  ASSUME NEW a \in Nat, NEW b \in Nat, a <= b, NEW q \in Seq(Packets),
         NEW p \in Packets, p.n <= b, \A k \in DOMAIN q : q[k].n < p.n
  PROVE  /\ Append(q, p) \in Seq(Packets)
         /\ HelloFirst(q, a) => HelloFirst(Append(q, p), b)
         /\ InOrder(q, 1, a) => InOrder(Append(q, p), 1, b)
<1> DEFINE w == Append(q, p)
<1>1. /\ w \in Seq(Packets) /\ Len(w) = Len(q) + 1 /\ Len(q) \in Nat
      /\ DOMAIN w = 1 .. Len(q) + 1 /\ DOMAIN q = 1 .. Len(q)
      /\ w[Len(q) + 1] = p /\ \A i \in DOMAIN q : w[i] = q[i]
  OBVIOUS
<1> HIDE DEF w
<1>2. p.n \in Nat /\ \A i \in DOMAIN q : q[i].n \in Nat
  BY FieldTypes
<1>3. ASSUME NEW first \in {1, 2}, InOrder(q, first, a) PROVE InOrder(w, first, b)
  <2>1. \A i \in DOMAIN w : w[i].n <= b
    BY <1>1, <1>2, <1>3 DEF InOrder
  <2>2. ASSUME NEW i \in first .. Len(w), NEW j \in first .. Len(w), i < j
        PROVE  w[i].n < w[j].n
    <3>1. i \in DOMAIN q /\ i \in first .. Len(q)
      BY <1>1, <2>2
    <3>2. CASE j = Len(q) + 1
      BY Zenon, <1>1, <3>1, <3>2
    <3>3. CASE j # Len(q) + 1
      <4>1. j \in DOMAIN q /\ j \in first .. Len(q)
        BY <1>1, <3>3
      <4> QED BY <1>1, <1>3, <2>2, <3>1, <4>1 DEF InOrder
    <3> QED BY <3>2, <3>3
  <2> QED BY Zenon, <2>1, <2>2 DEF InOrder
<1>4. ASSUME HelloFirst(q, a) PROVE HelloFirst(w, b)
  <2>1. /\ Len(q) >= 1 /\ q[1].kind = "chlo" /\ InOrder(q, 2, a)
        /\ \A i \in 2 .. Len(q) : q[i].n # q[1].n
    BY Zenon, <1>4 DEF HelloFirst
  <2>2. 1 \in DOMAIN q /\ w[1] = q[1]
    BY <1>1, <2>1
  <2>3. ASSUME NEW i \in 2 .. Len(w) PROVE w[i].n # w[1].n
    <3>1. CASE i = Len(q) + 1
      BY <1>1, <1>2, <2>2, <3>1
    <3>2. CASE i # Len(q) + 1
      <4>1. i \in DOMAIN q /\ i \in 2 .. Len(q)
        BY <1>1, <3>2
      <4> QED BY Zenon, <1>1, <2>1, <2>2, <4>1
    <3> QED BY Zenon, <3>1, <3>2
  <2>4. InOrder(w, 2, b) /\ Len(w) >= 1
    BY <1>1, <1>3, <2>1
  <2> QED BY <2>1, <2>2, <2>3, <2>4 DEF HelloFirst
<1> QED BY <1>1, <1>3, <1>4 DEF w

\* A client hello goes to the front of the packets that came before it.
LEMMA QueuePrepends ==
  ASSUME NEW a \in Nat, NEW b \in Nat, a <= b, NEW q \in Seq(Packets),
         InOrder(q, 1, a), NEW p \in Packets, p.kind = "chlo", p.n <= b,
         \A k \in DOMAIN q : q[k].n # p.n
  PROVE  /\ <<p>> \o q \in Seq(Packets)
         /\ Len(<<p>> \o q) = Len(q) + 1
         /\ HelloFirst(<<p>> \o q, b)
<1> DEFINE w == <<p>> \o q
<1>1. /\ w \in Seq(Packets) /\ Len(w) = Len(q) + 1 /\ Len(q) \in Nat
      /\ DOMAIN w = 1 .. Len(q) + 1 /\ DOMAIN q = 1 .. Len(q)
      /\ w[1] = p /\ \A i \in 2 .. Len(q) + 1 : w[i] = q[i - 1]
  OBVIOUS
<1> HIDE DEF w
<1>2. p.n \in Nat /\ \A i \in DOMAIN q : q[i].n \in Nat
  BY FieldTypes
<1>3. ASSUME NEW i \in 2 .. Len(w) PROVE w[i] = q[i - 1] /\ i - 1 \in 1 .. Len(q)
  BY <1>1
<1>4. \A i \in DOMAIN w : w[i].n <= b
  <2> SUFFICES ASSUME NEW i \in DOMAIN w PROVE w[i].n <= b
    BY Zenon
  <2>1. CASE i = 1
    BY <1>1, <2>1
  <2>2. CASE i # 1
    <3>1. w[i] = q[i - 1] /\ i - 1 \in DOMAIN q
      BY <1>1, <1>3, <2>2
    <3> QED BY <1>2, <3>1 DEF InOrder
  <2> QED BY <2>1, <2>2
<1>5. ASSUME NEW i \in 2 .. Len(w), NEW j \in 2 .. Len(w), i < j PROVE w[i].n < w[j].n
  <2>1. i - 1 < j - 1
    BY <1>1, <1>5
  <2> QED BY Zenon, <1>3, <2>1 DEF InOrder
<1>6. \A i \in 2 .. Len(w) : w[i].n # w[1].n
  BY <1>1, <1>3
<1>7. HelloFirst(w, b)
  BY <1>1, <1>4, <1>5, <1>6 DEF HelloFirst, InOrder
<1> QED BY <1>1, <1>7 DEF w

\* A packet in the queue of its connection.
Added(packets, p, is_chlo) == IF is_chlo THEN <<p>> \o packets ELSE Append(packets, p)

\* w is the store with p in the queue of c.
Enters(store, w, c, p, is_chlo) ==
  /\ w \in Seq(Lists)
  /\ Len(w) = IF c \in Listed(store) THEN Len(store) ELSE Len(store) + 1
  /\ \A i \in DOMAIN store :
       /\ w[i].conn = store[i].conn /\ w[i].created = store[i].created
       /\ w[i].packets = IF store[i].conn # c THEN store[i].packets
                         ELSE Added(store[i].packets, p, is_chlo)
  /\ c \notin Listed(store) =>
       LET r == w[Len(store) + 1]
       IN  r.conn = c /\ r.packets = <<p>> /\ r.created = now

\* An entry with another queue is of the same connection and of the same age.
Updated(r, q, tag) == [r EXCEPT !.packets = q, !.alpn = tag]

\* It is an entry again.
LEMMA EntryUpdated ==
  ASSUME NEW r \in Lists, NEW q \in Seq(Packets), NEW tag \in Tags
  PROVE  /\ Updated(r, q, tag) \in Lists
         /\ Updated(r, q, tag).conn = r.conn
         /\ Updated(r, q, tag).created = r.created
         /\ Updated(r, q, tag).packets = q
BY Zenon DEF Lists, Updated

\* What EnqueuePacket does to the store.
LEMMA BufferedEnters ==
  ASSUME NEW d, d.store \in Seq(Lists), d.alpn \in Tags, now \in Nat,
         NEW c \in Conns, NEW p \in Packets, NEW is_chlo \in BOOLEAN
  PROVE  Enters(d.store, Buffered(d, c, p, is_chlo), c, p, is_chlo)
<1> DEFINE store == d.store
           w == Buffered(d, c, p, is_chlo)
           tag(old) == IF is_chlo THEN d.alpn ELSE old
           update(r) == IF r.conn # c THEN r
                        ELSE [r EXCEPT !.packets = Added(r.packets, p, is_chlo),
                                       !.alpn = tag(r.alpn)]
<1>1. /\ DOMAIN store = 1 .. Len(store) /\ Len(store) \in Nat
      /\ \A i \in DOMAIN store : store[i] \in Lists
  OBVIOUS
<1>2. ASSUME NEW q \in Seq(Packets) PROVE Added(q, p, is_chlo) \in Seq(Packets)
  BY DEF Added
<1>3. ASSUME NEW r \in Lists
      PROVE  /\ update(r) \in Lists
             /\ update(r).conn = r.conn /\ update(r).created = r.created
             /\ update(r).packets = IF r.conn # c THEN r.packets
                                    ELSE Added(r.packets, p, is_chlo)
  <2> DEFINE q == Added(r.packets, p, is_chlo)
             g == tag(r.alpn)
             e == Updated(r, q, g)
  <2>1. q \in Seq(Packets) /\ g \in Tags
    BY <1>2, FieldTypes
  <2>2. update(r) = IF r.conn # c THEN r ELSE e
    BY Zenon DEF Updated
  <2>3. e \in Lists /\ e.conn = r.conn /\ e.created = r.created /\ e.packets = q
    <3> HIDE DEF q, g
    <3> QED BY <2>1, EntryUpdated
  <2> HIDE DEF e, update
  <2> QED BY <2>2, <2>3
<1>4. CASE c \in Listed(store)
  <2>1. w = [i \in DOMAIN store |-> update(store[i])]
    BY Zenon, <1>4 DEF Buffered, HasBufferedPackets, Added
  <2> HIDE DEF update, w
  <2>2. \A i \in DOMAIN store : w[i] = update(store[i])
    BY <2>1
  <2>3. w \in Seq(Lists) /\ Len(w) = Len(store)
    BY <1>1, <1>3, <2>1
  <2> QED BY <1>1, <1>3, <1>4, <2>2, <2>3 DEF Enters, w
<1>5. CASE c \notin Listed(store)
  <2> DEFINE r == [conn |-> c, packets |-> <<p>>, created |-> now, alpn |-> tag(NoAlpn)]
  <2>1. w = Append(store, r)
    BY Zenon, <1>5 DEF Buffered, HasBufferedPackets
  <2>2. r \in Lists /\ r.conn = c /\ r.packets = <<p>> /\ r.created = now
    BY DEF Lists, Tags
  <2> HIDE DEF r, w
  <2>3. /\ w \in Seq(Lists) /\ Len(w) = Len(store) + 1 /\ w[Len(store) + 1] = r
        /\ \A i \in DOMAIN store : w[i] = store[i]
    BY <1>1, <2>1, <2>2
  <2>4. \A i \in DOMAIN store : store[i].conn # c
    BY <1>5 DEF Listed
  <2> QED BY <1>1, <1>5, <2>2, <2>3, <2>4 DEF Enters, w
<1> QED BY <1>4, <1>5

\* It remains a map, in the order of insertion.
LEMMA EnteredKeys ==
  ASSUME NEW store \in Seq(Lists), Keyed(store), NEW w, NEW c, NEW p, NEW is_chlo,
         Enters(store, w, c, p, is_chlo)
  PROVE  /\ Keyed(w) /\ Listed(w) = Listed(store) \cup {c}
         /\ DOMAIN w = IF c \in Listed(store) THEN DOMAIN store
                       ELSE DOMAIN store \cup {Len(store) + 1}
         /\ DOMAIN store = 1 .. Len(store) /\ Len(store) \in Nat
<1>1. /\ w \in Seq(Lists)
      /\ Len(w) = IF c \in Listed(store) THEN Len(store) ELSE Len(store) + 1
      /\ \A i \in DOMAIN store : w[i].conn = store[i].conn
      /\ c \notin Listed(store) => w[Len(store) + 1].conn = c
  BY DEF Enters
<1>2. DOMAIN store = 1 .. Len(store) /\ Len(store) \in Nat /\ DOMAIN w = 1 .. Len(w)
  BY <1>1
<1>3. DOMAIN w = IF c \in Listed(store) THEN DOMAIN store
                 ELSE DOMAIN store \cup {Len(store) + 1}
  <2>1. CASE c \in Listed(store)
    BY Zenon, <1>1, <1>2, <2>1
  <2>2. CASE c \notin Listed(store)
    <3>1. DOMAIN w = 1 .. Len(store) + 1
      BY Zenon, <1>1, <1>2, <2>2
    <3>2. 1 .. Len(store) + 1 = (1 .. Len(store)) \cup {Len(store) + 1}
      BY <1>2
    <3> QED BY Zenon, <1>2, <2>2, <3>1, <3>2
  <2> QED BY <2>1, <2>2
<1>4. Listed(w) = Listed(store) \cup {c}
  BY <1>1, <1>3 DEF Listed
<1>5. Keyed(w)
  <2>1. c \notin Listed(store) => \A i \in DOMAIN store : w[i].conn # c
    BY Zenon, <1>1 DEF Listed
  <2> QED BY <1>1, <1>3, <2>1 DEF Keyed
<1> QED BY Zenon, <1>2, <1>3, <1>4, <1>5

\* p may enter the queue of c: a client hello is the first of its connection,
\* any other packet is newer than those that are there.
Fits(store, hellos, c, p, is_chlo) ==
  /\ is_chlo => p.kind = "chlo" /\ c \notin Range(hellos)
  /\ \A i \in DOMAIN store : store[i].conn = c =>
       \A k \in DOMAIN store[i].packets :
         IF is_chlo THEN store[i].packets[k].n # p.n ELSE store[i].packets[k].n < p.n

\* There is room for it: the conditions under which EnqueuePacket goes on.
HasRoom(store, hellos, c, is_chlo) ==
  /\ c \notin Listed(store) =>
       /\ Len(store) < MaxStore
       /\ ~is_chlo => Len(store) - Len(hellos) < MaxWithoutChlo
  /\ ~is_chlo => \A i \in DOMAIN store : store[i].conn = c =>
       Len(store[i].packets) - (IF c \in Range(hellos) THEN 1 ELSE 0) < MaxUndecryptable

HellosAfter(hellos, c, is_chlo) == IF is_chlo THEN Append(hellos, c) ELSE hellos

\* The queue of client hellos has each connection once.
LEMMA HellosEnter ==
  ASSUME NEW hellos \in Seq(Conns), Once(hellos), NEW c \in Conns,
         NEW is_chlo \in BOOLEAN, is_chlo => c \notin Range(hellos)
  PROVE  /\ HellosAfter(hellos, c, is_chlo) \in Seq(Conns)
         /\ Once(HellosAfter(hellos, c, is_chlo))
         /\ Range(HellosAfter(hellos, c, is_chlo))
              = IF is_chlo THEN Range(hellos) \cup {c} ELSE Range(hellos)
         /\ Len(HellosAfter(hellos, c, is_chlo))
              = IF is_chlo THEN Len(hellos) + 1 ELSE Len(hellos)
<1>1. CASE is_chlo
  <2> DEFINE h == Append(hellos, c)
  <2>1. /\ h \in Seq(Conns) /\ Len(h) = Len(hellos) + 1
        /\ DOMAIN h = DOMAIN hellos \cup {Len(hellos) + 1}
        /\ h[Len(hellos) + 1] = c /\ \A i \in DOMAIN hellos : h[i] = hellos[i]
    OBVIOUS
  <2> HIDE DEF h
  <2>2. \A i \in DOMAIN hellos : hellos[i] # c
    BY <1>1 DEF Range
  <2>3. Once(h)
    BY <2>1, <2>2 DEF Once
  <2>4. Range(h) = Range(hellos) \cup {c}
    BY <2>1 DEF Range
  <2>5. HellosAfter(hellos, c, is_chlo) = h
    BY <1>1 DEF HellosAfter, h
  <2> QED BY Zenon, <1>1, <2>1, <2>3, <2>4, <2>5
<1>2. CASE ~is_chlo
  BY <1>2 DEF HellosAfter
<1> QED BY <1>1, <1>2

\* The queue of c after p has entered.
LEMMA QueueEnters ==
  ASSUME NEW a \in Nat, NEW b \in Nat, a <= b, NEW q \in Seq(Packets),
         NEW hello \in BOOLEAN, QueueInv(q, hello, a),
         NEW p \in Packets, p.n <= b, NEW is_chlo \in BOOLEAN,
         is_chlo => p.kind = "chlo" /\ ~hello,
         \A k \in DOMAIN q : IF is_chlo THEN q[k].n # p.n ELSE q[k].n < p.n,
         ~is_chlo => Len(q) - (IF hello THEN 1 ELSE 0) < MaxUndecryptable
  PROVE  QueueInv(Added(q, p, is_chlo), hello \/ is_chlo, b)
<1>1. MaxUndecryptable \in Nat /\ Len(q) \in Nat
  BY DispatcherConstants
<1>2. CASE is_chlo
  <2>1. InOrder(q, 1, a) /\ Len(q) \in 1 .. MaxUndecryptable
    BY Zenon, <1>2 DEF QueueInv
  <2>2. HelloFirst(<<p>> \o q, b) /\ Len(<<p>> \o q) = Len(q) + 1
    BY Zenon, <1>2, <2>1, QueuePrepends
  <2> QED BY <1>1, <1>2, <2>1, <2>2 DEF QueueInv, Added
<1>3. CASE ~is_chlo
  <2>1. /\ HelloFirst(q, a) => HelloFirst(Append(q, p), b)
        /\ InOrder(q, 1, a) => InOrder(Append(q, p), 1, b)
    BY <1>3, QueueAppends
  <2>2. Len(Append(q, p)) = Len(q) + 1
    OBVIOUS
  <2>3. CASE hello
    BY <1>1, <1>3, <2>1, <2>2, <2>3 DEF QueueInv, Added
  <2>4. CASE ~hello
    BY <1>1, <1>3, <2>1, <2>2, <2>4 DEF QueueInv, Added
  <2> QED BY <2>3, <2>4
<1> QED BY <1>2, <1>3

\* A queue of one packet.
LEMMA QueueStarts ==
  ASSUME NEW b \in Nat, NEW p \in Packets, p.n <= b, NEW is_chlo \in BOOLEAN,
         is_chlo => p.kind = "chlo"
  PROVE  QueueInv(<<p>>, is_chlo, b)
<1>1. MaxUndecryptable \in Nat \ {0}
  BY DispatcherConstants
<1>2. Len(<<p>>) = 1 /\ DOMAIN <<p>> = {1} /\ <<p>>[1] = p
  OBVIOUS
<1> DEFINE q == <<p>>
<1> HIDE DEF q
<1>3. Len(q) = 1 /\ DOMAIN q = {1} /\ q[1] = p
  BY <1>2 DEF q
<1>4. \A first \in {1, 2} : InOrder(q, first, b)
  BY <1>3 DEF InOrder
<1>5. QueueInv(q, is_chlo, b)
  BY <1>1, <1>3, <1>4 DEF QueueInv, HelloFirst
<1> QED BY <1>5 DEF q

\* The store stays in order and within its limits.
LEMMA StoreEnters ==
  ASSUME NEW a \in Nat, NEW b \in Nat, a <= b, NEW store, NEW hellos,
         StoreInv(store, hellos, a), NEW w, NEW c \in Conns, NEW p \in Packets, p.n <= b,
         NEW is_chlo \in BOOLEAN, Enters(store, w, c, p, is_chlo),
         Fits(store, hellos, c, p, is_chlo), HasRoom(store, hellos, c, is_chlo)
  PROVE  StoreInv(w, HellosAfter(hellos, c, is_chlo), b)
<1> DEFINE h == HellosAfter(hellos, c, is_chlo)
<1>1. /\ store \in Seq(Lists) /\ Keyed(store)
      /\ hellos \in Seq(Conns) /\ Once(hellos) /\ Range(hellos) \subseteq Listed(store)
  BY DEF StoreInv
<1>2. /\ Keyed(w) /\ Listed(w) = Listed(store) \cup {c}
      /\ DOMAIN w = IF c \in Listed(store) THEN DOMAIN store
                    ELSE DOMAIN store \cup {Len(store) + 1}
      /\ DOMAIN store = 1 .. Len(store) /\ Len(store) \in Nat
  BY Zenon, <1>1, EnteredKeys
<1>3. /\ h \in Seq(Conns) /\ Once(h)
      /\ Range(h) = IF is_chlo THEN Range(hellos) \cup {c} ELSE Range(hellos)
      /\ Len(h) = IF is_chlo THEN Len(hellos) + 1 ELSE Len(hellos)
  BY <1>1, HellosEnter DEF Fits
<1> HIDE DEF h
<1>4. Len(w) <= MaxStore /\ Len(w) - Len(h) <= MaxWithoutChlo
  <2>1. MaxStore \in Nat /\ MaxWithoutChlo \in Nat /\ Len(store) \in Nat /\ Len(hellos) \in Nat
    BY <1>1, DispatcherConstants
  <2>2. Len(w) = IF c \in Listed(store) THEN Len(store) ELSE Len(store) + 1
    BY DEF Enters
  <2>3. Len(store) <= MaxStore /\ Len(store) - Len(hellos) <= MaxWithoutChlo
    BY DEF StoreInv
  <2>4. c \notin Listed(store) =>
          /\ Len(store) < MaxStore
          /\ ~is_chlo => Len(store) - Len(hellos) < MaxWithoutChlo
    BY Zenon DEF HasRoom
  <2>5. Len(h) = IF is_chlo THEN Len(hellos) + 1 ELSE Len(hellos)
    BY Zenon, <1>3
  <2> QED BY <2>1, <2>2, <2>3, <2>4, <2>5
<1>5. ASSUME NEW i \in DOMAIN store
      PROVE  QueueInv(w[i].packets, w[i].conn \in Range(h), b)
  <2> DEFINE q == store[i].packets
             hello == store[i].conn \in Range(hellos)
  <2>1. q \in Seq(Packets) /\ QueueInv(q, hello, a) /\ w[i].conn = store[i].conn
    BY <1>1, FieldTypes DEF StoreInv, Enters
  <2>2. CASE store[i].conn # c
    <3>1. w[i].packets = q
      BY Zenon, <2>2 DEF Enters
    <3>2. (w[i].conn \in Range(h)) = hello
      BY <1>3, <2>1, <2>2
    <3>3. hello \in BOOLEAN
      OBVIOUS
    <3> HIDE DEF q, hello
    <3>4. QueueInv(q, hello, b)
      BY <2>1, <3>3, QueueGrows
    <3> QED BY Zenon, <3>1, <3>2, <3>4
  <2>3. CASE store[i].conn = c
    <3>1. w[i].packets = Added(q, p, is_chlo)
      BY Zenon, <2>3 DEF Enters
    <3>2. (w[i].conn \in Range(h)) = (hello \/ is_chlo)
      BY <1>3, <2>1, <2>3
    <3>3. /\ \A k \in DOMAIN q : IF is_chlo THEN q[k].n # p.n ELSE q[k].n < p.n
          /\ is_chlo => p.kind = "chlo" /\ ~hello
      BY Zenon, <2>3 DEF Fits
    <3>4. ~is_chlo => Len(q) - (IF hello THEN 1 ELSE 0) < MaxUndecryptable
      BY Zenon, <2>3 DEF HasRoom
    <3> HIDE DEF q, hello
    <3>5. hello \in BOOLEAN
      BY DEF hello
    <3>6. QueueInv(Added(q, p, is_chlo), hello \/ is_chlo, b)
      BY <2>1, <3>3, <3>4, <3>5, QueueEnters
    <3> QED BY <3>1, <3>2, <3>6
  <2> QED BY Zenon, <2>2, <2>3
<1>6. ASSUME c \notin Listed(store)
      PROVE  LET i == Len(store) + 1
             IN  QueueInv(w[i].packets, w[i].conn \in Range(h), b)
  <2> DEFINE i == Len(store) + 1
  <2>1. w[i].conn = c /\ w[i].packets = <<p>>
    BY Zenon, <1>6 DEF Enters
  <2>2. (w[i].conn \in Range(h)) = is_chlo
    BY <1>1, <1>3, <1>6, <2>1
  <2>3. QueueInv(<<p>>, is_chlo, b)
    BY Zenon, QueueStarts DEF Fits
  <2> QED BY Zenon, <2>1, <2>2, <2>3
<1>7. \A i \in DOMAIN w : QueueInv(w[i].packets, w[i].conn \in Range(h), b)
  BY Zenon, <1>2, <1>5, <1>6
<1>8. w \in Seq(Lists) /\ Range(h) \subseteq Listed(w)
  BY Zenon, <1>1, <1>2, <1>3 DEF Enters
<1> QED BY Zenon, <1>2, <1>3, <1>4, <1>7, <1>8 DEF StoreInv, h

\* The packets of a queue that one was added to.
LEMMA AddedElements ==
  ASSUME NEW q \in Seq(Packets), NEW p \in Packets, NEW is_chlo \in BOOLEAN
  PROVE  \A m \in DOMAIN Added(q, p, is_chlo) :
           \/ Added(q, p, is_chlo)[m] = p
           \/ \E j \in DOMAIN q : Added(q, p, is_chlo)[m] = q[j]
<1>1. CASE is_chlo
  <2> DEFINE s == <<p>> \o q
  <2>1. /\ DOMAIN s = 1 .. Len(q) + 1 /\ DOMAIN q = 1 .. Len(q) /\ Len(q) \in Nat
        /\ s[1] = p /\ \A m \in 2 .. Len(q) + 1 : s[m] = q[m - 1]
    OBVIOUS
  <2> HIDE DEF s
  <2>2. \A m \in DOMAIN s : s[m] = p \/ (m - 1 \in DOMAIN q /\ s[m] = q[m - 1])
    BY <2>1
  <2>3. Added(q, p, is_chlo) = s
    BY <1>1 DEF Added, s
  <2> QED BY Zenon, <2>2, <2>3
<1>2. CASE ~is_chlo
  <2> DEFINE s == Append(q, p)
  <2>1. /\ DOMAIN s = DOMAIN q \cup {Len(q) + 1}
        /\ s[Len(q) + 1] = p /\ \A m \in DOMAIN q : s[m] = q[m]
    OBVIOUS
  <2> HIDE DEF s
  <2>2. Added(q, p, is_chlo) = s
    BY Zenon, <1>2 DEF Added, s
  <2> QED BY Zenon, <2>1, <2>2
<1> QED BY <1>1, <1>2

\* The alarm of the store is set in time for what enters.
LEMMA AgeEnters ==
  ASSUME NEW store \in Seq(Lists), Keyed(store), NEW expiration, now \in Nat,
         AgeInv(store, expiration, now), NEW w, NEW c, NEW p, NEW is_chlo,
         Enters(store, w, c, p, is_chlo)
  PROVE  AgeInv(w, IF expiration = NoExpiration THEN now + LifeSpan ELSE expiration, now)
<1> DEFINE x == IF expiration = NoExpiration THEN now + LifeSpan ELSE expiration
           end == Len(store) + 1
<1>1. LifeSpan \in Nat \ {0} /\ expiration \in Nat /\ Len(store) \in Nat
  BY DispatcherConstants DEF AgeInv
<1>2. /\ DOMAIN w = IF c \in Listed(store) THEN DOMAIN store ELSE DOMAIN store \cup {end}
      /\ DOMAIN store = 1 .. Len(store)
  BY Zenon, EnteredKeys
<1>3. \A i \in DOMAIN store : w[i].created = store[i].created /\ store[i].created \in Nat
  BY FieldTypes DEF Enters
<1>4. c \notin Listed(store) => w[end].created = now
  BY DEF Enters
<1>5. x \in Nat /\ x # NoExpiration /\ now <= x /\ x <= now + LifeSpan
  BY <1>1 DEF AgeInv, NoExpiration
<1>6. \A i \in DOMAIN store : x = expiration
  BY DEF AgeInv
<1> HIDE DEF x, end
<1>7. \A i \in DOMAIN store : w[i].created <= now /\ x < w[i].created + 2 * LifeSpan
  BY Zenon, <1>3, <1>6 DEF AgeInv
<1>8. c \notin Listed(store) => w[end].created <= now /\ x < w[end].created + 2 * LifeSpan
  BY <1>1, <1>4, <1>5
<1>9. ASSUME NEW i \in DOMAIN w, NEW j \in DOMAIN w, i < j
      PROVE  w[i].created <= w[j].created
  <2>1. i \in DOMAIN store
    BY <1>1, <1>2, <1>9 DEF end
  <2>2. CASE j \in DOMAIN store
    <3>1. store[i].created <= store[j].created
      BY Zenon, <1>9, <2>1, <2>2 DEF AgeInv
    <3> QED BY Zenon, <1>3, <2>1, <2>2, <3>1
  <2>3. CASE j \notin DOMAIN store
    BY Zenon, <1>2, <1>4, <1>7, <2>1, <2>3
  <2> QED BY Zenon, <2>2, <2>3
<1>10. \A i \in DOMAIN w : w[i].created <= now /\ x < w[i].created + 2 * LifeSpan
  BY <1>2, <1>7, <1>8
<1>11. AgeInv(w, x, now)
  BY Zenon, <1>5, <1>9, <1>10 DEF AgeInv
<1> QED BY <1>11 DEF x

\* A client hello being decided stays out of the store.
LEMMA DecidingEnters ==
  ASSUME NEW a \in Nat, NEW store \in Seq(Lists), Keyed(store), NEW deciding,
         DecidingInv(deciding, store, a), NEW w, NEW c, NEW p \in Packets,
         NEW is_chlo \in BOOLEAN, Enters(store, w, c, p, is_chlo),
         \A r \in deciding : r.conn = c => r.packet.n # p.n
  PROVE  DecidingInv(deciding, w, a)
<1>1. ASSUME NEW r \in deciding, NEW i \in DOMAIN w, w[i].conn = r.conn,
             NEW k \in DOMAIN w[i].packets
      PROVE  w[i].packets[k].n # r.packet.n
  <2> DEFINE q == store[i].packets
  <2>1. /\ DOMAIN w = IF c \in Listed(store) THEN DOMAIN store
                      ELSE DOMAIN store \cup {Len(store) + 1}
    BY Zenon, EnteredKeys
  <2>2. CASE i \notin DOMAIN store
    <3>1. w[i].conn = c /\ w[i].packets = <<p>>
      BY <2>1, <2>2 DEF Enters
    <3>2. w[i].packets[k] = p
      BY <3>1
    <3> QED BY Zenon, <1>1, <3>1, <3>2
  <2>3. CASE i \in DOMAIN store
    <3>1. /\ w[i].conn = store[i].conn /\ q \in Seq(Packets)
          /\ \A m \in DOMAIN q : q[m].n # r.packet.n
      BY <1>1, <2>3, FieldTypes DEF Enters, DecidingInv
    <3>2. CASE store[i].conn # c
      <4>1. w[i].packets = q
        BY Zenon, <2>3, <3>2 DEF Enters
      <4> QED BY <3>1, <4>1
    <3>3. CASE store[i].conn = c
      <4>1. w[i].packets = Added(q, p, is_chlo) /\ r.packet.n # p.n
        BY Zenon, <1>1, <2>3, <3>1, <3>3 DEF Enters
      <4> HIDE DEF q
      <4>2. \A m \in DOMAIN Added(q, p, is_chlo) :
              \/ Added(q, p, is_chlo)[m] = p
              \/ \E j \in DOMAIN q : Added(q, p, is_chlo)[m] = q[j]
        BY <3>1, AddedElements
      <4> QED BY <3>1, <4>1, <4>2
    <3> QED BY Zenon, <3>2, <3>3
  <2> QED BY Zenon, <2>2, <2>3
<1> QED BY Zenon, <1>1 DEF DecidingInv

-----------------------------------------------------------------------------
(* The operations of the dispatcher.                                       *)

\* What held of fewer packets holds.
LEMMA InvGrows ==
  ASSUME NEW d, NEW t, NEW a \in Nat, NEW b \in Nat, a <= b, DispatcherInv(d, a, t)
  PROVE  DispatcherInv(d, b, t)
<1>1. StoreInv(d.store, d.with_chlo, b)
  <2>1. d.store \in Seq(Lists) /\ StoreInv(d.store, d.with_chlo, a)
    BY Zenon DEF DispatcherInv, PartsInv, StoreInv
  <2>2. ASSUME NEW i \in DOMAIN d.store
        PROVE  QueueInv(d.store[i].packets, d.store[i].conn \in Range(d.with_chlo), b)
    <3> DEFINE q == d.store[i].packets
               hello == d.store[i].conn \in Range(d.with_chlo)
    <3>1. q \in Seq(Packets) /\ QueueInv(q, hello, a) /\ hello \in BOOLEAN
      BY <2>1, FieldTypes DEF StoreInv
    <3> HIDE DEF q, hello
    <3>2. QueueInv(q, hello, b)
      BY <3>1, QueueGrows
    <3> QED BY <3>2 DEF q, hello
  <2> QED BY Zenon, <2>1, <2>2 DEF StoreInv
<1>2. SessionInv(d.sessions, b)
  BY Zenon, FieldTypes, QueueGrows DEF DispatcherInv, PartsInv, SessionInv
<1>3. DecidingInv(d.deciding, d.store, b)
  <2>1. DecidingInv(d.deciding, d.store, a)
    BY DEF DispatcherInv, PartsInv
  <2>2. ASSUME NEW r \in d.deciding
        PROVE  r.packet.n <= b
    <3>1. r.packet \in Packets /\ r.packet.n <= a
      BY <2>1 DEF DecidingInv, Hellos
    <3> QED BY <3>1, FieldTypes
  <2> QED BY Zenon, <2>1, <2>2 DEF DecidingInv
<1> QED BY <1>1, <1>2, <1>3 DEF DispatcherInv, PartsInv

\* Only the time-wait list differs.
LEMMA TimeWaitPart ==
  ASSUME NEW d, NEW e, NEW a, NEW t, PartsInv(d, a, t),
         Changes(d, e, {"time_wait"}), TimeWaitInv(e.time_wait)
  PROVE  PartsInv(e, a, t)
<1>1. /\ e.sessions = d.sessions /\ e.store = d.store /\ e.with_chlo = d.with_chlo
      /\ e.deciding = d.deciding /\ e.expiration = d.expiration
      /\ e.allowed = d.allowed /\ e.alpn = d.alpn /\ IsDispatcher(e)
  BY Zenon DEF Changes, Fields
<1> QED BY Zenon, <1>1 DEF PartsInv

\* AddConnectionIdToTimeWait keeps every part in order.
LEMMA AddPart ==
  ASSUME NEW d, NEW a, NEW t, PartsInv(d, a, t), NEW c \in Conns, now \in Nat
  PROVE  LET e == AddConnectionIdToTimeWait(d, c)
         IN  /\ PartsInv(e, a, t)
             /\ Changes(d, e, {"time_wait"})
             /\ Listed(e.time_wait) \subseteq Listed(d.time_wait) \cup {c}
<1>1. IsDispatcher(d) /\ TimeWaitInv(d.time_wait)
  BY DEF PartsInv
<1> QED BY Zenon, <1>1, AddsToTimeWait, TimeWaitPart

\* So does ProcessPacket of the time-wait list.
LEMMA CountPart ==
  ASSUME NEW d, NEW a, NEW t, PartsInv(d, a, t), NEW c
  PROVE  LET e == ProcessInTimeWait(d, c)
         IN  /\ PartsInv(e, a, t)
             /\ Changes(d, e, {"time_wait"})
             /\ Listed(e.time_wait) = Listed(d.time_wait)
<1>1. IsDispatcher(d) /\ TimeWaitInv(d.time_wait)
  BY DEF PartsInv
<1> QED BY Zenon, <1>1, CountsInTimeWait, TimeWaitPart

\* e is d without the packets of c and without its client hello.
Discards(d, e, c) ==
  /\ Changes(d, e, {"store", "with_chlo"})
  /\ Listed(e.store) = Listed(d.store) \ {c}
  /\ Range(e.with_chlo) = Range(d.with_chlo) \ {c}
  /\ e.store = Without(d.store, c)

\* And DiscardPackets.
LEMMA DiscardPart ==
  ASSUME NEW d, NEW a, NEW t, PartsInv(d, a, t), NEW c
  PROVE  /\ PartsInv(DiscardPackets(d, c), a, t)
         /\ Discards(d, DiscardPackets(d, c), c)
<1> DEFINE e == DiscardPackets(d, c)
           w == Without(d.store, c)
           h == Erase(d.with_chlo, c)
<1>1. /\ e = [d EXCEPT !.store = w, !.with_chlo = h]
  BY DEF DiscardPackets
<1>2. IsDispatcher(d)
  BY Zenon DEF PartsInv
<1>3. LosesHello(d.with_chlo, h, c)
  BY Zenon, RemoveFirstLoses DEF PartsInv, StoreInv
<1>4. StoreInv(w, h, a) /\ Listed(w) = Listed(d.store) \ {c}
  BY <1>3, StoreDrops DEF PartsInv
<1>5. AgeInv(w, d.expiration, t) /\ DecidingInv(d.deciding, w, a)
  BY Zenon, AgeAndDecidingDrop DEF PartsInv, StoreInv
<1> HIDE DEF w, h, e
<1>6. /\ Changes(d, e, {"store", "with_chlo"}) /\ e.store = w /\ e.with_chlo = h
  BY Zenon, <1>1, <1>2 DEF IsDispatcher, Changes, Fields
<1>7. /\ e.sessions = d.sessions /\ e.time_wait = d.time_wait
      /\ e.deciding = d.deciding /\ e.expiration = d.expiration
      /\ e.allowed = d.allowed /\ e.alpn = d.alpn /\ IsDispatcher(e)
  BY Zenon, <1>6 DEF Changes, Fields
<1>8. PartsInv(e, a, t)
  BY Zenon, <1>4, <1>5, <1>6, <1>7 DEF PartsInv
<1>9. Discards(d, e, c)
  BY Zenon, <1>3, <1>4, <1>6 DEF Discards, LosesHello, w
<1> QED BY Zenon, <1>8, <1>9 DEF e

\* TimeWaitFate: a connection that has neither a session nor a client hello
\* that waits for one goes into time wait.
LEMMA TimeWaitFateInv ==
  ASSUME NEW d, NEW a, NEW t, DispatcherInv(d, a, t), NEW c \in Conns, now \in Nat,
         c \notin DOMAIN d.sessions
  PROVE  DispatcherInv(TimeWaitFate(d, c), a, t)
<1> DEFINE d1 == IF IsConnectionIdInTimeWait(d, c) THEN d ELSE AddConnectionIdToTimeWait(d, c)
           d2 == ProcessInTimeWait(d1, c)
           d3 == DiscardPackets(d2, c)
<1>1. /\ PartsInv(d1, a, t) /\ Changes(d, d1, {"time_wait"})
      /\ Listed(d1.time_wait) \subseteq Listed(d.time_wait) \cup {c}
  <2>1. PartsInv(d, a, t) /\ Changes(d, d, {"time_wait"})
    BY DEF DispatcherInv, PartsInv, Changes
  <2>2. CASE IsConnectionIdInTimeWait(d, c)
    BY Zenon, <2>1, <2>2
  <2>3. CASE ~IsConnectionIdInTimeWait(d, c)
    BY Zenon, <2>1, <2>3, AddPart
  <2> QED BY Zenon, <2>2, <2>3
<1> HIDE DEF d1
<1>2. /\ PartsInv(d2, a, t) /\ Changes(d1, d2, {"time_wait"})
      /\ Listed(d2.time_wait) = Listed(d1.time_wait)
  BY Zenon, <1>1, CountPart
<1> HIDE DEF d2
<1>3. PartsInv(d3, a, t) /\ Discards(d2, d3, c)
  BY Zenon, <1>2, DiscardPart
<1> HIDE DEF d3
<1>4. /\ d3.sessions = d.sessions /\ d3.deciding = d.deciding
      /\ d3.time_wait = d2.time_wait /\ d2.store = d.store /\ d2.with_chlo = d.with_chlo
  BY Zenon, <1>1, <1>2, <1>3 DEF Discards, Changes, Fields
<1>5. RouteInv(DOMAIN d3.sessions, d3.store, d3.with_chlo, d3.deciding, d3.time_wait)
  <2>1. /\ Listed(d3.store) \subseteq Listed(d.store)
        /\ Range(d3.with_chlo) = Range(d.with_chlo) \ {c}
        /\ Listed(d3.time_wait) \subseteq Listed(d.time_wait) \cup {c}
    BY Zenon, <1>1, <1>2, <1>3, <1>4 DEF Discards
  <2> QED BY Zenon, <1>4, <2>1 DEF DispatcherInv, RouteInv
<1>6. TimeWaitFate(d, c) = d3
  BY DEF TimeWaitFate, d1, d2, d3
<1> QED BY Zenon, <1>3, <1>5, <1>6 DEF DispatcherInv

\* The conditions of EnqueuePacket leave room for the packet.
LEMMA EnqueueHasRoom ==
  ASSUME NEW d, d.store \in Seq(Lists), Keyed(d.store), d.with_chlo \in Seq(Conns),
         NEW c, NEW is_chlo \in BOOLEAN,
         HasBufferedPackets(d, c) \/ ~StoreIsFull(d, is_chlo),
         is_chlo \/ ~TooManyPackets(d, c)
  PROVE  HasRoom(d.store, d.with_chlo, c, is_chlo)
<1>1. /\ Len(d.store) \in Nat /\ Len(d.with_chlo) \in Nat
      /\ MaxStore \in Nat /\ MaxWithoutChlo \in Nat /\ MaxUndecryptable \in Nat
  BY DispatcherConstants
<1>2. c \notin Listed(d.store) =>
        /\ Len(d.store) < MaxStore
        /\ ~is_chlo => Len(d.store) - Len(d.with_chlo) < MaxWithoutChlo
  <2> DEFINE n == Len(d.store)
             m == Len(d.with_chlo)
  <2>1. c \notin Listed(d.store) =>
          /\ ~(n >= MaxStore)
          /\ ~is_chlo => ~(n - m >= MaxWithoutChlo)
    BY Zenon DEF HasBufferedPackets, StoreIsFull
  <2>2. n \in Nat /\ m \in Nat
    BY <1>1
  <2> HIDE DEF n, m
  <2>3. /\ ~(n >= MaxStore) => n < MaxStore
        /\ ~(n - m >= MaxWithoutChlo) => n - m < MaxWithoutChlo
    BY <1>1, <2>2
  <2>4. c \notin Listed(d.store) =>
          n < MaxStore /\ (~is_chlo => n - m < MaxWithoutChlo)
    BY <2>1, <2>3
  <2> QED BY Zenon, <2>4 DEF n, m
<1>3. ASSUME ~is_chlo, NEW i \in DOMAIN d.store, d.store[i].conn = c
      PROVE  Len(d.store[i].packets) - (IF c \in Range(d.with_chlo) THEN 1 ELSE 0)
               < MaxUndecryptable
  <2>1. BufferedPackets(d, c) = d.store[i].packets
    BY <1>3, OfListed DEF BufferedPackets, HasBufferedPackets, Listed
  <2> DEFINE n == Len(d.store[i].packets)
             m == IF c \in Range(d.with_chlo) THEN 1 ELSE 0
  <2>2. n \in Nat /\ m \in Nat
    BY FieldTypes
  <2>3. ~(n - m >= MaxUndecryptable)
    BY Zenon, <1>3, <2>1 DEF TooManyPackets, HasChloForConnection
  <2> HIDE DEF n, m
  <2>4. n - m < MaxUndecryptable
    BY <1>1, <2>2, <2>3
  <2> QED BY Zenon, <2>4 DEF n, m
<1> QED BY Zenon, <1>2, <1>3 DEF HasRoom

\* EnqueuePacket.
LEMMA EnqueueInv ==
  ASSUME NEW d, NEW a \in Nat, DispatcherInv(d, a, now), now \in Nat, NEW c \in Conns,
         NEW p \in Packets, p.n <= a, NEW is_chlo \in BOOLEAN,
         Fits(d.store, d.with_chlo, c, p, is_chlo),
         c \notin DOMAIN d.sessions,
         is_chlo => c \notin Listed(d.time_wait),
         \A r \in d.deciding : r.conn = c => ~is_chlo /\ r.packet.n # p.n
  PROVE  DispatcherInv(EnqueuePacket(d, c, p, is_chlo), a, now)
<1> DEFINE e == EnqueuePacket(d, c, p, is_chlo)
           w == Buffered(d, c, p, is_chlo)
           h == HellosAfter(d.with_chlo, c, is_chlo)
           x == IF d.expiration = NoExpiration THEN now + LifeSpan ELSE d.expiration
           full == \/ ~HasBufferedPackets(d, c) /\ StoreIsFull(d, is_chlo)
                   \/ ~is_chlo /\ TooManyPackets(d, c)
<1>1. CASE full
  BY Zenon, <1>1 DEF EnqueuePacket
<1>2. CASE ~full
  <2>1. /\ d.store \in Seq(Lists) /\ Keyed(d.store)
        /\ d.with_chlo \in Seq(Conns) /\ Once(d.with_chlo)
        /\ StoreInv(d.store, d.with_chlo, a) /\ d.alpn \in Tags /\ IsDispatcher(d)
        /\ AgeInv(d.store, d.expiration, now) /\ DecidingInv(d.deciding, d.store, a)
    BY Zenon DEF DispatcherInv, PartsInv, StoreInv
  <2>2. HasRoom(d.store, d.with_chlo, c, is_chlo)
    BY Zenon, <1>2, <2>1, EnqueueHasRoom
  <2>3. Enters(d.store, w, c, p, is_chlo)
    BY Zenon, <2>1, BufferedEnters
  <2>4. e = [d EXCEPT !.store = w, !.with_chlo = h, !.expiration = x]
    <3>1. is_chlo => ~HasChloForConnection(d, c)
      BY Zenon DEF Fits, HasChloForConnection
    <3> QED BY Zenon, <1>2, <3>1
            DEF EnqueuePacket, Queue, MaybeSetExpirationAlarm, HellosAfter
  <2> HIDE DEF w, h, x, e
  <2>5. StoreInv(w, h, a)
    <3>1. a <= a
      OBVIOUS
    <3> QED BY Zenon, <2>1, <2>2, <2>3, <3>1, StoreEnters DEF h
  <2>6. AgeInv(w, x, now)
    BY Zenon, <2>1, <2>3, AgeEnters DEF x
  <2>7. DecidingInv(d.deciding, w, a)
    BY <2>1, <2>3, DecidingEnters
  <2>8. /\ Changes(d, e, {"store", "with_chlo", "expiration"})
        /\ e.store = w /\ e.with_chlo = h /\ e.expiration = x
    BY Zenon, <2>1, <2>4 DEF IsDispatcher, Changes, Fields
  <2>9. /\ e.sessions = d.sessions /\ e.time_wait = d.time_wait
        /\ e.deciding = d.deciding
        /\ e.allowed = d.allowed /\ e.alpn = d.alpn /\ IsDispatcher(e)
    BY Zenon, <2>8 DEF Changes, Fields
  <2>10. PartsInv(e, a, now)
    BY Zenon, <2>5, <2>6, <2>7, <2>8, <2>9 DEF DispatcherInv, PartsInv
  <2>11. RouteInv(DOMAIN e.sessions, e.store, e.with_chlo, e.deciding, e.time_wait)
    <3>1. Listed(w) = Listed(d.store) \cup {c}
      BY Zenon, <2>1, <2>3, EnteredKeys
    <3>2. Range(h) = IF is_chlo THEN Range(d.with_chlo) \cup {c} ELSE Range(d.with_chlo)
      <4>1. is_chlo => c \notin Range(d.with_chlo)
        BY Zenon DEF Fits
      <4> QED BY Zenon, <2>1, <4>1, HellosEnter DEF h
    <3>3. RouteInv(DOMAIN d.sessions, d.store, d.with_chlo, d.deciding, d.time_wait)
      BY Zenon DEF DispatcherInv
    <3> QED BY Zenon, <2>8, <2>9, <3>1, <3>2, <3>3 DEF RouteInv
  <2> QED BY Zenon, <2>10, <2>11 DEF DispatcherInv, e
<1> QED BY <1>1, <1>2

-----------------------------------------------------------------------------
(* Sessions are created.                                                   *)

\* e is d with a session for c that was given these packets; h are the client
\* hellos that still wait.
Opens(d, e, c, packets, h) ==
  /\ Changes(d, e, {"sessions", "store", "with_chlo", "allowed"})
  /\ DOMAIN e.sessions = DOMAIN d.sessions \cup {c}
  /\ e.sessions[c] \in Sessions /\ e.sessions[c].given = packets
  /\ \A x \in DOMAIN d.sessions \ {c} : e.sessions[x] = d.sessions[x]
  /\ e.store = Without(d.store, c)
  /\ e.with_chlo = h
  /\ e.allowed \in Int

\* A session created for a connection that is nowhere else.
LEMMA OpensInv ==
  ASSUME NEW d, NEW a, NEW t, DispatcherInv(d, a, t), NEW c \in Conns,
         NEW packets \in Seq(Packets), HelloFirst(packets, a),
         NEW h, LosesHello(d.with_chlo, h, c), NEW e, Opens(d, e, c, packets, h),
         c \notin Listed(d.time_wait), \A r \in d.deciding : r.conn # c
  PROVE  DispatcherInv(e, a, t)
<1> DEFINE w == Without(d.store, c)
<1>1. /\ e.deciding = d.deciding /\ e.time_wait = d.time_wait
      /\ e.expiration = d.expiration /\ e.alpn = d.alpn /\ IsDispatcher(e)
      /\ e.store = w /\ e.with_chlo = h /\ e.allowed \in Int
  BY Zenon DEF Opens, Changes, Fields
<1>2. StoreInv(w, h, a) /\ Listed(w) = Listed(d.store) \ {c}
  <2>1. StoreInv(d.store, d.with_chlo, a)
    BY Zenon DEF DispatcherInv, PartsInv
  <2> QED BY <2>1, StoreDrops
<1>3. AgeInv(w, d.expiration, t) /\ DecidingInv(d.deciding, w, a)
  <2>1. /\ d.store \in Seq(Lists) /\ Keyed(d.store)
        /\ AgeInv(d.store, d.expiration, t) /\ DecidingInv(d.deciding, d.store, a)
    BY Zenon DEF DispatcherInv, PartsInv, StoreInv
  <2> QED BY Zenon, <2>1, AgeAndDecidingDrop
<1> HIDE DEF w
<1>4. SessionInv(e.sessions, a)
  <2>1. SessionInv(d.sessions, a)
    BY Zenon DEF DispatcherInv, PartsInv
  <2>2. IsFiniteSet(DOMAIN e.sessions)
    BY Zenon, <2>1, FS_AddElement DEF SessionInv, Opens
  <2> QED BY Zenon, <2>1, <2>2 DEF SessionInv, Opens
<1>5. PartsInv(e, a, t)
  BY Zenon, <1>1, <1>2, <1>3, <1>4 DEF DispatcherInv, PartsInv
<1>6. RouteInv(DOMAIN e.sessions, e.store, e.with_chlo, e.deciding, e.time_wait)
  <2>1. DOMAIN e.sessions = DOMAIN d.sessions \cup {c} /\ Range(h) = Range(d.with_chlo) \ {c}
    BY Zenon DEF Opens, LosesHello
  <2>2. RouteInv(DOMAIN d.sessions, d.store, d.with_chlo, d.deciding, d.time_wait)
    BY DEF DispatcherInv
  <2> QED BY Zenon, <1>1, <1>2, <2>1, <2>2 DEF RouteInv
<1> QED BY Zenon, <1>5, <1>6 DEF DispatcherInv

\* NewSession, with one session less allowed.
Opened(d, c, alpn, packets, h) ==
  [NewSession(d, c, alpn, packets) EXCEPT !.with_chlo = h, !.allowed = @ - 1]

\* It opens a session.
LEMMA SessionOpens ==
  ASSUME NEW d, IsDispatcher(d), d.allowed \in Int, NEW c,
         NEW alpn \in Tags, NEW packets \in Seq(Packets), NEW h
  PROVE  Opens(d, Opened(d, c, alpn, packets, h), c, packets, h)
<1> DEFINE s == [x \in DOMAIN d.sessions \cup {c} |->
                   IF x = c THEN [alpn |-> alpn, given |-> packets] ELSE d.sessions[x]]
           w == Without(d.store, c)
           e == Opened(d, c, alpn, packets, h)
<1>1. NewSession(d, c, alpn, packets) = [d EXCEPT !.sessions = s, !.store = w]
  BY Zenon DEF NewSession
<1>2. /\ DOMAIN s = DOMAIN d.sessions \cup {c}
      /\ s[c] \in Sessions /\ s[c].given = packets
      /\ \A x \in DOMAIN d.sessions \ {c} : s[x] = d.sessions[x]
  BY DEF Sessions
<1> DEFINE n == NewSession(d, c, alpn, packets)
<1> HIDE DEF s, w, n
<1>3. Changes(d, n, {"sessions", "store"}) /\ n.sessions = s /\ n.store = w
  BY Zenon, <1>1 DEF IsDispatcher, Changes, Fields, n
<1>4. /\ Changes(n, e, {"with_chlo", "allowed"})
      /\ e.with_chlo = h /\ e.allowed = n.allowed - 1
  <2>1. e = [n EXCEPT !.with_chlo = h, !.allowed = @ - 1] /\ IsDispatcher(n)
    BY Zenon, <1>3 DEF Opened, Changes, n
  <2> HIDE DEF e
  <2> QED BY Zenon, <2>1 DEF IsDispatcher, Changes, Fields
<1> HIDE DEF e
<1>5. Opens(d, e, c, packets, h)
  BY <1>2, <1>3, <1>4 DEF Opens, Changes, Fields, w
<1> QED BY <1>5 DEF e

\* ProcessChlo: the client hello waits or opens its session, before the packets
\* that came earlier.
LEMMA ProcessChloInv ==
  ASSUME NEW d, NEW a \in Nat, DispatcherInv(d, a, now), now \in Nat, NEW c \in Conns,
         NEW p \in Packets, p.n <= a, Fits(d.store, d.with_chlo, c, p, TRUE),
         c \notin DOMAIN d.sessions, c \notin Listed(d.time_wait),
         \A r \in d.deciding : r.conn # c
  PROVE  DispatcherInv(ProcessChlo(d, c, p), a, now)
<1>1. CASE d.allowed <= 0
  <2>1. DispatcherInv(EnqueuePacket(d, c, p, TRUE), a, now)
    BY Zenon, EnqueueInv
  <2> QED BY Zenon, <1>1, <2>1 DEF ProcessChlo
<1>2. CASE ~(d.allowed <= 0)
  <2> DEFINE q == BufferedPackets(d, c)
             h == d.with_chlo
             n == NewSession(d, c, d.alpn, <<p>> \o q)
             e == [n EXCEPT !.allowed = @ - 1]
  <2>1. /\ IsDispatcher(d) /\ d.allowed \in Int /\ d.alpn \in Tags /\ StoreInv(d.store, h, a)
        /\ d.store \in Seq(Lists) /\ Keyed(d.store) /\ h \in Seq(Conns) /\ Once(h)
    BY Zenon DEF DispatcherInv, PartsInv, StoreInv
  <2>2. p.kind = "chlo" /\ c \notin Range(h)
    BY Zenon DEF Fits
  <2>3. q \in Seq(Packets) /\ InOrder(q, 1, a) /\ \A k \in DOMAIN q : q[k].n # p.n
    <3>1. CASE HasBufferedPackets(d, c)
      <4>1. PICK i \in DOMAIN d.store : d.store[i].conn = c
        BY Zenon, <3>1 DEF HasBufferedPackets, Listed
      <4>2. q = d.store[i].packets
        BY Zenon, <2>1, <3>1, <4>1, OfListed DEF BufferedPackets
      <4>3. /\ QueueInv(d.store[i].packets, d.store[i].conn \in Range(h), a)
            /\ d.store[i] \in Lists
        BY <2>1 DEF StoreInv
      <4>4. d.store[i].packets \in Seq(Packets)
        BY Zenon, <4>3, FieldTypes
      <4>5. InOrder(d.store[i].packets, 1, a)
        BY Zenon, <2>2, <4>1, <4>3 DEF QueueInv
      <4>6. \A k \in DOMAIN d.store[i].packets : d.store[i].packets[k].n # p.n
        BY Zenon, <4>1 DEF Fits
      <4> QED BY Zenon, <4>2, <4>4, <4>5, <4>6
    <3>2. CASE ~HasBufferedPackets(d, c)
      <4>1. q = <<>>
        BY Zenon, <3>2 DEF BufferedPackets
      <4> QED BY <4>1 DEF InOrder
    <3> QED BY Zenon, <3>1, <3>2
  <2> HIDE DEF q
  <2>4. HelloFirst(<<p>> \o q, a) /\ <<p>> \o q \in Seq(Packets)
    BY <2>2, <2>3, QueuePrepends
  <2>5. LosesHello(h, h, c)
    BY <2>1, <2>2 DEF LosesHello
  <2>6. Opened(d, c, d.alpn, <<p>> \o q, h) = e
    <3>1. n.with_chlo = h /\ IsDispatcher(n)
      BY Zenon, <2>1 DEF NewSession, IsDispatcher, Fields
    <3>2. Opened(d, c, d.alpn, <<p>> \o q, h) = [n EXCEPT !.with_chlo = h, !.allowed = @ - 1]
      BY DEF Opened
    <3> HIDE DEF n, h
    <3> QED BY Zenon, <3>1, <3>2 DEF IsDispatcher, Fields
  <2>7. Opens(d, e, c, <<p>> \o q, h)
    <3> DEFINE given == <<p>> \o q
    <3>1. given \in Seq(Packets) /\ Opened(d, c, d.alpn, given, h) = e
      BY <2>4, <2>6
    <3> HIDE DEF given, e
    <3>2. Opens(d, Opened(d, c, d.alpn, given, h), c, given, h)
      BY Zenon, <2>1, <3>1, SessionOpens
    <3> QED BY <3>1, <3>2 DEF given
  <2> HIDE DEF e
  <2>8. DispatcherInv(e, a, now)
    BY Zenon, <2>4, <2>5, <2>7, OpensInv
  <2>9. ProcessChlo(d, c, p) = e
    BY Zenon, <1>2 DEF ProcessChlo, e, q
  <2> QED BY <2>8, <2>9
<1> QED BY Zenon, <1>1, <1>2

\* The decision about a client hello.
LEMMA DecidedInv ==
  ASSUME NEW d, NEW a \in Nat, DispatcherInv(d, a, now), now \in Nat, NEW c \in Conns,
         NEW p \in Packets, p.n <= a, Fits(d.store, d.with_chlo, c, p, TRUE),
         c \notin DOMAIN d.sessions, c \notin Listed(d.time_wait),
         \A r \in d.deciding : r.conn # c, NEW accepted \in BOOLEAN
  PROVE  DispatcherInv(Decided(d, c, p, accepted), a, now)
<1>1. CASE accepted
  <2>1. DispatcherInv(ProcessChlo(d, c, p), a, now)
    BY Zenon, ProcessChloInv
  <2> QED BY Zenon, <1>1, <2>1 DEF Decided
<1>2. CASE ~accepted
  <2> DEFINE e == AddConnectionIdToTimeWait(d, c)
  <2>1. /\ PartsInv(e, a, now) /\ Changes(d, e, {"time_wait"})
        /\ Listed(e.time_wait) \subseteq Listed(d.time_wait) \cup {c}
    BY Zenon, AddPart DEF DispatcherInv
  <2> HIDE DEF e
  <2>2. /\ e.sessions = d.sessions /\ e.store = d.store /\ e.with_chlo = d.with_chlo
        /\ e.deciding = d.deciding
    BY Zenon, <2>1 DEF Changes, Fields
  <2>3. c \notin Range(d.with_chlo)
    BY Zenon DEF Fits
  <2>4. DispatcherInv(e, a, now)
    BY Zenon, <2>1, <2>2, <2>3 DEF DispatcherInv, RouteInv
  <2>5. DispatcherInv(TimeWaitFate(e, c), a, now)
    BY <2>2, <2>4, TimeWaitFateInv
  <2> QED BY <1>2, <2>5 DEF Decided, e
<1> QED BY Zenon, <1>1, <1>2

\* The decision that comes later.
LEMMA DecidedLateInv ==
  ASSUME NEW d, NEW a \in Nat, DispatcherInv(d, a, now), now \in Nat,
         NEW r \in d.deciding, NEW accepted \in BOOLEAN
  PROVE  DispatcherInv(DecidedLate([d EXCEPT !.deciding = @ \ {r}], r, accepted), a, now)
<1> DEFINE e == [d EXCEPT !.deciding = @ \ {r}]
           c == r.conn
           p == r.packet
<1>1. IsDispatcher(d)
  BY DEF DispatcherInv, PartsInv
<1>2. Changes(d, e, {"deciding"}) /\ e.deciding = d.deciding \ {r}
  BY Zenon, <1>1 DEF IsDispatcher, Changes, Fields
<1> HIDE DEF e
<1>3. /\ e.sessions = d.sessions /\ e.store = d.store /\ e.with_chlo = d.with_chlo
      /\ e.time_wait = d.time_wait /\ e.expiration = d.expiration
      /\ e.allowed = d.allowed /\ e.alpn = d.alpn /\ IsDispatcher(e)
  BY Zenon, <1>2 DEF Changes, Fields
<1>4. DecidingInv(d.deciding, d.store, a)
  BY Zenon DEF DispatcherInv, PartsInv
<1>5. DecidingInv(e.deciding, e.store, a) /\ \A s \in e.deciding : s.conn # c
  BY <1>2, <1>3, <1>4 DEF DecidingInv
<1>6. DispatcherInv(e, a, now)
  BY Zenon, <1>2, <1>3, <1>5 DEF DispatcherInv, PartsInv, RouteInv
<1>7. c \in Conns /\ p \in Packets /\ p.kind = "chlo" /\ p.n <= a
  BY Zenon, <1>4 DEF DecidingInv, Hellos
<1>8. c \notin DOMAIN e.sessions /\ c \notin Range(e.with_chlo)
  BY Zenon, <1>3 DEF DispatcherInv, RouteInv
<1>9. Fits(e.store, e.with_chlo, c, p, TRUE)
  BY <1>3, <1>4, <1>7, <1>8 DEF Fits, DecidingInv
<1> HIDE DEF c, p
<1>10. CASE IsConnectionIdInTimeWait(e, c)
  <2> DEFINE f == ProcessInTimeWait(e, c)
  <2>1. /\ PartsInv(f, a, now) /\ Changes(e, f, {"time_wait"})
        /\ Listed(f.time_wait) = Listed(e.time_wait)
    BY Zenon, <1>6, CountPart DEF DispatcherInv
  <2> HIDE DEF f
  <2>2. DispatcherInv(f, a, now)
    BY <1>6, <2>1 DEF Changes, Fields, DispatcherInv, RouteInv
  <2> QED BY Zenon, <1>10, <2>2 DEF DecidedLate, e, f, c
<1>11. CASE ~IsConnectionIdInTimeWait(e, c)
  <2>1. DispatcherInv(Decided(e, c, p, accepted), a, now)
    BY Zenon, <1>5, <1>6, <1>7, <1>8, <1>9, <1>11, DecidedInv DEF IsConnectionIdInTimeWait
  <2> QED BY Zenon, <1>11, <2>1 DEF DecidedLate, e, c, p
<1> QED BY Zenon, <1>10, <1>11

-----------------------------------------------------------------------------
(* The loops.  Each is a recursive function on 0 .. n; that there is one   *)
(* with such values is shown by counting up.                               *)

\* DeliverPacketsForNextConnection opens the session of the connection whose
\* client hello has waited longest.
LEMMA DeliverInv ==
  ASSUME NEW d, NEW a, NEW t, DispatcherInv(d, a, t), d.with_chlo # <<>>
  PROVE  DispatcherInv(DeliverPacketsForNextConnection(d), a, t)
<1> DEFINE h == d.with_chlo
           c == Head(h)
           r == Of(d.store, c)
           e == DeliverPacketsForNextConnection(d)
<1>1. /\ IsDispatcher(d) /\ d.allowed \in Int /\ StoreInv(d.store, h, a)
      /\ d.store \in Seq(Lists) /\ Keyed(d.store) /\ h \in Seq(Conns) /\ Once(h)
      /\ Range(h) \subseteq Listed(d.store)
  BY Zenon DEF DispatcherInv, PartsInv, StoreInv
<1>2. LosesHello(h, Tail(h), c) /\ c \in Range(h) /\ c \in Conns
  <2>1. LosesHello(h, Tail(h), c) /\ c \in Range(h)
    BY Zenon, <1>1, TailLoses
  <2>2. h \in Seq(Conns) /\ h # <<>>
    BY Zenon, <1>1
  <2> HIDE DEF h
  <2>3. c \in Conns
    BY <2>2
  <2> QED BY Zenon, <2>1, <2>3
<1> HIDE DEF c
<1>3. PICK i \in DOMAIN d.store : d.store[i].conn = c
  BY <1>1, <1>2 DEF Listed
<1>4. r = d.store[i]
  BY Zenon, <1>1, <1>3, OfListed
<1>5. QueueInv(d.store[i].packets, d.store[i].conn \in Range(h), a) /\ d.store[i] \in Lists
  BY <1>1 DEF StoreInv
<1>6. /\ HelloFirst(d.store[i].packets, a) /\ d.store[i].packets \in Seq(Packets)
      /\ d.store[i].alpn \in Tags
  BY Zenon, <1>2, <1>3, <1>5, FieldTypes DEF QueueInv
<1>7. HelloFirst(r.packets, a) /\ r.packets \in Seq(Packets) /\ r.alpn \in Tags
  BY <1>4, <1>6
<1>8. c \notin Listed(d.time_wait) /\ \A s \in d.deciding : s.conn # c
  BY <1>2 DEF DispatcherInv, RouteInv
<1> HIDE DEF r
<1>9. e = Opened(d, c, r.alpn, r.packets, Tail(h))
  <2>1. NewSession(d, c, r.alpn, r.packets).with_chlo = h
    BY Zenon, <1>1 DEF NewSession, IsDispatcher, Fields
  <2> QED BY Zenon, <2>1 DEF DeliverPacketsForNextConnection, Opened, c, r
<1>10. Opens(d, e, c, r.packets, Tail(h))
  BY Zenon, <1>1, <1>7, <1>9, SessionOpens
<1> HIDE DEF e
<1>11. DispatcherInv(e, a, t)
  BY <1>2, <1>7, <1>8, <1>10, OpensInv
<1> QED BY <1>11 DEF e

\* One turn of the loop of ProcessBufferedChlos.
NextSession(d) == IF d.with_chlo = <<>> THEN d ELSE DeliverPacketsForNextConnection(d)

IsSessionRun(d, n, g) ==
  g = [k \in 0 .. n |-> IF k = 0 THEN [d EXCEPT !.allowed = SessionsPerEvent]
                        ELSE NextSession(g[k - 1])]

\* There is such a run of any length.
LEMMA SessionRuns ==
  ASSUME NEW d
  PROVE  \A n \in Nat : \E g : IsSessionRun(d, n, g)
<1> DEFINE d0 == [d EXCEPT !.allowed = SessionsPerEvent]
           G == {n \in Nat : \E g : IsSessionRun(d, n, g)}
<1>1. 0 \in G
  <2>1. IsSessionRun(d, 0, [k \in 0 .. 0 |-> d0])
    BY DEF IsSessionRun
  <2> QED BY <2>1
<1>2. ASSUME NEW n \in Nat, n \in G
      PROVE  n + 1 \in G
  <2>1. PICK g : IsSessionRun(d, n, g)
    BY <1>2
  <2> DEFINE f == [k \in 0 .. n + 1 |-> IF k = n + 1 THEN NextSession(g[n]) ELSE g[k]]
  <2>2. \A k \in 0 .. n : g[k] = IF k = 0 THEN d0 ELSE NextSession(g[k - 1])
    BY Zenon, <2>1 DEF IsSessionRun
  <2>3. ASSUME NEW k \in 0 .. n + 1
        PROVE  f[k] = IF k = 0 THEN d0 ELSE NextSession(f[k - 1])
    <3>1. CASE k = n + 1
      BY <3>1
    <3>2. CASE k # n + 1
      <4>1. k \in 0 .. n /\ f[k] = g[k]
        BY <3>2
      <4>2. CASE k = 0
        BY <2>2, <4>1, <4>2
      <4>3. CASE k # 0
        <5>1. k - 1 \in 0 .. n + 1 /\ k - 1 # n + 1
          BY <4>1, <4>3
        <5>2. f[k - 1] = g[k - 1]
          BY <5>1
        <5> QED BY Zenon, <2>2, <4>1, <4>3, <5>2
      <4> QED BY <4>2, <4>3
    <3> QED BY <3>1, <3>2
  <2>4. f = [k \in 0 .. n + 1 |-> f[k]]
    OBVIOUS
  <2> HIDE DEF f
  <2>5. IsSessionRun(d, n + 1, f)
    BY Zenon, <2>3, <2>4 DEF IsSessionRun
  <2> QED BY <2>5
<1> HIDE DEF G
<1>3. \A n \in Nat : n \in G
  BY <1>1, <1>2, CountUp
<1> QED BY <1>3 DEF G

\* ProcessBufferedChlos is where the loop ends.
LEMMA SessionRunEnds ==
  ASSUME NEW d
  PROVE  \E g : /\ IsSessionRun(d, SessionsPerEvent, g)
                /\ ProcessBufferedChlos(d) = g[SessionsPerEvent]
<1> DEFINE g == CHOOSE f : IsSessionRun(d, SessionsPerEvent, f)
<1>1. SessionsPerEvent \in Nat
  BY DispatcherConstants
<1>2. IsSessionRun(d, SessionsPerEvent, g)
  BY <1>1, SessionRuns
<1>3. ProcessBufferedChlos(d) = g[SessionsPerEvent]
  BY DEF ProcessBufferedChlos, IsSessionRun, NextSession
<1> QED BY Zenon, <1>2, <1>3

\* ProcessBufferedChlos.
LEMMA ProcessBufferedChlosInv ==
  ASSUME NEW d, NEW a, NEW t, DispatcherInv(d, a, t)
  PROVE  DispatcherInv(ProcessBufferedChlos(d), a, t)
<1> DEFINE N == SessionsPerEvent
           d0 == [d EXCEPT !.allowed = N]
<1>1. PICK g : IsSessionRun(d, N, g) /\ ProcessBufferedChlos(d) = g[N]
  BY Zenon, SessionRunEnds
<1>2. N \in Nat
  BY DispatcherConstants
<1>3. \A k \in 0 .. N : g[k] = IF k = 0 THEN d0 ELSE NextSession(g[k - 1])
  BY Zenon, <1>1 DEF IsSessionRun
<1>4. DispatcherInv(d0, a, t)
  <2>1. IsDispatcher(d)
    BY DEF DispatcherInv, PartsInv
  <2>2. Changes(d, d0, {"allowed"}) /\ d0.allowed = N
    BY Zenon, <2>1 DEF IsDispatcher, Changes, Fields
  <2> HIDE DEF d0
  <2>3. /\ d0.sessions = d.sessions /\ d0.store = d.store /\ d0.with_chlo = d.with_chlo
        /\ d0.deciding = d.deciding /\ d0.time_wait = d.time_wait
        /\ d0.expiration = d.expiration /\ d0.alpn = d.alpn /\ IsDispatcher(d0)
    BY Zenon, <2>2 DEF Changes, Fields
  <2> QED BY <1>2, <2>2, <2>3 DEF DispatcherInv, PartsInv
<1> DEFINE G == {k \in Nat : k <= N => DispatcherInv(g[k], a, t)}
<1> HIDE DEF d0, N
<1>5. 0 \in G
  BY <1>2, <1>3, <1>4
<1>6. ASSUME NEW k \in Nat, k \in G
      PROVE  k + 1 \in G
  <2>1. SUFFICES ASSUME k + 1 <= N
                 PROVE  DispatcherInv(g[k + 1], a, t)
    OBVIOUS
  <2>2. DispatcherInv(g[k], a, t)
    BY <1>2, <1>6, <2>1
  <2>3. g[k + 1] = NextSession(g[k])
    BY <1>2, <1>3, <2>1
  <2>4. DispatcherInv(NextSession(g[k]), a, t)
    BY <2>2, DeliverInv DEF NextSession
  <2> QED BY Zenon, <2>3, <2>4
<1> HIDE DEF G
<1>7. N \in G
  BY Zenon, <1>2, <1>5, <1>6, CountUp
<1> QED BY <1>1, <1>2, <1>7 DEF G

\* No entry of the store is too old if the first is not.
Young(d) == d.store = <<>> \/ Head(d.store).created > now - LifeSpan

\* OnExpiredPackets keeps the invariant and takes one entry out of the store.
LEMMA ExpireOldestInv ==
  ASSUME NEW d, NEW a, NEW t, DispatcherInv(d, a, t), now \in Nat
  PROVE  /\ DispatcherInv(ExpireOldest(d), a, t)
         /\ Young(d) => ExpireOldest(d) = d
         /\ ~Young(d) => Len(ExpireOldest(d).store) = Len(d.store) - 1
<1>1. CASE Young(d)
  BY <1>1 DEF Young, ExpireOldest
<1>2. CASE ~Young(d)
  <2> DEFINE c == Head(d.store).conn
             e == AddConnectionIdToTimeWait(d, c)
             f == DiscardPackets(e, c)
  <2>1. d.store \in Seq(Lists) /\ Keyed(d.store) /\ d.store # <<>>
    BY Zenon, <1>2 DEF DispatcherInv, PartsInv, StoreInv, Young
  <2>2. 1 \in DOMAIN d.store /\ Head(d.store) = d.store[1] /\ d.store[1] \in Lists
    BY <2>1
  <2>3. c \in Conns /\ c \in Listed(d.store)
    BY Zenon, <2>2, FieldTypes DEF Listed
  <2> HIDE DEF c
  <2>4. /\ PartsInv(e, a, t) /\ Changes(d, e, {"time_wait"})
        /\ Listed(e.time_wait) \subseteq Listed(d.time_wait) \cup {c}
    BY Zenon, <2>3, AddPart DEF DispatcherInv
  <2> HIDE DEF e
  <2>5. PartsInv(f, a, t) /\ Discards(e, f, c)
    BY Zenon, <2>4, DiscardPart
  <2> HIDE DEF f
  <2>6. /\ f.sessions = d.sessions /\ f.deciding = d.deciding
        /\ f.time_wait = e.time_wait /\ e.store = d.store /\ e.with_chlo = d.with_chlo
    BY Zenon, <2>4, <2>5 DEF Discards, Changes, Fields
  <2>7. /\ Listed(f.store) = Listed(d.store) \ {c}
        /\ Range(f.with_chlo) = Range(d.with_chlo) \ {c}
        /\ f.store = Without(d.store, c)
    BY Zenon, <2>5, <2>6 DEF Discards
  <2>8. RouteInv(DOMAIN f.sessions, f.store, f.with_chlo, f.deciding, f.time_wait)
    <3>1. RouteInv(DOMAIN d.sessions, d.store, d.with_chlo, d.deciding, d.time_wait)
      BY DEF DispatcherInv
    <3> QED BY Zenon, <2>3, <2>4, <2>6, <2>7, <3>1 DEF RouteInv
  <2>9. Len(f.store) = Len(d.store) - 1
    BY Zenon, <2>1, <2>3, <2>7, WithoutKeeps
  <2>10. ExpireOldest(d) = f
    BY <1>2 DEF ExpireOldest, Young, c, e, f
  <2> QED BY <1>2, <2>5, <2>8, <2>9, <2>10 DEF DispatcherInv
<1> QED BY Zenon, <1>1, <1>2

\* The turns of the loop that gives up what is too old.
IsExpiryRun(d, n, g) ==
  g = [k \in 0 .. n |-> IF k = 0 THEN d ELSE ExpireOldest(g[k - 1])]

\* There is such a run of any length.
LEMMA ExpiryRuns ==
  ASSUME NEW d
  PROVE  \A n \in Nat : \E g : IsExpiryRun(d, n, g)
<1> DEFINE G == {n \in Nat : \E g : IsExpiryRun(d, n, g)}
<1>1. 0 \in G
  <2>1. IsExpiryRun(d, 0, [k \in 0 .. 0 |-> d])
    BY DEF IsExpiryRun
  <2> QED BY <2>1
<1>2. ASSUME NEW n \in Nat, n \in G
      PROVE  n + 1 \in G
  <2>1. PICK g : IsExpiryRun(d, n, g)
    BY Zenon, <1>2
  <2> DEFINE f == [k \in 0 .. n + 1 |-> IF k = n + 1 THEN ExpireOldest(g[n]) ELSE g[k]]
  <2>2. \A k \in 0 .. n : g[k] = IF k = 0 THEN d ELSE ExpireOldest(g[k - 1])
    BY Zenon, <2>1 DEF IsExpiryRun
  <2>3. ASSUME NEW k \in 0 .. n + 1
        PROVE  f[k] = IF k = 0 THEN d ELSE ExpireOldest(f[k - 1])
    <3>1. CASE k = n + 1
      BY <3>1
    <3>2. CASE k # n + 1
      <4>1. k \in 0 .. n /\ f[k] = g[k]
        BY <3>2
      <4>2. CASE k = 0
        BY Zenon, <2>2, <4>1, <4>2
      <4>3. CASE k # 0
        <5>1. k - 1 \in 0 .. n + 1 /\ k - 1 # n + 1
          BY <4>1, <4>3
        <5>2. f[k - 1] = g[k - 1]
          BY <5>1
        <5> QED BY <2>2, <4>1, <4>3, <5>2
      <4> QED BY Zenon, <4>2, <4>3
    <3> QED BY Zenon, <3>1, <3>2
  <2>4. f = [k \in 0 .. n + 1 |-> f[k]]
    BY Zenon
  <2> HIDE DEF f
  <2>5. IsExpiryRun(d, n + 1, f)
    BY Zenon, <2>3, <2>4 DEF IsExpiryRun
  <2> QED BY <2>5
<1> HIDE DEF G
<1>3. \A n \in Nat : n \in G
  BY <1>1, <1>2, CountUp
<1> QED BY Zenon, <1>3 DEF G

\* What is left after as many turns as there were entries is young enough.
LEMMA ExpiredInv ==
  ASSUME NEW d, NEW a, NEW t, DispatcherInv(d, a, t), now \in Nat
  PROVE  DispatcherInv(Expired(d), a, t) /\ Young(Expired(d))
<1> DEFINE N == Len(d.store)
           g == CHOOSE f : IsExpiryRun(d, N, f)
<1>1. N \in Nat
  BY DEF DispatcherInv, PartsInv, StoreInv
<1>2. IsExpiryRun(d, N, g)
  BY Zenon, <1>1, ExpiryRuns
<1>3. Expired(d) = g[N]
  BY DEF Expired, IsExpiryRun
<1> HIDE DEF g, N
<1>4. \A k \in 0 .. N : g[k] = IF k = 0 THEN d ELSE ExpireOldest(g[k - 1])
  BY Zenon, <1>2 DEF IsExpiryRun
<1> DEFINE G == {k \in Nat : k <= N =>
                   /\ DispatcherInv(g[k], a, t)
                   /\ Young(g[k]) \/ Len(g[k].store) <= N - k}
<1>5. 0 \in G
  <2>1. g[0] = d
    BY <1>1, <1>4
  <2>2. Len(g[0].store) <= N - 0
    BY <1>1, <2>1 DEF N
  <2> QED BY <2>1, <2>2
<1>6. ASSUME NEW k \in Nat, k \in G
      PROVE  k + 1 \in G
  <2>1. SUFFICES ASSUME k + 1 <= N
                 PROVE  /\ DispatcherInv(g[k + 1], a, t)
                        /\ Young(g[k + 1]) \/ Len(g[k + 1].store) <= N - (k + 1)
    OBVIOUS
  <2>2. DispatcherInv(g[k], a, t) /\ (Young(g[k]) \/ Len(g[k].store) <= N - k)
    BY <1>1, <1>6, <2>1
  <2>3. g[k + 1] = ExpireOldest(g[k])
    BY <1>1, <1>4, <2>1
  <2>4. /\ DispatcherInv(g[k + 1], a, t)
        /\ Young(g[k]) => g[k + 1] = g[k]
        /\ ~Young(g[k]) => Len(g[k + 1].store) = Len(g[k].store) - 1
    BY Zenon, <2>2, <2>3, ExpireOldestInv
  <2>5. Len(g[k].store) \in Nat
    <3>1. g[k].store \in Seq(Lists)
      BY Zenon, <2>2 DEF DispatcherInv, PartsInv, StoreInv
    <3> QED BY <3>1
  <2>6. CASE Young(g[k])
    BY Zenon, <2>4, <2>6
  <2>7. CASE ~Young(g[k])
    <3> DEFINE m == Len(g[k].store)
               l == Len(g[k + 1].store)
    <3>1. m \in Nat /\ m <= N - k /\ l = m - 1
      BY <2>2, <2>4, <2>5, <2>7
    <3> HIDE DEF m, l
    <3>2. l <= N - (k + 1)
      BY <1>1, <3>1
    <3> QED BY Zenon, <2>4, <3>2 DEF l
  <2> QED BY Zenon, <2>6, <2>7
<1> HIDE DEF G
<1>7. N \in G
  BY Zenon, <1>1, <1>5, <1>6, CountUp
<1>8. DispatcherInv(g[N], a, t) /\ (Young(g[N]) \/ Len(g[N].store) <= N - N)
  BY <1>1, <1>7 DEF G
<1>9. Len(g[N].store) <= N - N => Young(g[N])
  <2>1. g[N].store \in Seq(Lists)
    BY Zenon, <1>8 DEF DispatcherInv, PartsInv, StoreInv
  <2>2. Len(g[N].store) <= N - N => Len(g[N].store) = 0
    BY <1>1, <2>1
  <2>3. Len(g[N].store) = 0 => g[N].store = <<>>
    BY <2>1
  <2> QED BY Zenon, <2>2, <2>3 DEF Young
<1> QED BY <1>3, <1>8, <1>9

\* OnExpirationTimeout: the alarm is set again for what is left.
LEMMA RearmedInv ==
  ASSUME NEW d, NEW a, DispatcherInv(d, a, now), now \in Nat, Young(d)
  PROVE  DispatcherInv([d EXCEPT !.expiration = Rearmed(d)], a, now)
<1> DEFINE x == Rearmed(d)
           e == [d EXCEPT !.expiration = x]
<1>1. /\ IsDispatcher(d) /\ d.store \in Seq(Lists) /\ AgeInv(d.store, d.expiration, now)
      /\ LifeSpan \in Nat \ {0}
  BY Zenon, DispatcherConstants DEF DispatcherInv, PartsInv, StoreInv
<1>2. x = IF d.store = <<>> THEN NoExpiration ELSE now + LifeSpan
  <2>1. [d EXCEPT !.expiration = NoExpiration].expiration = NoExpiration
    BY Zenon, <1>1 DEF IsDispatcher, Fields
  <2> QED BY <2>1 DEF Rearmed, MaybeSetExpirationAlarm
<1> HIDE DEF x
<1>3. Changes(d, e, {"expiration"}) /\ e.expiration = x
  BY <1>1 DEF IsDispatcher, Changes, Fields
<1> HIDE DEF e
<1>4. /\ e.sessions = d.sessions /\ e.store = d.store /\ e.with_chlo = d.with_chlo
      /\ e.deciding = d.deciding /\ e.time_wait = d.time_wait
      /\ e.allowed = d.allowed /\ e.alpn = d.alpn /\ IsDispatcher(e)
  BY Zenon, <1>3 DEF Changes, Fields
<1>5. AgeInv(d.store, x, now)
  <2>1. CASE d.store = <<>>
    BY <1>1, <1>2, <2>1 DEF AgeInv, NoExpiration
  <2>2. CASE d.store # <<>>
    <3>1. /\ 1 \in DOMAIN d.store /\ Head(d.store) = d.store[1]
          /\ DOMAIN d.store = 1 .. Len(d.store) /\ Len(d.store) \in Nat
          /\ \A i \in DOMAIN d.store : d.store[i].created \in Nat
      BY <1>1, <2>2, FieldTypes
    <3>2. d.store[1].created > now - LifeSpan
      BY Zenon, <2>2, <3>1 DEF Young
    <3>3. ASSUME NEW i \in DOMAIN d.store
          PROVE  d.store[i].created <= now /\ x < d.store[i].created + 2 * LifeSpan
      <4>1. d.store[1].created <= d.store[i].created /\ d.store[i].created <= now
        <5>1. /\ \A j, k \in DOMAIN d.store : j < k => d.store[j].created <= d.store[k].created
              /\ d.store[i].created <= now
          BY Zenon, <1>1 DEF AgeInv
        <5>2. i = 1 \/ 1 < i
          BY <3>1
        <5> QED BY <3>1, <5>1, <5>2
      <4>2. x = now + LifeSpan
        BY Zenon, <1>2, <2>2
      <4> DEFINE first == d.store[1].created
                 this == d.store[i].created
      <4>3. first \in Nat /\ this \in Nat /\ first > now - LifeSpan /\ first <= this
        BY <3>1, <3>2, <4>1
      <4> HIDE DEF first, this
      <4>4. x < this + 2 * LifeSpan
        BY <1>1, <4>2, <4>3
      <4> QED BY Zenon, <4>1, <4>4 DEF this
    <3>4. x \in Nat /\ x # NoExpiration /\ now <= x /\ x <= now + LifeSpan
      BY <1>1, <1>2, <2>2 DEF NoExpiration
    <3> QED BY Zenon, <1>1, <3>3, <3>4 DEF AgeInv
  <2> QED BY Zenon, <2>1, <2>2
<1>6. DispatcherInv(e, a, now)
  BY Zenon, <1>3, <1>4, <1>5 DEF DispatcherInv, PartsInv
<1> QED BY Zenon, <1>6 DEF e, x

\* Sessions are closed: OnConnectionClosed and CleanUpSession, for a connection
\* that has no client hello in the store.
LEMMA ClosedInv ==
  ASSUME NEW d, NEW a, NEW t, DispatcherInv(d, a, t), now \in Nat,
         NEW c \in Conns, c \notin Range(d.with_chlo)
  PROVE  DispatcherInv(Closed(d, c), a, t) /\ Closed(d, c).with_chlo = d.with_chlo
<1> DEFINE e == AddConnectionIdToTimeWait(d, c)
           s == [x \in DOMAIN d.sessions \ {c} |-> d.sessions[x]]
           f == Closed(d, c)
<1>1. /\ PartsInv(e, a, t) /\ Changes(d, e, {"time_wait"})
      /\ Listed(e.time_wait) \subseteq Listed(d.time_wait) \cup {c}
  BY AddPart DEF DispatcherInv
<1>2. f = [e EXCEPT !.sessions = s]
  <2>1. e.sessions = d.sessions
    BY Zenon, <1>1 DEF Changes, Fields
  <2> QED BY Zenon, <2>1 DEF Closed
<1> HIDE DEF e, f, s
<1>3. IsDispatcher(e)
  BY Zenon, <1>1 DEF PartsInv
<1>4. Changes(e, f, {"sessions"}) /\ f.sessions = s
  BY Zenon, <1>2, <1>3 DEF IsDispatcher, Changes, Fields
<1>5. /\ f.store = d.store /\ f.with_chlo = d.with_chlo /\ f.deciding = d.deciding
      /\ f.time_wait = e.time_wait /\ f.expiration = d.expiration
      /\ f.allowed = d.allowed /\ f.alpn = d.alpn /\ IsDispatcher(f)
  BY Zenon, <1>1, <1>4 DEF Changes, Fields
<1>6. SessionInv(d.sessions, a)
  BY Zenon DEF DispatcherInv, PartsInv
<1>7. SessionInv(s, a)
  <2>1. DOMAIN s = DOMAIN d.sessions \ {c} /\ \A x \in DOMAIN s : s[x] = d.sessions[x]
    BY Zenon DEF s
  <2>2. IsFiniteSet(DOMAIN s)
    BY Zenon, <1>6, <2>1, FS_Subset DEF SessionInv
  <2> QED BY Zenon, <1>6, <2>1, <2>2 DEF SessionInv
<1>8. PartsInv(f, a, t)
  BY Zenon, <1>1, <1>4, <1>5, <1>7 DEF DispatcherInv, PartsInv
<1>9. RouteInv(DOMAIN f.sessions, f.store, f.with_chlo, f.deciding, f.time_wait)
  <2>1. DOMAIN f.sessions = DOMAIN d.sessions \ {c}
    BY <1>4 DEF s
  <2>2. RouteInv(DOMAIN d.sessions, d.store, d.with_chlo, d.deciding, d.time_wait)
    BY Zenon DEF DispatcherInv
  <2> QED BY Zenon, <1>1, <1>5, <2>1, <2>2 DEF RouteInv
<1> QED BY Zenon, <1>5, <1>8, <1>9 DEF DispatcherInv, f

\* The turns of Shutdown.
IsCloseRun(d, order, n, g) ==
  g = [k \in 0 .. n |-> IF k = 0 THEN d ELSE Closed(g[k - 1], order[k])]

\* There is such a run of any length.
LEMMA CloseRuns ==
  ASSUME NEW d, NEW order
  PROVE  \A n \in Nat : \E g : IsCloseRun(d, order, n, g)
<1> DEFINE G == {n \in Nat : \E g : IsCloseRun(d, order, n, g)}
<1>1. 0 \in G
  <2>1. IsCloseRun(d, order, 0, [k \in 0 .. 0 |-> d])
    BY DEF IsCloseRun
  <2> QED BY Zenon, <2>1
<1>2. ASSUME NEW n \in Nat, n \in G
      PROVE  n + 1 \in G
  <2>1. PICK g : IsCloseRun(d, order, n, g)
    BY <1>2
  <2> DEFINE f == [k \in 0 .. n + 1 |-> IF k = n + 1 THEN Closed(g[n], order[n + 1]) ELSE g[k]]
  <2>2. \A k \in 0 .. n : g[k] = IF k = 0 THEN d ELSE Closed(g[k - 1], order[k])
    BY Zenon, <2>1 DEF IsCloseRun
  <2>3. ASSUME NEW k \in 0 .. n + 1
        PROVE  f[k] = IF k = 0 THEN d ELSE Closed(f[k - 1], order[k])
    <3>1. CASE k = n + 1
      BY <3>1
    <3>2. CASE k # n + 1
      <4>1. k \in 0 .. n /\ f[k] = g[k]
        BY <3>2
      <4>2. CASE k = 0
        BY Zenon, <2>2, <4>1, <4>2
      <4>3. CASE k # 0
        <5>1. k - 1 \in 0 .. n + 1 /\ k - 1 # n + 1
          BY <4>1, <4>3
        <5>2. f[k - 1] = g[k - 1]
          BY Zenon, <5>1
        <5> QED BY Zenon, <2>2, <4>1, <4>3, <5>2
      <4> QED BY Zenon, <4>2, <4>3
    <3> QED BY <3>1, <3>2
  <2>4. f = [k \in 0 .. n + 1 |-> f[k]]
    OBVIOUS
  <2> HIDE DEF f
  <2>5. IsCloseRun(d, order, n + 1, f)
    BY Zenon, <2>3, <2>4 DEF IsCloseRun
  <2> QED BY <2>5
<1> HIDE DEF G
<1>3. \A n \in Nat : n \in G
  BY <1>1, <1>2, CountUp
<1> QED BY <1>3 DEF G

\* Shutdown of the dispatcher.
LEMMA AllClosedInv ==
  ASSUME NEW d, NEW a, NEW t, DispatcherInv(d, a, t), now \in Nat,
         NEW order, Len(order) \in Nat,
         \A k \in 1 .. Len(order) : order[k] \in Conns \ Range(d.with_chlo)
  PROVE  DispatcherInv(AllClosed(d, order), a, t)
<1> DEFINE N == Len(order)
           g == CHOOSE f : IsCloseRun(d, order, N, f)
<1>1. N \in Nat
  OBVIOUS
<1>2. IsCloseRun(d, order, N, g)
  BY Zenon, <1>1, CloseRuns
<1>3. AllClosed(d, order) = g[N]
  BY Zenon DEF AllClosed, IsCloseRun
<1> HIDE DEF g, N
<1>4. \A k \in 0 .. N : g[k] = IF k = 0 THEN d ELSE Closed(g[k - 1], order[k])
  BY Zenon, <1>2 DEF IsCloseRun
<1> DEFINE G == {k \in Nat : k <= N =>
                   DispatcherInv(g[k], a, t) /\ g[k].with_chlo = d.with_chlo}
<1>5. 0 \in G
  BY <1>1, <1>4
<1>6. ASSUME NEW k \in Nat, k \in G
      PROVE  k + 1 \in G
  <2>1. SUFFICES ASSUME k + 1 <= N
                 PROVE  DispatcherInv(g[k + 1], a, t) /\ g[k + 1].with_chlo = d.with_chlo
    OBVIOUS
  <2>2. DispatcherInv(g[k], a, t) /\ g[k].with_chlo = d.with_chlo
    BY <1>1, <1>6, <2>1
  <2>3. g[k + 1] = Closed(g[k], order[k + 1])
    BY <1>1, <1>4, <2>1
  <2>4. order[k + 1] \in Conns /\ order[k + 1] \notin Range(g[k].with_chlo)
    BY <1>1, <2>1, <2>2 DEF N
  <2> QED BY Zenon, <2>2, <2>3, <2>4, ClosedInv
<1> HIDE DEF G
<1>7. N \in G
  BY Zenon, <1>1, <1>5, <1>6, CountUp
<1> QED BY <1>1, <1>3, <1>7 DEF G

-----------------------------------------------------------------------------
(* Every step keeps the invariant.                                         *)

\* The invariant holds when the server starts.
LEMMA InitInv == Init => IInv
<1> SUFFICES ASSUME Init PROVE IInv
  OBVIOUS
<1> DEFINE d == dispatcher
<1>1. /\ d = NewDispatcher /\ closed = 0 /\ alarm = FALSE /\ arrived = 0 /\ now = 1
  BY DEF Init
<1>2. /\ d.sessions = <<>> /\ d.store = <<>> /\ d.with_chlo = <<>> /\ d.deciding = {}
      /\ d.time_wait = <<>> /\ d.expiration = 0 /\ d.allowed = SessionsPerEvent
      /\ d.alpn = NoAlpn
  BY <1>1 DEF NewDispatcher, NoExpiration
<1>3. IsDispatcher(d)
  BY Zenon, <1>1 DEF NewDispatcher, IsDispatcher, Fields
<1> HIDE DEF d
<1>4. DOMAIN <<>> = {} /\ Len(<<>>) = 0 /\ \A S : <<>> \in Seq(S)
  OBVIOUS
<1>5. Listed(<<>>) = {} /\ Range(<<>>) = {}
  BY <1>4 DEF Listed, Range
<1>6. /\ SessionsPerEvent \in Nat /\ MaxStore \in Nat /\ MaxWithoutChlo \in Nat
      /\ MaxTimeWait \in Nat
  BY DispatcherConstants
<1>7. TimeWaitInv(d.time_wait) /\ StoreInv(d.store, d.with_chlo, 0)
  BY <1>2, <1>4, <1>5, <1>6 DEF TimeWaitInv, StoreInv, Keyed, Once
<1>8. AgeInv(d.store, d.expiration, 1)
  BY <1>2, <1>4 DEF AgeInv, NoExpiration
<1>9. SessionInv(d.sessions, 0)
  BY <1>2, <1>4, FS_EmptySet DEF SessionInv
<1>10. DecidingInv(d.deciding, d.store, 0)
  BY Zenon, <1>2 DEF DecidingInv
<1>11. RouteInv(DOMAIN d.sessions, d.store, d.with_chlo, d.deciding, d.time_wait)
  BY Zenon, <1>2, <1>4, <1>5 DEF RouteInv
<1>12. d.allowed \in Int /\ d.alpn \in Tags
  BY <1>2, <1>6 DEF Tags
<1>13. DispatcherInv(d, 0, 1)
  BY <1>3, <1>7, <1>8, <1>9, <1>10, <1>11, <1>12 DEF DispatcherInv, PartsInv
<1>14. DispatcherInv(dispatcher, arrived, now)
  BY Zenon, <1>1, <1>13 DEF d
<1>15. arrived \in Nat /\ now \in Nat /\ closed \in Nat /\ ~(closed > 0)
  BY <1>1
<1> QED BY Zenon, <1>1, <1>14, <1>15 DEF IInv

\* A packet that arrives is newer than every packet before.
LEMMA Arrived ==
  ASSUME IInv, NEW c \in Conns,
         NEW p \in [n : {arrived + 1}, kind : Kinds, alpn : Alpns]
  PROVE  /\ p \in Packets /\ p.n = arrived + 1 /\ arrived + 1 \in Nat
         /\ DispatcherInv(dispatcher, arrived + 1, now)
         /\ Fits(dispatcher.store, dispatcher.with_chlo, c, p, FALSE)
         /\ p.kind = "chlo" /\ c \notin Range(dispatcher.with_chlo)
              => Fits(dispatcher.store, dispatcher.with_chlo, c, p, TRUE)
         /\ \A r \in dispatcher.deciding : r.packet.n # p.n
<1>1. arrived \in Nat /\ DispatcherInv(dispatcher, arrived, now)
  BY DEF IInv
<1>2. p \in Packets /\ p.n = arrived + 1 /\ arrived + 1 \in Nat
  BY <1>1 DEF Packets
<1>3. DispatcherInv(dispatcher, arrived + 1, now)
  BY <1>1, InvGrows
<1>4. ASSUME NEW i \in DOMAIN dispatcher.store,
             NEW k \in DOMAIN dispatcher.store[i].packets
      PROVE  dispatcher.store[i].packets[k].n < p.n
  <2> DEFINE q == dispatcher.store[i].packets
  <2>1. /\ QueueInv(q, dispatcher.store[i].conn \in Range(dispatcher.with_chlo), arrived)
        /\ dispatcher.store[i] \in Lists
    BY <1>1 DEF DispatcherInv, PartsInv, StoreInv
  <2>2. q \in Seq(Packets)
    BY Zenon, <2>1, FieldTypes
  <2>3. q[k].n <= arrived
    BY Zenon, <2>1 DEF QueueInv, HelloFirst, InOrder
  <2>4. q[k].n \in Nat
    BY <2>2, FieldTypes
  <2> QED BY <1>1, <1>2, <2>3, <2>4
<1>5. \A i \in DOMAIN dispatcher.store : \A k \in DOMAIN dispatcher.store[i].packets :
        dispatcher.store[i].packets[k].n < p.n /\ dispatcher.store[i].packets[k].n # p.n
  <2>1. \A x : x < p.n => x # p.n
    BY <1>2
  <2> QED BY Zenon, <1>4, <2>1
<1>6. \A r \in dispatcher.deciding : r.packet.n # p.n
  <2>1. \A r \in dispatcher.deciding : r.packet.n <= arrived /\ r.packet.n \in Nat
    BY Zenon, <1>1, FieldTypes DEF DispatcherInv, PartsInv, DecidingInv, Hellos
  <2> QED BY <1>1, <1>2, <2>1
<1> QED BY Zenon, <1>2, <1>3, <1>5, <1>6 DEF Fits

\* The server goes on reading after the packet has been dispatched.
LEMMA ArrivesInv ==
  ASSUME IInv, NEW p, NEW d, Arrives(p, d), DispatcherInv(d, arrived + 1, now)
  PROVE  IInv'
<1>1. /\ dispatcher' = ProcessBufferedChlos(d) /\ arrived' = arrived + 1
      /\ now' = now /\ closed' = closed /\ alarm' = alarm
  BY Zenon DEF Arrives, StartReading
<1>2. DispatcherInv(ProcessBufferedChlos(d), arrived + 1, now)
  BY ProcessBufferedChlosInv
<1>3. DispatcherInv(dispatcher', arrived', now')
  BY Zenon, <1>1, <1>2
<1>4. arrived + 1 \in Nat
  BY DEF IInv
<1> QED BY Zenon, <1>1, <1>3, <1>4 DEF IInv

Regiven(s, q) == [s EXCEPT !.given = q]

\* A session that was given other packets is one again.
LEMMA SessionRegiven ==
  ASSUME NEW s \in Sessions, NEW q \in Seq(Packets)
  PROVE  Regiven(s, q) \in Sessions /\ Regiven(s, q).given = q
BY Zenon DEF Sessions, Regiven

\* PacketForSession: the packet is the last its session was given.
LEMMA PacketForSessionInv ==
  ASSUME IInv, NEW c \in Conns,
         NEW p \in [n : {arrived + 1}, kind : Kinds, alpn : Alpns], PacketForSession(c, p)
  PROVE  IInv'
<1> DEFINE d == dispatcher
           a == arrived + 1
           q == d.sessions[c].given
           r == [d.sessions[c] EXCEPT !.given = Append(@, p)]
           s == [d.sessions EXCEPT ![c] = r]
           e == [d EXCEPT !.sessions[c].given = Append(@, p)]
<1>1. c \in DOMAIN d.sessions /\ Arrives(p, e)
  BY Zenon DEF PacketForSession
<1>2. p \in Packets /\ p.n = a /\ a \in Nat /\ DispatcherInv(d, a, now) /\ arrived \in Nat
  BY Zenon, Arrived DEF IInv
<1>3. SessionInv(d.sessions, arrived) /\ SessionInv(d.sessions, a) /\ IsDispatcher(d)
  BY <1>2 DEF IInv, DispatcherInv, PartsInv
<1>4. d.sessions[c] \in Sessions /\ q \in Seq(Packets) /\ HelloFirst(q, arrived)
  BY <1>1, <1>3, FieldTypes DEF SessionInv
<1>5. r \in Sessions /\ r.given = Append(q, p)
  <2>1. r = Regiven(d.sessions[c], Append(q, p)) /\ Append(q, p) \in Seq(Packets)
    BY <1>2, <1>4 DEF Regiven
  <2> HIDE DEF q, r
  <2> QED BY Zenon, <1>4, <2>1, SessionRegiven
<1>6. HelloFirst(Append(q, p), a)
  <2>1. \A k \in DOMAIN q : q[k].n < p.n
    <3>1. \A k \in DOMAIN q : q[k].n <= arrived /\ q[k].n \in Nat
      BY <1>4, FieldTypes DEF HelloFirst, InOrder
    <3> QED BY <1>2, <3>1
  <2> QED BY <1>2, <1>4, <2>1, QueueAppends
<1>7. e = [d EXCEPT !.sessions = s]
  OBVIOUS
<1>8. DOMAIN s = DOMAIN d.sessions /\ s[c] = r /\ \A x \in DOMAIN s \ {c} : s[x] = d.sessions[x]
  BY Zenon, <1>1
<1> HIDE DEF d, a, q, r, s, e
<1>9. SessionInv(s, a)
  BY Zenon, <1>3, <1>5, <1>6, <1>8 DEF SessionInv
<1>10. Changes(d, e, {"sessions"}) /\ e.sessions = s
  BY Zenon, <1>3, <1>7 DEF IsDispatcher, Changes, Fields
<1>11. /\ e.store = d.store /\ e.with_chlo = d.with_chlo /\ e.deciding = d.deciding
       /\ e.time_wait = d.time_wait /\ e.expiration = d.expiration
       /\ e.allowed = d.allowed /\ e.alpn = d.alpn /\ IsDispatcher(e)
  BY <1>10 DEF Changes, Fields
<1>12. DispatcherInv(e, a, now)
  BY Zenon, <1>2, <1>8, <1>9, <1>10, <1>11 DEF DispatcherInv, PartsInv
<1> QED BY <1>1, <1>12, ArrivesInv DEF a

\* PacketForWaiting and EarlyPacket: the packet is buffered or dropped.
LEMMA BufferEarlyPacketInv ==
  ASSUME IInv, NEW c \in Conns,
         NEW p \in [n : {arrived + 1}, kind : Kinds, alpn : Alpns],
         c \notin DOMAIN dispatcher.sessions,
         Arrives(p, BufferEarlyPacket(dispatcher, c, p))
  PROVE  IInv'
<1> DEFINE a == arrived + 1
<1>1. /\ p \in Packets /\ p.n = a /\ a \in Nat /\ DispatcherInv(dispatcher, a, now)
      /\ Fits(dispatcher.store, dispatcher.with_chlo, c, p, FALSE)
      /\ \A r \in dispatcher.deciding : r.packet.n # p.n
  BY Zenon, Arrived
<1> HIDE DEF a
<1>2. now \in Nat /\ p.n <= a
  <2>1. now \in Nat
    BY Zenon DEF IInv
  <2>2. p.n <= a
    BY <1>1
  <2> QED BY <2>1, <2>2
<1>3. DispatcherInv(EnqueuePacket(dispatcher, c, p, FALSE), a, now)
  BY Zenon, <1>1, <1>2, EnqueueInv
<1> QED BY Zenon, <1>3, ArrivesInv DEF BufferEarlyPacket, a

\* PacketInTimeWait: the packet is counted, unless it is a public reset.
LEMMA PacketInTimeWaitInv ==
  ASSUME IInv, NEW c \in Conns,
         NEW p \in [n : {arrived + 1}, kind : Kinds, alpn : Alpns], PacketInTimeWait(c, p)
  PROVE  IInv'
<1> DEFINE a == arrived + 1
           f == ProcessInTimeWait(dispatcher, c)
<1>1. DispatcherInv(dispatcher, a, now)
  BY Zenon, Arrived
<1>2. /\ PartsInv(f, a, now) /\ Changes(dispatcher, f, {"time_wait"})
      /\ Listed(f.time_wait) = Listed(dispatcher.time_wait)
  BY Zenon, <1>1, CountPart DEF DispatcherInv
<1> HIDE DEF f, a
<1>3. DispatcherInv(f, a, now)
  BY <1>1, <1>2 DEF Changes, Fields, DispatcherInv, RouteInv
<1>4. Arrives(p, IF p.kind = "reset" THEN dispatcher ELSE f)
  BY Zenon DEF PacketInTimeWait, f
<1>5. CASE p.kind = "reset"
  <2>1. Arrives(p, dispatcher)
    BY <1>4, <1>5
  <2> QED BY Zenon, <1>1, <2>1, ArrivesInv DEF a
<1>6. CASE p.kind # "reset"
  <2>1. Arrives(p, f)
    BY Zenon, <1>4, <1>6
  <2> QED BY <1>3, <2>1, ArrivesInv DEF a
<1> QED BY Zenon, <1>5, <1>6

\* Chlo: a client hello that is decided at once.
LEMMA ChloInv ==
  ASSUME IInv, NEW c \in Conns,
         NEW p \in [n : {arrived + 1}, kind : Kinds, alpn : Alpns],
         NEW accepted \in BOOLEAN, Chlo(c, p, accepted)
  PROVE  IInv'
<1> DEFINE a == arrived + 1
           d == dispatcher
           e == [d EXCEPT !.alpn = p.alpn]
<1>1. /\ p \in Packets /\ p.n = a /\ a \in Nat /\ DispatcherInv(d, a, now)
      /\ p.kind = "chlo" /\ c \notin Range(d.with_chlo)
           => Fits(d.store, d.with_chlo, c, p, TRUE)
  BY Zenon, Arrived
<1>2. /\ p.kind = "chlo" /\ c \notin DOMAIN d.sessions /\ c \notin Range(d.with_chlo)
      /\ c \notin Listed(d.time_wait) /\ \A r \in d.deciding : r.conn # c
      /\ Arrives(p, Decided(e, c, p, accepted))
  BY DEF Chlo, Unknown, HasChloForConnection, Deciding, IsConnectionIdInTimeWait
<1>3. now \in Nat /\ p.n <= a /\ IsDispatcher(d) /\ p.alpn \in Tags
  BY <1>1 DEF IInv, DispatcherInv, PartsInv, Packets, Tags
<1>4. Changes(d, e, {"alpn"}) /\ e.alpn = p.alpn
  BY Zenon, <1>3 DEF IsDispatcher, Changes, Fields
<1> HIDE DEF a, d, e
<1>5. /\ e.sessions = d.sessions /\ e.store = d.store /\ e.with_chlo = d.with_chlo
      /\ e.deciding = d.deciding /\ e.time_wait = d.time_wait
      /\ e.expiration = d.expiration /\ e.allowed = d.allowed /\ IsDispatcher(e)
  BY Zenon, <1>4 DEF Changes, Fields
<1>6. DispatcherInv(e, a, now)
  BY <1>1, <1>3, <1>4, <1>5 DEF DispatcherInv, PartsInv
<1>7. Fits(e.store, e.with_chlo, c, p, TRUE)
  BY Zenon, <1>1, <1>2, <1>5
<1>8. DispatcherInv(Decided(e, c, p, accepted), a, now)
  BY Zenon, <1>1, <1>2, <1>3, <1>5, <1>6, <1>7, DecidedInv
<1> QED BY Zenon, <1>2, <1>8, ArrivesInv DEF a

\* ChloToDecide: a client hello that has to wait for its decision.
LEMMA ChloToDecideInv ==
  ASSUME IInv, NEW c \in Conns,
         NEW p \in [n : {arrived + 1}, kind : Kinds, alpn : Alpns], ChloToDecide(c, p)
  PROVE  IInv'
<1> DEFINE a == arrived + 1
           d == dispatcher
           r == [conn |-> c, packet |-> p]
           e == [d EXCEPT !.alpn = p.alpn, !.deciding = @ \cup {r}]
<1>1. /\ p \in Packets /\ p.n = a /\ a \in Nat /\ DispatcherInv(d, a, now)
      /\ p.kind = "chlo" /\ c \notin Range(d.with_chlo)
           => Fits(d.store, d.with_chlo, c, p, TRUE)
  BY Zenon, Arrived
<1>2. /\ p.kind = "chlo" /\ c \notin DOMAIN d.sessions /\ c \notin Range(d.with_chlo)
      /\ \A s \in d.deciding : s.conn # c
      /\ Arrives(p, e)
  BY DEF ChloToDecide, Unknown, HasChloForConnection, Deciding
<1>3. p.n <= a /\ IsDispatcher(d) /\ p.alpn \in Tags
  BY <1>1 DEF DispatcherInv, PartsInv, Packets, Tags
<1>4. r \in Hellos /\ r.conn = c /\ r.packet = p
  BY Zenon, <1>1 DEF Hellos
<1> HIDE DEF r
<1>5. Changes(d, e, {"alpn", "deciding"}) /\ e.alpn = p.alpn /\ e.deciding = d.deciding \cup {r}
  BY Zenon, <1>3 DEF IsDispatcher, Changes, Fields
<1> HIDE DEF a, d, e
<1>6. /\ e.sessions = d.sessions /\ e.store = d.store /\ e.with_chlo = d.with_chlo
      /\ e.time_wait = d.time_wait
      /\ e.expiration = d.expiration /\ e.allowed = d.allowed /\ IsDispatcher(e)
  BY Zenon, <1>5 DEF Changes, Fields
<1>7. DecidingInv(e.deciding, e.store, a)
  <2>1. DecidingInv(d.deciding, d.store, a)
    BY Zenon, <1>1 DEF DispatcherInv, PartsInv
  <2>2. \A i \in DOMAIN d.store : d.store[i].conn = c =>
          \A k \in DOMAIN d.store[i].packets : d.store[i].packets[k].n # p.n
    BY Zenon, <1>1, <1>2 DEF Fits
  <2>3. ASSUME NEW s \in e.deciding
        PROVE  /\ s \in Hellos /\ s.packet.kind = "chlo" /\ s.packet.n <= a
               /\ \A i \in DOMAIN d.store : d.store[i].conn = s.conn =>
                    \A k \in DOMAIN d.store[i].packets : d.store[i].packets[k].n # s.packet.n
    <3>1. CASE s = r
      BY Zenon, <1>2, <1>3, <1>4, <2>2, <3>1
    <3>2. CASE s \in d.deciding
      BY Zenon, <2>1, <3>2 DEF DecidingInv
    <3> QED BY Zenon, <1>5, <2>3, <3>1, <3>2
  <2>4. \A s, u \in e.deciding : s.conn = u.conn => s = u
    BY Zenon, <1>2, <1>4, <1>5, <2>1 DEF DecidingInv
  <2>5. DecidingInv(e.deciding, d.store, a)
    <3>1. e.deciding \subseteq Hellos
      BY Zenon, <2>3
    <3> QED BY Zenon, <2>3, <2>4, <3>1 DEF DecidingInv
  <2> QED BY Zenon, <1>6, <2>5
<1>8. PartsInv(e, a, now)
  BY Zenon, <1>1, <1>3, <1>5, <1>6, <1>7 DEF DispatcherInv, PartsInv
<1>9. RouteInv(DOMAIN e.sessions, e.store, e.with_chlo, e.deciding, e.time_wait)
  <2>1. RouteInv(DOMAIN d.sessions, d.store, d.with_chlo, d.deciding, d.time_wait)
    BY <1>1 DEF DispatcherInv
  <2> QED BY Zenon, <1>2, <1>4, <1>5, <1>6, <2>1 DEF RouteInv
<1>10. DispatcherInv(e, a, now)
  BY <1>8, <1>9 DEF DispatcherInv
<1> QED BY Zenon, <1>2, <1>10, ArrivesInv DEF a

\* The packets that arrive.
LEMMA ReadPacketInv == IInv /\ ReadPacket => IInv'
<1> SUFFICES ASSUME IInv, ReadPacket PROVE IInv'
  OBVIOUS
<1>1. PICK c \in Conns, p \in [n : {arrived + 1}, kind : Kinds, alpn : Alpns] :
        \/ PacketForSession(c, p)
        \/ PacketForWaiting(c, p)
        \/ PacketInTimeWait(c, p)
        \/ PacketDropped(c, p)
        \/ StrayPacket(c, p)
        \/ EarlyPacket(c, p)
        \/ \E accepted \in BOOLEAN : Chlo(c, p, accepted)
        \/ ChloToDecide(c, p)
  BY DEF ReadPacket
<1>2. DispatcherInv(dispatcher, arrived + 1, now) /\ now \in Nat
  BY Zenon, Arrived DEF IInv
<1>3. CASE PacketForSession(c, p)
  BY <1>3, PacketForSessionInv
<1>4. CASE PacketForWaiting(c, p)
  BY <1>4, BufferEarlyPacketInv DEF PacketForWaiting
<1>5. CASE PacketInTimeWait(c, p)
  BY <1>5, PacketInTimeWaitInv
<1>6. CASE PacketDropped(c, p)
  BY <1>2, <1>6, ArrivesInv DEF PacketDropped
<1>7. CASE StrayPacket(c, p)
  <2>1. c \notin DOMAIN dispatcher.sessions /\ Arrives(p, TimeWaitFate(dispatcher, c))
    BY <1>7 DEF StrayPacket, Unknown
  <2>2. DispatcherInv(TimeWaitFate(dispatcher, c), arrived + 1, now)
    BY <1>2, <2>1, TimeWaitFateInv
  <2> QED BY Zenon, <2>1, <2>2, ArrivesInv
<1>8. CASE EarlyPacket(c, p)
  BY Zenon, <1>8, BufferEarlyPacketInv DEF EarlyPacket, Unknown
<1>9. ASSUME NEW accepted \in BOOLEAN, Chlo(c, p, accepted) PROVE IInv'
  BY <1>9, ChloInv
<1>10. CASE ChloToDecide(c, p)
  BY <1>10, ChloToDecideInv
<1> QED BY Zenon, <1>1, <1>3, <1>4, <1>5, <1>6, <1>7, <1>8, <1>9, <1>10

\* OnConnectionClosed: the id goes into time wait and the session to the
\* sessions that an alarm deletes.
LEMMA OnConnectionClosedInv ==
  ASSUME IInv, NEW c \in Conns, OnConnectionClosed(c)
  PROVE  IInv'
<1>1. /\ c \in DOMAIN dispatcher.sessions /\ dispatcher' = Closed(dispatcher, c)
      /\ closed' = closed + 1 /\ alarm' = (alarm \/ closed = 0)
      /\ arrived' = arrived /\ now' = now
  BY DEF OnConnectionClosed
<1>2. DispatcherInv(dispatcher, arrived, now) /\ now \in Nat
  BY Zenon DEF IInv
<1>3. c \notin Range(dispatcher.with_chlo)
  BY Zenon, <1>1, <1>2 DEF DispatcherInv, PartsInv, StoreInv, RouteInv
<1>4. DispatcherInv(Closed(dispatcher, c), arrived, now)
  BY <1>2, <1>3, ClosedInv
<1>5. DispatcherInv(dispatcher', arrived', now')
  BY <1>1, <1>4
<1>6. closed \in Nat /\ alarm \in BOOLEAN /\ (closed > 0 => alarm)
  BY DEF IInv
<1>7. closed' \in Nat /\ (closed = 0 \/ closed > 0)
  BY <1>1, <1>6
<1>8. alarm' \in BOOLEAN /\ alarm'
  BY <1>1, <1>6, <1>7, Zenon
<1>9. arrived' \in Nat /\ now' \in Nat
  BY Zenon, <1>1 DEF IInv
<1> QED BY Zenon, <1>5, <1>7, <1>8, <1>9 DEF IInv

\* OnExpirationTimeout.
LEMMA OnExpirationTimeoutInv ==
  ASSUME IInv, OnExpirationTimeout
  PROVE  IInv'
<1> DEFINE e == Expired(dispatcher)
<1>1. /\ dispatcher' = [e EXCEPT !.expiration = Rearmed(e)]
      /\ closed' = closed /\ alarm' = alarm /\ arrived' = arrived /\ now' = now
  BY Zenon DEF OnExpirationTimeout
<1>2. DispatcherInv(dispatcher, arrived, now) /\ now \in Nat
  BY DEF IInv
<1>3. DispatcherInv(e, arrived, now) /\ Young(e)
  BY <1>2, ExpiredInv
<1> HIDE DEF e
<1>4. DispatcherInv([e EXCEPT !.expiration = Rearmed(e)], arrived, now)
  BY <1>2, <1>3, RearmedInv
<1>5. DispatcherInv(dispatcher', arrived', now')
  BY Zenon, <1>1, <1>4
<1> QED BY <1>1, <1>5 DEF IInv

\* Shutdown: every session is closed.
LEMMA ShutdownInv ==
  ASSUME IInv, Shutdown
  PROVE  IInv'
<1> DEFINE S == DOMAIN dispatcher.sessions
<1>1. PICK order \in Injection(1 .. Cardinality(S), S) : dispatcher' = AllClosed(dispatcher, order)
  BY DEF Shutdown
<1>2. /\ closed' = 0 /\ alarm' = (alarm \/ (closed = 0 /\ S # {}))
      /\ arrived' = arrived /\ now' = now
  BY DEF Shutdown
<1>3. DispatcherInv(dispatcher, arrived, now) /\ now \in Nat
  BY Zenon DEF IInv
<1>4. \A c \in S : c \in Conns \ Range(dispatcher.with_chlo)
  BY Zenon, <1>3 DEF DispatcherInv, PartsInv, SessionInv, StoreInv, RouteInv
<1>5. Cardinality(S) \in Nat
  BY <1>3, FS_CardinalityType DEF DispatcherInv, PartsInv, SessionInv
<1>6. order \in [1 .. Cardinality(S) -> S]
  BY Zenon, <1>1 DEF Injection
<1>7. Len(order) = Cardinality(S) /\ \A k \in 1 .. Len(order) : order[k] \in S
  BY <1>5, <1>6
<1>8. DispatcherInv(AllClosed(dispatcher, order), arrived, now)
  BY Zenon, <1>3, <1>4, <1>5, <1>7, AllClosedInv
<1>9. DispatcherInv(dispatcher', arrived', now')
  BY <1>1, <1>2, <1>8
<1>10. closed' \in Nat /\ alarm' \in BOOLEAN /\ ~(closed' > 0)
  BY <1>2 DEF IInv
<1> QED BY <1>2, <1>9, <1>10 DEF IInv

\* Tick: time passes until an alarm is due.
LEMMA TickInv ==
  ASSUME IInv, Tick
  PROVE  IInv'
<1> DEFINE d == dispatcher
<1>1. /\ d.expiration # NoExpiration => now < d.expiration
      /\ now' = now + 1
      /\ dispatcher' = d /\ closed' = closed /\ alarm' = alarm /\ arrived' = arrived
  BY Zenon DEF Tick
<1>2. DispatcherInv(d, arrived, now) /\ now \in Nat /\ LifeSpan \in Nat \ {0}
  BY Zenon, DispatcherConstants DEF IInv
<1> HIDE DEF d
<1>3. AgeInv(d.store, d.expiration, now + 1)
  <2>1. AgeInv(d.store, d.expiration, now) /\ d.store \in Seq(Lists)
    BY Zenon, <1>2 DEF DispatcherInv, PartsInv, StoreInv
  <2>2. ASSUME NEW i \in DOMAIN d.store
        PROVE  d.store[i].created <= now + 1
    <3>1. d.store[i].created <= now /\ d.store[i].created \in Nat
      BY <2>1, FieldTypes DEF AgeInv
    <3> QED BY <1>2, <3>1
  <2>3. d.expiration # NoExpiration =>
          now + 1 <= d.expiration /\ d.expiration <= now + 1 + LifeSpan
    BY <1>1, <1>2, <2>1 DEF AgeInv
  <2> QED BY Zenon, <2>1, <2>2, <2>3 DEF AgeInv
<1>4. DispatcherInv(d, arrived, now + 1)
  BY <1>2, <1>3 DEF DispatcherInv, PartsInv
<1>5. DispatcherInv(dispatcher', arrived', now') /\ now' \in Nat
  BY <1>1, <1>2, <1>4
<1> QED BY Zenon, <1>1, <1>5 DEF IInv

\* Every step keeps the invariant.
LEMMA NextInv == IInv /\ [Next]_vars => IInv'
<1> SUFFICES ASSUME IInv, [Next]_vars PROVE IInv'
  OBVIOUS
<1>1. DispatcherInv(dispatcher, arrived, now) /\ now \in Nat /\ arrived \in Nat
  BY DEF IInv
<1>2. CASE ReadPacket
  BY Zenon, <1>2, ReadPacketInv
<1>3. ASSUME NEW r \in dispatcher.deciding, NEW accepted \in BOOLEAN,
             OnStatelessRejectorProcessDone(r, accepted)
      PROVE  IInv'
  <2>1. DispatcherInv(DecidedLate([dispatcher EXCEPT !.deciding = @ \ {r}], r, accepted),
                      arrived, now)
    BY <1>1, DecidedLateInv
  <2>2. DispatcherInv(dispatcher', arrived', now')
    BY <1>3, <2>1 DEF OnStatelessRejectorProcessDone
  <2> QED BY <1>3, <2>2 DEF IInv, OnStatelessRejectorProcessDone
<1>4. ASSUME NEW c \in Conns, OnConnectionClosed(c) PROVE IInv'
  BY Zenon, <1>4, OnConnectionClosedInv
<1>5. CASE DeleteSessions
  <2>1. /\ dispatcher' = dispatcher /\ arrived' = arrived /\ now' = now
        /\ alarm' = FALSE /\ closed' = 0
    BY <1>5 DEF DeleteSessions
  <2>2. DispatcherInv(dispatcher', arrived', now')
    BY <1>1, <2>1
  <2>3. closed' \in Nat /\ ~(closed' > 0)
    BY <2>1
  <2>4. arrived' \in Nat /\ now' \in Nat /\ alarm' \in BOOLEAN
    BY Zenon, <1>1, <2>1
  <2> QED BY Zenon, <2>2, <2>3, <2>4 DEF IInv
<1>6. CASE OnExpirationTimeout
  BY Zenon, <1>6, OnExpirationTimeoutInv
<1>7. CASE ScheduledStartReading
  <2>1. DispatcherInv(ProcessBufferedChlos(dispatcher), arrived, now)
    BY <1>1, ProcessBufferedChlosInv
  <2>2. DispatcherInv(dispatcher', arrived', now')
    BY Zenon, <1>7, <2>1 DEF ScheduledStartReading
  <2> QED BY <1>7, <2>2 DEF IInv, ScheduledStartReading
<1>8. CASE Shutdown
  BY <1>8, ShutdownInv
<1>9. CASE Tick
  BY <1>9, TickInv
<1>10. CASE UNCHANGED vars
  BY <1>10 DEF IInv, vars
<1> QED BY <1>2, <1>3, <1>4, <1>5, <1>6, <1>7, <1>8, <1>9, <1>10 DEF Next

-----------------------------------------------------------------------------
(* The theorems.                                                           *)

\* The client hellos that wait are no more than the entries of the store.
LEMMA NoMoreHellosThanEntries ==
  ASSUME NEW store, NEW hellos, NEW a, StoreInv(store, hellos, a)
  PROVE  Len(hellos) <= Len(store)
<1> DEFINE S == 1 .. Len(hellos)
           T == 1 .. Len(store)
           f == [i \in S |-> CHOOSE j \in T : store[j].conn = hellos[i]]
<1>1. /\ Len(hellos) \in Nat /\ Len(store) \in Nat
      /\ DOMAIN hellos = S /\ DOMAIN store = T
      /\ Once(hellos) /\ Range(hellos) \subseteq Listed(store)
  BY DEF StoreInv
<1>2. \A i \in S : f[i] \in T /\ store[f[i]].conn = hellos[i]
  <2>1. ASSUME NEW i \in S
        PROVE  \E j \in T : store[j].conn = hellos[i]
    BY Zenon, <1>1 DEF Range, Listed
  <2> QED BY Zenon, <2>1
<1>3. f \in [S -> T]
  BY Zenon, <1>2
<1>4. \A i, j \in S : f[i] = f[j] => i = j
  BY <1>1, <1>2 DEF Once
<1>5. f \in Injection(S, T)
  BY <1>3, <1>4 DEF Injection, IsInjective
<1>6. /\ IsFiniteSet(T) /\ Cardinality(T) = Len(store) /\ Cardinality(S) = Len(hellos)
  <2>1. ASSUME NEW n \in Nat
        PROVE  IsFiniteSet(1 .. n) /\ Cardinality(1 .. n) = n
    <3>1. /\ IsFiniteSet(1 .. n)
          /\ Cardinality(1 .. n) = IF 1 > n THEN 0 ELSE n - 1 + 1
      BY FS_Interval
    <3> QED BY <3>1
  <2> QED BY <1>1, <2>1
<1> HIDE DEF S, T, f
<1>7. Cardinality(S) <= Cardinality(T)
  BY Zenon, <1>5, <1>6, FS_Injection
<1> QED BY <1>6, <1>7

\* What the properties say follows from the invariant.
LEMMA InvImplies ==
  ASSUME IInv
  PROVE  /\ RoutesExclusive /\ StoreConsistent /\ DeliveredInOrder
         /\ NothingForgotten /\ RepliesThrottled
<1> DEFINE d == dispatcher
<1>1. /\ DispatcherInv(d, arrived, now) /\ now \in Nat
      /\ d.store \in Seq(Lists) /\ Keyed(d.store) /\ StoreInv(d.store, d.with_chlo, arrived)
      /\ Range(d.with_chlo) \subseteq Listed(d.store)
      /\ RouteInv(DOMAIN d.sessions, d.store, d.with_chlo, d.deciding, d.time_wait)
      /\ TimeWaitInv(d.time_wait) /\ AgeInv(d.store, d.expiration, now)
      /\ SessionInv(d.sessions, arrived)
  BY Zenon DEF IInv, DispatcherInv, PartsInv, StoreInv
<1>2. RoutesExclusive
  BY Zenon, <1>1 DEF RoutesExclusive, RouteInv, HasBufferedPackets, Deciding,
              IsConnectionIdInTimeWait
<1>3. ASSUME NEW c \in Listed(d.store)
      PROVE  \E i \in DOMAIN d.store :
               /\ d.store[i].conn = c /\ Of(d.store, c) = d.store[i]
               /\ BufferedPackets(d, c) = d.store[i].packets
               /\ d.store[i].packets \in Seq(Packets) /\ d.store[i].created \in Nat
               /\ QueueInv(d.store[i].packets, c \in Range(d.with_chlo), arrived)
  <2>1. PICK i \in DOMAIN d.store : d.store[i].conn = c
    BY Zenon DEF Listed
  <2>2. Of(d.store, c) = d.store[i]
    BY Zenon, <1>1, <2>1, OfListed
  <2>3. BufferedPackets(d, c) = d.store[i].packets
    BY Zenon, <2>2 DEF BufferedPackets, HasBufferedPackets
  <2>4. d.store[i].packets \in Seq(Packets) /\ d.store[i].created \in Nat
    <3>1. d.store \in Seq(Lists)
      BY Zenon, <1>1
    <3> HIDE DEF d
    <3>2. d.store[i] \in Lists
      BY <3>1
    <3> QED BY Zenon, <3>2, FieldTypes
  <2>5. QueueInv(d.store[i].packets, c \in Range(d.with_chlo), arrived)
    BY <1>1, <2>1 DEF StoreInv
  <2> QED BY Zenon, <2>1, <2>2, <2>3, <2>4, <2>5
<1>4. StoreConsistent
  <2>1. MaxUndecryptable \in Nat /\ MaxWithoutChlo \in Nat
    BY Zenon, DispatcherConstants
  <2>2. ASSUME NEW c \in Range(d.with_chlo)
        PROVE  HasBufferedPackets(d, c) /\ Head(BufferedPackets(d, c)).kind = "chlo"
    <3>1. c \in Listed(d.store)
      BY Zenon, <1>1
    <3>2. PICK i \in DOMAIN d.store :
            /\ BufferedPackets(d, c) = d.store[i].packets
            /\ d.store[i].packets \in Seq(Packets)
            /\ QueueInv(d.store[i].packets, c \in Range(d.with_chlo), arrived)
      BY Zenon, <1>3, <3>1
    <3> DEFINE q == d.store[i].packets
    <3>3. HelloFirst(q, arrived)
      BY <3>2 DEF QueueInv
    <3> HIDE DEF q
    <3>4. Head(q) = q[1] /\ q[1].kind = "chlo"
      BY <3>3 DEF HelloFirst
    <3> QED BY Zenon, <3>1, <3>2, <3>4 DEF HasBufferedPackets, q
  <2>3. Len(d.store) - Len(d.with_chlo) \in 0 .. MaxWithoutChlo /\ Len(d.store) <= MaxStore
    <3> DEFINE m == Len(d.store)
               n == Len(d.with_chlo)
    <3>1. m \in Nat /\ n \in Nat /\ m - n <= MaxWithoutChlo /\ m <= MaxStore
      <4>1. d.store \in Seq(Lists) /\ d.with_chlo \in Seq(Conns)
        BY <1>1 DEF StoreInv
      <4>2. m - n <= MaxWithoutChlo /\ m <= MaxStore
        BY <1>1, Zenon DEF StoreInv
      <4>3. m \in Nat /\ n \in Nat
        BY <4>1
      <4> HIDE DEF m, n
      <4> QED BY <4>2, <4>3
    <3>2. n <= m
      BY <1>1, NoMoreHellosThanEntries
    <3> HIDE DEF m, n
    <3>3. m - n \in 0 .. MaxWithoutChlo /\ m <= MaxStore
      BY <2>1, <3>1, <3>2
    <3> QED BY Zenon, <3>3 DEF m, n
  <2>4. ASSUME NEW c \in Listed(d.store)
        PROVE  Len(BufferedPackets(d, c)) \in 1 .. MaxUndecryptable + 1
    <3>1. PICK i \in DOMAIN d.store :
            /\ BufferedPackets(d, c) = d.store[i].packets
            /\ d.store[i].packets \in Seq(Packets)
            /\ QueueInv(d.store[i].packets, c \in Range(d.with_chlo), arrived)
      BY Zenon, <1>3, <2>4
    <3> DEFINE q == d.store[i].packets
    <3>2. Len(q) \in Nat /\ Len(q) >= 1 /\ Len(q) <= MaxUndecryptable + 1
      BY <2>1, <3>1 DEF QueueInv, HelloFirst
    <3> QED BY <2>1, <3>1, <3>2
  <2>5. Len(d.time_wait) <= MaxTimeWait
    BY Zenon, <1>1 DEF TimeWaitInv
  <2> QED BY Zenon, <2>2, <2>3, <2>4, <2>5 DEF StoreConsistent
<1>5. DeliveredInOrder
  <2>1. ASSUME NEW c \in DOMAIN d.sessions
        PROVE  LET q == d.sessions[c].given
               IN  /\ Head(q).kind = "chlo"
                   /\ \A i, j \in 2 .. Len(q) : i < j => q[i].n < q[j].n
                   /\ \A i \in 2 .. Len(q) : q[i].n # q[1].n
    <3> DEFINE q == d.sessions[c].given
    <3>1. HelloFirst(q, arrived)
      BY <1>1 DEF SessionInv
    <3> HIDE DEF q
    <3>2. /\ Head(q).kind = "chlo"
          /\ \A i, j \in 2 .. Len(q) : i < j => q[i].n < q[j].n
          /\ \A i \in 2 .. Len(q) : q[i].n # q[1].n
      BY <3>1 DEF HelloFirst, InOrder
    <3> QED BY Zenon, <3>2 DEF q
  <2> QED BY Zenon, <2>1 DEF DeliveredInOrder
<1>6. NothingForgotten
  <2>1. ASSUME NEW c \in Listed(d.store)
        PROVE  now - Of(d.store, c).created < 2 * LifeSpan
    <3>1. PICK i \in DOMAIN d.store :
            Of(d.store, c) = d.store[i] /\ d.store[i].created \in Nat
      BY Zenon, <1>3, <2>1
    <3> DEFINE x == d.store[i].created
    <3>2. /\ x \in Nat /\ d.expiration \in Nat /\ d.expiration < x + 2 * LifeSpan
          /\ now <= d.expiration /\ LifeSpan \in Nat
      <4>1. /\ d.expiration \in Nat /\ d.expiration < x + 2 * LifeSpan
            /\ d.expiration # NoExpiration => now <= d.expiration
            /\ d.store # <<>> => d.expiration # NoExpiration
        BY Zenon, <1>1 DEF AgeInv
      <4>2. d.store # <<>>
        BY <3>1
      <4>3. LifeSpan \in Nat
        BY DispatcherConstants
      <4> QED BY Zenon, <3>1, <4>1, <4>2, <4>3
    <3> HIDE DEF x
    <3>3. now - x < 2 * LifeSpan
      BY <1>1, <3>2
    <3> QED BY Zenon, <3>1, <3>3 DEF x
  <2>2. closed > 0 => alarm
    BY Zenon DEF IInv
  <2> QED BY <2>1, <2>2 DEF NothingForgotten
<1>7. RepliesThrottled
  BY Zenon, <1>1 DEF RepliesThrottled, TimeWaitInv, Throttled
<1> QED BY Zenon, <1>2, <1>4, <1>5, <1>6, <1>7

\* A connection that has a session has nothing else, whatever arrived and in
\* whatever order clients, the proof source and the alarms act.
THEOREM DispatcherRoutes == Spec => []RoutesExclusive
<1>1. IInv => RoutesExclusive
  BY InvImplies
<1> QED BY <1>1, InitInv, NextInv, PTL DEF Spec

\* The store of early packets keeps its limits, and the number of connections
\* without client hello, a difference of two sizes, never wraps.
THEOREM DispatcherStore == Spec => []StoreConsistent
<1>1. IInv => StoreConsistent
  BY InvImplies
<1> QED BY <1>1, InitInv, NextInv, PTL DEF Spec

\* Sessions are given their client hello first and everything else once and in
\* the order of arrival.
THEOREM DispatcherDelivers == Spec => []DeliveredInOrder
<1>1. IInv => DeliveredInOrder
  BY InvImplies
<1> QED BY <1>1, InitInv, NextInv, PTL DEF Spec

\* No buffered packet outlives two life spans and closed sessions have an alarm
\* that deletes them.
THEOREM DispatcherForgetsNothing == Spec => []NothingForgotten
<1>1. IInv => NothingForgotten
  BY Zenon, InvImplies
<1> QED BY <1>1, InitInv, NextInv, PTL DEF Spec

\* The time-wait list answers at most the first, second, fourth, eighth packet
\* and so on of a connection.
THEOREM DispatcherThrottles == Spec => []RepliesThrottled
<1>1. IInv => RepliesThrottled
  BY InvImplies
<1> QED BY <1>1, InitInv, NextInv, PTL DEF Spec
=============================================================================
