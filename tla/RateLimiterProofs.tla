-------------------------- MODULE RateLimiterProofs --------------------------
(***************************************************************************)
(* Theorems about the rate limiter, for any number of requests, clients,   *)
(* limits, failures and changes of the tables.                             *)
(***************************************************************************)
EXTENDS RateLimiter, TLAPS

Labels == {"idle", "tier", "limit", "incr", "expire"}

Counted(k) == tally[k].passed + tally[k].refused + tally[k].lost

\* The parts of TypeOK.
TablesOK ==
    /\ tiers \in [Tiers -> {"new", "live", "gone"}]
    /\ tierOf \in [Members -> Tiers \cup {None}]
    /\ \A u \in Members : tierOf[u] # None => tiers[tierOf[u]] = "live"
    /\ row \in [Rows -> Limits \cup {None}]
    /\ \A r \in Rows : row[r] # None => tiers[row[r].tier] = "live"
RequestsOK ==
    /\ at \in [Workers -> Labels]
    /\ tier \in [Workers -> Tiers \cup {None}]
    /\ \A w \in Workers : at[w] = "limit" => tier[w] \in Tiers
    /\ client \in [Workers -> Clients \cup {None}]
    /\ \A w \in Workers : at[w] # "idle" => client[w] \in Clients
    /\ start \in [Workers -> Starts]
    /\ \A w \in Workers : Begun(start[w], allowed[w].period)
    /\ allowed \in [Workers -> Allowances]
CounterOK == counter \in [Keys -> Counters \cup {None}]
HistoryOK ==
    /\ tally \in [Keys -> Tallies]
    /\ applied \in [Keys -> SUBSET Allowances]
    /\ noted \in [Workers -> BOOLEAN]
BoundsOK ==
    /\ now \in Clock
    /\ requests \in 0..MAX_REQUESTS
    /\ changes \in 0..MAX_CHANGES
    /\ failures \in 0..MAX_FAILURES

LEMMA TypeParts ==
    TypeOK <=> TablesOK /\ RequestsOK /\ CounterOK /\ HistoryOK /\ BoundsOK
BY Zenon DEF TypeOK, TablesOK, RequestsOK, CounterOK, HistoryOK, BoundsOK, Labels

\* The remainder of a time has the sign of the period and is smaller.
LEMMA ModuloBounds ==
    ASSUME NEW n \in Nat, NEW d \in Int \ {0}
    PROVE  /\ Modulo(n, d) \in Int
           /\ d > 0 => 0 <= Modulo(n, d)
           /\ d < 0 => d < Modulo(n, d) /\ Modulo(n, d) <= 0
<1>1. CASE d > 0
  <2>1. (n % d) \in 0..(d - 1)
    BY <1>1
  <2>2. Modulo(n, d) = n % d
    BY <1>1 DEF Modulo
  <2> QED BY <1>1, <2>1, <2>2
<1>2. CASE ~(d > 0)
  <2> DEFINE e == -d
             m == -n
             r == m % e
  <2>1. e \in Nat \ {0} /\ m \in Int
    BY <1>2
  <2>2. r \in 0..(e - 1)
    <3> HIDE DEF e, m
    <3> QED BY <2>1
  <2>3. Modulo(n, d) = -r
    BY <1>2 DEF Modulo
  <2>4. d = -e /\ d < 0
    BY <1>2
  <2> HIDE DEF e, m, r
  <2> QED BY <2>1, <2>2, <2>3, <2>4
<1> QED BY <1>1, <1>2

LEMMA ClockIsNat == Clock \subseteq Nat
BY BoundsAssumption DEF Clock

LEMMA UsableAreInt == UsablePeriods \subseteq Int \ {0}
BY ValuesAssumption, DefaultAssumption DEF UsablePeriods

LEMMA StartsAreInt == Starts \subseteq Int
<1>1. ASSUME NEW t \in Clock, NEW p \in UsablePeriods PROVE WindowStart(t, p) \in Int
  <2>1. t \in Nat /\ p \in Int \ {0}
    BY ClockIsNat, UsableAreInt
  <2>2. Modulo(t, p) \in Int
    BY <2>1, ModuloBounds
  <2> QED BY <2>1, <2>2 DEF WindowStart
<1> QED BY <1>1 DEF Starts

\* The window a request falls into has begun.
LEMMA WindowBegins ==
    ASSUME now \in Clock, NEW p \in UsablePeriods
    PROVE  WindowStart(now, p) \in Starts /\ Begun(WindowStart(now, p), p)
<1>1. now \in Nat /\ p \in Int \ {0}
  BY ClockIsNat, UsableAreInt
<1> DEFINE m == Modulo(now, p)
<1>2. /\ m \in Int
      /\ p > 0 => 0 <= m
      /\ p < 0 => p < m
  BY <1>1, ModuloBounds
<1>3. WindowStart(now, p) = now - m
  BY DEF WindowStart
<1> HIDE DEF m
<1>4. Begun(now - m, p)
  BY <1>1, <1>2 DEF Begun
<1>5. WindowStart(now, p) \in Starts
  BY DEF Starts
<1> QED BY <1>3, <1>4, <1>5

LEMMA DefaultOK == Default \in Allowances /\ Default.period # 0 /\ 0 \in Starts
BY DefaultAssumption DEF Default, Allowances, UsablePeriods, Starts

LEMMA DefaultBegun == BoundsOK => Begun(0, Default.period)
<1> SUFFICES ASSUME BoundsOK PROVE Begun(0, DEFAULT_PERIOD)
  BY DEF Default
<1>1. now \in Nat
  BY ClockIsNat DEF BoundsOK
<1> QED BY <1>1, DefaultAssumption DEF Begun

LEMMA ReturnOK ==
    ASSUME RequestsOK, BoundsOK, now' = now, NEW w \in Workers, Return(w)
    PROVE  RequestsOK'
<1>1. 0 \in Starts /\ Begun(0, Default.period)
  BY DefaultOK, DefaultBegun
<1>2. /\ at' \in [Workers -> Labels] /\ tier' \in [Workers -> Tiers \cup {None}]
      /\ client' \in [Workers -> Clients \cup {None}]
      /\ allowed' \in [Workers -> Allowances]
  BY DefaultOK DEF Return, RequestsOK, Labels
<1>3. start' \in [Workers -> Starts]
  BY <1>1 DEF Return, RequestsOK
<1>4. \A x \in Workers : Begun(start[x], allowed[x].period)'
  <2> SUFFICES ASSUME NEW x \in Workers PROVE Begun(start[x], allowed[x].period)'
    OBVIOUS
  <2>1. CASE x = w
    <3>1. start'[x] = 0 /\ allowed'[x] = Default
      BY <2>1 DEF Return, RequestsOK
    <3> QED BY <1>1, <3>1 DEF Begun
  <2>2. CASE x # w
    <3>1. start'[x] = start[x] /\ allowed'[x] = allowed[x]
      BY <2>2 DEF Return, RequestsOK
    <3> QED BY <3>1 DEF Begun, RequestsOK
  <2> QED BY <2>1, <2>2
<1>5. at'[w] = "idle" /\ \A x \in Workers :
          x = w \/ (at'[x] = at[x] /\ tier'[x] = tier[x] /\ client'[x] = client[x])
  BY DEF Return, RequestsOK
<1> QED BY <1>2, <1>3, <1>4, <1>5 DEF RequestsOK

LEMMA GotoOK ==
    ASSUME RequestsOK, now' = now, NEW w \in Workers, at[w] # "idle",
           NEW l \in Labels, Goto(w, l), l = "limit" => tier[w] \in Tiers
    PROVE  RequestsOK'
<1>1. at' \in [Workers -> Labels] /\ at'[w] = l
      /\ \A x \in Workers : x = w \/ at'[x] = at[x]
  BY DEF Goto, RequestsOK
<1>2. tier' = tier /\ client' = client /\ start' = start /\ allowed' = allowed
  BY DEF Goto
<1> QED BY <1>1, <1>2 DEF RequestsOK, Begun

LEMMA CountOK ==
    ASSUME RequestsOK, BoundsOK, now' = now, NEW w \in Workers, NEW c \in Clients,
           NEW a \in [limit : Int, period : UsablePeriods \cup {0}], Count(w, c, a)
    PROVE  RequestsOK'
<1>1. CASE a.period = 0
  BY <1>1, ReturnOK DEF Count
<1>2. CASE a.period # 0
  <2>1. a \in Allowances /\ a.period \in UsablePeriods
    BY <1>2 DEF Allowances
  <2>2. WindowStart(now, a.period) \in Starts
        /\ Begun(WindowStart(now, a.period), a.period)
    BY <2>1, WindowBegins DEF BoundsOK
  <2>3. /\ at' = [at EXCEPT ![w] = "incr"]
        /\ client' = [client EXCEPT ![w] = c]
        /\ start' = [start EXCEPT ![w] = WindowStart(now, a.period)]
        /\ allowed' = [allowed EXCEPT ![w] = a]
        /\ tier' = [tier EXCEPT ![w] = None]
    BY <1>2 DEF Count
  <2>4. /\ at' \in [Workers -> Labels] /\ tier' \in [Workers -> Tiers \cup {None}]
        /\ client' \in [Workers -> Clients \cup {None}]
        /\ start' \in [Workers -> Starts] /\ allowed' \in [Workers -> Allowances]
    BY <2>1, <2>2, <2>3 DEF RequestsOK, Labels
  <2>5. \A x \in Workers :
            /\ at'[x] = "limit" => tier'[x] \in Tiers
            /\ at'[x] # "idle" => client'[x] \in Clients
    BY <2>2, <2>3 DEF RequestsOK
  <2>6. ASSUME NEW x \in Workers PROVE Begun(start[x], allowed[x].period)'
    <3>1. CASE x = w
      <4>1. start'[x] = WindowStart(now, a.period) /\ allowed'[x] = a
        BY <2>3, <3>1 DEF RequestsOK
      <4> QED BY <2>2, <4>1 DEF Begun
    <3>2. CASE x # w
      <4>1. start'[x] = start[x] /\ allowed'[x] = allowed[x]
        BY <2>3, <3>2 DEF RequestsOK
      <4> QED BY <4>1 DEF Begun, RequestsOK
    <3> QED BY <3>1, <3>2
  <2> QED BY <2>4, <2>5, <2>6 DEF RequestsOK
<1> QED BY <1>1, <1>2

\* The key of a request that counts itself.
LEMMA KeyOK ==
    ASSUME RequestsOK, NEW w \in Workers, at[w] # "idle"
    PROVE  Key(w) \in Keys /\ Key(w)[2] = start[w]
BY DEF RequestsOK, Key, Keys

LEMMA CountOfOK ==
    ASSUME CounterOK, NEW k \in Keys
    PROVE  CountOf(k) \in Nat /\ (CountOf(k) = 0 <=> ~Present(k))
BY DEF CounterOK, CountOf, Present, Counters

LEMMA IncrementOK ==
    ASSUME CounterOK, NEW k \in Keys, Increment(k)
    PROVE  /\ CounterOK'
           /\ counter'[k] = [count |-> CountOf(k) + 1,
                             ttl |-> IF Present(k) THEN counter[k].ttl ELSE 0]
           /\ \A x \in Keys : x # k => counter'[x] = counter[x]
<1> DEFINE new == [count |-> CountOf(k) + 1,
                   ttl |-> IF Present(k) THEN counter[k].ttl ELSE 0]
<1>1. CountOf(k) + 1 \in Nat \ {0}
  BY CountOfOK
<1>2. Present(k) => counter[k].ttl \in Nat
  BY DEF CounterOK, Present, Counters
<1>3. new \in Counters
  BY <1>1, <1>2 DEF Counters
<1>4. counter' = [counter EXCEPT ![k] = new]
  BY DEF Increment
<1> HIDE DEF new
<1>5. CounterOK' /\ counter'[k] = new /\ \A x \in Keys : x # k => counter'[x] = counter[x]
  BY <1>3, <1>4 DEF CounterOK
<1> QED BY <1>5 DEF new

LEMMA NoteOK ==
    ASSUME RequestsOK, HistoryOK, NEW w \in Workers, at[w] # "idle",
           NEW o \in {"passed", "refused", "lost"}, Note(w, o)
    PROVE  /\ HistoryOK'
           /\ applied'[Key(w)] = applied[Key(w)] \cup {allowed[w]}
           /\ \A k \in Keys : k # Key(w) => applied'[k] = applied[k] /\ tally'[k] = tally[k]
           /\ ~OnTime(w) => tally'[Key(w)] = tally[Key(w)]
           /\ OnTime(w) => tally'[Key(w)] =
                 [tally[Key(w)] EXCEPT ![o] = tally[Key(w)][o] + 1]
<1>1. Key(w) \in Keys /\ allowed[w] \in Allowances
  BY KeyOK DEF RequestsOK
<1>2. applied' = [applied EXCEPT ![Key(w)] = applied[Key(w)] \cup {allowed[w]}]
  BY DEF Note
<1>3. /\ applied' \in [Keys -> SUBSET Allowances]
      /\ applied'[Key(w)] = applied[Key(w)] \cup {allowed[w]}
      /\ \A k \in Keys : k # Key(w) => applied'[k] = applied[k]
  BY <1>1, <1>2 DEF HistoryOK
<1> DEFINE new == [tally[Key(w)] EXCEPT ![o] = tally[Key(w)][o] + 1]
<1>4. new \in Tallies
  BY <1>1 DEF HistoryOK, Tallies
<1>5. tally' = IF ~OnTime(w) THEN tally ELSE [tally EXCEPT ![Key(w)] = new]
  BY DEF Note
<1> HIDE DEF new
<1>n. noted' \in [Workers -> BOOLEAN]
  BY DEF Note, HistoryOK
<1>6. /\ tally' \in [Keys -> Tallies]
      /\ \A k \in Keys : k # Key(w) => tally'[k] = tally[k]
      /\ ~OnTime(w) => tally'[Key(w)] = tally[Key(w)]
      /\ OnTime(w) => tally'[Key(w)] = new
  BY <1>1, <1>4, <1>5 DEF HistoryOK
<1> QED BY <1>3, <1>6, <1>n DEF HistoryOK, new

\* EXPIRE gives a key a life, or deletes it.
LEMMA LiveSets ==
    ASSUME RequestsOK, CounterOK, NEW w \in Workers, at[w] = "expire",
           Live(Key(w), allowed[w].period)
    PROVE  /\ CounterOK'
           /\ \A k \in Keys : k # Key(w) => counter'[k] = counter[k]
           /\ ~Present(Key(w)) => counter'[Key(w)] = counter[Key(w)]
           /\ Present(Key(w)) /\ allowed[w].period > 0 => counter'[Key(w)] =
                 [count |-> counter[Key(w)].count, ttl |-> allowed[w].period]
           /\ Present(Key(w)) /\ ~(allowed[w].period > 0) => counter'[Key(w)] = None
<1>1. Key(w) \in Keys /\ allowed[w].period \in Int \ {0}
  BY KeyOK, UsableAreInt DEF RequestsOK, Allowances
<1>2. CASE ~Present(Key(w))
  BY <1>2 DEF Live, CounterOK
<1>3. CASE Present(Key(w)) /\ allowed[w].period > 0
  <2> DEFINE new == [counter[Key(w)] EXCEPT !.ttl = allowed[w].period]
  <2>1. counter[Key(w)] \in Counters
    BY <1>1, <1>3 DEF CounterOK, Present
  <2>2. new \in Counters
        /\ new = [count |-> counter[Key(w)].count, ttl |-> allowed[w].period]
    BY <1>1, <1>3, <2>1 DEF Counters
  <2>3. counter' = [counter EXCEPT ![Key(w)] = new]
    BY <1>3 DEF Live
  <2> HIDE DEF new
  <2> QED BY <1>1, <1>3, <2>2, <2>3 DEF CounterOK
<1>4. CASE Present(Key(w)) /\ ~(allowed[w].period > 0)
  <2>1. counter' = [counter EXCEPT ![Key(w)] = None]
    BY <1>4 DEF Live
  <2> QED BY <1>1, <1>4, <2>1 DEF CounterOK
<1> QED BY <1>2, <1>3, <1>4

\* A request that gets an error after all moves one of the tally to the lost.
LEMMA LoseOK ==
    ASSUME RequestsOK, HistoryOK, NEW w \in Workers, at[w] # "idle", Lose(w)
    PROVE  /\ tally' \in [Keys -> Tallies]
           /\ \A k \in Keys : /\ Counted(k)' = Counted(k)
                              /\ tally'[k].passed <= tally[k].passed
                              /\ tally'[k].refused <= tally[k].refused
                              /\ tally'[k].passed + tally'[k].lost
                                    >= tally[k].passed + tally[k].lost
<1> DEFINE o == IF 1 <= allowed[w].limit THEN "passed" ELSE "refused"
           q == Key(w)
           new == [tally[q] EXCEPT ![o] = tally[q][o] - 1, !.lost = tally[q].lost + 1]
<1>1. q \in Keys /\ o \in {"passed", "refused"}
  BY KeyOK
<1>2. \A k \in Keys : /\ tally[k] \in Tallies
                      /\ tally[k].passed \in Nat /\ tally[k].refused \in Nat
                      /\ tally[k].lost \in Nat
  BY DEF HistoryOK, Tallies
<1>3. tally' = IF ~noted[w] \/ tally[q][o] = 0 THEN tally
               ELSE [tally EXCEPT ![q] = new]
  BY Zenon DEF Lose
<1>4. CASE tally' = tally
  BY <1>2, <1>4 DEF HistoryOK, Counted
<1>5. CASE tally[q][o] # 0 /\ tally' = [tally EXCEPT ![q] = new]
  <2>1. /\ new \in Tallies
        /\ new.passed + new.refused + new.lost
              = tally[q].passed + tally[q].refused + tally[q].lost
        /\ new.passed <= tally[q].passed /\ new.refused <= tally[q].refused
        /\ new.passed + new.lost >= tally[q].passed + tally[q].lost
    <3>1. CASE o = "passed"
      <4>1. tally[q].passed - 1 \in Nat
        <5> HIDE DEF o, q, new
        <5>1. tally[q].passed # 0
          BY <1>5, <3>1
        <5> QED BY <1>1, <1>2, <5>1
      <4>2. new = [tally[q] EXCEPT !.passed = tally[q].passed - 1,
                                   !.lost = tally[q].lost + 1]
        BY <3>1
      <4>3. tally[q] \in Tallies
        BY <1>1, <1>2
      <4> HIDE DEF new, q, o
      <4>4. new = [passed |-> tally[q].passed - 1, refused |-> tally[q].refused,
                   lost |-> tally[q].lost + 1]
        BY <4>2, <4>3 DEF Tallies
      <4> QED BY <1>1, <1>2, <4>1, <4>4 DEF Tallies
    <3>2. CASE o = "refused"
      <4>1. tally[q].refused - 1 \in Nat
        <5> HIDE DEF o, q, new
        <5>1. tally[q].refused # 0
          BY <1>5, <3>2
        <5> QED BY <1>1, <1>2, <5>1
      <4>2. new = [tally[q] EXCEPT !.refused = tally[q].refused - 1,
                                   !.lost = tally[q].lost + 1]
        BY <3>2
      <4>3. tally[q] \in Tallies
        BY <1>1, <1>2
      <4> HIDE DEF new, q, o
      <4>4. new = [passed |-> tally[q].passed, refused |-> tally[q].refused - 1,
                   lost |-> tally[q].lost + 1]
        BY <4>2, <4>3 DEF Tallies
      <4> QED BY <1>1, <1>2, <4>1, <4>4 DEF Tallies
    <3> QED BY <1>1, <3>1, <3>2
  <2> HIDE DEF new, q, o
  <2>2. tally' \in [Keys -> Tallies] /\ tally'[q] = new
        /\ \A k \in Keys : k # q => tally'[k] = tally[k]
    BY <1>1, <1>5, <2>1 DEF HistoryOK
  <2> QED BY <1>2, <2>1, <2>2 DEF Counted
<1> QED BY <1>3, <1>4, <1>5 

\* What a tick leaves of a counter.
LEMMA TickAges ==
    ASSUME CounterOK, Tick, NEW k \in Keys
    PROVE  /\ Present(k)' <=> (Present(k) /\ counter[k].ttl # 1)
           /\ Present(k)' => /\ counter'[k] \in Counters
                             /\ counter'[k].count = counter[k].count
                             /\ counter[k].ttl = 0 => counter'[k].ttl = 0
                             /\ counter[k].ttl # 0 => counter'[k].ttl = counter[k].ttl - 1
<1>1. counter'[k] = IF counter[k] = None \/ counter[k].ttl = 1 THEN None
                    ELSE Aged(counter[k])
  BY DEF Tick
<1>2. CASE ~Present(k) \/ counter[k].ttl = 1
  BY <1>1, <1>2 DEF Present
<1>3. CASE Present(k) /\ counter[k].ttl # 1
  <2>1. counter[k] \in Counters /\ counter'[k] = Aged(counter[k])
    BY <1>1, <1>3 DEF CounterOK, Present
  <2>2. CASE counter[k].ttl = 0
    <3>1. counter'[k] = counter[k]
      BY <2>1, <2>2 DEF Aged
    <3> QED BY <1>3, <2>1, <2>2, <3>1 DEF Present
  <2>3. CASE counter[k].ttl # 0
    <3> DEFINE new == [counter[k] EXCEPT !.ttl = counter[k].ttl - 1]
    <3>1. counter'[k] = new
      BY <2>1, <2>3 DEF Aged
    <3>2. new \in Counters /\ new.count = counter[k].count
          /\ new.ttl = counter[k].ttl - 1
      BY <1>3, <2>1, <2>3 DEF Counters
    <3>3. new # None
      BY <3>2, NoneAssumption DEF Counters
    <3> HIDE DEF new
    <3> QED BY <1>3, <2>3, <3>1, <3>2, <3>3 DEF Present
  <2> QED BY <2>2, <2>3
<1> QED BY <1>2, <1>3

\* A change of the tables keeps their types and their references.
LEMMA AdministerOK == TablesOK /\ Administer => TablesOK'
<1> SUFFICES ASSUME TablesOK, Administer PROVE TablesOK'
  OBVIOUS
<1>1. ASSUME NEW t \in Tiers, WriteTier(t) PROVE TablesOK'
  BY <1>1 DEF TablesOK, WriteTier, Limits
<1>2. ASSUME NEW t \in Tiers, EraseTier(t) PROVE TablesOK'
  BY <1>2 DEF TablesOK, EraseTier
<1>3. ASSUME NEW u \in Members, NEW t \in Tiers, PatchUserTier(u, t) PROVE TablesOK'
  BY <1>3 DEF TablesOK, PatchUserTier
<1>4. ASSUME NEW r \in Rows, WriteRateLimit(r) PROVE TablesOK'
  BY <1>4 DEF TablesOK, WriteRateLimit
<1>5. ASSUME NEW r \in Rows, PatchRateLimit(r) PROVE TablesOK'
  BY <1>5 DEF TablesOK, PatchRateLimit
<1>6. ASSUME NEW r \in Rows, EraseRateLimit(r) PROVE TablesOK'
  BY <1>6 DEF TablesOK, EraseRateLimit
<1> QED BY <1>1, <1>2, <1>3, <1>4, <1>5, <1>6 DEF Administer

LEMMA AdministerSame ==
    Administer => UNCHANGED <<now, counter, request, history, requests, failures>>
                  /\ changes < MAX_CHANGES /\ changes' = changes + 1
BY Zenon DEF Administer, WriteTier, EraseTier, PatchUserTier, WriteRateLimit,
       PatchRateLimit, EraseRateLimit, Change

\* Every variable keeps its type whatever step is taken.
LEMMA TypeStep == TypeOK /\ [Next]_vars => TypeOK'
<1> SUFFICES ASSUME TypeOK, [Next]_vars PROVE TypeOK'
  OBVIOUS
<1>0. TablesOK /\ RequestsOK /\ CounterOK /\ HistoryOK /\ BoundsOK
  BY TypeParts
<1>p. TablesOK' /\ RequestsOK' /\ CounterOK' /\ HistoryOK' /\ BoundsOK' => TypeOK'
  BY TypeParts, PTL
<1>t. ASSUME UNCHANGED tables PROVE TablesOK'
  BY <1>t, <1>0 DEF TablesOK, tables
<1>r. ASSUME UNCHANGED request, now' = now PROVE RequestsOK'
  BY <1>r, <1>0 DEF RequestsOK, request, Begun
<1>c. ASSUME UNCHANGED counter PROVE CounterOK'
  BY <1>c, <1>0 DEF CounterOK
<1>h. ASSUME UNCHANGED history PROVE HistoryOK'
  BY <1>h, <1>0 DEF HistoryOK, history
<1>b. ASSUME UNCHANGED <<now, requests, changes, failures>> PROVE BoundsOK'
  BY <1>b, <1>0 DEF BoundsOK
<1>f. ASSUME UNCHANGED <<now, requests, changes>>, Failure PROVE BoundsOK'
  BY <1>f, <1>0, BoundsAssumption DEF BoundsOK, Failure
<1>d. Default \in [limit : Int, period : UsablePeriods \cup {0}]
  BY DefaultOK DEF Allowances
<1>1. CASE UNCHANGED vars
  BY <1>1, <1>t, <1>r, <1>c, <1>h, <1>b, <1>p DEF vars
<1>2. ASSUME NEW w \in Workers, Arrive(w) PROVE TypeOK'
  <2>1. BoundsOK'
    BY <1>2, <1>0, BoundsAssumption DEF Arrive, BoundsOK
  <2>2. RequestsOK'
    <3>1. CASE \E v \in Visitors : Count(w, v, Default)
      BY <1>2, <1>0, <1>d, <3>1, CountOK DEF Arrive, Clients
    <3>2. ASSUME NEW u \in Members, at' = [at EXCEPT ![w] = "tier"],
                 tier' = [tier EXCEPT ![w] = tierOf[u]],
                 client' = [client EXCEPT ![w] = u], UNCHANGED <<start, allowed>>
          PROVE  RequestsOK'
      BY <1>2, <1>0, <3>2 DEF Arrive, RequestsOK, TablesOK, Labels, Clients, Begun
    <3> QED BY <1>2, <3>1, <3>2 DEF Arrive
  <2> QED BY <1>2, <1>t, <1>c, <1>h, <2>1, <2>2, <1>p DEF Arrive
<1>3. ASSUME NEW w \in Workers, ReadTier(w) PROVE TypeOK'
  <2>1. client[w] \in Clients
    BY <1>3, <1>0 DEF ReadTier, RequestsOK
  <2>2. RequestsOK'
    <3>1. CASE Goto(w, "limit") /\ tier[w] # None
      BY <1>3, <1>0, <3>1, GotoOK DEF ReadTier, Labels, RequestsOK
    <3>2. CASE Count(w, client[w], Default)
      BY <1>3, <1>0, <1>d, <2>1, <3>2, CountOK DEF ReadTier
    <3> QED BY <1>3, <3>1, <3>2 DEF ReadTier
  <2> QED BY <1>3, <1>t, <1>c, <1>h, <1>b, <2>2, <1>p DEF ReadTier
<1>4. ASSUME NEW w \in Workers, ReadLimit(w) PROVE TypeOK'
  <2>1. client[w] \in Clients
    BY <1>4, <1>0 DEF ReadLimit, RequestsOK
  <2>2. RequestsOK'
    <3>1. CASE Count(w, client[w], Default)
      BY <1>4, <1>0, <1>d, <2>1, <3>1, CountOK DEF ReadLimit
    <3>2. ASSUME NEW l \in Matching(tier[w]),
                 Count(w, client[w], [limit |-> l.limit, period |-> l.period])
          PROVE  RequestsOK'
      <4>1. l \in Limits
        BY <1>0 DEF Matching, TablesOK
      <4>2. [limit |-> l.limit, period |-> l.period]
                \in [limit : Int, period : UsablePeriods \cup {0}]
        BY <4>1, ValuesAssumption DEF Limits, UsablePeriods
      <4> QED BY <1>4, <1>0, <2>1, <3>2, <4>2, CountOK DEF ReadLimit
    <3> QED BY <1>4, <3>1, <3>2 DEF ReadLimit
  <2> QED BY <1>4, <1>t, <1>c, <1>h, <1>b, <2>2, <1>p DEF ReadLimit
<1>5. ASSUME NEW w \in Workers, Incr(w) PROVE TypeOK'
  <2>1. CounterOK' /\ HistoryOK'
    BY <1>5, <1>0, KeyOK, IncrementOK, NoteOK DEF Incr
  <2>2. RequestsOK'
    BY <1>5, <1>0, GotoOK, ReturnOK DEF Incr, Labels
  <2> QED BY <1>5, <1>0, <1>t, <1>b, <2>1, <2>2, <1>p DEF Incr, BoundsOK
<1>6. ASSUME NEW w \in Workers, Expire(w) PROVE TypeOK'
  <2>1. HistoryOK'
    BY <1>6, <1>0 DEF Expire, HistoryOK
  <2>2. CounterOK' /\ RequestsOK'
    BY <1>6, <1>0, LiveSets, ReturnOK DEF Expire
  <2> QED BY <1>6, <1>t, <1>b, <2>1, <2>2, <1>p DEF Expire
<1>7. ASSUME NEW w \in Workers, Fail(w) PROVE TypeOK'
  BY <1>7, <1>0, <1>t, <1>h, <1>c, <1>f, ReturnOK, <1>p DEF Fail
<1>8. ASSUME NEW w \in Workers, IncrUnacknowledged(w) PROVE TypeOK'
  <2>1. CounterOK' /\ HistoryOK'
    BY <1>8, <1>0, KeyOK, IncrementOK, NoteOK DEF IncrUnacknowledged
  <2> QED BY <1>8, <1>0, <1>t, <1>f, <2>1, ReturnOK, <1>p DEF IncrUnacknowledged
<1>11. ASSUME NEW w \in Workers, ExpireFails(w) PROVE TypeOK'
  <2>1. HistoryOK'
    BY <1>11, <1>0, LoseOK DEF ExpireFails, HistoryOK
  <2>2. CounterOK'
    BY <1>11, <1>0, <1>c, LiveSets DEF ExpireFails
  <2> QED BY <1>11, <1>0, <1>t, <1>f, <2>1, <2>2, ReturnOK, <1>p DEF ExpireFails
<1>9. CASE Administer
  <2>1. BoundsOK'
    BY <1>9, <1>0, AdministerSame, BoundsAssumption DEF BoundsOK
  <2> QED BY <1>9, <1>0, <1>r, <1>c, <1>h, <2>1, AdministerOK, AdministerSame, <1>p
<1>10. CASE Tick
  <2>1. CounterOK'
    <3>1. \A k \in Keys : counter'[k] \in Counters \cup {None}
      BY <1>10, <1>0, TickAges DEF Present
    <3> QED BY <1>10, <3>1 DEF Tick, CounterOK
  <2>2. BoundsOK'
    BY <1>10, <1>0, BoundsAssumption DEF Tick, BoundsOK, Clock
  <2>3. RequestsOK'
    <3>1. ASSUME NEW w \in Workers PROVE Begun(start[w], allowed[w].period)'
      <4>1. /\ start'[w] = start[w] /\ allowed'[w] = allowed[w] /\ now' = now + 1
            /\ Begun(start[w], allowed[w].period)
        BY <1>10, <1>0 DEF Tick, request, RequestsOK
      <4>2. start[w] \in Int /\ allowed[w].period \in Int /\ now \in Nat
        BY <1>0, StartsAreInt, UsableAreInt, ClockIsNat
           DEF RequestsOK, BoundsOK, Allowances
      <4> QED BY <4>1, <4>2 DEF Begun
    <3> QED BY <1>10, <1>0, <3>1 DEF Tick, RequestsOK, request
  <2> QED BY <1>10, <1>t, <1>h, <2>1, <2>2, <2>3, <1>p DEF Tick
<1> QED
  BY <1>1, <1>2, <1>3, <1>4, <1>5, <1>6, <1>7, <1>8, <1>9, <1>10, <1>11 DEF Next, Serve

\* Every reachable state is well typed, users and limits refer to tiers that exist, and
\* the window of a request has begun, for all integers as limits and periods.
THEOREM TypeCorrect == Spec => []TypeOK
<1>1. Init => TypeOK
  <2> SUFFICES ASSUME Init PROVE TypeOK
    OBVIOUS
  <2>1. BoundsOK
    BY BoundsAssumption DEF Init, BoundsOK, Clock
  <2>2. RequestsOK
    BY <2>1, DefaultOK, DefaultBegun DEF Init, RequestsOK, Labels
  <2>3. TablesOK /\ CounterOK /\ HistoryOK
    BY DEF Init, TablesOK, CounterOK, HistoryOK, Tallies
  <2> QED BY <2>1, <2>2, <2>3, TypeParts
<1> QED BY <1>1, TypeStep, PTL DEF Spec

-----------------------------------------------------------------------------
(* The counter of a window.                                                *)

\* Until the window ends the counter is there and counts every request of the window:
\* when it has a life, this ends no earlier than the window.  A negative period deletes
\* the counter early: it then counts some of the requests.
Standing(k, a) ==
    /\ now < WindowEnd(k[2], a.period) => CountOf(k) <= Counted(k)
    /\ a.period > 0 /\ now < k[2] + a.period => CountOf(k) = Counted(k)
    /\ a.period > 0 /\ Present(k) /\ counter[k].ttl # 0
          => now + counter[k].ttl >= k[2] + a.period
Window(k) ==
    /\ applied[k] = {} => ~Present(k) /\ Counted(k) = 0
    /\ OnePeriod(k) => \A a \in applied[k] : Standing(k, a)
Creating == \A w \in Workers : at[w] = "expire" => allowed[w] \in applied[Key(w)]
WindowInv == Creating /\ \A k \in Keys : Window(k)

\* The others keep what they are doing.
LEMMA OthersStay ==
    ASSUME RequestsOK, NEW w \in Workers,
           \/ Return(w)
           \/ \E l \in Labels : Goto(w, l)
           \/ \E c, a : Count(w, c, a)
           \/ \E u \in Members : /\ at' = [at EXCEPT ![w] = "tier"]
                                 /\ client' = [client EXCEPT ![w] = u]
                                 /\ UNCHANGED <<start, allowed>>
    PROVE  \A x \in Workers : x # w =>
              at'[x] = at[x] /\ Key(x)' = Key(x) /\ allowed'[x] = allowed[x]
BY DEF RequestsOK, Return, Goto, Count, Key

LEMMA NotExpiring ==
    ASSUME RequestsOK, NEW w \in Workers,
           \/ Return(w)
           \/ \E l \in Labels \ {"expire"} : Goto(w, l)
           \/ \E c, a : Count(w, c, a)
           \/ \E u \in Members : at' = [at EXCEPT ![w] = "tier"]
    PROVE  at'[w] # "expire"
BY DEF RequestsOK, Return, Goto, Count

\* A step that neither counts nor ages keeps the windows.
LEMMA WindowSame ==
    ASSUME NEW k \in Keys, Window(k), now' = now, applied'[k] = applied[k],
           tally'[k] = tally[k], counter'[k] = counter[k]
    PROVE  Window(k)'
BY DEF Window, Standing, OnePeriod, Counted, CountOf, Present

\* Counting a request, whatever its outcome, adds one to the counter and, before the end
\* of the window, one to the tally.
LEMMA WindowCounts ==
    ASSUME RequestsOK, CounterOK, HistoryOK, BoundsOK, NEW w \in Workers, at[w] # "idle",
           NEW o \in {"passed", "refused", "lost"}, now' = now,
           Increment(Key(w)), Note(w, o), NEW k \in Keys, Window(k)
    PROVE  Window(k)'
<1>k. Key(w) \in Keys /\ Key(w)[2] = start[w]
  BY KeyOK
<1>1. CASE k # Key(w)
  BY <1>1, <1>k, WindowSame, IncrementOK, NoteOK
<1>2. CASE k = Key(w)
  <2>1. /\ applied'[k] = applied[k] \cup {allowed[w]}
        /\ counter'[k] = [count |-> CountOf(k) + 1,
                          ttl |-> IF Present(k) THEN counter[k].ttl ELSE 0]
        /\ ~OnTime(w) => tally'[k] = tally[k]
        /\ OnTime(w) => tally'[k] = [tally[k] EXCEPT ![o] = tally[k][o] + 1]
    BY <1>2, <1>k, IncrementOK, NoteOK
  <2>2. CountOf(k) \in Nat /\ (CountOf(k) = 0 <=> ~Present(k))
    BY CountOfOK
  <2>3. counter'[k].count = CountOf(k) + 1
        /\ counter'[k].ttl = IF Present(k) THEN counter[k].ttl ELSE 0
    BY <2>1
  <2>4. Present(k)'
    <3>1. Present(k) => counter[k].ttl \in Nat
      BY DEF CounterOK, Present, Counters
    <3>2. counter'[k] \in [count : Nat, ttl : Nat]
      BY <2>1, <2>2, <3>1
    <3> QED BY <3>2, NoneAssumption DEF Present
  <2>5. CountOf(k)' = CountOf(k) + 1
    BY <2>3, <2>4 DEF CountOf
  <2>6. /\ tally[k].passed \in Nat /\ tally[k].refused \in Nat /\ tally[k].lost \in Nat
        /\ tally[k] \in Tallies
    BY DEF HistoryOK, Tallies
  <2>7. OnTime(w) => Counted(k)' = Counted(k) + 1
    <3> SUFFICES ASSUME OnTime(w) PROVE Counted(k)' = Counted(k) + 1
      OBVIOUS
    <3>1. CASE o = "passed"
      BY <2>1, <2>6, <3>1 DEF Counted, Tallies
    <3>2. CASE o = "refused"
      BY <2>1, <2>6, <3>2 DEF Counted, Tallies
    <3>3. CASE o = "lost"
      BY <2>1, <2>6, <3>3 DEF Counted, Tallies
    <3> QED BY <3>1, <3>2, <3>3
  <2>8. applied'[k] # {} /\ allowed[w] \in applied'[k]
    BY <2>1
  <2>9. ASSUME OnePeriod(k)', NEW a \in applied'[k] PROVE Standing(k, a)'
    <3>1. a.period = allowed[w].period /\ a.period \in Int
      BY <2>8, <2>9, UsableAreInt DEF OnePeriod, RequestsOK, Allowances
    <3>2. OnTime(w) <=> now' < WindowEnd(k[2], a.period)
      BY <1>2, <1>k, <3>1 DEF OnTime
    <3>3. OnePeriod(k)
      BY <2>1, <2>9 DEF OnePeriod
    <3>4. CASE applied[k] = {}
      <4>1. ~Present(k) /\ Counted(k) = 0
        BY <3>4 DEF Window
      <4>2. CountOf(k)' = 1 /\ (OnTime(w) => Counted(k)' = 1) /\ counter'[k].ttl = 0
        BY <2>2, <2>3, <2>5, <2>7, <4>1
      <4>3. a.period > 0 => WindowEnd(k[2], a.period) = k[2] + a.period
        BY DEF WindowEnd
      <4> QED BY <3>2, <4>2, <4>3 DEF Standing
    <3>5. CASE applied[k] # {}
      <4>1. PICK b \in applied[k] : TRUE
        BY <3>5
      <4>2. b.period = a.period
        BY <2>1, <2>9, <4>1 DEF OnePeriod
      <4>3. Standing(k, b)
        BY <3>3, <4>1 DEF Window
      <4>4. Counted(k) \in Nat
        BY <2>6 DEF Counted
      <4>5. a.period > 0 => WindowEnd(k[2], a.period) = k[2] + a.period
        BY DEF WindowEnd
      <4>6. (OnTime(w) => CountOf(k)' <= Counted(k)')
            /\ (a.period > 0 /\ OnTime(w) => CountOf(k)' = Counted(k)')
        BY <2>2, <2>5, <2>7, <3>2, <4>2, <4>3, <4>4, <4>5 DEF Standing
      <4>7. Present(k)' /\ counter'[k].ttl # 0 =>
                Present(k) /\ counter'[k].ttl = counter[k].ttl
        BY <2>3
      <4> QED BY <3>2, <4>2, <4>3, <4>5, <4>6, <4>7 DEF Standing
    <3> QED BY <3>4, <3>5
  <2> QED BY <2>8, <2>9 DEF Window
<1> QED BY <1>1, <1>2

\* EXPIRE gives a counter a life that ends after its window, or deletes it.
LEMMA WindowExpires ==
    ASSUME RequestsOK, CounterOK, HistoryOK, BoundsOK, Creating, NEW w \in Workers,
           at[w] = "expire", Live(Key(w), allowed[w].period), now' = now,
           applied' = applied, NEW k \in Keys, Counted(k)' = Counted(k), Window(k)
    PROVE  Window(k)'
<1>k. Key(w) \in Keys /\ Key(w)[2] = start[w]
  BY KeyOK
<1>t. Counted(k) \in Nat
  BY DEF HistoryOK, Tallies, Counted
<1>1. CASE k # Key(w) \/ ~Present(k)
  <2>1. counter'[k] = counter[k]
    BY <1>1, LiveSets
  <2> QED BY <2>1 DEF Window, Standing, OnePeriod, CountOf, Present
<1>2. CASE k = Key(w) /\ Present(k)
  <2>1. allowed[w] \in applied[k]
    BY <1>2 DEF Creating
  <2>2. /\ counter[k].count \in Nat /\ allowed[w].period \in Int
        /\ Begun(k[2], allowed[w].period) /\ now \in Nat /\ k[2] \in Int
    BY <1>2, <1>k, UsableAreInt, StartsAreInt, ClockIsNat
       DEF CounterOK, Present, Counters, RequestsOK, Allowances, BoundsOK
  <2>3. ASSUME OnePeriod(k)', NEW a \in applied'[k] PROVE Standing(k, a)'
    <3>1. OnePeriod(k) /\ a \in applied[k] /\ a.period = allowed[w].period
      BY <2>1, <2>3 DEF OnePeriod
    <3>2. Standing(k, a)
      BY <3>1 DEF Window
    <3>3. CASE a.period > 0
      <4>1. counter'[k] = [count |-> counter[k].count, ttl |-> a.period]
        BY <1>2, <3>1, <3>3, LiveSets
      <4>2. counter'[k].count = counter[k].count /\ counter'[k].ttl = a.period
        BY <4>1
      <4>3. Present(k)'
        <5>1. counter'[k] \in [count : Nat, ttl : Nat]
          BY <2>2, <3>1, <3>3, <4>1
        <5> QED BY <5>1, NoneAssumption DEF Present
      <4>4. CountOf(k)' = CountOf(k)
        BY <1>2, <4>2, <4>3 DEF CountOf
      <4>5. now' + counter'[k].ttl >= k[2] + a.period
        BY <2>2, <3>1, <3>3, <4>2 DEF Begun
      <4> QED BY <3>2, <4>4, <4>5 DEF Standing
    <3>4. CASE ~(a.period > 0)
      <4>1. ~Present(k)'
        BY <1>2, <3>1, <3>4, LiveSets DEF Present
      <4>2. CountOf(k)' = 0
        BY <4>1 DEF CountOf
      <4> QED BY <1>t, <3>4, <4>2 DEF Standing
    <3> QED BY <3>3, <3>4
  <2> QED BY <2>1, <2>3 DEF Window
<1> QED BY <1>1, <1>2

\* A counter that goes by its age goes when its window is over.
LEMMA WindowAges ==
    ASSUME CounterOK, HistoryOK, BoundsOK, Tick, NEW k \in Keys, Window(k)
    PROVE  Window(k)'
<1>1. now' = now + 1 /\ now \in Nat /\ applied' = applied /\ tally' = tally
  BY BoundsAssumption DEF Tick, history, BoundsOK, Clock
<1>2. /\ Present(k)' <=> (Present(k) /\ counter[k].ttl # 1)
      /\ Present(k)' => /\ counter'[k].count = counter[k].count
                        /\ counter[k].ttl = 0 => counter'[k].ttl = 0
                        /\ counter[k].ttl # 0 => counter'[k].ttl = counter[k].ttl - 1
  BY TickAges
<1>3. Present(k) => counter[k].ttl \in Nat
  BY DEF CounterOK, Present, Counters
<1>4. Counted(k)' = Counted(k)
  BY <1>1 DEF Counted
<1>n. k[2] \in Int /\ Counted(k) \in Nat /\ CountOf(k) \in Nat
  <2>1. k[2] \in Int
    BY StartsAreInt DEF Keys
  <2>2. tally[k] \in Tallies
    BY DEF HistoryOK
  <2>3. Counted(k) \in Nat
    BY <2>2 DEF Tallies, Counted
  <2> QED BY <2>1, <2>3, CountOfOK
<1>5. ASSUME OnePeriod(k)', NEW a \in applied'[k] PROVE Standing(k, a)'
  <2>1. OnePeriod(k) /\ a \in applied[k] /\ a.period \in Int
    <3>1. OnePeriod(k) /\ a \in applied[k]
      BY <1>1, <1>5 DEF OnePeriod
    <3>2. a \in Allowances
      BY <3>1 DEF HistoryOK
    <3> QED BY <3>1, <3>2, UsableAreInt DEF Allowances
  <2>2. Standing(k, a)
    BY <2>1 DEF Window
  <2>3. CountOf(k)' = CountOf(k) \/ CountOf(k)' = 0
    BY <1>2 DEF CountOf
  <2>4. now' < WindowEnd(k[2], a.period) => CountOf(k)' <= Counted(k)'
    BY <1>1, <1>4, <1>n, <2>1, <2>2, <2>3 DEF Standing, WindowEnd
  <2>5. ASSUME a.period > 0, now' < k[2] + a.period PROVE CountOf(k)' = Counted(k)'
    <3>1. now < k[2] + a.period /\ now + 1 < k[2] + a.period
      BY <1>1, <1>n, <2>1, <2>5
    <3>2. Present(k) => counter[k].ttl # 1
      BY <1>1, <1>3, <1>n, <2>1, <2>2, <2>5, <3>1 DEF Standing
    <3>3. CountOf(k)' = CountOf(k)
      BY <1>2, <3>2 DEF CountOf
    <3> QED BY <1>4, <2>2, <2>5, <3>1, <3>3 DEF Standing
  <2>6. ASSUME a.period > 0, Present(k)', counter'[k].ttl # 0
        PROVE  now' + counter'[k].ttl >= k[2] + a.period
    <3>1. Present(k) /\ counter[k].ttl # 0 /\ counter'[k].ttl = counter[k].ttl - 1
          /\ counter[k].ttl \in Nat
      BY <1>2, <1>3, <2>6
    <3>2. now + counter[k].ttl >= k[2] + a.period
      BY <2>2, <2>6, <3>1 DEF Standing
    <3> QED BY <1>1, <1>n, <2>1, <3>1, <3>2
  <2> QED BY <2>4, <2>5, <2>6 DEF Standing
<1> QED BY <1>1, <1>2, <1>4, <1>5 DEF Window

LEMMA WindowStep == TypeOK /\ WindowInv /\ [Next]_vars => WindowInv'
<1> SUFFICES ASSUME TypeOK, WindowInv, [Next]_vars
             PROVE  Creating' /\ \A k \in Keys : Window(k)'
  BY DEF WindowInv
<1>0. RequestsOK /\ CounterOK /\ HistoryOK /\ BoundsOK /\ Creating
      /\ \A k \in Keys : Window(k)
  BY TypeParts DEF WindowInv
<1>s. ASSUME UNCHANGED <<now, counter, history>> PROVE \A k \in Keys : Window(k)'
  BY <1>s, <1>0, WindowSame DEF history
<1>c. ASSUME NEW w \in Workers, UNCHANGED applied,
             \/ Return(w)
             \/ \E l \in Labels \ {"expire"} : Goto(w, l)
             \/ \E c, a : Count(w, c, a)
             \/ \E u \in Members : /\ at' = [at EXCEPT ![w] = "tier"]
                                   /\ client' = [client EXCEPT ![w] = u]
                                   /\ UNCHANGED <<start, allowed>>
      PROVE  Creating'
  <2>1. at'[w] # "expire"
    BY <1>c, <1>0, NotExpiring
  <2>2. \A x \in Workers : x # w =>
            at'[x] = at[x] /\ Key(x)' = Key(x) /\ allowed'[x] = allowed[x]
    BY <1>c, <1>0, OthersStay
  <2> QED BY <1>c, <1>0, <2>1, <2>2 DEF Creating
<1>1. CASE UNCHANGED vars
  BY <1>1, <1>0, <1>s DEF vars, Creating, Key, request, history
<1>2. ASSUME NEW w \in Workers, Arrive(w) PROVE WindowInv'
  BY <1>2, <1>s, <1>c DEF Arrive, WindowInv, history
<1>3. ASSUME NEW w \in Workers, ReadTier(w) PROVE WindowInv'
  <2>1. (\E l \in Labels \ {"expire"} : Goto(w, l)) \/ \E c, a : Count(w, c, a)
    BY <1>3 DEF ReadTier, Labels
  <2> QED BY <1>3, <1>s, <1>c, <2>1 DEF ReadTier, WindowInv, history
<1>4. ASSUME NEW w \in Workers, ReadLimit(w) PROVE WindowInv'
  <2>1. \E c, a : Count(w, c, a)
    BY <1>4 DEF ReadLimit
  <2> QED BY <1>4, <1>s, <1>c, <2>1 DEF ReadLimit, WindowInv, history
<1>5. ASSUME NEW w \in Workers, Incr(w) PROVE WindowInv'
  <2>1. /\ at[w] # "idle" /\ now' = now /\ Increment(Key(w))
        /\ \E o \in {"passed", "refused", "lost"} : Note(w, o)
        /\ Return(w) \/ Goto(w, "expire")
    BY <1>5 DEF Incr
  <2>2. \A k \in Keys : Window(k)'
    BY <1>0, <2>1, WindowCounts
  <2>3. /\ applied'[Key(w)] = applied[Key(w)] \cup {allowed[w]}
        /\ \A k \in Keys : k # Key(w) => applied'[k] = applied[k]
    BY <1>0, <2>1, NoteOK
  <2>4. \A x \in Workers : x # w =>
            at'[x] = at[x] /\ Key(x)' = Key(x) /\ allowed'[x] = allowed[x]
    BY <1>0, <2>1, OthersStay DEF Labels
  <2>5. \A x \in Workers : at[x] = "expire" => Key(x) \in Keys
    BY <1>0, KeyOK
  <2>6. \A x \in Workers : x # w /\ at'[x] = "expire" => allowed'[x] \in applied'[Key(x)']
    BY <1>0, <2>3, <2>4, <2>5 DEF Creating
  <2>7. at'[w] = "expire" => allowed'[w] \in applied'[Key(w)']
    <3>1. CASE Return(w)
      BY <1>0, <3>1, NotExpiring
    <3>2. CASE Goto(w, "expire")
      BY <2>3, <3>2 DEF Goto, Key
    <3> QED BY <2>1, <3>1, <3>2
  <2> QED BY <2>2, <2>6, <2>7 DEF Creating, WindowInv, Key
<1>6. ASSUME NEW w \in Workers, Expire(w) PROVE WindowInv'
  <2>1. \A k \in Keys : Window(k)'
    BY <1>6, <1>0, WindowExpires DEF Expire, Counted
  <2> QED BY <1>6, <1>c, <2>1 DEF Expire, WindowInv
<1>7. ASSUME NEW w \in Workers, Fail(w) PROVE WindowInv'
  BY <1>7, <1>s, <1>c DEF Fail, WindowInv, history
<1>11. ASSUME NEW w \in Workers, ExpireFails(w) PROVE WindowInv'
  <2>1. now' = now /\ applied' = applied /\ \A k \in Keys : Counted(k)' = Counted(k)
    BY <1>11, <1>0, LoseOK DEF ExpireFails
  <2>2. CASE Live(Key(w), allowed[w].period)
    <3>1. \A k \in Keys : Window(k)'
      BY <1>11, <1>0, <2>1, <2>2, WindowExpires DEF ExpireFails
    <3> QED BY <1>11, <1>c, <3>1 DEF ExpireFails, WindowInv
  <2>3. CASE counter' = counter
    <3>1. \A k \in Keys : Window(k)'
      BY <1>0, <2>1, <2>3 DEF Window, Standing, OnePeriod, CountOf, Present
    <3> QED BY <1>11, <1>c, <3>1 DEF ExpireFails, WindowInv
  <2> QED BY <1>11, <2>2, <2>3 DEF ExpireFails
<1>8. ASSUME NEW w \in Workers, IncrUnacknowledged(w) PROVE WindowInv'
  <2>1. /\ at[w] # "idle" /\ now' = now /\ Increment(Key(w)) /\ Note(w, "lost")
        /\ Return(w)
    BY <1>8 DEF IncrUnacknowledged
  <2>2. \A k \in Keys : Window(k)'
    BY <1>0, <2>1, WindowCounts
  <2>3. \A k \in Keys : applied[k] \subseteq applied'[k]
    BY <1>0, <2>1, NoteOK
  <2>4. \A x \in Workers : x # w =>
            at'[x] = at[x] /\ Key(x)' = Key(x) /\ allowed'[x] = allowed[x]
    BY <1>0, <2>1, OthersStay
  <2>5. at'[w] # "expire"
    BY <1>0, <2>1, NotExpiring
  <2>6. \A x \in Workers : at[x] = "expire" => Key(x) \in Keys
    BY <1>0, KeyOK
  <2> QED BY <1>0, <2>2, <2>3, <2>4, <2>5, <2>6 DEF Creating, WindowInv
<1>9. CASE Administer
  BY <1>9, <1>0, <1>s, AdministerSame DEF Creating, Key, request, history, WindowInv
<1>10. CASE Tick
  BY <1>10, <1>0, WindowAges DEF Tick, Creating, Key, request, history, WindowInv
<1> QED
  BY <1>1, <1>2, <1>3, <1>4, <1>5, <1>6, <1>7, <1>8, <1>9, <1>10, <1>11
     DEF Next, Serve, WindowInv

LEMMA WindowAlways == Spec => []WindowInv
<1>1. Init => WindowInv
  BY DEF Init, WindowInv, Window, Creating, Counted, Present
<1> QED BY <1>1, WindowStep, TypeStep, TypeCorrect, PTL DEF Spec

-----------------------------------------------------------------------------
(* What passes and what is refused.                                        *)

Bounded(k) ==
    OnePeriod(k) /\ Positive(k) /\ tally[k].passed > 0 =>
        \E a \in applied[k] : tally[k].passed <= a.limit
Earned(k) ==
    \A a \in applied[k] : applied[k] = {a} /\ tally[k].refused > 0 =>
        tally[k].passed + tally[k].lost >= a.limit

LEMMA LimitParts == /\ WithinLimit <=> \A k \in Keys : Bounded(k)
                    /\ NoneRefusedEarly <=> \A k \in Keys : Earned(k)
BY DEF WithinLimit, NoneRefusedEarly, Bounded, Earned

\* The counter a request compares with its limit counts whoever passed before it.
LEMMA LimitCounts ==
    ASSUME RequestsOK, CounterOK, HistoryOK, BoundsOK, NEW w \in Workers, at[w] # "idle",
           NEW o \in {"passed", "refused", "lost"}, Note(w, o),
           o = "passed" => Within(w), o = "refused" => ~Within(w),
           NEW k \in Keys, Window(k), Bounded(k), Earned(k)
    PROVE  Bounded(k)' /\ Earned(k)'
<1>k. Key(w) \in Keys /\ Key(w)[2] = start[w]
  BY KeyOK
<1>1. CASE k # Key(w)
  BY <1>1, <1>k, NoteOK DEF Bounded, Earned, OnePeriod, Positive
<1>2. CASE k = Key(w)
  <2>1. /\ applied'[k] = applied[k] \cup {allowed[w]}
        /\ ~OnTime(w) => tally'[k] = tally[k]
        /\ OnTime(w) => tally'[k] = [tally[k] EXCEPT ![o] = tally[k][o] + 1]
    BY <1>2, <1>k, NoteOK
  <2>2. CountOf(k) \in Nat /\ (CountOf(k) = 0 <=> ~Present(k)) /\ allowed[w].limit \in Int
    BY CountOfOK DEF RequestsOK, Allowances
  <2>3. /\ tally[k].passed \in Nat /\ tally[k].refused \in Nat /\ tally[k].lost \in Nat
        /\ tally[k] \in Tallies
    BY DEF HistoryOK, Tallies
  <2>4. /\ OnTime(w) /\ o = "passed" => /\ tally'[k].passed = tally[k].passed + 1
                                        /\ tally'[k].refused = tally[k].refused
                                        /\ tally'[k].lost = tally[k].lost
        /\ OnTime(w) /\ o = "refused" => /\ tally'[k].passed = tally[k].passed
                                         /\ tally'[k].refused = tally[k].refused + 1
                                         /\ tally'[k].lost = tally[k].lost
        /\ OnTime(w) /\ o = "lost" => /\ tally'[k].passed = tally[k].passed
                                      /\ tally'[k].refused = tally[k].refused
                                      /\ tally'[k].lost = tally[k].lost + 1
    <3>1. CASE o = "passed"
      BY <2>1, <2>3, <3>1 DEF Tallies
    <3>2. CASE o = "refused"
      BY <2>1, <2>3, <3>2 DEF Tallies
    <3>3. CASE o = "lost"
      BY <2>1, <2>3, <3>3 DEF Tallies
    <3> QED BY <3>1, <3>2, <3>3
  \* On time, the counter stands for the tally, as long as the period is one.
  <2>5. ASSUME OnePeriod(k)', OnTime(w)
        PROVE  CountOf(k) <= Counted(k) /\ (Positive(k)' => CountOf(k) = Counted(k))
    <3>1. CASE applied[k] = {}
      BY <2>2, <3>1 DEF Window
    <3>2. CASE applied[k] # {}
      <4>1. PICK b \in applied[k] : TRUE
        BY <3>2
      <4>2. b.period = allowed[w].period /\ OnePeriod(k)
        BY <2>1, <2>5, <4>1 DEF OnePeriod
      <4>3. Standing(k, b) /\ now < WindowEnd(k[2], b.period)
        BY <1>2, <1>k, <2>5, <4>1, <4>2 DEF Window, OnTime
      <4>4. Positive(k)' => b.period > 0
        BY <2>1, <4>1 DEF Positive
      <4> QED BY <4>3, <4>4 DEF Standing, WindowEnd
    <3> QED BY <3>1, <3>2
  <2>6. Bounded(k)'
    <3> SUFFICES ASSUME OnePeriod(k)', Positive(k)', tally'[k].passed > 0
                 PROVE  \E a \in applied'[k] : tally'[k].passed <= a.limit
      BY DEF Bounded
    <3>1. OnePeriod(k) /\ Positive(k)
      BY <2>1 DEF OnePeriod, Positive
    <3>2. CASE OnTime(w) /\ o = "passed"
      <4>1. CountOf(k) = tally[k].passed + tally[k].refused + tally[k].lost
        BY <2>5, <3>2 DEF Counted
      <4>2. CountOf(k) + 1 <= allowed[w].limit
        BY <1>2, <3>2 DEF Within
      <4>3. tally'[k].passed <= allowed[w].limit
        BY <2>2, <2>3, <2>4, <3>2, <4>1, <4>2
      <4> QED BY <2>1, <4>3
    <3>3. CASE ~(OnTime(w) /\ o = "passed")
      <4>1. tally'[k].passed = tally[k].passed
        BY <2>1, <2>4, <3>3
      <4>2. PICK a \in applied[k] : tally[k].passed <= a.limit
        BY <3>1, <4>1 DEF Bounded
      <4> QED BY <2>1, <4>1, <4>2
    <3> QED BY <3>2, <3>3
  <2>7. Earned(k)'
    <3> SUFFICES ASSUME NEW a \in applied'[k], applied'[k] = {a}, tally'[k].refused > 0
                 PROVE  tally'[k].passed + tally'[k].lost >= a.limit
      BY DEF Earned
    <3>1. a = allowed[w] /\ (applied[k] = {a} \/ applied[k] = {})
      BY <2>1
    <3>2. OnePeriod(k)'
      BY DEF OnePeriod
    <3>3. CASE tally[k].refused > 0
      <4>1. applied[k] # {}
        BY <2>3, <3>3 DEF Window, Counted
      <4>2. tally[k].passed + tally[k].lost >= a.limit
        BY <3>1, <3>3, <4>1 DEF Earned
      <4> QED BY <2>1, <2>2, <2>3, <2>4, <3>1, <4>2
    <3>4. CASE ~(tally[k].refused > 0)
      <4>1. OnTime(w) /\ o = "refused" /\ tally[k].refused = 0
        BY <2>1, <2>3, <2>4, <3>4
      <4>2. CountOf(k) <= tally[k].passed + tally[k].refused + tally[k].lost
        BY <2>5, <3>2, <4>1 DEF Counted
      <4>3. ~(CountOf(k) + 1 <= allowed[w].limit)
        BY <1>2, <4>1 DEF Within
      <4> QED BY <2>2, <2>3, <2>4, <3>1, <4>1, <4>2, <4>3
    <3> QED BY <3>3, <3>4
  <2> QED BY <2>6, <2>7
<1> QED BY <1>1, <1>2

LEMMA LimitStep ==
    TypeOK /\ WindowInv /\ (\A k \in Keys : Bounded(k) /\ Earned(k)) /\ [Next]_vars
    => (\A k \in Keys : Bounded(k) /\ Earned(k))'
<1> SUFFICES ASSUME TypeOK, WindowInv, \A k \in Keys : Bounded(k) /\ Earned(k),
                    [Next]_vars, NEW k \in Keys
             PROVE  Bounded(k)' /\ Earned(k)'
  OBVIOUS
<1>0. RequestsOK /\ CounterOK /\ HistoryOK /\ BoundsOK /\ Window(k)
  BY TypeParts DEF WindowInv
<1>1. CASE UNCHANGED <<tally, applied>>
  BY <1>1 DEF Bounded, Earned, OnePeriod, Positive
<1>2. ASSUME NEW w \in Workers, Incr(w) PROVE Bounded(k)' /\ Earned(k)'
  <2>1. at[w] # "idle" /\ Note(w, IF Within(w) THEN "passed" ELSE "refused")
    BY <1>2 DEF Incr
  <2>2. CASE Within(w)
    BY <1>0, <2>1, <2>2, LimitCounts
  <2>3. CASE ~Within(w)
    BY <1>0, <2>1, <2>3, LimitCounts
  <2> QED BY <2>2, <2>3
<1>3. ASSUME NEW w \in Workers, IncrUnacknowledged(w) PROVE Bounded(k)' /\ Earned(k)'
  <2>1. at[w] # "idle" /\ Note(w, "lost")
    BY <1>3 DEF IncrUnacknowledged
  <2> QED BY <1>0, <2>1, LimitCounts
<1>4. ASSUME NEW w \in Workers, ExpireFails(w) PROVE Bounded(k)' /\ Earned(k)'
  <2>1. /\ applied' = applied
        /\ tally' \in [Keys -> Tallies]
        /\ tally'[k].passed <= tally[k].passed /\ tally'[k].refused <= tally[k].refused
        /\ tally'[k].passed + tally'[k].lost >= tally[k].passed + tally[k].lost
    BY <1>4, <1>0, LoseOK DEF ExpireFails
  <2>2. /\ tally[k].passed \in Nat /\ tally[k].refused \in Nat /\ tally[k].lost \in Nat
        /\ tally'[k].passed \in Nat /\ tally'[k].refused \in Nat
        /\ tally'[k].lost \in Nat
    BY <1>0, <2>1 DEF HistoryOK, Tallies
  <2>3. \A a \in applied[k] : a.limit \in Int
    BY <1>0 DEF HistoryOK, Allowances
  <2>4. Bounded(k)'
    <3> SUFFICES ASSUME OnePeriod(k)', Positive(k)', tally'[k].passed > 0
                 PROVE  \E a \in applied'[k] : tally'[k].passed <= a.limit
      BY DEF Bounded
    <3>1. OnePeriod(k) /\ Positive(k) /\ tally[k].passed > 0
      BY <2>1, <2>2 DEF OnePeriod, Positive
    <3>2. PICK a \in applied[k] : tally[k].passed <= a.limit
      BY <3>1 DEF Bounded
    <3> QED BY <2>1, <2>2, <2>3, <3>2
  <2>5. Earned(k)'
    <3> SUFFICES ASSUME NEW a \in applied'[k], applied'[k] = {a}, tally'[k].refused > 0
                 PROVE  tally'[k].passed + tally'[k].lost >= a.limit
      BY DEF Earned
    <3>1. tally[k].passed + tally[k].lost >= a.limit
      BY <2>1, <2>2 DEF Earned
    <3> QED BY <2>1, <2>2, <2>3, <3>1
  <2> QED BY <2>4, <2>5
<1>5. \/ UNCHANGED <<tally, applied>>
      \/ \E w \in Workers : Incr(w) \/ IncrUnacknowledged(w) \/ ExpireFails(w)
  BY AdministerSame
     DEF Next, Serve, Arrive, ReadTier, ReadLimit, Expire, Fail, Tick, vars, history
<1> QED BY <1>1, <1>2, <1>3, <1>4, <1>5

LEMMA LimitsAlways == Spec => [](\A k \in Keys : Bounded(k) /\ Earned(k))
<1>1. Init => \A k \in Keys : Bounded(k) /\ Earned(k)
  BY DEF Init, Bounded, Earned
<1> QED BY <1>1, LimitStep, WindowAlways, TypeCorrect, PTL DEF Spec

\* In a window whose period is positive and does not change, no more requests pass than
\* the largest limit applied to it, for any number of concurrent requests and failed
\* commands.
THEOREM NoMoreThanTheLimit == Spec => []WithinLimit
<1>1. (\A k \in Keys : Bounded(k) /\ Earned(k)) => WithinLimit
  BY LimitParts
<1> QED BY <1>1, LimitsAlways, PTL

\* With one limit and one period, whatever integers, a refusal means that the limit was
\* used up.
THEOREM NoLessThanTheLimit == Spec => []NoneRefusedEarly
<1>1. (\A k \in Keys : Bounded(k) /\ Earned(k)) => NoneRefusedEarly
  BY LimitParts
<1> QED BY <1>1, LimitsAlways, PTL

-----------------------------------------------------------------------------
(* Expiry.                                                                 *)

Endless(k) == Present(k) /\ counter[k].ttl = 0
Ending(k) == \E w \in Workers : at[w] = "expire" /\ Key(w) = k

LEMMA ExpireStep == TypeOK /\ CountersExpire /\ [Next]_vars => CountersExpire'
<1> SUFFICES ASSUME TypeOK, CountersExpire, [Next]_vars, failures' = 0,
                    NEW k \in Keys, Endless(k)'
             PROVE  Ending(k)'
  BY DEF CountersExpire, Endless, Ending
<1>0. RequestsOK /\ CounterOK /\ HistoryOK /\ BoundsOK
  BY TypeParts
<1>x. failures = 0 /\ Endless(k) => Ending(k)
  BY DEF CountersExpire, Endless, Ending
<1>s. ASSUME failures' = failures, Endless(k), Ending(k) => Ending(k)' PROVE Ending(k)'
  BY <1>s, <1>x
<1>e. counter'[k] = counter[k] => Endless(k)
  BY DEF Endless, Present
<1>w. ASSUME NEW w \in Workers, at[w] # "expire",
             \/ Return(w)
             \/ \E l \in Labels : Goto(w, l)
             \/ \E c, a : Count(w, c, a)
             \/ \E u \in Members : /\ at' = [at EXCEPT ![w] = "tier"]
                                   /\ client' = [client EXCEPT ![w] = u]
                                   /\ UNCHANGED <<start, allowed>>
      PROVE  Ending(k) => Ending(k)'
  <2>1. \A x \in Workers : x # w => at'[x] = at[x] /\ Key(x)' = Key(x)
    BY <1>w, <1>0, OthersStay
  <2> QED BY <1>w, <2>1 DEF Ending
<1>1. CASE UNCHANGED vars
  BY <1>1, <1>s, <1>e DEF vars, request, Ending, Key
<1>2. ASSUME NEW w \in Workers, Arrive(w) PROVE Ending(k)'
  <2>1. at[w] # "expire" /\ counter' = counter /\ failures' = failures
    BY <1>2 DEF Arrive
  <2>2. \/ \E c, a : Count(w, c, a)
        \/ \E u \in Members : /\ at' = [at EXCEPT ![w] = "tier"]
                              /\ client' = [client EXCEPT ![w] = u]
                              /\ UNCHANGED <<start, allowed>>
    BY <1>2 DEF Arrive
  <2>3. Ending(k) => Ending(k)'
    BY <2>1, <2>2, <1>w
  <2> QED BY <2>1, <2>3, <1>s, <1>e
<1>3. ASSUME NEW w \in Workers, ReadTier(w) PROVE Ending(k)'
  <2>1. at[w] # "expire" /\ counter' = counter /\ failures' = failures
        /\ ((\E l \in Labels : Goto(w, l)) \/ \E c, a : Count(w, c, a))
    BY <1>3 DEF ReadTier, Labels
  <2> QED BY <2>1, <1>s, <1>e, <1>w
<1>4. ASSUME NEW w \in Workers, ReadLimit(w) PROVE Ending(k)'
  <2>1. at[w] # "expire" /\ counter' = counter /\ failures' = failures
        /\ \E c, a : Count(w, c, a)
    BY <1>4 DEF ReadLimit
  <2> QED BY <2>1, <1>s, <1>e, <1>w
<1>5. ASSUME NEW w \in Workers, Incr(w) PROVE Ending(k)'
  <2>k. Key(w) \in Keys /\ at[w] # "expire" /\ failures' = failures
    BY <1>5, <1>0, KeyOK DEF Incr
  <2>1. Return(w) \/ \E l \in Labels : Goto(w, l)
    BY <1>5 DEF Incr, Labels
  <2>2. CASE k # Key(w)
    <3>1. counter'[k] = counter[k]
      BY <1>5, <1>0, <2>2, <2>k, IncrementOK DEF Incr
    <3> QED BY <2>k, <2>1, <3>1, <1>s, <1>e, <1>w
  <2>3. CASE k = Key(w) /\ Present(k)
    <3> DEFINE old == IF Present(k) THEN counter[k].ttl ELSE 0
    <3>0. counter'[k] = [count |-> CountOf(k) + 1, ttl |-> old]
      BY <1>5, <1>0, <2>3, <2>k, IncrementOK DEF Incr
    <3>a. old = counter[k].ttl
      BY <2>3
    <3> HIDE DEF old
    <3>1. counter'[k].ttl = counter[k].ttl
      BY <3>0, <3>a
    <3>2. Endless(k)
      BY <2>3, <3>1 DEF Endless
    <3> QED BY <2>k, <2>1, <3>2, <1>s, <1>w
  <2>4. CASE k = Key(w) /\ ~Present(k)
    <3>1. Goto(w, "expire")
      BY <1>5, <1>0, <2>4, CountOfOK DEF Incr
    <3>2. at'[w] = "expire" /\ Key(w)' = Key(w)
      BY <3>1, <1>0 DEF Goto, RequestsOK, Key
    <3> QED BY <2>4, <3>2 DEF Ending
  <2> QED BY <2>2, <2>3, <2>4
<1>6. ASSUME NEW w \in Workers, Expire(w) PROVE Ending(k)'
  <2>k. Key(w) \in Keys /\ failures' = failures /\ Return(w)
    BY <1>6, <1>0, KeyOK DEF Expire
  <2>1. CASE k # Key(w)
    <3>1. counter'[k] = counter[k]
      BY <1>6, <1>0, <2>1, LiveSets DEF Expire
    <3>2. \A x \in Workers : x # w => at'[x] = at[x] /\ Key(x)' = Key(x)
      BY <2>k, <1>0, OthersStay
    <3>3. Ending(k) => Ending(k)'
      BY <2>1, <3>2 DEF Ending
    <3> QED BY <2>k, <3>1, <3>3, <1>s, <1>e
  <2>2. CASE k = Key(w) /\ ~Present(k)
    <3>1. counter'[k] = counter[k]
      BY <1>6, <1>0, <2>2, <2>k, LiveSets DEF Expire
    <3> QED BY <2>2, <3>1 DEF Endless, Present
  <2>3. CASE k = Key(w) /\ Present(k) /\ allowed[w].period > 0
    <3>1. counter'[k] = [count |-> counter[k].count, ttl |-> allowed[w].period]
      BY <1>6, <1>0, <2>3, <2>k, LiveSets DEF Expire
    <3>2. counter'[k].ttl = allowed[w].period
      BY <3>1
    <3>3. allowed[w].period # 0
      BY <1>0, UsableAreInt DEF RequestsOK, Allowances
    <3>4. counter'[k].ttl = 0
      BY Zenon DEF Endless
    <3> QED BY <3>2, <3>3, <3>4
  <2>4. CASE k = Key(w) /\ Present(k) /\ ~(allowed[w].period > 0)
    <3>1. counter'[k] = None
      BY <1>6, <1>0, <2>4, <2>k, LiveSets DEF Expire
    <3> QED BY <3>1 DEF Endless, Present
  <2> QED BY <2>1, <2>2, <2>3, <2>4
<1>7. ASSUME NEW w \in Workers, Fail(w) PROVE Ending(k)'
  BY <1>7, <1>0 DEF Fail, Failure, BoundsOK
<1>8. ASSUME NEW w \in Workers, IncrUnacknowledged(w) PROVE Ending(k)'
  BY <1>8, <1>0 DEF IncrUnacknowledged, Failure, BoundsOK
<1>11. ASSUME NEW w \in Workers, ExpireFails(w) PROVE Ending(k)'
  BY <1>11, <1>0 DEF ExpireFails, Failure, BoundsOK
<1>9. CASE Administer
  BY <1>9, <1>s, <1>e, AdministerSame DEF request, Ending, Key
<1>10. CASE Tick
  <2>1. Present(k) /\ counter[k].ttl # 1
        /\ (counter[k].ttl # 0 => counter'[k].ttl = counter[k].ttl - 1)
    BY <1>10, <1>0, TickAges DEF Endless
  <2>2. counter[k].ttl \in Nat
    BY <1>0, <2>1 DEF CounterOK, Present, Counters
  <2>3. counter'[k].ttl = 0
    BY Zenon DEF Endless
  <2>4. Endless(k)
    BY <2>1, <2>2, <2>3 DEF Endless
  <2> QED BY <1>10, <2>4, <1>s DEF Tick, request, Ending, Key
<1> QED
  BY <1>1, <1>2, <1>3, <1>4, <1>5, <1>6, <1>7, <1>8, <1>9, <1>10, <1>11 DEF Next, Serve

\* As long as no command fails, every counter gets a life.
THEOREM NoCounterForEver == Spec => []CountersExpire
<1>1. Init => CountersExpire
  BY DEF Init, CountersExpire, Present
<1> QED BY <1>1, ExpireStep, TypeCorrect, PTL DEF Spec
=============================================================================
