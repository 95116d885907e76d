------------------------------ MODULE RateLimiter ------------------------------
(***************************************************************************)
(* The rate limiter of the task endpoint and the tables it takes its limit *)
(* from.  A request reads the tier of the user, then the row of the tier,  *)
(* then the limit for the path, computes the window it falls into and      *)
(* counts itself in Redis; the request that finds 1 gives the counter a    *)
(* life.  Every read and every command is awaited, so requests, changes of *)
(* the tables and time go on between any two of them.                      *)
(*                                                                         *)
(* Each change of the tables is one action: what a handler looks up before *)
(* its statement is either checked again by the statement (ids, references *)
(* and unique names are the database's) or cannot change (the tier of a    *)
(* limit).  Names and the other columns are left out.                      *)
(***************************************************************************)
EXTENDS Integers, FiniteSets

CONSTANTS
    Workers,         \* requests that are served at the same time
    Members,         \* users that sign in
    Visitors,        \* hosts of requests without a user
    Tiers,           \* ids of tiers
    Rows,            \* ids of rate limits
    Amounts,         \* values of `limit`: the schema takes any integer
    Periods,         \* values of `period`, in ticks: any integer too
    DEFAULT_LIMIT,   \* DEFAULT_RATE_LIMIT_LIMIT
    DEFAULT_PERIOD,  \* DEFAULT_RATE_LIMIT_PERIOD
    MAX_TIME,        \* bound: the clock
    MAX_REQUESTS,    \* bound: requests
    MAX_CHANGES,     \* bound: changes of the tables
    MAX_FAILURES,    \* bound: requests that stop at a failed command
    None             \* None, and Redis's nil

ASSUME ValuesAssumption == Amounts \subseteq Int /\ Periods \subseteq Int
ASSUME DefaultAssumption == DEFAULT_LIMIT \in Int /\ DEFAULT_PERIOD \in Int \ {0}
ASSUME BoundsAssumption == /\ MAX_TIME \in Nat /\ MAX_REQUESTS \in Nat
                           /\ MAX_CHANGES \in Nat /\ MAX_FAILURES \in Nat
ASSUME NoneAssumption == None \notin Tiers /\ None \notin [count : Nat, ttl : Nat]

Clients == Members \cup Visitors
Clock == 0..MAX_TIME
\* Python's %: the result has the sign of the divisor.
Modulo(n, d) == IF d > 0 THEN n % d ELSE -((-n) % (-d))
\* The start of the window a time falls into.  With a negative period it is the first
\* multiple of the period that is not before the time: the window ends at its start.
WindowStart(time, period) == time - Modulo(time, period)
\* A period of 0 makes the computation raise.
UsablePeriods == (Periods \cup {DEFAULT_PERIOD}) \ {0}
Starts == {0} \cup {WindowStart(time, period) : time \in Clock, period \in UsablePeriods}
\* The key `ratelimit:{user_id}:{path}:{window_start}`.
Keys == Clients \X Starts
\* A limit is for the path of the task endpoint or for another one.
Limits == [tier : Tiers, path : {"task", "other"}, limit : Amounts, period : Periods]
\* A ttl of 0 is that of a key without an expiry.
Counters == [count : Nat \ {0}, ttl : Nat]
\* History: what became of the requests counted before the end of their window.
Tallies == [passed : Nat, refused : Nat, lost : Nat]
Allowances == [limit : Int, period : UsablePeriods]

VARIABLES
    now,       \* the time
    tiers,     \* whether a tier is yet to be written, in the table, or deleted
    tierOf,    \* tier_id of a user
    row,       \* rows of the table of rate limits
    counter,   \* the Redis keys
    at,        \* the read or the command a request is about to send
    tier,      \* the tier_id it has read
    client,    \* user_id: the user, or the host of a visitor
    start,     \* window_start
    allowed,   \* the limit and the period it is judged by
    tally,     \* history, see Tallies
    applied,   \* history: the allowances with which a key was counted
    noted,     \* history: whether a request about to send EXPIRE is in the tally
    requests, changes, failures

tables == <<tiers, tierOf, row>>
request == <<at, tier, client, start, allowed>>
history == <<tally, applied, noted>>
vars == <<now, tables, counter, request, history, requests, changes, failures>>

Default == [limit |-> DEFAULT_LIMIT, period |-> DEFAULT_PERIOD]

Init ==
    /\ now = 0
    /\ tiers = [t \in Tiers |-> "new"]
    /\ tierOf = [u \in Members |-> None]
    /\ row = [r \in Rows |-> None]
    /\ counter = [k \in Keys |-> None]
    /\ at = [w \in Workers |-> "idle"]
    /\ tier = [w \in Workers |-> None]
    /\ client = [w \in Workers |-> None]
    /\ start = [w \in Workers |-> 0]
    /\ allowed = [w \in Workers |-> Default]
    /\ tally = [k \in Keys |-> [passed |-> 0, refused |-> 0, lost |-> 0]]
    /\ applied = [k \in Keys |-> {}]
    /\ noted = [w \in Workers |-> FALSE]
    /\ requests = 0
    /\ changes = 0
    /\ failures = 0

Goto(w, label) == at' = [at EXCEPT ![w] = label] /\ UNCHANGED <<tier, client, start, allowed>>
\* The request is let through, refused or answered with an error.
Return(w) ==
    /\ at' = [at EXCEPT ![w] = "idle"]
    /\ tier' = [tier EXCEPT ![w] = None]
    /\ client' = [client EXCEPT ![w] = None]
    /\ start' = [start EXCEPT ![w] = 0]
    /\ allowed' = [allowed EXCEPT ![w] = Default]

-----------------------------------------------------------------------------
(* rate_limiter_dependency. *)

Count(w, c, allowance) ==
    IF allowance.period = 0 THEN Return(w)
    ELSE /\ at' = [at EXCEPT ![w] = "incr"]
         /\ client' = [client EXCEPT ![w] = c]
         /\ start' = [start EXCEPT ![w] = WindowStart(now, allowance.period)]
         /\ allowed' = [allowed EXCEPT ![w] = allowance]
         /\ tier' = [tier EXCEPT ![w] = None]

Arrive(w) ==
    /\ at[w] = "idle"
    /\ requests < MAX_REQUESTS
    /\ requests' = requests + 1
    /\ \/ \E u \in Members :
            /\ at' = [at EXCEPT ![w] = "tier"]
            /\ tier' = [tier EXCEPT ![w] = tierOf[u]]
            /\ client' = [client EXCEPT ![w] = u]
            /\ UNCHANGED <<start, allowed>>
       \/ \E v \in Visitors : Count(w, v, Default)
    /\ UNCHANGED <<now, tables, counter, history, changes, failures>>

ReadTier(w) ==
    /\ at[w] = "tier"
    /\ IF tier[w] # None /\ tiers[tier[w]] = "live" THEN Goto(w, "limit")
       ELSE Count(w, client[w], Default)
    /\ UNCHANGED <<now, tables, counter, history, requests, changes, failures>>

\* Nothing keeps a tier from having several limits for a path: any may be returned.
Matching(t) == {row[r] : r \in {q \in Rows : /\ row[q] # None
                                             /\ row[q].tier = t
                                             /\ row[q].path = "task"}}

ReadLimit(w) ==
    /\ at[w] = "limit"
    /\ IF Matching(tier[w]) = {} THEN Count(w, client[w], Default)
       ELSE \E l \in Matching(tier[w]) :
                Count(w, client[w], [limit |-> l.limit, period |-> l.period])
    /\ UNCHANGED <<now, tables, counter, history, requests, changes, failures>>

Key(w) == <<client[w], start[w]>>
Present(k) == counter[k] # None
CountOf(k) == IF Present(k) THEN counter[k].count ELSE 0
\* The first time that is no longer in the window.
WindowEnd(first, period) == IF period > 0 THEN first + period ELSE first + 1
\* The command arrives before the window ends.
OnTime(w) == now < WindowEnd(start[w], allowed[w].period)

\* INCR keeps the life of a key and creates one without.
Increment(k) ==
    counter' = [counter EXCEPT ![k] =
                  [count |-> CountOf(k) + 1,
                   ttl |-> IF Present(k) THEN counter[k].ttl ELSE 0]]
Note(w, outcome) ==
    /\ applied' = [applied EXCEPT ![Key(w)] = applied[Key(w)] \cup {allowed[w]}]
    /\ tally' = IF ~OnTime(w) THEN tally
                ELSE [tally EXCEPT ![Key(w)] =
                        [tally[Key(w)] EXCEPT ![outcome] = tally[Key(w)][outcome] + 1]]
    /\ noted' = [noted EXCEPT ![w] = OnTime(w) /\ outcome # "lost" /\ CountOf(Key(w)) = 0]

(* Mutant of Within: ">=" for ">".                                         *)
WithinStrictly(w) == CountOf(Key(w)) + 1 < allowed[w].limit

Within(w) == CountOf(Key(w)) + 1 <= allowed[w].limit

(* Mutant of Incr: a request that is refused does not go on to EXPIRE.     *)
IncrRefusedFirst(w) ==
    /\ at[w] = "incr"
    /\ Increment(Key(w))
    /\ Note(w, IF Within(w) THEN "passed" ELSE "refused")
    /\ IF CountOf(Key(w)) = 0 /\ Within(w) THEN Goto(w, "expire") ELSE Return(w)
    /\ UNCHANGED <<now, tables, requests, changes, failures>>

Incr(w) ==
    /\ at[w] = "incr"
    /\ Increment(Key(w))
    /\ Note(w, IF Within(w) THEN "passed" ELSE "refused")
    /\ IF CountOf(Key(w)) = 0 THEN Goto(w, "expire") ELSE Return(w)
    /\ UNCHANGED <<now, tables, requests, changes, failures>>

\* EXPIRE with a life that is not positive deletes the key.
Live(k, life) ==
    counter' = IF ~Present(k) THEN counter
               ELSE [counter EXCEPT ![k] = IF life > 0 THEN [counter[k] EXCEPT !.ttl = life]
                                           ELSE None]

(* Mutant of Expire: the life of a key is a tick short.                    *)
ExpireEarly(w) ==
    /\ at[w] = "expire"
    /\ Live(Key(w), IF allowed[w].period > 1 THEN allowed[w].period - 1 ELSE 1)
    /\ Return(w)
    /\ noted' = [noted EXCEPT ![w] = FALSE]
    /\ UNCHANGED <<now, tables, tally, applied, requests, changes, failures>>

Expire(w) ==
    /\ at[w] = "expire"
    /\ Live(Key(w), allowed[w].period)
    /\ Return(w)
    /\ noted' = [noted EXCEPT ![w] = FALSE]
    /\ UNCHANGED <<now, tables, tally, applied, requests, changes, failures>>

Failure == failures < MAX_FAILURES /\ failures' = failures + 1

\* A read or INCR fails without effect; the request gets an error.
Fail(w) ==
    /\ at[w] \notin {"idle", "expire"}
    /\ Failure
    /\ Return(w)
    /\ UNCHANGED <<now, tables, counter, history, requests, changes>>

\* INCR was carried out, but its answer is lost.
IncrUnacknowledged(w) ==
    /\ at[w] = "incr"
    /\ Failure
    /\ Increment(Key(w))
    /\ Note(w, "lost")
    /\ Return(w)
    /\ UNCHANGED <<now, tables, requests, changes>>

\* The request that created the counter gets an error after all.
Lose(w) ==
    LET k == Key(w)
        outcome == IF 1 <= allowed[w].limit THEN "passed" ELSE "refused"
    IN tally' = IF ~noted[w] \/ tally[k][outcome] = 0 THEN tally
                ELSE [tally EXCEPT ![k] =
                        [tally[k] EXCEPT ![outcome] = tally[k][outcome] - 1,
                                         !.lost = tally[k].lost + 1]]

\* EXPIRE is not carried out, or is and its answer is lost; the request gets an error.
ExpireFails(w) ==
    /\ at[w] = "expire"
    /\ Failure
    /\ counter' = counter \/ Live(Key(w), allowed[w].period)
    /\ Lose(w)
    /\ Return(w)
    /\ noted' = [noted EXCEPT ![w] = FALSE]
    /\ UNCHANGED <<now, tables, applied, requests, changes>>

-----------------------------------------------------------------------------
(* Time, for the process and for Redis. *)

Aged(c) == IF c.ttl = 0 THEN c ELSE [c EXCEPT !.ttl = c.ttl - 1]

Tick ==
    /\ now < MAX_TIME
    /\ now' = now + 1
    /\ counter' = [k \in Keys |->
                     IF counter[k] = None \/ counter[k].ttl = 1 THEN None
                     ELSE Aged(counter[k])]
    /\ UNCHANGED <<tables, request, history, requests, changes, failures>>

-----------------------------------------------------------------------------
(* The tables: tiers.py, rate_limits.py, and patch_user_tier of users.py.  *)

Change ==
    /\ changes < MAX_CHANGES
    /\ changes' = changes + 1
    /\ UNCHANGED <<now, counter, request, history, requests, failures>>

WriteTier(t) ==
    /\ Change
    /\ tiers[t] = "new"
    /\ tiers' = [tiers EXCEPT ![t] = "live"]
    /\ UNCHANGED <<tierOf, row>>

(* Mutant of EraseTier: the limits of the tier do not keep it.             *)
EraseTierUnused(t) ==
    /\ Change
    /\ tiers[t] = "live"
    /\ \A u \in Members : tierOf[u] # t
    /\ tiers' = [tiers EXCEPT ![t] = "gone"]
    /\ UNCHANGED <<tierOf, row>>

\* The database refuses to delete a tier that a user or a limit names.
EraseTier(t) ==
    /\ Change
    /\ tiers[t] = "live"
    /\ \A u \in Members : tierOf[u] # t
    /\ \A r \in Rows : row[r] # None => row[r].tier # t
    /\ tiers' = [tiers EXCEPT ![t] = "gone"]
    /\ UNCHANGED <<tierOf, row>>

PatchUserTier(u, t) ==
    /\ Change
    /\ tiers[t] = "live"
    /\ tierOf' = [tierOf EXCEPT ![u] = t]
    /\ UNCHANGED <<tiers, row>>

WriteRateLimit(r) ==
    /\ Change
    /\ row[r] = None
    /\ \E l \in Limits : tiers[l.tier] = "live" /\ row' = [row EXCEPT ![r] = l]
    /\ UNCHANGED <<tiers, tierOf>>

\* Any of the columns but tier_id.
PatchRateLimit(r) ==
    /\ Change
    /\ row[r] # None
    /\ \E l \in Limits : l.tier = row[r].tier /\ row' = [row EXCEPT ![r] = l]
    /\ UNCHANGED <<tiers, tierOf>>

EraseRateLimit(r) ==
    /\ Change
    /\ row[r] # None
    /\ row' = [row EXCEPT ![r] = None]
    /\ UNCHANGED <<tiers, tierOf>>

-----------------------------------------------------------------------------
Serve(w) ==
    \/ Arrive(w) \/ ReadTier(w) \/ ReadLimit(w)
    \/ Incr(w) \/ Expire(w) \/ Fail(w) \/ IncrUnacknowledged(w) \/ ExpireFails(w)

Administer ==
    \/ \E t \in Tiers : WriteTier(t) \/ EraseTier(t)
    \/ \E u \in Members, t \in Tiers : PatchUserTier(u, t)
    \/ \E r \in Rows : WriteRateLimit(r) \/ PatchRateLimit(r) \/ EraseRateLimit(r)

Next == (\E w \in Workers : Serve(w)) \/ Administer \/ Tick

Spec == Init /\ [][Next]_vars

-----------------------------------------------------------------------------
(* Properties.                                                             *)

Begun(first, period) == IF period > 0 THEN first <= now ELSE first + period < now

\* Every variable has its type; users and limits refer to tiers that are there; the
\* window of a request has begun: it starts no later than now or, when the period is
\* negative, its start less the period is over (`rate_limit.py`, line 43).
TypeOK ==
    /\ now \in Clock
    /\ tiers \in [Tiers -> {"new", "live", "gone"}]
    /\ tierOf \in [Members -> Tiers \cup {None}]
    /\ \A u \in Members : tierOf[u] # None => tiers[tierOf[u]] = "live"
    /\ row \in [Rows -> Limits \cup {None}]
    /\ \A r \in Rows : row[r] # None => tiers[row[r].tier] = "live"
    /\ counter \in [Keys -> Counters \cup {None}]
    /\ at \in [Workers -> {"idle", "tier", "limit", "incr", "expire"}]
    /\ tier \in [Workers -> Tiers \cup {None}]
    /\ \A w \in Workers : at[w] = "limit" => tier[w] \in Tiers
    /\ client \in [Workers -> Clients \cup {None}]
    /\ \A w \in Workers : at[w] # "idle" => client[w] \in Clients
    /\ start \in [Workers -> Starts]
    /\ \A w \in Workers : Begun(start[w], allowed[w].period)
    /\ allowed \in [Workers -> Allowances]
    /\ tally \in [Keys -> Tallies]
    /\ applied \in [Keys -> SUBSET Allowances]
    /\ noted \in [Workers -> BOOLEAN]
    /\ requests \in 0..MAX_REQUESTS
    /\ changes \in 0..MAX_CHANGES
    /\ failures \in 0..MAX_FAILURES

OnePeriod(k) == \A a, b \in applied[k] : a.period = b.period
Positive(k) == \A a \in applied[k] : a.period > 0

\* No more requests pass in a window than the largest limit that was applied to it, as
\* long as the period is positive and was not changed meanwhile: the counter is there
\* until the window ends, however late it is created or given its life (`rate_limit.py`,
\* lines 43-54).  With a negative period, which the schema lets through, EXPIRE deletes
\* the counter at once and nothing is limited.
WithinLimit ==
    \A k \in Keys : OnePeriod(k) /\ Positive(k) /\ tally[k].passed > 0 =>
        \E a \in applied[k] : tally[k].passed <= a.limit

\* While limit and period stay what they are, whatever integers they are, nobody is
\* refused before as many requests were let through as the limit says, lost answers
\* counted (line 53).
NoneRefusedEarly ==
    \A k \in Keys : \A a \in applied[k] :
        applied[k] = {a} /\ tally[k].refused > 0 =>
            tally[k].passed + tally[k].lost >= a.limit

\* While no command has failed, a counter without a life belongs to the request that
\* created it and will send EXPIRE: no counter stays for ever (lines 49-51).
CountersExpire ==
    failures = 0 =>
        \A k \in Keys : Present(k) /\ counter[k].ttl = 0 =>
            \E w \in Workers : at[w] = "expire" /\ Key(w) = k
=============================================================================
