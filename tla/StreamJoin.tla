------------------------------ MODULE StreamJoin ------------------------------
(***************************************************************************)
(* What the conversion service promises, without tasks, queues, lists and  *)
(* commands: the electrical data of a sweep arrives and is kept for a      *)
(* while; a correlation is paired with the data of the sweeps it names;    *)
(* data is let go at the end of its life or once it has been used; and one *)
(* arrival is used twice at most, but for the mishaps.                     *)
(***************************************************************************)
EXTENDS Integers, Sequences

CONSTANTS
    Sweeps, Correlations,
    SweepsIds,         \* the sweeps each correlation names, in order
    Data,              \* the electrical data of each sweep
    LIFE               \* how long data is kept

VARIABLES
    life,              \* what is left of the life of the data; 0: none is kept
    arrived,           \* arrivals of each sweep's data
    used,              \* results its data went into
    mishaps,           \* uses that failures and restarts have excused
    output             \* the results

svars == <<life, arrived, used, mishaps, output>>

Named(c) == {SweepsIds[c][k] : k \in 1..Len(SweepsIds[c])}

Paired(c) == [key |-> SweepsIds[c][Len(SweepsIds[c])], corr |-> c,
              elec |-> [k \in 1..Len(SweepsIds[c]) |-> Data[SweepsIds[c][k]]]]

Init ==
    /\ life = [s \in Sweeps |-> 0]
    /\ arrived = [s \in Sweeps |-> 0]
    /\ used = [s \in Sweeps |-> 0]
    /\ mishaps = 0
    /\ output = {}

Arrive(s) ==
    /\ life' = [life EXCEPT ![s] = LIFE]
    /\ arrived' = [arrived EXCEPT ![s] = arrived[s] + 1]
    /\ UNCHANGED <<used, mishaps, output>>

Elapse ==
    /\ life' = [s \in Sweeps |-> IF life[s] = 0 THEN 0 ELSE life[s] - 1]
    /\ UNCHANGED <<arrived, used, mishaps, output>>

(* A failure excuses one more use of each sweep's data, a restart one for  *)
(* each task of the service.                                               *)
Mishap ==
    /\ \E m \in {1, 2} : mishaps' = mishaps + m
    /\ UNCHANGED <<life, arrived, used, output>>

(* The data need not be there any more: it may end while it is being used. *)
Pair(c) ==
    /\ \A s \in Named(c) : arrived[s] > 0
    /\ mishaps' \in {mishaps, mishaps + 1}
    /\ used' = [s \in Sweeps |-> IF s \in Named(c) THEN used[s] + 1 ELSE used[s]]
    /\ \A s \in Named(c) : used'[s] <= 2 * arrived[s] + mishaps'
    /\ output' = output \cup {Paired(c)}
    /\ UNCHANGED <<life, arrived>>

Free(s) ==
    /\ used[s] > 0
    /\ life' = [life EXCEPT ![s] = 0]
    /\ UNCHANGED <<arrived, used, mishaps, output>>

Next ==
    \/ \E s \in Sweeps : Arrive(s) \/ Free(s)
    \/ \E c \in Correlations : Pair(c)
    \/ Elapse \/ Mishap

Spec == Init /\ [][Next]_svars
=============================================================================
