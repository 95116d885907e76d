------------------------------- MODULE PostCache -------------------------------
(***************************************************************************)
(* The posts of the API and the endpoint cache in front of them.  A GET    *)
(* reads its Redis key, and on a miss runs the handler, stores the result  *)
(* and gives the key a life; any other method runs the handler and then    *)
(* deletes keys.  Every command is awaited, so requests interleave between *)
(* any two of them.  An action is one command or one statement.            *)
(*                                                                         *)
(* A key is <<"post", user, post>> for `{username}_post_cache:{id}`,       *)
(* <<"list", user, page>> for `{username}_posts:page_...:{username}`, and  *)
(* <<"extra", user, user>> for `{username}_posts:{username}`.  What an     *)
(* entry shows is a function from posts to versions, 0 for a post that is  *)
(* not shown.  Pages are long enough for all the posts of a user.          *)
(***************************************************************************)
EXTENDS Naturals, FiniteSets

CONSTANTS
    Workers,       \* requests that are served at the same time
    Users,         \* usernames that exist
    Posts,         \* post ids
    Pages,         \* pairs of `page` and `items_per_page`
    POST_LIFE,     \* life of a post in the cache, in ticks
    LIST_LIFE,     \* life of a list in the cache, in ticks
    MAX_PATCHES,   \* bound: patches
    MAX_FAILURES,  \* bound: requests that stop at a failed command
    None           \* Redis's nil and Python's None

ASSUME LivesAssumption == POST_LIFE \in Nat \ {0} /\ LIST_LIFE \in Nat \ {0}
ASSUME BoundsAssumption == MAX_PATCHES \in Nat /\ MAX_FAILURES \in Nat

PostKeys == {"post"} \X Users \X Posts
ListKeys == {"list"} \X Users \X Pages
ExtraKeys == {<<"extra", u, u>> : u \in Users}
Keys == PostKeys \cup ListKeys \cup ExtraKeys

ListKeysOf(u) == {"list"} \X {u} \X Pages
ExtraKey(u) == <<"extra", u, u>>
Life(k) == IF k[1] = "post" THEN POST_LIFE ELSE LIST_LIFE

Views == [Posts -> Nat]
\* A ttl of 0 is that of a key without an expiry.
Entries == [shows : Views, ttl : Nat]

Blank == [p \in Posts |-> 0]

Ops == {"read", "patch_post", "erase_post", "erase_db_post"}
Labels == {"idle", "func", "set", "expire", "write", "delete", "extra", "scan",
           "purge"}

VARIABLES
    author,    \* created_by_user_id of a post
    state,     \* a post is absent, live, is_deleted or gone from the table
    version,   \* which contents a post has
    cache,     \* the Redis keys
    at,        \* the command a request is about to send
    op,        \* what a request does
    key,       \* its cache_key
    result,    \* what the handler of a GET returned
    unvisited, \* keys the SCAN of a patch may still come across
    found,     \* keys it has come across and not yet deleted
    excused,   \* history: posts left wrong by a late fill, a failure, another path
    patches, failures

tables == <<author, state, version>>
request == <<at, op, key, result>>
scan == <<unvisited, found>>
vars == <<tables, cache, request, scan, excused, patches, failures>>

Init ==
    /\ author = [p \in Posts |-> None]
    /\ state = [p \in Posts |-> "absent"]
    /\ version = [p \in Posts |-> 0]
    /\ cache = [k \in Keys |-> None]
    /\ at = [w \in Workers |-> "idle"]
    /\ op = [w \in Workers |-> "read"]
    /\ key = [w \in Workers |-> None]
    /\ result = [w \in Workers |-> Blank]
    /\ unvisited = [w \in Workers |-> {}]
    /\ found = [w \in Workers |-> {}]
    /\ excused = {}
    /\ patches = 0
    /\ failures = 0

\* What the handler of a GET for k finds in the tables.
Shown(k) == {p \in Posts : /\ state[p] = "live"
                           /\ author[p] = k[2]
                           /\ k[1] = "post" => k[3] = p}
View(k) == [p \in Posts |-> IF p \in Shown(k) THEN version[p] ELSE 0]

Current(k, view) == \A p \in Posts : view[p] \in {0, View(k)[p]}
Cached(k) == cache[k] # None
\* An entry is stale when it shows a post as it no longer is, or one that is no
\* longer there.
Stale(k) == Cached(k) /\ ~Current(k, cache[k].shows)

Without(K) == [k \in Keys |-> IF k \in K THEN None ELSE cache[k]]
Delete(K) == cache' = Without(K) /\ excused' = excused \ K

Goto(w, label) == at' = [at EXCEPT ![w] = label] /\ UNCHANGED <<op, key>>
Begin(w, o, k, label) ==
    /\ at[w] = "idle"
    /\ at' = [at EXCEPT ![w] = label]
    /\ op' = [op EXCEPT ![w] = o]
    /\ key' = [key EXCEPT ![w] = k]
    /\ UNCHANGED result
\* The request is answered and its variables are gone.
Return(w) ==
    /\ at' = [at EXCEPT ![w] = "idle"]
    /\ op' = [op EXCEPT ![w] = "read"]
    /\ key' = [key EXCEPT ![w] = None]
    /\ result' = [result EXCEPT ![w] = Blank]
    /\ unvisited' = [unvisited EXCEPT ![w] = {}]
    /\ found' = [found EXCEPT ![w] = {}]

-----------------------------------------------------------------------------
(* read_post and read_posts.  A hit returns the entry and changes nothing. *)

Miss(w) ==
    /\ \E k \in PostKeys \cup ListKeys : ~Cached(k) /\ Begin(w, "read", k, "func")
    /\ UNCHANGED <<tables, cache, scan, excused, patches, failures>>

\* A post that is not there is a NotFoundException, which nothing stores.
Read(w) ==
    /\ at[w] = "func"
    /\ IF key[w] \in PostKeys /\ Shown(key[w]) = {}
       THEN Return(w)
       ELSE /\ Goto(w, "set")
            /\ result' = [result EXCEPT ![w] = View(key[w])]
            /\ UNCHANGED scan
    /\ UNCHANGED <<tables, cache, excused, patches, failures>>

Store(w) ==
    /\ cache' = [cache EXCEPT ![key[w]] = [shows |-> result[w], ttl |-> 0]]
    /\ excused' = IF Current(key[w], result[w]) \/ key[w] \notin PostKeys
                  THEN excused \ {key[w]} ELSE excused \cup {key[w]}

(* Mutant of Fill: a key that was filled meanwhile is taken to have a life. *)
FillOverOther(w) ==
    /\ at[w] = "set"
    /\ Store(w)
    /\ IF Cached(key[w]) THEN Return(w)
                         ELSE Goto(w, "expire") /\ UNCHANGED <<result, scan>>
    /\ UNCHANGED <<tables, patches, failures>>

\* SET takes away the life the key may have had.
Fill(w) ==
    /\ at[w] = "set"
    /\ Store(w)
    /\ Goto(w, "expire")
    /\ UNCHANGED <<tables, result, scan, patches, failures>>

(* Mutant of Expire: every key lives for the default time.                 *)
ExpireAfterDefault(w) ==
    /\ at[w] = "expire"
    /\ cache' = IF Cached(key[w]) THEN [cache EXCEPT ![key[w]].ttl = POST_LIFE] ELSE cache
    /\ Return(w)
    /\ UNCHANGED <<tables, excused, patches, failures>>

\* EXPIRE does nothing to a key that was deleted meanwhile.
Expire(w) ==
    /\ at[w] = "expire"
    /\ cache' = IF Cached(key[w])
                THEN [cache EXCEPT ![key[w]].ttl = Life(key[w])] ELSE cache
    /\ Return(w)
    /\ UNCHANGED <<tables, excused, patches, failures>>

-----------------------------------------------------------------------------
(* write_post has no cache in front of it: it leaves the lists alone.      *)

WritePost(u, p) ==
    /\ state[p] = "absent"
    /\ author' = [author EXCEPT ![p] = u]
    /\ state' = [state EXCEPT ![p] = "live"]
    /\ version' = [version EXCEPT ![p] = 1]
    /\ UNCHANGED <<cache, request, scan, excused, patches, failures>>

-----------------------------------------------------------------------------
(* patch_post, erase_post and erase_db_post.  The post has to be there; it *)
(* need not have been written by the user the path names.                  *)

BeginWrite(w) ==
    /\ \E o \in Ops \ {"read"}, k \in PostKeys :
        /\ state[k[3]] = "live"
        /\ Begin(w, o, k, "write")
        /\ patches' = IF o = "patch_post" THEN patches + 1 ELSE patches
    /\ patches' <= MAX_PATCHES
    /\ UNCHANGED <<tables, cache, scan, excused, failures>>

\* The handler does not look again at what another request may have changed: the
\* statements name the row by its id and do nothing when it is gone.
Patch(p) ==
    /\ version' = IF state[p] = "gone" THEN version
                  ELSE [version EXCEPT ![p] = version[p] + 1]
    /\ UNCHANGED state
Erase(p) ==
    /\ state' = IF state[p] = "gone" THEN state ELSE [state EXCEPT ![p] = "erased"]
    /\ UNCHANGED version
EraseRow(p) ==
    /\ state' = [state EXCEPT ![p] = "gone"]
    /\ UNCHANGED version

Commit(w) ==
    LET p == key[w][3]
        own == <<"post", author[p], p>>
    IN  /\ at[w] = "write"
        /\ \/ op[w] = "patch_post" /\ Patch(p)
           \/ op[w] = "erase_post" /\ Erase(p)
           \/ op[w] = "erase_db_post" /\ EraseRow(p)
        /\ excused' = IF key[w] # own /\ own \in PostKeys /\ Cached(own)
                      THEN excused \cup {own} ELSE excused
        /\ Goto(w, "delete")
        /\ UNCHANGED <<author, cache, result, scan, patches, failures>>

(* Mutant of DeleteKey: only the lists are dropped after a patch.          *)
DeleteListsOnly(w) ==
    /\ at[w] = "delete"
    /\ IF op[w] = "patch_post"
       THEN /\ UNCHANGED <<cache, excused>>
            /\ \E K \in SUBSET ListKeysOf(key[w][2]) :
                IF K = {} THEN Return(w)
                ELSE /\ Goto(w, "scan")
                     /\ unvisited' = [unvisited EXCEPT ![w] = K]
                     /\ UNCHANGED <<result, found>>
       ELSE /\ Delete({key[w]})
            /\ Goto(w, "extra")
            /\ UNCHANGED <<result, scan>>
    /\ UNCHANGED <<tables, patches, failures>>

\* The SCAN that follows a patch starts at cursor -1, which Redis does not define:
\* nothing says which of the keys it will come across.
DeleteKey(w) ==
    /\ at[w] = "delete"
    /\ Delete({key[w]})
    /\ IF op[w] = "patch_post"
       THEN \E K \in SUBSET ListKeysOf(key[w][2]) :
                IF K = {} THEN Return(w)
                ELSE /\ Goto(w, "scan")
                     /\ unvisited' = [unvisited EXCEPT ![w] = K]
                     /\ UNCHANGED <<result, found>>
       ELSE /\ Goto(w, "extra")
            /\ UNCHANGED <<result, scan>>
    /\ UNCHANGED <<tables, patches, failures>>

\* to_invalidate_extra of the two erasures.
DeleteExtra(w) ==
    /\ at[w] = "extra"
    /\ Delete({ExtraKey(key[w][2])})
    /\ Return(w)
    /\ UNCHANGED <<tables, patches, failures>>

\* pattern_to_invalidate_extra of the patch.
ScanBatch(w) ==
    /\ at[w] = "scan"
    /\ \E K \in SUBSET unvisited[w] \ {{}} :
        LET hits == {k \in K : Cached(k)} IN
        \/ /\ hits = {} /\ K = unvisited[w]
           /\ Return(w)
        \/ /\ hits # {} \/ K # unvisited[w]
           /\ Goto(w, IF hits = {} THEN "scan" ELSE "purge")
           /\ unvisited' = [unvisited EXCEPT ![w] = @ \ K]
           /\ found' = [found EXCEPT ![w] = hits]
           /\ UNCHANGED result
    /\ UNCHANGED <<tables, cache, excused, patches, failures>>

DeleteFound(w) ==
    /\ at[w] = "purge"
    /\ Delete(found[w])
    /\ IF unvisited[w] = {} THEN Return(w)
       ELSE /\ Goto(w, "scan")
            /\ found' = [found EXCEPT ![w] = {}]
            /\ UNCHANGED <<result, unvisited>>
    /\ UNCHANGED <<tables, patches, failures>>

\* A command fails, or the process stops: the rest of the request is not done.
Fail(w) ==
    /\ at[w] # "idle"
    /\ failures < MAX_FAILURES
    /\ failures' = failures + 1
    /\ excused' = IF at[w] = "delete" /\ Cached(key[w])
                  THEN excused \cup {key[w]} ELSE excused
    /\ Return(w)
    /\ UNCHANGED <<tables, cache, patches>>

-----------------------------------------------------------------------------
(* Redis.                                                                  *)

Aged(e) == IF e.ttl = 0 THEN e ELSE [e EXCEPT !.ttl = @ - 1]
Expiring == {k \in Keys : Cached(k) /\ cache[k].ttl = 1}

Tick ==
    /\ \E k \in Keys : Cached(k) /\ cache[k].ttl > 0
    /\ cache' = [k \in Keys |-> IF k \in Expiring \/ ~Cached(k) THEN None
                                ELSE Aged(cache[k])]
    /\ excused' = excused \ Expiring
    /\ UNCHANGED <<tables, request, scan, patches, failures>>

Proceed(w) ==
    \/ Read(w) \/ Fill(w) \/ Expire(w)
    \/ Commit(w) \/ DeleteKey(w) \/ DeleteExtra(w) \/ ScanBatch(w) \/ DeleteFound(w)

Next ==
    \/ \E w \in Workers : Miss(w) \/ BeginWrite(w) \/ Proceed(w) \/ Fail(w)
    \/ \E u \in Users, p \in Posts : WritePost(u, p)
    \/ Tick

Spec == Init /\ [][Next]_vars

\* The event loop resumes every request; Redis expires keys.  Nobody has to ask.
FairSpec == Spec /\ WF_vars(Tick) /\ \A w \in Workers : WF_vars(Proceed(w))

-----------------------------------------------------------------------------
(* Properties.                                                             *)

\* Every variable has its type; no life is longer than the decorator of the endpoint
\* says; a request under way has a key, and only lists are scanned.
TypeOK ==
    /\ author \in [Posts -> Users \cup {None}]
    /\ state \in [Posts -> {"absent", "live", "erased", "gone"}]
    /\ version \in [Posts -> Nat]
    /\ cache \in [Keys -> Entries \cup {None}]
    /\ \A k \in Keys : Cached(k) => cache[k].ttl <= Life(k)
    /\ at \in [Workers -> Labels]
    /\ op \in [Workers -> Ops]
    /\ key \in [Workers -> Keys \cup {None}]
    /\ \A w \in Workers : at[w] # "idle" => key[w] \in PostKeys \cup ListKeys
    /\ \A w \in Workers :
        at[w] \in {"write", "delete", "extra", "scan", "purge"} => key[w] \in PostKeys
    /\ result \in [Workers -> Views]
    /\ unvisited \in [Workers -> SUBSET ListKeys]
    /\ found \in [Workers -> SUBSET ListKeys]
    /\ excused \subseteq Keys
    /\ patches \in 0..MAX_PATCHES
    /\ failures \in 0..MAX_FAILURES

\* A cached post is wrong only while the request that changed it has still to delete
\* the key, or for one of three reasons: it was stored by a GET that had read the
\* tables before the change, a command failed between the change and the deletion,
\* or the change came by the path of another user.  Invalidation does its work in
\* every other interleaving (`cache.py`, lines 318-339).
StaleExplained ==
    \A k \in PostKeys :
        Stale(k) => \/ k \in excused
                    \/ \E w \in Workers : at[w] = "delete" /\ key[w] = k

\* While no command has failed, an entry without a life belongs to a GET that is
\* about to give it one, however fills and deletions of the key have interleaved.
Armed ==
    \A k \in Keys : Cached(k) /\ cache[k].ttl = 0 =>
        \E w \in Workers : at[w] = "expire" /\ key[w] = k
ArmedUnlessFailed == failures = 0 => Armed

\* As long as no command fails, what is wrong in the cache does not stay: it is deleted
\* or replaced, or its life runs out.
StaleGoes == \A k \in Keys : Stale(k) ~> (~Stale(k) \/ failures > 0)

\* `cache.py`, lines 283-285, of an erasure: the "to_invalidate_extra parameter
\* specifically targets the cache for user-specific item lists".  So once the author
\* has erased a post, the lists do not show it.
Quiet == \A w \in Workers : at[w] = "idle"
ErasedUnlisted ==
    Quiet => \A k \in ListKeys, p \in Posts :
        Cached(k) /\ state[p] = "erased" => cache[k].shows[p] = 0
=============================================================================
