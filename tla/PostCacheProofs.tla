--------------------------- MODULE PostCacheProofs ---------------------------
(***************************************************************************)
(* Theorems about the endpoint cache, for any number of requests, users,   *)
(* posts, pages and failures.                                              *)
(***************************************************************************)
EXTENDS PostCache, TLAPS

Busy == {"write", "delete", "extra", "scan", "purge"}

\* The parts of TypeOK that speak of the requests.
RequestsOK ==
    /\ at \in [Workers -> Labels]
    /\ op \in [Workers -> Ops]
    /\ key \in [Workers -> Keys \cup {None}]
    /\ \A w \in Workers : at[w] # "idle" => key[w] \in PostKeys \cup ListKeys
    /\ \A w \in Workers : at[w] \in Busy => key[w] \in PostKeys

ScanOK ==
    /\ unvisited \in [Workers -> SUBSET ListKeys]
    /\ found \in [Workers -> SUBSET ListKeys]

CacheOK ==
    /\ cache \in [Keys -> Entries \cup {None}]
    /\ \A k \in Keys : Cached(k) => cache[k].ttl <= Life(k)

TablesOK ==
    /\ author \in [Posts -> Users \cup {None}]
    /\ state \in [Posts -> {"absent", "live", "erased", "gone"}]
    /\ version \in [Posts -> Nat]

BoundsOK == patches \in 0..MAX_PATCHES /\ failures \in 0..MAX_FAILURES

LEMMA TypeParts ==
    TypeOK <=> /\ TablesOK /\ CacheOK /\ RequestsOK /\ ScanOK /\ BoundsOK
               /\ result \in [Workers -> Views] /\ excused \subseteq Keys
BY Zenon DEF TypeOK, TablesOK, CacheOK, RequestsOK, ScanOK, BoundsOK, Busy

\* The posts a key is for.
LEMMA PostKeyParts ==
    ASSUME NEW k \in PostKeys
    PROVE  k[1] = "post" /\ k[2] \in Users /\ k[3] \in Posts
           /\ k = <<"post", k[2], k[3]>> /\ k \in Keys
BY DEF PostKeys, Keys

LEMMA ListKeyParts ==
    /\ ListKeys \subseteq Keys
    /\ PostKeys \cap ListKeys = {}
    /\ \A k \in PostKeys : ListKeysOf(k[2]) \subseteq ListKeys
    /\ \A k \in PostKeys : ExtraKey(k[2]) \in Keys
BY DEF ListKeys, Keys, PostKeys, ListKeysOf, ExtraKey, ExtraKeys

LEMMA LifePositive ==
    ASSUME NEW k \in Keys PROVE Life(k) \in Nat /\ Life(k) > 0
BY LivesAssumption DEF Life

LEMMA BlankIsView == Blank \in Views
BY DEF Blank, Views

LEMMA ViewType ==
    ASSUME TablesOK, NEW k \in Keys PROVE View(k) \in Views
BY DEF TablesOK, View, Views, Shown

\* An answered request leaves well-typed variables.
LEMMA ReturnOK ==
    ASSUME RequestsOK, ScanOK, result \in [Workers -> Views],
           NEW w \in Workers, Return(w)
    PROVE  RequestsOK' /\ ScanOK' /\ result' \in [Workers -> Views]
<1>1. result' \in [Workers -> Views]
  BY BlankIsView DEF Return
<1>2. ScanOK'
  BY DEF Return, ScanOK
<1>3. at' \in [Workers -> Labels] /\ op' \in [Workers -> Ops]
      /\ key' \in [Workers -> Keys \cup {None}]
  BY DEF Return, RequestsOK, Labels, Ops
<1>4. \A x \in Workers : x = w \/ (at'[x] = at[x] /\ key'[x] = key[x])
  BY DEF Return, RequestsOK
<1>5. at'[w] = "idle"
  BY DEF Return, RequestsOK
<1> QED BY <1>1, <1>2, <1>3, <1>4, <1>5 DEF RequestsOK, Busy

LEMMA GotoOK ==
    ASSUME RequestsOK, NEW w \in Workers, NEW l \in Labels, Goto(w, l),
           key[w] \in PostKeys \cup ListKeys,
           l \in Busy => key[w] \in PostKeys
    PROVE  RequestsOK'
<1>1. at' \in [Workers -> Labels] /\ at'[w] = l
      /\ \A x \in Workers : x = w \/ at'[x] = at[x]
  BY DEF Goto, RequestsOK
<1>2. op' = op /\ key' = key
  BY DEF Goto
<1> QED BY <1>1, <1>2 DEF RequestsOK

LEMMA BeginOK ==
    ASSUME RequestsOK, NEW w \in Workers, NEW o \in Ops, NEW l \in Labels,
           NEW k \in PostKeys \cup ListKeys, Begin(w, o, k, l),
           l \in Busy => k \in PostKeys
    PROVE  RequestsOK'
<1>1. k \in Keys
  BY PostKeyParts, ListKeyParts
<1>2. /\ at' \in [Workers -> Labels] /\ op' \in [Workers -> Ops]
      /\ key' \in [Workers -> Keys \cup {None}]
      /\ at'[w] = l /\ key'[w] = k
  BY <1>1 DEF Begin, RequestsOK
<1>3. \A x \in Workers : x = w \/ (at'[x] = at[x] /\ key'[x] = key[x])
  BY DEF Begin, RequestsOK
<1> QED BY <1>2, <1>3 DEF RequestsOK

LEMMA DeleteOK ==
    ASSUME CacheOK, excused \subseteq Keys, NEW K, Delete(K)
    PROVE  CacheOK' /\ excused' \subseteq Keys
<1>1. cache' \in [Keys -> Entries \cup {None}]
  BY DEF CacheOK, Delete, Without
<1>2. \A k \in Keys : cache'[k] = None \/ cache'[k] = cache[k]
  BY DEF Delete, Without
<1>3. \A k \in Keys : cache'[k] # None => cache'[k].ttl <= Life(k)
  BY <1>2 DEF CacheOK, Cached
<1> QED BY <1>1, <1>3 DEF CacheOK, Delete, Cached

\* Every variable keeps its type whatever step is taken.
LEMMA TypeStep == TypeOK /\ [Next]_vars => TypeOK'
<1> SUFFICES ASSUME TypeOK, [Next]_vars PROVE TypeOK'
  OBVIOUS
<1> DEFINE ResultOK == result \in [Workers -> Views]
<1>0. /\ TablesOK /\ CacheOK /\ RequestsOK /\ ScanOK /\ BoundsOK
      /\ ResultOK /\ excused \subseteq Keys
  BY TypeParts
<1>key. \A w \in Workers : at[w] # "idle" =>
            key[w] \in PostKeys \cup ListKeys /\ key[w] \in Keys
  BY <1>0, PostKeyParts, ListKeyParts DEF RequestsOK
<1>post. \A w \in Workers : at[w] \in Busy => key[w] \in PostKeys
  BY <1>0 DEF RequestsOK
<1>a. ASSUME UNCHANGED tables PROVE TablesOK'
  BY <1>a, <1>0 DEF TablesOK, tables
<1>b. ASSUME UNCHANGED cache PROVE CacheOK'
  BY <1>b, <1>0 DEF CacheOK, Cached
<1>c. ASSUME UNCHANGED scan PROVE ScanOK'
  BY <1>c, <1>0 DEF ScanOK, scan
<1>d. ASSUME UNCHANGED <<patches, failures>> PROVE BoundsOK'
  BY <1>d, <1>0 DEF BoundsOK
<1>e. ASSUME UNCHANGED request PROVE RequestsOK' /\ ResultOK'
  BY <1>e, <1>0 DEF RequestsOK, request
<1>f. ASSUME NEW w \in Workers, Return(w) PROVE RequestsOK' /\ ScanOK' /\ ResultOK'
  BY <1>f, <1>0, ReturnOK
<1>g. /\ TablesOK' /\ CacheOK' /\ RequestsOK' /\ ScanOK' /\ BoundsOK'
      /\ ResultOK' /\ (excused \subseteq Keys)'
      => TypeOK'
  BY TypeParts, PTL
<1>1. CASE UNCHANGED vars
  BY <1>1, <1>0, <1>a, <1>b, <1>c, <1>d, <1>e, <1>g DEF vars
<1>2. ASSUME NEW w \in Workers, Miss(w) PROVE TypeOK'
  <2>1. PICK k \in PostKeys \cup ListKeys : Begin(w, "read", k, "func")
    BY <1>2 DEF Miss
  <2>2. RequestsOK'
    BY <2>1, <1>0, BeginOK DEF Labels, Ops, Busy
  <2>3. ResultOK'
    BY <2>1, <1>0 DEF Begin
  <2> QED BY <1>2, <1>0, <1>a, <1>b, <1>c, <1>d, <1>g, <2>2, <2>3 DEF Miss
<1>3. ASSUME NEW w \in Workers, BeginWrite(w) PROVE TypeOK'
  <2>1. PICK o \in Ops \ {"read"}, k \in PostKeys :
            /\ Begin(w, o, k, "write")
            /\ patches' = IF o = "patch_post" THEN patches + 1 ELSE patches
    BY <1>3 DEF BeginWrite
  <2>2. RequestsOK'
    BY <2>1, <1>0, BeginOK DEF Labels, Ops, Busy
  <2>3. ResultOK'
    BY <2>1, <1>0 DEF Begin
  <2>4. BoundsOK'
    BY <2>1, <1>0, <1>3, BoundsAssumption DEF BoundsOK, BeginWrite
  <2> QED BY <1>3, <1>0, <1>a, <1>b, <1>c, <1>g, <2>2, <2>3, <2>4 DEF BeginWrite
<1>4. ASSUME NEW w \in Workers, Read(w) PROVE TypeOK'
  <2>1. CASE Return(w)
    BY <1>4, <1>0, <2>1, <1>a, <1>b, <1>d, <1>f, <1>g DEF Read
  <2>2. CASE /\ Goto(w, "set") /\ UNCHANGED scan
             /\ result' = [result EXCEPT ![w] = View(key[w])]
    <3>1. key[w] \in PostKeys \cup ListKeys /\ key[w] \in Keys
      BY <1>4, <1>key DEF Read
    <3>2. RequestsOK'
      BY <2>2, <3>1, <1>0, GotoOK DEF Labels, Busy
    <3>3. ResultOK'
      BY <2>2, <3>1, <1>0, ViewType
    <3> QED BY <1>4, <1>0, <2>2, <1>a, <1>b, <1>c, <1>d, <1>g, <3>2, <3>3 DEF Read
  <2> QED BY <1>4, <2>1, <2>2 DEF Read
<1>5. ASSUME NEW w \in Workers, Fill(w) PROVE TypeOK'
  <2> DEFINE new == [shows |-> result[w], ttl |-> 0]
  <2>1. key[w] \in PostKeys \cup ListKeys /\ key[w] \in Keys
    BY <1>5, <1>key DEF Fill
  <2>2. new \in Entries /\ new.ttl = 0
    BY <1>0 DEF Entries
  <2>3. cache' = [cache EXCEPT ![key[w]] = new]
    BY <1>5 DEF Fill, Store
  <2> HIDE DEF new
  <2>4. cache' \in [Keys -> Entries \cup {None}]
    BY <1>0, <2>1, <2>2, <2>3 DEF CacheOK
  <2>5. ASSUME NEW k \in Keys, cache'[k] # None PROVE cache'[k].ttl <= Life(k)
    <3>1. CASE k = key[w]
      BY <3>1, <2>1, <2>2, <2>3, <1>0, LifePositive DEF CacheOK
    <3>2. CASE k # key[w]
      BY <3>2, <2>3, <2>5, <1>0 DEF CacheOK, Cached
    <3> QED BY <3>1, <3>2
  <2>6. CacheOK'
    BY <2>4, <2>5 DEF CacheOK, Cached
  <2>7. (excused \subseteq Keys)'
    BY <1>5, <1>0, <2>1 DEF Fill, Store
  <2>8. RequestsOK'
    BY <1>5, <2>1, <1>0, GotoOK DEF Fill, Labels, Busy
  <2> QED BY <1>5, <1>0, <1>a, <1>c, <1>d, <1>g, <2>6, <2>7, <2>8 DEF Fill
<1>6. ASSUME NEW w \in Workers, Expire(w) PROVE TypeOK'
  <2>1. key[w] \in Keys
    BY <1>6, <1>key DEF Expire
  <2>2. CASE ~Cached(key[w])
    BY <1>6, <2>2, <1>0, <1>a, <1>b, <1>d, <1>f, <1>g DEF Expire
  <2>3. CASE Cached(key[w])
    <3> DEFINE new == [cache[key[w]] EXCEPT !.ttl = Life(key[w])]
    <3>1. cache[key[w]] \in Entries
      BY <2>1, <2>3, <1>0 DEF CacheOK, Cached
    <3>2. new \in Entries /\ new.ttl = Life(key[w])
      BY <3>1, <2>1, LifePositive DEF Entries
    <3>3. cache' = [cache EXCEPT ![key[w]] = new]
      BY <1>6, <2>3 DEF Expire
    <3> HIDE DEF new
    <3>4. cache' \in [Keys -> Entries \cup {None}]
      BY <1>0, <2>1, <3>2, <3>3 DEF CacheOK
    <3>5. ASSUME NEW k \in Keys, cache'[k] # None PROVE cache'[k].ttl <= Life(k)
      <4>1. CASE k = key[w]
        BY <4>1, <2>1, <3>2, <3>3, <1>0, LifePositive DEF CacheOK
      <4>2. CASE k # key[w]
        BY <4>2, <3>3, <3>5, <1>0 DEF CacheOK, Cached
      <4> QED BY <4>1, <4>2
    <3>6. CacheOK'
      BY <3>4, <3>5 DEF CacheOK, Cached
    <3> QED BY <1>6, <1>0, <1>a, <1>d, <1>f, <1>g, <3>6 DEF Expire
  <2> QED BY <2>2, <2>3
<1>7. ASSUME NEW w \in Workers, Commit(w) PROVE TypeOK'
  <2> DEFINE p == key[w][3]
             own == <<"post", author[p], p>>
  <2>1. key[w] \in PostKeys /\ p \in Posts
    BY <1>7, <1>post, PostKeyParts DEF Commit, Busy
  <2>2. Patch(p) \/ Erase(p) \/ EraseRow(p)
    BY <1>7 DEF Commit
  <2>3. TablesOK'
    <3>1. author' = author
      BY <1>7 DEF Commit
    <3>2. state' \in [Posts -> {"absent", "live", "erased", "gone"}]
      BY <2>1, <2>2, <1>0 DEF TablesOK, Patch, Erase, EraseRow
    <3>3. version' \in [Posts -> Nat]
      BY <2>1, <2>2, <1>0 DEF TablesOK, Patch, Erase, EraseRow
    <3> QED BY <3>1, <3>2, <3>3, <1>0 DEF TablesOK
  <2>4. excused' \subseteq excused \cup {own} /\ (excused' = excused \/ own \in PostKeys)
    BY <1>7 DEF Commit
  <2>5. (excused \subseteq Keys)'
    BY <2>4, <1>0, PostKeyParts
  <2>6. RequestsOK'
    BY <1>7, <2>1, <1>0, GotoOK DEF Commit, Labels
  <2>7. ScanOK' /\ CacheOK' /\ ResultOK' /\ BoundsOK'
    BY <1>7, <1>0, <1>b, <1>c, <1>d DEF Commit
  <2> QED BY <1>g, <2>3, <2>5, <2>6, <2>7
<1>8. ASSUME NEW w \in Workers, DeleteKey(w) PROVE TypeOK'
  <2>1. key[w] \in PostKeys /\ ListKeysOf(key[w][2]) \subseteq ListKeys
    BY <1>8, <1>post, ListKeyParts DEF DeleteKey, Busy
  <2>2. CacheOK' /\ (excused \subseteq Keys)'
    BY <1>8, <1>0, DeleteOK DEF DeleteKey
  <2>3. TablesOK' /\ BoundsOK'
    BY <1>8, <1>a, <1>d DEF DeleteKey
  <2>4. CASE Return(w)
    BY <2>4, <2>2, <2>3, <1>f, <1>g
  <2>5. CASE Goto(w, "extra") /\ UNCHANGED <<result, scan>>
    <3>1. RequestsOK'
      BY <2>5, <2>1, <1>0, GotoOK DEF Labels
    <3> QED BY <2>5, <2>2, <2>3, <3>1, <1>0, <1>c, <1>g
  <2>6. ASSUME NEW K \in SUBSET ListKeysOf(key[w][2]), Goto(w, "scan"),
               unvisited' = [unvisited EXCEPT ![w] = K], UNCHANGED <<result, found>>
        PROVE  TypeOK'
    <3>1. RequestsOK'
      BY <2>6, <2>1, <1>0, GotoOK DEF Labels
    <3>2. ScanOK'
      BY <2>6, <2>1, <1>0 DEF ScanOK
    <3> QED BY <2>6, <2>2, <2>3, <3>1, <3>2, <1>0, <1>g
  <2> QED BY <1>8, <2>4, <2>5, <2>6 DEF DeleteKey
<1>9. ASSUME NEW w \in Workers, DeleteExtra(w) PROVE TypeOK'
  <2>1. CacheOK' /\ (excused \subseteq Keys)'
    BY <1>9, <1>0, DeleteOK DEF DeleteExtra
  <2> QED BY <1>9, <2>1, <1>a, <1>d, <1>f, <1>g DEF DeleteExtra
<1>10. ASSUME NEW w \in Workers, ScanBatch(w) PROVE TypeOK'
  <2>1. PICK K \in SUBSET unvisited[w] \ {{}} :
          \/ Return(w)
          \/ /\ Goto(w, IF {k \in K : Cached(k)} = {} THEN "scan" ELSE "purge")
             /\ unvisited' = [unvisited EXCEPT ![w] = unvisited[w] \ K]
             /\ found' = [found EXCEPT ![w] = {k \in K : Cached(k)}]
             /\ UNCHANGED result
    BY <1>10 DEF ScanBatch
  <2>2. TablesOK' /\ CacheOK' /\ BoundsOK' /\ (excused \subseteq Keys)'
    BY <1>10, <1>0, <1>a, <1>b, <1>d DEF ScanBatch
  <2>3. CASE Return(w)
    BY <2>3, <2>2, <1>f, <1>g
  <2>4. CASE ~Return(w)
    <3>1. key[w] \in PostKeys
      BY <1>10, <1>post DEF ScanBatch, Busy
    <3>2. RequestsOK'
      BY <2>1, <2>4, <3>1, <1>0, GotoOK DEF Labels
    <3>3. K \subseteq ListKeys
      BY <1>0 DEF ScanOK
    <3>4. ScanOK'
      BY <2>1, <2>4, <3>3, <1>0 DEF ScanOK
    <3> QED BY <2>1, <2>4, <2>2, <3>2, <3>4, <1>0, <1>g
  <2> QED BY <2>3, <2>4
<1>11. ASSUME NEW w \in Workers, DeleteFound(w) PROVE TypeOK'
  <2>1. CacheOK' /\ (excused \subseteq Keys)'
    BY <1>11, <1>0, DeleteOK DEF DeleteFound
  <2>2. TablesOK' /\ BoundsOK'
    BY <1>11, <1>a, <1>d DEF DeleteFound
  <2>3. CASE Return(w)
    BY <2>3, <2>1, <2>2, <1>f, <1>g
  <2>4. CASE /\ Goto(w, "scan") /\ found' = [found EXCEPT ![w] = {}]
             /\ UNCHANGED <<result, unvisited>>
    <3>1. key[w] \in PostKeys
      BY <1>11, <1>post DEF DeleteFound, Busy
    <3>2. RequestsOK'
      BY <2>4, <3>1, <1>0, GotoOK DEF Labels
    <3>3. ScanOK'
      BY <2>4, <1>0 DEF ScanOK
    <3> QED BY <2>4, <2>1, <2>2, <3>2, <3>3, <1>0, <1>g
  <2> QED BY <1>11, <2>3, <2>4 DEF DeleteFound
<1>12. ASSUME NEW w \in Workers, Fail(w) PROVE TypeOK'
  <2>1. BoundsOK'
    BY <1>12, <1>0, BoundsAssumption DEF Fail, BoundsOK
  <2>2. (excused \subseteq Keys)'
    BY <1>12, <1>0, <1>key DEF Fail
  <2> QED BY <1>12, <1>0, <2>1, <2>2, <1>a, <1>b, <1>f, <1>g DEF Fail
<1>13. ASSUME NEW u \in Users, NEW p \in Posts, WritePost(u, p) PROVE TypeOK'
  <2>1. TablesOK'
    BY <1>13, <1>0 DEF WritePost, TablesOK
  <2> QED BY <1>13, <1>0, <2>1, <1>b, <1>c, <1>d, <1>e, <1>g DEF WritePost
<1>14. ASSUME Tick PROVE TypeOK'
  <2>1. \A k \in Keys : cache'[k] = IF k \in Expiring \/ ~Cached(k) THEN None
                                    ELSE Aged(cache[k])
    BY <1>14 DEF Tick
  <2>2. ASSUME NEW k \in Keys, Cached(k)
        PROVE  Aged(cache[k]) \in Entries /\ Aged(cache[k]).ttl <= Life(k)
    <3> DEFINE e == cache[k]
    <3>1. e \in Entries /\ e.ttl <= Life(k) /\ e.ttl \in Nat /\ Life(k) \in Nat
      BY <2>2, <1>0, LifePositive DEF CacheOK, Cached, Entries
    <3> HIDE DEF e
    <3>2. CASE e.ttl = 0
      BY <3>1, <3>2 DEF Aged, e
    <3>3. CASE e.ttl # 0
      <4>1. Aged(e) = [e EXCEPT !.ttl = e.ttl - 1]
        BY <3>3 DEF Aged
      <4>2. Aged(e) \in Entries /\ Aged(e).ttl = e.ttl - 1
        BY <4>1, <3>1, <3>3 DEF Entries
      <4> QED BY <4>2, <3>1 DEF e
    <3> QED BY <3>2, <3>3
  <2>3. \A k \in Keys : cache'[k] \in Entries \cup {None}
    BY <2>1, <2>2
  <2>4. cache' \in [Keys -> Entries \cup {None}]
    BY <1>14, <2>3 DEF Tick
  <2>5. \A k \in Keys : cache'[k] # None => cache'[k].ttl <= Life(k)
    BY <2>1, <2>2
  <2>6. CacheOK'
    BY <2>4, <2>5 DEF CacheOK, Cached
  <2> QED BY <1>14, <1>0, <2>6, <1>a, <1>c, <1>d, <1>e, <1>g DEF Tick
<1> QED
  BY <1>1, <1>2, <1>3, <1>4, <1>5, <1>6, <1>7, <1>8, <1>9, <1>10, <1>11, <1>12,
     <1>13, <1>14 DEF Next, Proceed

\* No request, user, page or failure makes a variable leave its type, and no key
\* outlives the life its endpoint gives it.
THEOREM TypeCorrect == Spec => []TypeOK
<1>1. Init => TypeOK
  BY BlankIsView, BoundsAssumption
  DEF Init, TypeOK, Labels, Ops, Cached
<1> QED BY <1>1, TypeStep, PTL DEF Spec

-----------------------------------------------------------------------------
(* Invalidation.                                                           *)

Pending(k) == \E w \in Workers : at[w] = "delete" /\ key[w] = k
Arming(k) == \E w \in Workers : at[w] = "expire" /\ key[w] = k
Unarmed(k) == Cached(k) /\ cache[k].ttl = 0

\* The other requests stay where they are.
LEMMA OthersStay ==
    ASSUME RequestsOK, NEW w \in Workers,
           \/ Return(w)
           \/ \E l \in Labels : Goto(w, l)
           \/ \E o \in Ops, k \in Keys, l \in Labels : Begin(w, o, k, l)
    PROVE  /\ at[w] # "delete" => \A k \in Keys : Pending(k) => Pending(k)'
           /\ at[w] # "expire" => \A k \in Keys : Arming(k) => Arming(k)'
           /\ \A k \in Keys : k # key[w] => (Pending(k) => Pending(k)')
                                         /\ (Arming(k) => Arming(k)')
<1>1. \A x \in Workers : x = w \/ (at'[x] = at[x] /\ key'[x] = key[x])
  BY DEF RequestsOK, Return, Goto, Begin
<1> QED BY <1>1 DEF Pending, Arming

\* Only the tables and what an entry shows make it stale.
LEMMA StaleSame ==
    ASSUME UNCHANGED tables, NEW k \in Keys, Stale(k)',
           cache'[k] # None => cache[k] # None /\ cache'[k].shows = cache[k].shows
    PROVE  Stale(k)
<1>1. View(k)' = View(k)
  BY DEF View, Shown, tables
<1> QED BY <1>1 DEF Stale, Cached, Current

\* A commit changes the view of no post key but that of the author.
LEMMA CommitView ==
    ASSUME TablesOK, NEW w \in Workers, Commit(w), key[w] \in PostKeys,
           NEW k \in PostKeys, k # <<"post", author[key[w][3]], key[w][3]>>
    PROVE  View(k)' = View(k)
<1> DEFINE p == key[w][3]
<1>1. p \in Posts
  BY PostKeyParts
<1>2. author' = author /\ (Patch(p) \/ Erase(p) \/ EraseRow(p))
  BY DEF Commit
<1>3. \A q \in Posts : q # p => state'[q] = state[q] /\ version'[q] = version[q]
  BY <1>2 DEF TablesOK, Patch, Erase, EraseRow
<1>4. \A q \in Posts : q \in Shown(k) => q # p
  BY PostKeyParts DEF Shown
<1>5. \A q \in Posts : q \in Shown(k)' => q # p
  BY <1>2, PostKeyParts DEF Shown
<1>6. \A q \in Posts : q \in Shown(k)' <=> q \in Shown(k)
  BY <1>2, <1>3, <1>4, <1>5 DEF Shown
<1> HIDE DEF p
<1> QED BY <1>3, <1>4, <1>6 DEF View

\* A deletion leaves the other keys, and their excuses, as they are.
LEMMA DeleteSame ==
    ASSUME NEW K, Delete(K), NEW k \in Keys, cache'[k] # None
    PROVE  /\ cache'[k] = cache[k] /\ k \notin K
           /\ k \in excused => k \in excused'
BY DEF Delete, Without

LEMMA KeyOf ==
    ASSUME TypeOK, NEW w \in Workers
    PROVE  /\ at[w] # "idle" => key[w] \in Keys
           /\ at[w] \in Busy => key[w] \in PostKeys
BY TypeParts, PostKeyParts, ListKeyParts DEF RequestsOK

\* Every step keeps a wrong entry explained: the history grows where a deletion will
\* not come, and a deletion that is due is not forgotten.
LEMMA StaleStep == TypeOK /\ StaleExplained /\ [Next]_vars => StaleExplained'
<1> SUFFICES ASSUME TypeOK, StaleExplained, [Next]_vars,
                    NEW k \in PostKeys, Stale(k)'
             PROVE  k \in excused' \/ Pending(k)'
  BY DEF StaleExplained, Pending
<1>0. /\ TablesOK /\ CacheOK /\ RequestsOK /\ ScanOK
      /\ k \in Keys /\ cache'[k] # None
  BY TypeParts, PostKeyParts DEF Stale, Cached
<1>x. Stale(k) => k \in excused \/ Pending(k)
  BY DEF StaleExplained, Pending
<1>k. \A w \in Workers : at[w] # "idle" => key[w] \in Keys
  BY KeyOf
<1>p. \A w \in Workers : at[w] \in Busy => key[w] \in PostKeys
  BY KeyOf
<1>o. ASSUME NEW w \in Workers, at[w] # "delete",
             \/ Return(w)
             \/ \E l \in Labels : Goto(w, l)
             \/ \E o \in Ops, c \in Keys, l \in Labels : Begin(w, o, c, l)
      PROVE  Pending(k) => Pending(k)'
  BY <1>o, <1>0, OthersStay
<1>s. ASSUME UNCHANGED tables, cache[k] # None, cache'[k].shows = cache[k].shows,
             k \in excused => k \in excused',
             Pending(k) => Pending(k)'
      PROVE  k \in excused' \/ Pending(k)'
  BY <1>s, <1>0, <1>x, StaleSame
<1>1. CASE UNCHANGED vars
  BY <1>1, <1>0, <1>s DEF vars, request, Pending
<1>2. ASSUME NEW w \in Workers, Miss(w) PROVE k \in excused' \/ Pending(k)'
  <2>1. \E c \in Keys : Begin(w, "read", c, "func")
    BY <1>2, PostKeyParts, ListKeyParts DEF Miss
  <2>2. at[w] # "delete" /\ "read" \in Ops /\ "func" \in Labels
    BY <2>1 DEF Begin, Ops, Labels
  <2> QED BY <1>2, <2>1, <2>2, <1>0, <1>o, <1>s DEF Miss
<1>3. ASSUME NEW w \in Workers, BeginWrite(w) PROVE k \in excused' \/ Pending(k)'
  <2>1. \E o \in Ops, c \in Keys : Begin(w, o, c, "write")
    BY <1>3, PostKeyParts DEF BeginWrite
  <2>2. at[w] # "delete" /\ "write" \in Labels
    BY <2>1 DEF Begin, Labels
  <2> QED BY <1>3, <2>1, <2>2, <1>0, <1>o, <1>s DEF BeginWrite
<1>4. ASSUME NEW w \in Workers, Read(w) PROVE k \in excused' \/ Pending(k)'
  BY <1>4, <1>0, <1>o, <1>s DEF Read, Labels
<1>5. ASSUME NEW w \in Workers, Fill(w) PROVE k \in excused' \/ Pending(k)'
  <2>1. key[w] \in Keys /\ UNCHANGED tables
    BY <1>5, <1>k DEF Fill
  <2>2. Pending(k) => Pending(k)'
    BY <1>5, <1>0, <1>o DEF Fill, Labels
  <2>3. CASE k = key[w]
    <3>1. cache'[k].shows = result[w]
      BY <1>5, <2>1, <2>3, <1>0 DEF Fill, Store, CacheOK
    <3>2. View(k)' = View(k)
      BY <2>1 DEF View, Shown, tables
    <3>3. ~Current(k, result[w])
      BY <3>1, <3>2 DEF Stale, Current
    <3> QED BY <1>5, <2>3, <3>3 DEF Fill, Store
  <2>4. CASE k # key[w]
    <3>1. cache'[k] = cache[k] /\ (k \in excused => k \in excused')
      BY <1>5, <2>4, <1>0 DEF Fill, Store, CacheOK
    <3> QED BY <3>1, <2>1, <2>2, <1>0, <1>s
  <2> QED BY <2>3, <2>4
<1>6. ASSUME NEW w \in Workers, Expire(w) PROVE k \in excused' \/ Pending(k)'
  <2>1. Pending(k) => Pending(k)'
    BY <1>6, <1>0, <1>o DEF Expire
  <2>2. cache[k] # None /\ cache'[k].shows = cache[k].shows
    <3>1. CASE ~Cached(key[w]) \/ k # key[w]
      BY <1>6, <3>1, <1>0 DEF Expire, CacheOK
    <3>2. CASE Cached(key[w]) /\ k = key[w]
      <4>1. cache[k] # None /\ cache[k] \in Entries
        BY <3>2, <1>0 DEF Cached, CacheOK
      <4>2. cache'[k] = [cache[k] EXCEPT !.ttl = Life(key[w])]
        BY <1>6, <3>2, <1>0 DEF Expire, CacheOK
      <4> QED BY <4>1, <4>2 DEF Entries
    <3> QED BY <3>1, <3>2
  <2> QED BY <1>6, <2>1, <2>2, <1>s DEF Expire
<1>7. ASSUME NEW w \in Workers, Commit(w) PROVE k \in excused' \/ Pending(k)'
  <2> DEFINE own == <<"post", author[key[w][3]], key[w][3]>>
  <2>1. key[w] \in PostKeys /\ at[w] = "write" /\ cache' = cache
    BY <1>7, <1>p DEF Commit, Busy
  <2>2. Goto(w, "delete")
    BY <1>7 DEF Commit
  <2>3. CASE k = key[w]
    BY <2>2, <2>3, <1>0 DEF Goto, Pending, RequestsOK
  <2>4. CASE k # key[w] /\ k = own
    BY <1>7, <2>1, <2>4, <1>0 DEF Commit, Cached
  <2>5. CASE k # own
    <3>1. View(k)' = View(k)
      BY <1>7, <2>1, <2>5, <1>0, CommitView
    <3>2. Stale(k)
      BY <3>1, <2>1 DEF Stale, Cached, Current
    <3>3. k \in excused => k \in excused'
      BY <1>7 DEF Commit
    <3>4. Pending(k) => Pending(k)'
      BY <2>1, <2>2, <1>o DEF Labels
    <3> QED BY <3>2, <3>3, <3>4, <1>x
  <2> QED BY <2>3, <2>4, <2>5
<1>8. ASSUME NEW w \in Workers, DeleteKey(w) PROVE k \in excused' \/ Pending(k)'
  <2>1. cache'[k] = cache[k] /\ k # key[w] /\ (k \in excused => k \in excused')
    BY <1>8, <1>0, DeleteSame DEF DeleteKey
  <2>2. Return(w) \/ \E l \in Labels : Goto(w, l)
    BY <1>8 DEF DeleteKey, Labels
  <2>3. Pending(k) => Pending(k)'
    BY <2>1, <2>2, <1>0, OthersStay
  <2> QED BY <1>8, <2>1, <2>3, <1>0, <1>s DEF DeleteKey
<1>9. ASSUME NEW w \in Workers, DeleteExtra(w) PROVE k \in excused' \/ Pending(k)'
  <2>1. cache'[k] = cache[k] /\ (k \in excused => k \in excused')
    BY <1>9, <1>0, DeleteSame DEF DeleteExtra
  <2> QED BY <1>9, <2>1, <1>0, <1>o, <1>s DEF DeleteExtra
<1>10. ASSUME NEW w \in Workers, ScanBatch(w) PROVE k \in excused' \/ Pending(k)'
  <2>1. at[w] # "delete" /\ (Return(w) \/ \E l \in Labels : Goto(w, l))
    BY <1>10 DEF ScanBatch, Labels
  <2> QED BY <1>10, <2>1, <1>0, <1>o, <1>s DEF ScanBatch
<1>11. ASSUME NEW w \in Workers, DeleteFound(w) PROVE k \in excused' \/ Pending(k)'
  <2>1. cache'[k] = cache[k] /\ (k \in excused => k \in excused')
    BY <1>11, <1>0, DeleteSame DEF DeleteFound
  <2>2. at[w] # "delete" /\ (Return(w) \/ \E l \in Labels : Goto(w, l))
    BY <1>11 DEF DeleteFound, Labels
  <2> QED BY <1>11, <2>1, <2>2, <1>0, <1>o, <1>s DEF DeleteFound
<1>12. ASSUME NEW w \in Workers, Fail(w) PROVE k \in excused' \/ Pending(k)'
  <2>1. UNCHANGED tables /\ cache' = cache /\ (k \in excused => k \in excused') /\ Return(w)
    BY <1>12 DEF Fail
  <2>2. CASE at[w] = "delete" /\ k = key[w]
    BY <1>12, <2>1, <2>2, <1>0 DEF Fail, Cached
  <2>3. CASE at[w] # "delete" \/ k # key[w]
    <3>1. Pending(k) => Pending(k)'
      BY <2>1, <2>3, <1>0, OthersStay
    <3> QED BY <2>1, <3>1, <1>0, <1>s
  <2> QED BY <2>2, <2>3
<1>13. ASSUME NEW u \in Users, NEW p \in Posts, WritePost(u, p)
       PROVE  k \in excused' \/ Pending(k)'
  <2>1. cache' = cache /\ excused' = excused /\ at' = at /\ key' = key
    BY <1>13 DEF WritePost, request
  <2>2. View(k)[p] = 0
    BY <1>13 DEF WritePost, View, Shown
  <2>3. \A q \in Posts : q # p => View(k)'[q] = View(k)[q]
    BY <1>13, <1>0 DEF WritePost, View, Shown, TablesOK
  <2>4. PICK q \in Posts : cache[k].shows[q] # 0 /\ cache[k].shows[q] # View(k)'[q]
    BY <2>1 DEF Stale, Current
  <2>5. cache[k].shows[q] # View(k)[q]
    BY <2>2, <2>3, <2>4
  <2>6. Stale(k)
    BY <2>1, <2>4, <2>5, <1>0 DEF Stale, Cached, Current
  <2> QED BY <2>1, <2>6, <1>x DEF Pending
<1>14. ASSUME Tick PROVE k \in excused' \/ Pending(k)'
  <2>1. cache'[k] = IF k \in Expiring \/ ~Cached(k) THEN None ELSE Aged(cache[k])
    BY <1>14, <1>0 DEF Tick
  <2>2. k \notin Expiring /\ Cached(k) /\ cache'[k] = Aged(cache[k])
    BY <2>1, <1>0
  <2>3. cache[k] \in Entries
    BY <2>2, <1>0 DEF Cached, CacheOK
  <2>4. Aged(cache[k]).shows = cache[k].shows
    BY <2>3 DEF Entries, Aged
  <2>5. UNCHANGED tables /\ (k \in excused => k \in excused') /\ (Pending(k) => Pending(k)')
    BY <1>14, <2>2 DEF Tick, Pending, request
  <2> QED BY <2>2, <2>4, <2>5, <1>s DEF Cached
<1> QED
  BY <1>1, <1>2, <1>3, <1>4, <1>5, <1>6, <1>7, <1>8, <1>9, <1>10, <1>11, <1>12,
     <1>13, <1>14 DEF Next, Proceed

\* However many requests interleave, a cached post is wrong only while its key is
\* about to be deleted, or because of a late fill, a failure or another path.
THEOREM StaleAlwaysExplained == Spec => []StaleExplained
<1>1. Init => StaleExplained
  BY PostKeyParts DEF Init, StaleExplained, Stale, Cached
<1> QED BY <1>1, StaleStep, TypeStep, TypeCorrect, PTL DEF Spec

-----------------------------------------------------------------------------
(* Expiry.                                                                 *)

\* A key without a life has a request that will give it one: whoever set the key last
\* has still to send its EXPIRE, and an EXPIRE of another request only helps.
LEMMA ArmedStep == TypeOK /\ ArmedUnlessFailed /\ [Next]_vars => ArmedUnlessFailed'
<1> SUFFICES ASSUME TypeOK, ArmedUnlessFailed, [Next]_vars, failures' = 0,
                    NEW k \in Keys, Unarmed(k)'
             PROVE  Arming(k)'
  BY DEF ArmedUnlessFailed, Armed, Unarmed, Arming
<1>0. /\ TablesOK /\ CacheOK /\ RequestsOK /\ ScanOK /\ BoundsOK
      /\ cache'[k] # None /\ cache'[k].ttl = 0
  BY TypeParts DEF Unarmed, Cached
<1>k. \A w \in Workers : at[w] # "idle" => key[w] \in Keys
  BY KeyOf
<1>x. failures = 0 /\ Unarmed(k) => Arming(k)
  BY DEF ArmedUnlessFailed, Armed, Unarmed, Arming
<1>s. ASSUME failures' = failures, cache'[k] = cache[k], Arming(k) => Arming(k)'
      PROVE  Arming(k)'
  BY <1>s, <1>0, <1>x DEF Unarmed, Cached
<1>w. ASSUME NEW w \in Workers, failures' = failures, cache'[k] = cache[k],
             at[w] # "expire",
             \/ Return(w)
             \/ \E l \in Labels : Goto(w, l)
             \/ \E o \in Ops, c \in Keys, l \in Labels : Begin(w, o, c, l)
      PROVE  Arming(k)'
  BY <1>w, <1>0, <1>s, OthersStay
<1>1. CASE UNCHANGED vars
  BY <1>1, <1>s DEF vars, request, Arming
<1>2. ASSUME NEW w \in Workers, Miss(w) PROVE Arming(k)'
  <2>1. \E c \in Keys : Begin(w, "read", c, "func")
    BY <1>2, PostKeyParts, ListKeyParts DEF Miss
  <2>2. at[w] # "expire" /\ "read" \in Ops /\ "func" \in Labels
    BY <2>1 DEF Begin, Ops, Labels
  <2> QED BY <1>2, <2>1, <2>2, <1>w DEF Miss
<1>3. ASSUME NEW w \in Workers, BeginWrite(w) PROVE Arming(k)'
  <2>1. \E o \in Ops, c \in Keys : Begin(w, o, c, "write")
    BY <1>3, PostKeyParts DEF BeginWrite
  <2>2. at[w] # "expire" /\ "write" \in Labels
    BY <2>1 DEF Begin, Labels
  <2> QED BY <1>3, <2>1, <2>2, <1>w DEF BeginWrite
<1>4. ASSUME NEW w \in Workers, Read(w) PROVE Arming(k)'
  BY <1>4, <1>w DEF Read, Labels
<1>5. ASSUME NEW w \in Workers, Fill(w) PROVE Arming(k)'
  <2>1. CASE k = key[w]
    BY <1>5, <2>1, <1>0 DEF Fill, Goto, Arming, RequestsOK
  <2>2. CASE k # key[w]
    <3>1. cache'[k] = cache[k]
      BY <1>5, <2>2, <1>0 DEF Fill, Store, CacheOK
    <3> QED BY <1>5, <3>1, <1>w DEF Fill, Labels
  <2> QED BY <2>1, <2>2
<1>6. ASSUME NEW w \in Workers, Expire(w) PROVE Arming(k)'
  <2>1. CASE k # key[w]
    <3>1. cache'[k] = cache[k]
      BY <1>6, <2>1, <1>0 DEF Expire, CacheOK
    <3> QED BY <1>6, <2>1, <3>1, <1>0, <1>s, OthersStay DEF Expire
  <2>2. CASE k = key[w]
    <3>1. Cached(k) /\ cache[k] \in Entries
      BY <1>6, <2>2, <1>0 DEF Expire, Cached, CacheOK
    <3>2. cache'[k] = [cache[k] EXCEPT !.ttl = Life(k)]
      BY <1>6, <2>2, <3>1, <1>0 DEF Expire, CacheOK
    <3>3. cache'[k].ttl = Life(k)
      BY <3>1, <3>2 DEF Entries
    <3>4. Life(k) = 0
      BY <3>3, <1>0, Zenon
    <3>5. Life(k) > 0 /\ Life(k) \in Nat
      BY LifePositive
    <3> QED BY <3>4, <3>5
  <2> QED BY <2>1, <2>2
<1>7. ASSUME NEW w \in Workers, Commit(w) PROVE Arming(k)'
  BY <1>7, <1>w DEF Commit, Labels
<1>8. ASSUME NEW w \in Workers, DeleteKey(w) PROVE Arming(k)'
  <2>1. cache'[k] = cache[k]
    BY <1>8, <1>0, DeleteSame DEF DeleteKey
  <2>2. Return(w) \/ \E l \in Labels : Goto(w, l)
    BY <1>8 DEF DeleteKey, Labels
  <2> QED BY <1>8, <2>1, <2>2, <1>w DEF DeleteKey
<1>9. ASSUME NEW w \in Workers, DeleteExtra(w) PROVE Arming(k)'
  <2>1. cache'[k] = cache[k]
    BY <1>9, <1>0, DeleteSame DEF DeleteExtra
  <2> QED BY <1>9, <2>1, <1>w DEF DeleteExtra
<1>10. ASSUME NEW w \in Workers, ScanBatch(w) PROVE Arming(k)'
  <2>1. Return(w) \/ \E l \in Labels : Goto(w, l)
    BY <1>10 DEF ScanBatch, Labels
  <2> QED BY <1>10, <2>1, <1>w DEF ScanBatch
<1>11. ASSUME NEW w \in Workers, DeleteFound(w) PROVE Arming(k)'
  <2>1. cache'[k] = cache[k]
    BY <1>11, <1>0, DeleteSame DEF DeleteFound
  <2>2. Return(w) \/ \E l \in Labels : Goto(w, l)
    BY <1>11 DEF DeleteFound, Labels
  <2> QED BY <1>11, <2>1, <2>2, <1>w DEF DeleteFound
<1>12. ASSUME NEW w \in Workers, Fail(w) PROVE Arming(k)'
  BY <1>12, <1>0 DEF Fail, BoundsOK
<1>13. ASSUME NEW u \in Users, NEW p \in Posts, WritePost(u, p) PROVE Arming(k)'
  BY <1>13, <1>s DEF WritePost, request, Arming
<1>14. ASSUME Tick PROVE Arming(k)'
  <2>1. cache'[k] = IF k \in Expiring \/ ~Cached(k) THEN None ELSE Aged(cache[k])
    BY <1>14, <1>0 DEF Tick
  <2>2. k \notin Expiring /\ Cached(k) /\ Aged(cache[k]).ttl = 0
    BY <2>1, <1>0
  <2>3. cache[k] \in Entries /\ cache[k].ttl \in Nat /\ cache[k].ttl # 1
    BY <2>2, <1>0 DEF Expiring, Cached, CacheOK, Entries
  <2>4. CASE cache[k].ttl = 0
    <3>1. Aged(cache[k]) = cache[k]
      BY <2>4 DEF Aged
    <3> QED BY <1>14, <2>1, <2>2, <3>1, <1>s DEF Tick, request, Arming
  <2>5. CASE cache[k].ttl # 0
    <3>1. Aged(cache[k]) = [cache[k] EXCEPT !.ttl = cache[k].ttl - 1]
      BY <2>5 DEF Aged
    <3>2. Aged(cache[k]).ttl = cache[k].ttl - 1
      BY <3>1, <2>3 DEF Entries
    <3> QED BY <3>2, <2>2, <2>3
  <2> QED BY <2>4, <2>5
<1> QED
  BY <1>1, <1>2, <1>3, <1>4, <1>5, <1>6, <1>7, <1>8, <1>9, <1>10, <1>11, <1>12,
     <1>13, <1>14 DEF Next, Proceed

\* As long as no command fails, every key of the cache will expire.
THEOREM KeysExpire == Spec => []ArmedUnlessFailed
<1>1. Init => ArmedUnlessFailed
  BY DEF Init, ArmedUnlessFailed, Armed, Cached
<1> QED BY <1>1, ArmedStep, TypeCorrect, PTL DEF Spec
=============================================================================
