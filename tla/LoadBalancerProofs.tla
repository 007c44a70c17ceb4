-------------------------- MODULE LoadBalancerProofs --------------------------
(***************************************************************************)
(* The load balancer, for every number of servers and conversations and    *)
(* every size of the cache: its counters are exact, and a conversation     *)
(* stays with its server until the cache may forget it.                    *)
(***************************************************************************)
EXTENDS LoadBalancer, FiniteSetTheorems, SequenceTheorems, TLAPS

Remembered(c) == \E i \in DOMAIN recent : recent[i] = c
Distinct(l) == \A i, j \in DOMAIN l : l[i] = l[j] => i = j

(* What makes the two properties inductive. A remembered conversation is   *)
(* routed to the server it was last at, and a server is on record only for *)
(* such a one. Whoever stands behind c in the cache has acquired a server  *)
(* since c did; so one that is forgotten was overtaken by a cacheful.      *)
RoutesOK ==
    /\ Distinct(recent)
    /\ \A c \in Conversations :
          Remembered(c) => route[c] = at[c] /\ at[c] \in Servers
    /\ \A c \in Conversations : conv[c] = "generating" => at[c] \in Servers

OrderOK ==
    /\ \A i, j \in DOMAIN recent : i < j => recent[j] \in since[recent[i]]
    /\ \A c \in Conversations :
          at[c] # NoServer /\ ~Remembered(c) => Cardinality(since[c]) >= MaxCacheSize

LInv == TypeOK /\ RoutesOK /\ CountersExact /\ OrderOK

-----------------------------------------------------------------------------
(* Where the entries of the cache stand after the i-th of n was renewed.    *)
LEMMA Places ==
    ASSUME NEW n \in Nat, NEW i \in 1 .. n, NEW j \in 1 .. n, NEW k \in 1 .. n, j < k
    PROVE  LET From(x) == IF x < i THEN x ELSE IF x < n THEN x + 1 ELSE i
           IN  \/ From(k) = i /\ From(j) # i
               \/ From(j) < From(k) /\ From(j) # i /\ From(k) # i
  OBVIOUS

(* A lookup permutes the cache: the key moves to the end, and the others   *)
(* keep their order.                                                       *)
LEMMA Renewing ==
    ASSUME recent \in Seq(Conversations), Distinct(recent),
           NEW i \in DOMAIN recent
    PROVE  /\ Renewed(i) \in Seq(Conversations)
           /\ Len(Renewed(i)) = Len(recent)
           /\ Distinct(Renewed(i))
           /\ \A c : (\E j \in DOMAIN Renewed(i) : Renewed(i)[j] = c) <=> Remembered(c)
           /\ \A j, k \in DOMAIN Renewed(i) : j < k =>
                 \/ Renewed(i)[k] = recent[i] /\ Renewed(i)[j] # recent[i]
                 \/ \E a, b \in DOMAIN recent :
                       /\ a < b
                       /\ recent[a] = Renewed(i)[j] /\ recent[b] = Renewed(i)[k]
                       /\ recent[a] # recent[i] /\ recent[b] # recent[i]
  <1> DEFINE n == Len(recent)
             l == Renewed(i)
             From(j) == IF j < i THEN j ELSE IF j < n THEN j + 1 ELSE i
  <1>1. n \in Nat /\ DOMAIN recent = 1 .. n /\ i \in 1 .. n
    OBVIOUS
  <1>2. DOMAIN l = 1 .. n /\ \A j \in 1 .. n : l[j] = recent[From(j)]
    BY DEF Renewed
  <1>3. \A j \in 1 .. n : From(j) \in 1 .. n
    BY <1>1
  <1>4. \A j \in 1 .. n : recent[j] \in Conversations
    BY <1>1
  <1>5. l \in [1 .. n -> Conversations]
    BY <1>1, <1>4 DEF Renewed
  <1>6. l \in Seq(Conversations) /\ Len(l) = n
    BY <1>1, <1>5
  <1>7. ASSUME NEW j \in 1 .. n, NEW k \in 1 .. n, j < k
        PROVE  \/ From(k) = i /\ From(j) # i
               \/ From(j) < From(k) /\ From(j) # i /\ From(k) # i
    BY <1>1, <1>7, Places
  <1>8. ASSUME NEW j \in 1 .. n, NEW k \in 1 .. n, From(j) = From(k)
        PROVE  j = k
    <2> HIDE DEF From
    <2>1. From(j) \in 1 .. n /\ From(k) \in 1 .. n
      BY <1>3
    <2>2. ~(j < k) /\ ~(k < j)
      BY <1>7, <1>8, <2>1
    <2> QED
      BY <2>2
  <1>9. \A k \in 1 .. n : \E j \in 1 .. n : From(j) = k
    <2> SUFFICES ASSUME NEW k \in 1 .. n PROVE \E j \in 1 .. n : From(j) = k
      OBVIOUS
    <2>1. CASE k < i
      <3> WITNESS k \in 1 .. n
      <3> QED BY <1>1, <2>1
    <2>2. CASE k = i
      <3>1. n \in 1 .. n
        BY <1>1
      <3> WITNESS n \in 1 .. n
      <3> QED BY <1>1, <2>2
    <2>3. CASE k > i
      <3>1. k - 1 \in 1 .. n
        BY <1>1, <2>3
      <3> WITNESS k - 1 \in 1 .. n
      <3> QED BY <1>1, <2>3
    <2> QED BY <1>1, <2>1, <2>2, <2>3
  <1> HIDE DEF l, From, n
  <1>10. \A a, b \in 1 .. n : recent[a] = recent[b] => a = b
    BY <1>1 DEF Distinct
  <1>11. Distinct(l)
    BY <1>2, <1>3, <1>8, <1>10 DEF Distinct
  <1>12. \A c : (\E j \in DOMAIN l : l[j] = c) <=> Remembered(c)
    BY <1>1, <1>2, <1>3, <1>9 DEF Remembered
  <1>13. ASSUME NEW j \in 1 .. n, NEW k \in 1 .. n, j < k
         PROVE  \/ l[k] = recent[i] /\ l[j] # recent[i]
                \/ \E a, b \in DOMAIN recent :
                      /\ a < b
                      /\ recent[a] = l[j] /\ recent[b] = l[k]
                      /\ recent[a] # recent[i] /\ recent[b] # recent[i]
    <2>1. From(j) \in 1 .. n /\ From(k) \in 1 .. n
          /\ l[j] = recent[From(j)] /\ l[k] = recent[From(k)]
      BY <1>2, <1>3
    <2>2. CASE From(k) = i /\ From(j) # i
      BY <1>1, <1>10, <2>1, <2>2
    <2>3. CASE From(j) < From(k) /\ From(j) # i /\ From(k) # i
      BY <1>1, <1>10, <2>1, <2>3
    <2> QED
      BY <1>7, <1>13, <2>2, <2>3
  <1> QED
    BY <1>2, <1>6, <1>11, <1>12, <1>13 DEF l, n

(* Sets of conversations are finite.                                       *)
LEMMA ConversationsFinite ==
    ASSUME NEW T \in SUBSET Conversations
    PROVE  IsFiniteSet(T) /\ Cardinality(T) \in Nat
  BY ConversationsAssumption, FS_Subset, FS_CardinalityType

(* Growing a set of conversations does not make it smaller.                *)
LEMMA Grows ==
    ASSUME NEW T \in SUBSET Conversations, NEW c \in Conversations
    PROVE  Cardinality(T \union {c}) >= Cardinality(T)
  BY ConversationsFinite, FS_AddElement

-----------------------------------------------------------------------------
THEOREM LInit == Init => LInv
  <1> SUFFICES ASSUME Init PROVE LInv
    OBVIOUS
  <1> USE DEF Init
  <1>1. recent = << >> /\ DOMAIN recent = {} /\ Len(recent) = 0
    OBVIOUS
  <1>2. TypeOK
    BY <1>1, CacheAssumption, TurnsAssumption DEF TypeOK
  <1>3. RoutesOK
    BY <1>1 DEF RoutesOK, Distinct, Remembered
  <1>4. CountersExact
    <2>1. \A s \in Servers : WorkingAt(s) = {}
      BY DEF WorkingAt
    <2> QED
      BY <2>1, FS_EmptySet DEF CountersExact
  <1>5. OrderOK
    BY <1>1 DEF OrderOK, Remembered
  <1> QED
    BY <1>2, <1>3, <1>4, <1>5 DEF LInv

(* What every acquisition does to the counters.                            *)
LEMMA RoutedCounts ==
    ASSUME TypeOK, CountersExact, NEW c \in Conversations, NEW s \in Servers,
           conv[c] = "calling", Routed(c, s)
    PROVE  CountersExact'
  <1> SUFFICES ASSUME NEW t \in Servers
               PROVE  inflight'[t] = Cardinality(WorkingAt(t)') + releases'[t]
    BY DEF CountersExact
  <1>1. WorkingAt(t) \in SUBSET Conversations /\ c \notin WorkingAt(t)
    BY DEF WorkingAt
  <1>2. IsFiniteSet(WorkingAt(t)) /\ Cardinality(WorkingAt(t)) \in Nat
    BY <1>1, ConversationsFinite
  <1>3. inflight[t] = Cardinality(WorkingAt(t)) + releases[t]
        /\ inflight[t] \in Nat /\ releases[t] \in Nat /\ releases' = releases
    BY DEF CountersExact, TypeOK, Routed
  <1>4. CASE t = s
    <2>1. WorkingAt(t)' = WorkingAt(t) \union {c}
      BY <1>4 DEF WorkingAt, Routed, TypeOK
    <2>2. Cardinality(WorkingAt(t)') = Cardinality(WorkingAt(t)) + 1
      BY <1>1, <1>2, <2>1, FS_AddElement
    <2>3. inflight'[t] = inflight[t] + 1
      BY <1>4 DEF Routed, TypeOK
    <2> QED
      BY <1>2, <1>3, <2>2, <2>3
  <1>5. CASE t # s
    <2>1. WorkingAt(t)' = WorkingAt(t)
      BY <1>1, <1>5 DEF WorkingAt, Routed, TypeOK
    <2>2. inflight'[t] = inflight[t]
      BY <1>5 DEF Routed, TypeOK
    <2> QED
      BY <1>3, <2>1, <2>2
  <1> QED
    BY <1>4, <1>5

(* The first to be evicted has been overtaken by the rest of a full cache  *)
(* and by the newcomer.                                                    *)
LEMMA Overtaken ==
    ASSUME LInv, NEW c \in Conversations, ~Remembered(c),
           Len(recent) = MaxCacheSize
    PROVE  Cardinality(since[recent[1]] \union {c}) >= MaxCacheSize
  <1> DEFINE n == MaxCacheSize
             S == since[recent[1]] \union {c}
             f == [i \in 1 .. n |-> IF i < n THEN recent[i + 1] ELSE c]
  <1>1. n \in Nat \ {0} /\ DOMAIN recent = 1 .. n /\ recent \in Seq(Conversations)
        /\ recent[1] \in Conversations
    BY CacheAssumption DEF LInv, TypeOK
  <1>2. S \in SUBSET Conversations
    BY <1>1 DEF LInv, TypeOK
  <1>3. \A i \in 1 .. n : i < n => recent[i + 1] \in S
    BY <1>1 DEF LInv, OrderOK
  <1>4. f \in [1 .. n -> S]
    BY <1>1, <1>3
  <1>5. \A i \in 1 .. n : recent[i] # c
    BY <1>1 DEF Remembered
  <1>6. \A i, j \in 1 .. n : recent[i] = recent[j] => i = j
    BY <1>1 DEF LInv, RoutesOK, Distinct
  <1>7. ASSUME NEW i \in 1 .. n, NEW j \in 1 .. n, f[i] = f[j]
        PROVE  i = j
    <2>1. (i < n => i + 1 \in 1 .. n) /\ (j < n => j + 1 \in 1 .. n)
      BY <1>1
    <2>2. CASE i < n /\ j < n
      BY <1>1, <1>6, <1>7, <2>1, <2>2
    <2>3. CASE ~(i < n) /\ j < n
      BY <1>1, <1>5, <1>7, <2>1, <2>3
    <2>4. CASE i < n /\ ~(j < n)
      BY <1>1, <1>5, <1>7, <2>1, <2>4
    <2>5. CASE ~(i < n) /\ ~(j < n)
      BY <1>1, <2>5
    <2> QED
      BY <2>2, <2>3, <2>4, <2>5
  <1> HIDE DEF f, S
  <1>8. f \in Injection(1 .. n, S)
    BY <1>4, <1>7 DEF Injection, IsInjective
  <1>9. IsFiniteSet(S) /\ Cardinality(S) \in Nat
    BY <1>2, ConversationsFinite
  <1>10. Cardinality(1 .. n) <= Cardinality(S)
    BY <1>8, <1>9, FS_Injection
  <1>11. Cardinality(1 .. n) = n
    <2>1. 1 \in Int /\ n \in Int /\ ~(1 > n)
      BY <1>1
    <2> HIDE DEF n
    <2>2. Cardinality(1 .. n) = IF 1 > n THEN 0 ELSE n - 1 + 1
      BY <2>1, FS_Interval
    <2> QED
      BY <2>1, <2>2
  <1> QED
    BY <1>1, <1>9, <1>10, <1>11 DEF S

-----------------------------------------------------------------------------
(* Each action keeps the invariant.                                        *)

LEMMA CallKeeps ==
    ASSUME LInv, NEW c \in Conversations, Call(c)
    PROVE  LInv'
  <1> USE DEF Call, lbVars
  <1>1. TypeOK'
    BY TurnsAssumption DEF LInv, TypeOK
  <1>2. RoutesOK'
    BY DEF LInv, RoutesOK, Remembered, Distinct, TypeOK
  <1>3. CountersExact'
    <2>1. \A s \in Servers : WorkingAt(s)' = WorkingAt(s)
      BY DEF LInv, TypeOK, WorkingAt
    <2> QED
      BY <2>1 DEF LInv, CountersExact
  <1>4. OrderOK'
    BY DEF LInv, OrderOK, Remembered
  <1> QED
    BY <1>1, <1>2, <1>3, <1>4 DEF LInv

LEMMA StickyKeeps ==
    ASSUME LInv, NEW c \in Conversations, AcquireSticky(c)
    PROVE  LInv' /\ at' = at
  <1>1. PICK i \in DOMAIN recent : recent[i] = c /\ recent' = Renewed(i)
    BY DEF AcquireSticky
  <1>2. Remembered(c) /\ route[c] = at[c] /\ at[c] \in Servers
    BY <1>1 DEF LInv, RoutesOK, Remembered
  <1>3. /\ conv[c] = "calling" /\ Routed(c, route[c]) /\ route' = route
        /\ turns' = turns /\ releases' = releases
        /\ since' = [d \in Conversations |-> IF d = c THEN {} ELSE since[d] \union {c}]
    BY DEF AcquireSticky, Routed
  <1>4. at' = at
    BY <1>2, <1>3 DEF Routed, LInv, TypeOK
  <1>5. /\ recent' \in Seq(Conversations) /\ Len(recent') = Len(recent)
        /\ Distinct(recent')
        /\ \A d : Remembered(d)' <=> Remembered(d)
        /\ \A j, k \in DOMAIN recent' : j < k =>
              \/ recent'[k] = c /\ recent'[j] # c
              \/ \E a, b \in DOMAIN recent :
                    /\ a < b
                    /\ recent[a] = recent'[j] /\ recent[b] = recent'[k]
                    /\ recent[a] # c /\ recent[b] # c
    <2>1. recent \in Seq(Conversations) /\ Distinct(recent)
      BY DEF LInv, TypeOK, RoutesOK
    <2> DEFINE l == Renewed(i)
    <2>2. /\ l \in Seq(Conversations) /\ Len(l) = Len(recent) /\ Distinct(l)
          /\ \A d : (\E j \in DOMAIN l : l[j] = d) <=> Remembered(d)
          /\ \A j, k \in DOMAIN l : j < k =>
                \/ l[k] = recent[i] /\ l[j] # recent[i]
                \/ \E a, b \in DOMAIN recent :
                      /\ a < b
                      /\ recent[a] = l[j] /\ recent[b] = l[k]
                      /\ recent[a] # recent[i] /\ recent[b] # recent[i]
      BY <2>1, Renewing
    <2>3. recent' = l /\ recent[i] = c
      BY <1>1
    <2> HIDE DEF l
    <2>4. \A d : Remembered(d)' <=> Remembered(d)
      BY <2>2, <2>3 DEF Remembered
    <2> QED
      BY <2>2, <2>3, <2>4
  <1>6. TypeOK'
    BY <1>2, <1>3, <1>4, <1>5 DEF LInv, TypeOK, Routed
  <1>7. RoutesOK'
    BY <1>2, <1>3, <1>4, <1>5 DEF LInv, RoutesOK, Routed, TypeOK
  <1>8. CountersExact'
    BY <1>2, <1>3, RoutedCounts DEF LInv
  <1>9. OrderOK'
    <2>1. ASSUME NEW j \in DOMAIN recent', NEW k \in DOMAIN recent', j < k
          PROVE  recent'[k] \in since'[recent'[j]]
      <3>1. recent'[j] \in Conversations
        BY <1>5
      <3>2. CASE recent'[k] = c /\ recent'[j] # c
        BY <1>3, <3>1, <3>2
      <3>3. CASE \E a, b \in DOMAIN recent :
                    /\ a < b
                    /\ recent[a] = recent'[j] /\ recent[b] = recent'[k]
                    /\ recent[a] # c /\ recent[b] # c
        BY <1>3, <3>1, <3>3 DEF LInv, OrderOK
      <3> QED
        BY <1>5, <2>1, <3>2, <3>3
    <2>2. ASSUME NEW d \in Conversations, at[d] # NoServer, ~Remembered(d)
          PROVE  Cardinality(since'[d]) >= MaxCacheSize
      <3>1. d # c /\ since'[d] = since[d] \union {c}
        BY <1>2, <1>3, <2>2
      <3>2. Cardinality(since[d]) >= MaxCacheSize
        BY <2>2 DEF LInv, OrderOK
      <3>3. since[d] \in SUBSET Conversations
        BY DEF LInv, TypeOK
      <3>4. since'[d] \in SUBSET Conversations
        BY <3>1, <3>3
      <3> QED
        BY <3>1, <3>2, <3>3, <3>4, Grows, ConversationsFinite, CacheAssumption
    <2> QED
      BY <1>4, <1>5, <2>1, <2>2 DEF OrderOK
  <1> QED
    BY <1>4, <1>6, <1>7, <1>8, <1>9 DEF LInv

LEMMA NewKeeps ==
    ASSUME LInv, NEW c \in Conversations, AcquireNew(c)
    PROVE  /\ LInv'
           /\ \A d \in Conversations \ {c} : at'[d] = at[d]
           /\ ~Remembered(c)
  <1> DEFINE n == Len(recent)
  <1>1. PICK s \in Servers :
           /\ Routed(c, s)
           /\ IF n < MaxCacheSize
              THEN /\ route' = [route EXCEPT ![c] = s]
                   /\ recent' = Append(recent, c)
              ELSE /\ route' = [route EXCEPT ![Head(recent)] = NoServer, ![c] = s]
                   /\ recent' = Append(Tail(recent), c)
    BY DEF AcquireNew
  <1>2. ~Remembered(c) /\ conv[c] = "calling" /\ s # NoServer
    BY NoServerAssumption DEF AcquireNew, Remembered
  <1>3. /\ recent \in Seq(Conversations) /\ n \in Nat /\ n <= MaxCacheSize
        /\ DOMAIN recent = 1 .. n /\ MaxCacheSize \in Nat \ {0}
    BY CacheAssumption DEF LInv, TypeOK
  <1>4. /\ conv' = [conv EXCEPT ![c] = "generating"]
        /\ at' = [at EXCEPT ![c] = s]
        /\ since' = [d \in Conversations |-> IF d = c THEN {} ELSE since[d] \union {c}]
        /\ inflight' = [inflight EXCEPT ![s] = @ + 1]
        /\ turns' = turns /\ releases' = releases
    BY <1>1 DEF Routed
  <1>5. CountersExact'
    BY <1>1, <1>2, RoutedCounts DEF LInv
  <1>6. ASSUME NEW d \in Conversations, at'[d] # NoServer, d # c,
               Cardinality(since[d]) >= MaxCacheSize
        PROVE  Cardinality(since'[d]) >= MaxCacheSize
    <2>1. since'[d] = since[d] \union {c} /\ since[d] \in SUBSET Conversations
      BY <1>4, <1>6 DEF LInv, TypeOK
    <2>2. since'[d] \in SUBSET Conversations
      BY <2>1
    <2> QED
      BY <1>3, <1>6, <2>1, <2>2, Grows, ConversationsFinite
  <1>7. CASE n < MaxCacheSize
    <2>1. /\ recent' = Append(recent, c) /\ route' = [route EXCEPT ![c] = s]
          /\ recent' \in Seq(Conversations) /\ Len(recent') = n + 1
          /\ DOMAIN recent' = 1 .. n + 1 /\ recent'[n + 1] = c
          /\ \A i \in 1 .. n : recent'[i] = recent[i]
      BY <1>1, <1>3, <1>7
    <2> HIDE DEF n
    <2>2. \A d : Remembered(d)' <=> Remembered(d) \/ d = c
      BY <1>3, <2>1 DEF Remembered
    <2>3. TypeOK'
      BY <1>3, <1>4, <1>7, <2>1 DEF LInv, TypeOK
    <2>4. RoutesOK'
      <3>1. Distinct(recent')
        BY <1>2, <1>3, <2>1 DEF LInv, RoutesOK, Distinct, Remembered
      <3>2. \A d \in Conversations :
               Remembered(d)' => route'[d] = at'[d] /\ at'[d] \in Servers
        BY <1>4, <2>1, <2>2 DEF LInv, RoutesOK, TypeOK
      <3>3. \A d \in Conversations : conv'[d] = "generating" => at'[d] \in Servers
        BY <1>4 DEF LInv, RoutesOK, TypeOK
      <3> QED
        BY <3>1, <3>2, <3>3 DEF RoutesOK
    <2>5. OrderOK'
      <3>1. \A i, j \in 1 .. n + 1 : i < j => recent'[j] \in since'[recent'[i]]
        <4> SUFFICES ASSUME NEW i \in 1 .. n + 1, NEW j \in 1 .. n + 1, i < j
                     PROVE  recent'[j] \in since'[recent'[i]]
          OBVIOUS
        <4>1. i \in 1 .. n
          BY <1>3
        <4>2. recent'[i] = recent[i] /\ recent[i] \in Conversations /\ recent[i] # c
          BY <1>2, <1>3, <2>1, <4>1 DEF Remembered
        <4>3. since'[recent'[i]] = since[recent[i]] \union {c}
          BY <1>4, <4>2
        <4>4. CASE j = n + 1
          BY <2>1, <4>3, <4>4
        <4>5. CASE j \in 1 .. n
          BY <1>3, <2>1, <4>1, <4>3, <4>5 DEF LInv, OrderOK
        <4> QED
          BY <1>3, <4>4, <4>5
      <3>2. ASSUME NEW d \in Conversations, at'[d] # NoServer, ~Remembered(d)'
            PROVE  Cardinality(since'[d]) >= MaxCacheSize
        <4>1. d # c /\ ~Remembered(d)
          BY <2>2, <3>2
        <4>2. at[d] # NoServer
          BY <1>4, <3>2, <4>1 DEF LInv, TypeOK
        <4> QED
          BY <1>6, <3>2, <4>1, <4>2 DEF LInv, OrderOK
      <3> QED
        BY <2>1, <3>1, <3>2 DEF OrderOK
    <2> QED
      BY <1>2, <1>4, <1>5, <2>3, <2>4, <2>5 DEF LInv, TypeOK
  <1>8. CASE n = MaxCacheSize
    <2> DEFINE h == recent[1]
    <2>1. /\ recent' = Append(Tail(recent), c)
          /\ route' = [route EXCEPT ![h] = NoServer, ![c] = s]
          /\ h \in Conversations /\ 1 \in DOMAIN recent
      BY <1>1, <1>3, <1>8
    <2>2. /\ recent' \in Seq(Conversations) /\ Len(recent') = n
          /\ DOMAIN recent' = 1 .. n /\ recent'[n] = c
          /\ \A i \in 1 .. n : i < n => recent'[i] = recent[i + 1]
      BY <1>3, <1>8, <2>1
    <2> HIDE DEF n
    <2>3. Remembered(h)
      BY <2>1 DEF Remembered
    <2>4. \A d : Remembered(d)' <=> (Remembered(d) /\ d # h) \/ d = c
      <3>1. ASSUME NEW i \in 1 .. n PROVE (Remembered(recent'[i]) /\ recent'[i] # h) \/ recent'[i] = c
        <4>1. CASE i < n
          <5>1. i + 1 \in 1 .. n /\ i + 1 # 1
            BY <1>3, <4>1
          <5> QED
            BY <1>3, <2>1, <2>2, <4>1, <5>1 DEF LInv, RoutesOK, Distinct, Remembered
        <4>2. CASE i = n
          BY <2>2, <4>2
        <4> QED
          BY <1>3, <4>1, <4>2
      <3>2. ASSUME NEW i \in 1 .. n, recent[i] # h PROVE \E j \in 1 .. n : recent'[j] = recent[i]
        <4>1. i # 1 /\ i - 1 \in 1 .. n /\ i - 1 < n /\ i - 1 + 1 = i
          BY <1>3, <3>2
        <4> QED
          BY <2>2, <4>1
      <3>3. n \in 1 .. n
        BY <1>3, <1>8
      <3>4. ASSUME NEW d, Remembered(d)'
            PROVE  (Remembered(d) /\ d # h) \/ d = c
        BY <2>2, <3>1, <3>4 DEF Remembered
      <3>5. ASSUME NEW d, Remembered(d) /\ d # h
            PROVE  Remembered(d)'
        BY <1>3, <2>2, <3>2, <3>5 DEF Remembered
      <3>6. Remembered(c)'
        BY <2>2, <3>3 DEF Remembered
      <3> QED
        BY <3>4, <3>5, <3>6
    <2>5. TypeOK'
      <3>1. route' \in [Conversations -> Servers \union {NoServer}]
        BY <2>1 DEF LInv, TypeOK
      <3>2. Len(recent') <= MaxCacheSize /\ recent' \in Seq(Conversations)
        BY <1>3, <2>2
      <3>3. /\ inflight' \in [Servers -> Nat]
            /\ at' \in [Conversations -> Servers \union {NoServer}]
            /\ conv' \in [Conversations -> {"idle", "calling", "generating", "over"}]
            /\ since' \in [Conversations -> SUBSET Conversations]
            /\ turns' \in [Conversations -> 0 .. MaxTurns]
            /\ releases' \in [Servers -> Nat]
        BY <1>4 DEF LInv, TypeOK
      <3> QED
        BY <3>1, <3>2, <3>3 DEF TypeOK
    <2>6. RoutesOK'
      <3>1. Distinct(recent')
        <4> SUFFICES ASSUME NEW i \in 1 .. n, NEW j \in 1 .. n, i < j
                     PROVE  recent'[i] # recent'[j]
          BY <1>3, <2>2 DEF Distinct
        <4>1. i < n /\ i + 1 \in 1 .. n
          BY <1>3
        <4>2. CASE j < n
          <5>1. j + 1 \in 1 .. n /\ i + 1 # j + 1
            BY <1>3, <4>2
          <5> QED
            BY <1>3, <2>2, <4>1, <4>2, <5>1 DEF LInv, RoutesOK, Distinct
        <4>3. CASE j = n
          BY <1>2, <1>3, <2>2, <4>1, <4>3 DEF Remembered
        <4> QED
          BY <1>3, <4>2, <4>3
      <3>2. \A d \in Conversations :
               Remembered(d)' => route'[d] = at'[d] /\ at'[d] \in Servers
        BY <1>4, <2>1, <2>4 DEF LInv, RoutesOK, TypeOK
      <3>3. \A d \in Conversations : conv'[d] = "generating" => at'[d] \in Servers
        BY <1>4 DEF LInv, RoutesOK, TypeOK
      <3> QED
        BY <3>1, <3>2, <3>3 DEF RoutesOK
    <2>7. OrderOK'
      <3>1. \A i, j \in 1 .. n : i < j => recent'[j] \in since'[recent'[i]]
        <4> SUFFICES ASSUME NEW i \in 1 .. n, NEW j \in 1 .. n, i < j
                     PROVE  recent'[j] \in since'[recent'[i]]
          OBVIOUS
        <4>1. i < n /\ i + 1 \in 1 .. n
          BY <1>3
        <4>2. /\ recent'[i] = recent[i + 1] /\ recent[i + 1] \in Conversations
              /\ recent[i + 1] # c
          BY <1>2, <1>3, <2>2, <4>1 DEF Remembered
        <4>3. since'[recent'[i]] = since[recent[i + 1]] \union {c}
          BY <1>4, <4>2
        <4>4. CASE j = n
          BY <2>2, <4>3, <4>4
        <4>5. CASE j < n
          <5>1. j + 1 \in 1 .. n /\ i + 1 < j + 1
            BY <1>3, <4>5
          <5> QED
            BY <1>3, <2>2, <4>1, <4>3, <4>5, <5>1 DEF LInv, OrderOK
        <4> QED
          BY <1>3, <4>4, <4>5
      <3>2. ASSUME NEW d \in Conversations, at'[d] # NoServer, ~Remembered(d)'
            PROVE  Cardinality(since'[d]) >= MaxCacheSize
        <4>1. d # c /\ (d = h \/ ~Remembered(d))
          BY <2>4, <3>2
        <4>2. CASE d = h
          <5>1. since'[d] = since[recent[1]] \union {c}
            BY <1>4, <4>1, <4>2
          <5> QED
            BY <1>2, <1>8, <5>1, Overtaken DEF n
        <4>3. CASE ~Remembered(d)
          <5>1. at[d] # NoServer
            BY <1>4, <3>2, <4>1 DEF LInv, TypeOK
          <5> QED
            BY <1>6, <3>2, <4>1, <4>3, <5>1 DEF LInv, OrderOK
        <4> QED
          BY <4>1, <4>2, <4>3
      <3> QED
        BY <2>2, <3>1, <3>2 DEF OrderOK
    <2> QED
      BY <1>2, <1>4, <1>5, <2>5, <2>6, <2>7 DEF LInv, TypeOK
  <1> HIDE DEF n
  <1>9. n < MaxCacheSize \/ n = MaxCacheSize
    BY <1>3
  <1> QED
    BY <1>7, <1>8, <1>9

(* The end of a turn moves one request from the working to the releases.   *)
LEMMA EndKeeps ==
    ASSUME LInv, NEW c \in Conversations, TurnEnds(c)
    PROVE  LInv'
  <1> DEFINE s == at[c]
  <1>1. /\ conv[c] = "generating"
        /\ conv' = [conv EXCEPT ![c] = "idle"] \/ conv' = [conv EXCEPT ![c] = "over"]
        /\ releases' = [releases EXCEPT ![s] = @ + 1]
        /\ inflight' = inflight /\ route' = route /\ recent' = recent
        /\ turns' = turns /\ at' = at /\ since' = since
    BY DEF TurnEnds, lbVars
  <1>2. s \in Servers
    BY <1>1 DEF LInv, RoutesOK
  <1>3. TypeOK'
    <2>1. conv' \in [Conversations -> {"idle", "calling", "generating", "over"}]
      BY <1>1 DEF LInv, TypeOK
    <2>2. releases' \in [Servers -> Nat]
      BY <1>1, <1>2 DEF LInv, TypeOK
    <2> QED
      BY <1>1, <2>1, <2>2 DEF LInv, TypeOK
  <1>4. RoutesOK'
    BY <1>1 DEF LInv, RoutesOK, Remembered, TypeOK
  <1>5. OrderOK'
    BY <1>1 DEF LInv, OrderOK, Remembered
  <1>6. CountersExact'
    <2> SUFFICES ASSUME NEW t \in Servers
                 PROVE  inflight'[t] = Cardinality(WorkingAt(t)') + releases'[t]
      BY DEF CountersExact
    <2>1. WorkingAt(t) \in SUBSET Conversations
      BY DEF WorkingAt
    <2>2. IsFiniteSet(WorkingAt(t)) /\ Cardinality(WorkingAt(t)) \in Nat
      BY <2>1, ConversationsFinite
    <2>3. inflight[t] = Cardinality(WorkingAt(t)) + releases[t]
          /\ inflight[t] \in Nat /\ releases[t] \in Nat
      BY DEF LInv, CountersExact, TypeOK
    <2>4. CASE t = s
      <3>1. WorkingAt(t)' = WorkingAt(t) \ {c} /\ c \in WorkingAt(t)
        BY <1>1, <2>4 DEF WorkingAt, LInv, TypeOK
      <3>2. Cardinality(WorkingAt(t)') = Cardinality(WorkingAt(t)) - 1
        BY <2>2, <3>1, FS_RemoveElement
      <3>3. releases'[t] = releases[t] + 1 /\ inflight'[t] = inflight[t]
        BY <1>1, <2>4 DEF LInv, TypeOK
      <3> QED
        BY <2>2, <2>3, <3>2, <3>3
    <2>5. CASE t # s
      <3>1. WorkingAt(t)' = WorkingAt(t)
        BY <1>1, <2>5 DEF WorkingAt, LInv, TypeOK
      <3>2. releases'[t] = releases[t] /\ inflight'[t] = inflight[t]
        BY <1>1, <2>5 DEF LInv, TypeOK
      <3> QED
        BY <2>3, <3>1, <3>2
    <2> QED
      BY <2>4, <2>5
  <1> QED
    BY <1>3, <1>4, <1>5, <1>6 DEF LInv

(* A release on its way is covered by the counter, so it is never refused. *)
LEMMA ReleaseKeeps ==
    ASSUME LInv, NEW s \in Servers, Release(s)
    PROVE  LInv' /\ inflight[s] > 0
  <1>1. /\ releases[s] > 0
        /\ releases' = [releases EXCEPT ![s] = @ - 1]
        /\ inflight' = [inflight EXCEPT ![s] = IF @ <= 0 THEN @ ELSE @ - 1]
        /\ route' = route /\ recent' = recent /\ conv' = conv
        /\ turns' = turns /\ at' = at /\ since' = since
    BY DEF Release
  <1>2. \A t \in Servers :
           /\ inflight[t] = Cardinality(WorkingAt(t)) + releases[t]
           /\ inflight[t] \in Nat /\ releases[t] \in Nat
           /\ Cardinality(WorkingAt(t)) \in Nat
    <2>1. \A t \in Servers : WorkingAt(t) \in SUBSET Conversations
      BY DEF WorkingAt
    <2> QED
      BY <2>1, ConversationsFinite DEF LInv, CountersExact, TypeOK
  <1>3. inflight[s] > 0
    BY <1>1, <1>2
  <1>4. inflight' = [inflight EXCEPT ![s] = @ - 1]
    <2>1. ~(inflight[s] <= 0)
      BY <1>2, <1>3
    <2> QED
      BY <1>1, <2>1
  <1>5. TypeOK'
    BY <1>1, <1>2, <1>3, <1>4 DEF LInv, TypeOK
  <1>6. RoutesOK'
    BY <1>1 DEF LInv, RoutesOK, Remembered
  <1>7. OrderOK'
    BY <1>1 DEF LInv, OrderOK, Remembered
  <1>8. CountersExact'
    <2> SUFFICES ASSUME NEW t \in Servers
                 PROVE  inflight'[t] = Cardinality(WorkingAt(t)') + releases'[t]
      BY DEF CountersExact
    <2>1. WorkingAt(t)' = WorkingAt(t)
      BY <1>1 DEF WorkingAt
    <2>2. inflight'[t] - releases'[t] = inflight[t] - releases[t]
          /\ inflight'[t] \in Int /\ releases'[t] \in Int
      BY <1>1, <1>2, <1>4 DEF LInv, TypeOK
    <2> QED
      BY <1>2, <2>1, <2>2
  <1> QED
    BY <1>3, <1>5, <1>6, <1>7, <1>8 DEF LInv

LEMMA StutterKeeps ==
    ASSUME LInv, UNCHANGED vars
    PROVE  LInv'
  <1> USE DEF vars, lbVars
  <1>1. CountersExact'
    <2>1. \A s \in Servers : WorkingAt(s)' = WorkingAt(s)
      BY DEF WorkingAt
    <2> QED
      BY <2>1 DEF LInv, CountersExact
  <1> QED
    BY <1>1 DEF LInv, TypeOK, RoutesOK, OrderOK, Remembered

-----------------------------------------------------------------------------
(* The invariant holds in every reachable state.                           *)
THEOREM Balanced == Spec => []LInv
  <1>1. Init => LInv
    BY LInit
  <1>2. LInv /\ [Next]_vars => LInv'
    <2> SUFFICES ASSUME LInv, [Next]_vars PROVE LInv'
      OBVIOUS
    <2>1. ASSUME NEW c \in Conversations, Call(c) PROVE LInv'
      BY <2>1, CallKeeps
    <2>2. ASSUME NEW c \in Conversations, AcquireSticky(c) PROVE LInv'
      BY <2>2, StickyKeeps
    <2>3. ASSUME NEW c \in Conversations, AcquireNew(c) PROVE LInv'
      BY <2>3, NewKeeps
    <2>4. ASSUME NEW c \in Conversations, TurnEnds(c) PROVE LInv'
      BY <2>4, EndKeeps
    <2>5. ASSUME NEW s \in Servers, Release(s) PROVE LInv'
      BY <2>5, ReleaseKeeps
    <2>6. CASE UNCHANGED vars
      BY <2>6, StutterKeeps
    <2> QED
      BY <2>1, <2>2, <2>3, <2>4, <2>5, <2>6 DEF Next
  <1> QED
    BY <1>1, <1>2, PTL DEF Spec

(* Types, and the cache never outgrows max_cache_size.                     *)
THEOREM TypeCorrect == Spec => []TypeOK
  <1>1. LInv => TypeOK
    BY DEF LInv
  <1> QED
    BY <1>1, Balanced, PTL

(* The counters of acquire_server and release_server are exact.            *)
THEOREM CountersAreExact == Spec => []CountersExact
  <1>1. LInv => CountersExact
    BY DEF LInv
  <1> QED
    BY <1>1, Balanced, PTL

(* No release finds a server without a request in flight: the ValueError   *)
(* of release_server (agent_loop.py:93-94) is never raised.                *)
ReleaseAccepted == \A s \in Servers : releases[s] > 0 => inflight[s] > 0

THEOREM NoReleaseRefused == Spec => []ReleaseAccepted
  <1>1. LInv => ReleaseAccepted
    <2> SUFFICES ASSUME LInv, NEW s \in Servers, releases[s] > 0
                 PROVE  inflight[s] > 0
      BY DEF ReleaseAccepted
    <2>1. WorkingAt(s) \in SUBSET Conversations
      BY DEF WorkingAt
    <2>2. Cardinality(WorkingAt(s)) \in Nat
      BY <2>1, ConversationsFinite
    <2> QED
      BY <2>2 DEF LInv, CountersExact, TypeOK
  <1> QED
    BY <1>1, Balanced, PTL

(* A conversation changes its server only when a cacheful of others has    *)
(* acquired one since its last turn.                                       *)
THEOREM Sticky == Spec => StickyUntilEvicted
  <1>1. ASSUME LInv, [Next]_vars
        PROVE  [\A c \in Conversations :
                   at[c] # NoServer /\ at'[c] # at[c] => Cardinality(since[c]) >= MaxCacheSize]_vars
    <2> SUFFICES ASSUME NEW d \in Conversations, at[d] # NoServer, at'[d] # at[d]
                 PROVE  Cardinality(since[d]) >= MaxCacheSize
      OBVIOUS
    <2>1. ASSUME NEW c \in Conversations, Call(c) PROVE FALSE
      BY <2>1 DEF Call
    <2>2. ASSUME NEW c \in Conversations, AcquireSticky(c) PROVE FALSE
      BY <1>1, <2>2, StickyKeeps
    <2>3. ASSUME NEW c \in Conversations, AcquireNew(c)
          PROVE  Cardinality(since[d]) >= MaxCacheSize
      <3>1. d = c /\ ~Remembered(c)
        BY <1>1, <2>3, NewKeeps
      <3> QED
        BY <1>1, <3>1 DEF LInv, OrderOK
    <2>4. ASSUME NEW c \in Conversations, TurnEnds(c) PROVE FALSE
      BY <2>4 DEF TurnEnds
    <2>5. ASSUME NEW s \in Servers, Release(s) PROVE FALSE
      BY <2>5 DEF Release
    <2>6. CASE UNCHANGED vars
      BY <2>6 DEF vars
    <2> QED
      BY <1>1, <2>1, <2>2, <2>3, <2>4, <2>5, <2>6 DEF Next
  <1> QED
    BY <1>1, Balanced, PTL DEF Spec, StickyUntilEvicted
=============================================================================
