--------------------------- MODULE UdpRelayProofs ---------------------------
(***************************************************************************)
(* The cache of associations, the heap and the lookups of UdpRelay agree,  *)
(* for any clients, number of associations and size of the cache.          *)
(***************************************************************************)
EXTENDS UdpRelay, TLAPS

\* The parts of CacheSound and LookupsOwn need each other: an entry that is
\* found is alive because cache and heap agree, a new one has a key of its own
\* because nothing was found, and a lookup that is not stale can only hold an
\* association that was not freed.
IInv == CacheSound /\ LookupsOwn

\* LookupsHold, of lookups that are about to take the place of query.
Holds(qs) ==
    /\ qs \in [Query -> Lookup \cup {None}]
    /\ \A q \in Query : qs[q] # None /\ qs[q].remote # None /\ ~qs[q].stale
                          => remote[qs[q].remote] = [src |-> qs[q].src, af |-> "unspec"]

-----------------------------------------------------------------------------
(* Sequences that hold everything once *)

\* What is left of a sequence without one of its places.
LEMMA RemoveAtElements ==
    ASSUME NEW S, NEW s \in Seq(S), NEW i \in 1..Len(s)
    PROVE  /\ RemoveAt(s, i) \in Seq(S)
           /\ Len(RemoveAt(s, i)) = Len(s) - 1
           /\ \A j \in 1..(Len(s) - 1) : RemoveAt(s, i)[j] = IF j < i THEN s[j] ELSE s[j + 1]
<1>1. PICK a : a = SubSeq(s, 1, i - 1)
  OBVIOUS
<1>2. PICK b : b = SubSeq(s, i + 1, Len(s))
  OBVIOUS
<1>3. a \in Seq(S) /\ Len(a) = i - 1 /\ \A j \in 1..(i - 1) : a[j] = s[j]
  BY <1>1
<1>4. b \in Seq(S) /\ Len(b) = Len(s) - i /\ \A j \in 1..(Len(s) - i) : b[j] = s[i + j]
  BY <1>2
<1>5. RemoveAt(s, i) = a \o b
  BY <1>1, <1>2 DEF RemoveAt
<1>6. a \o b \in Seq(S) /\ Len(a \o b) = Len(a) + Len(b)
  <2>1. a \in Seq(S) /\ b \in Seq(S)
    BY <1>3, <1>4
  <2>2. a \o b \in Seq(S)
    BY <2>1
  <2> QED
    BY <2>1, <2>2
<1>7. Len(s) \in Nat /\ Len(a \o b) = Len(s) - 1
  BY <1>3, <1>4, <1>6
<1>8. ASSUME NEW j \in 1..(Len(s) - 1)
      PROVE  (a \o b)[j] = IF j < i THEN s[j] ELSE s[j + 1]
  <2>1. CASE j < i
    BY <1>3, <1>4, <2>1
  <2>2. CASE j >= i
    <3>1. j - Len(a) \in 1..(Len(s) - i) /\ (a \o b)[j] = b[j - Len(a)]
      BY <1>3, <1>4, <2>2
    <3> QED
      BY <1>3, <1>4, <2>2, <3>1
  <2> QED
    BY <1>7, <2>1, <2>2
<1> QED
  BY <1>5, <1>6, <1>7, <1>8

\* Taking a place out takes its element out, and no other.
LEMMA RemoveAtOnce ==
    ASSUME NEW S, NEW s \in Seq(S), NEW i \in 1..Len(s), IsInjective(s)
    PROVE  /\ Range(RemoveAt(s, i)) = Range(s) \ {s[i]}
           /\ IsInjective(RemoveAt(s, i))
<1> DEFINE t == RemoveAt(s, i)
<1>1. /\ t \in Seq(S) /\ Len(t) = Len(s) - 1 /\ DOMAIN t = 1..(Len(s) - 1) /\ DOMAIN s = 1..Len(s)
      /\ \A j \in 1..(Len(s) - 1) : t[j] = IF j < i THEN s[j] ELSE s[j + 1]
  <2>1. /\ t \in Seq(S) /\ Len(t) = Len(s) - 1
        /\ \A j \in 1..(Len(s) - 1) : t[j] = IF j < i THEN s[j] ELSE s[j + 1]
    BY RemoveAtElements, Zenon
  <2> HIDE DEF t
  <2>2. DOMAIN t = 1..Len(t) /\ DOMAIN s = 1..Len(s)
    BY <2>1
  <2> QED BY <2>1, <2>2
<1> HIDE DEF t
<1>2. ASSUME NEW x \in DOMAIN t, NEW y \in DOMAIN t, t[x] = t[y] PROVE x = y
  <2> DEFINE at(j) == IF j < i THEN j ELSE j + 1
  <2>1. \A j \in DOMAIN t : at(j) \in DOMAIN s /\ t[j] = s[at(j)]
    BY <1>1
  <2>2. at(x) = at(y)
    BY <1>2, <2>1 DEF IsInjective
  <2> QED
    BY <1>1, <2>2
<1>3. ASSUME NEW x \in Range(t) PROVE x \in Range(s) \ {s[i]}
  BY <1>1 DEF Range, IsInjective
<1>4. ASSUME NEW x \in Range(s) \ {s[i]} PROVE x \in Range(t)
  <2>1. PICK j \in 1..Len(s) : s[j] = x /\ j # i
    BY <1>1 DEF Range
  <2>2. CASE j < i
    BY <1>1, <2>1, <2>2 DEF Range
  <2>3. CASE j > i
    <3>1. j - 1 \in 1..(Len(s) - 1) /\ t[j - 1] = x
      BY <1>1, <2>1, <2>3
    <3> QED
      BY <1>1, <3>1 DEF Range
  <2> QED
    BY <2>1, <2>2, <2>3
<1> QED
  BY <1>2, <1>3, <1>4 DEF t, IsInjective

\* A new element at the end.
LEMMA AppendOnce ==
    ASSUME NEW S, NEW s \in Seq(S), NEW x \in S, IsInjective(s), x \notin Range(s)
    PROVE  /\ Append(s, x) \in Seq(S) /\ Len(Append(s, x)) = Len(s) + 1
           /\ Range(Append(s, x)) = Range(s) \cup {x}
           /\ IsInjective(Append(s, x))
<1> DEFINE t == Append(s, x)
<1>1. /\ t \in Seq(S) /\ Len(t) = Len(s) + 1 /\ DOMAIN t = 1..(Len(s) + 1) /\ DOMAIN s = 1..Len(s)
      /\ t[Len(s) + 1] = x /\ \A j \in 1..Len(s) : t[j] = s[j]
  OBVIOUS
<1> HIDE DEF t
<1>2. IsInjective(t) /\ Range(t) = Range(s) \cup {x}
  BY <1>1 DEF IsInjective, Range
<1> QED
  BY <1>1, <1>2 DEF t

\* The oldest element is dropped.
LEMMA TailOnce ==
    ASSUME NEW S, NEW s \in Seq(S), s # << >>, IsInjective(s)
    PROVE  /\ Tail(s) \in Seq(S) /\ Len(Tail(s)) = Len(s) - 1
           /\ Head(s) = s[1] /\ Head(s) \in Range(s)
           /\ Range(Tail(s)) = Range(s) \ {Head(s)}
           /\ IsInjective(Tail(s))
<1> DEFINE t == Tail(s)
<1>1. /\ t \in Seq(S) /\ Len(s) > 0 /\ Len(t) = Len(s) - 1 /\ DOMAIN t = 1..(Len(s) - 1) /\ DOMAIN s = 1..Len(s)
      /\ Head(s) = s[1] /\ \A j \in 1..(Len(s) - 1) : t[j] = s[j + 1]
  OBVIOUS
<1> HIDE DEF t
<1>2. IsInjective(t) /\ Head(s) \in Range(s)
  BY <1>1 DEF IsInjective, Range
<1>3. ASSUME NEW x \in Range(t) PROVE x \in Range(s) \ {Head(s)}
  BY <1>1 DEF Range, IsInjective
<1>4. ASSUME NEW x \in Range(s) \ {Head(s)} PROVE x \in Range(t)
  <2>1. PICK j \in 1..Len(s) : s[j] = x /\ j # 1
    BY <1>1 DEF Range
  <2>2. j - 1 \in 1..(Len(s) - 1) /\ t[j - 1] = x
    BY <1>1, <2>1
  <2> QED
    BY <1>1, <2>2 DEF Range
<1> QED
  BY <1>1, <1>2, <1>3, <1>4 DEF t

-----------------------------------------------------------------------------
(* The cache *)

\* HASH_FIND finds the association with a key if there is one.
LEMMA FoundAlive ==
    ASSUME CacheSound, NEW k \in Key
    PROVE  \/ /\ Found(k) \in Ref /\ Found(k) \in Alive /\ Found(k) \in Range(cache)
              /\ remote[Found(k)] = k /\ Found(k) # None
           \/ /\ Found(k) = None
              /\ \A r \in Alive : remote[r] # k
<1>1. /\ cache \in Seq(Ref) /\ DOMAIN cache = 1..Len(cache)
      /\ Range(cache) = Alive
  BY DEF CacheSound, TypeOK, NoDangling
<1>2. k # None
  BY UdpRelayAssumption
<1>3. CASE Hits(k) = {}
  <2>1. Found(k) = None
    BY <1>3 DEF Found
  <2>2. \A r \in Alive : remote[r] # k
    BY <1>1, <1>3 DEF Hits, Range
  <2> QED
    BY <2>1, <2>2
<1>4. CASE Hits(k) # {}
  <2>1. PICK i \in Hits(k) : TRUE
    BY <1>4
  <2>2. i \in 1..Len(cache) /\ remote[cache[i]] = k /\ cache[i] \in Alive /\ cache[i] \in Ref
    BY <1>1, <2>1 DEF Hits, Range
  <2>3. ASSUME NEW j \in Hits(k) PROVE j = i
    <3>1. j \in 1..Len(cache) /\ remote[cache[j]] = k /\ cache[j] \in Alive
      BY <1>1 DEF Hits, Range
    <3>2. cache[i] = cache[j]
      BY <2>2, <3>1 DEF CacheSound, OneEntryPerKey
    <3> QED
      BY <1>1, <2>2, <3>1, <3>2 DEF CacheSound, NoDangling, IsInjective
  <2>4. (CHOOSE a \in Hits(k) : \A j \in Hits(k) : j <= a) = i
    <3>1. i \in Int
      BY <2>2
    <3>2. Hits(k) = {i}
      BY <2>1, <2>3
    <3> QED
      BY <3>1, <3>2
  <2>5. Found(k) = cache[i]
    BY <1>4, <2>4 DEF Found
  <2> QED
    BY <1>1, <2>2, <2>5, UdpRelayAssumption
<1> QED
  BY <1>3, <1>4

\* Taking an association out of the cache.
LEMMA UnlinkedOnce ==
    ASSUME CacheSound, NEW r \in Range(cache)
    PROVE  /\ Unlinked(r) \in Seq(Ref) /\ Len(Unlinked(r)) = Len(cache) - 1
           /\ Range(Unlinked(r)) = Range(cache) \ {r}
           /\ IsInjective(Unlinked(r))
<1>1. cache \in Seq(Ref) /\ DOMAIN cache = 1..Len(cache) /\ IsInjective(cache)
  BY DEF CacheSound, TypeOK, NoDangling
<1>2. PICK i : i = CHOOSE j \in 1..Len(cache) : cache[j] = r
  OBVIOUS
<1>3. i \in 1..Len(cache) /\ cache[i] = r
  BY <1>1, <1>2 DEF Range
<1>4. Unlinked(r) = RemoveAt(cache, i)
  BY <1>2 DEF Unlinked
<1>5. RemoveAt(cache, i) \in Seq(Ref) /\ Len(RemoveAt(cache, i)) = Len(cache) - 1
  BY <1>1, <1>3, RemoveAtElements
<1>6. Range(RemoveAt(cache, i)) = Range(cache) \ {cache[i]} /\ IsInjective(RemoveAt(cache, i))
  BY <1>1, <1>3, RemoveAtOnce
<1> QED
  BY <1>3, <1>4, <1>5, <1>6

\* A lookup in the cache changes nothing but the order.
LEMMA TouchedOnce ==
    ASSUME CacheSound, NEW r \in Range(cache) \cup {None}
    PROVE  /\ Touched(r) \in Seq(Ref) /\ Len(Touched(r)) = Len(cache)
           /\ Range(Touched(r)) = Range(cache)
           /\ IsInjective(Touched(r))
<1>1. cache \in Seq(Ref) /\ IsInjective(cache) /\ Range(cache) \subseteq Ref /\ None \notin Ref /\ Len(cache) \in Nat
  BY UdpRelayAssumption DEF CacheSound, TypeOK, NoDangling, Alive
<1>2. CASE r = None
  BY <1>1, <1>2 DEF Touched
<1>3. CASE r \in Range(cache)
  <2>1. PICK u : u = Unlinked(r)
    OBVIOUS
  <2>2. u \in Seq(Ref) /\ Len(u) = Len(cache) - 1 /\ Range(u) = Range(cache) \ {r} /\ IsInjective(u)
    BY <1>3, <2>1, UnlinkedOnce
  <2>3. /\ Append(u, r) \in Seq(Ref) /\ Len(Append(u, r)) = Len(u) + 1
        /\ Range(Append(u, r)) = Range(u) \cup {r} /\ IsInjective(Append(u, r))
    BY <1>1, <1>3, <2>2, AppendOnce
  <2>4. Touched(r) = Append(u, r)
    BY <1>1, <1>3, <2>1 DEF Touched
  <2>5. Range(u) \cup {r} = Range(cache)
    BY <1>3, <2>2
  <2>6. Len(u) + 1 = Len(cache)
    BY <1>1, <2>2
  <2> QED
    BY <2>3, <2>4, <2>5, <2>6
<1> QED
  BY <1>2, <1>3

\* A lookup in the cache leaves it sound.
LEMMA TouchedSound ==
    ASSUME CacheSound, NEW r \in Range(cache) \cup {None}, cache' = Touched(r), UNCHANGED <<remote, armed>>
    PROVE  cache' \in Seq(Ref) /\ Len(cache') <= Capacity /\ NoDangling' /\ OneEntryPerKey'
<1>1. cache' \in Seq(Ref) /\ Len(cache') = Len(cache) /\ Range(cache') = Range(cache) /\ IsInjective(cache')
  BY TouchedOnce
<1>2. Alive' = Alive
  BY DEF Alive
<1>3. Len(cache') <= Capacity
  BY <1>1 DEF CacheSound, TypeOK
<1>4. NoDangling'
  BY <1>1, <1>2 DEF CacheSound, NoDangling
<1>5. OneEntryPerKey'
  BY <1>2 DEF CacheSound, OneEntryPerKey
<1> QED
  BY <1>1, <1>3, <1>4, <1>5

\* Marking the lookups of what is freed keeps them lookups.
LEMMA StaleType ==
    ASSUME NEW qs \in [Query -> Lookup \cup {None}], NEW freed
    PROVE  Stale(qs, freed) \in [Query -> Lookup \cup {None}]
BY DEF Stale, Lookup

\* The entry that is thrown out is the oldest one, never the new one: the
\* cache is emptied at more than one entry.
LEMMA InsertCache ==
    ASSUME CacheSound, NEW x \in Ref \ Alive, NEW k \in Key, NEW qs, Insert(x, k, qs)
    PROVE  \E out \in SUBSET Alive :
              /\ remote' = [y \in Ref |-> IF y = x THEN k ELSE IF y \in out THEN None ELSE remote[y]]
              /\ armed' = (armed \ out) \cup {x}
              /\ query' = Stale(qs, out)
              /\ cache' \in Seq(Ref) /\ Len(cache') <= Capacity
              /\ Range(cache') = (Alive \ out) \cup {x}
              /\ IsInjective(cache')
<1> USE UdpRelayAssumption
<1>1. /\ cache \in Seq(Ref) /\ Len(cache) \in Nat /\ Len(cache) <= Capacity
      /\ IsInjective(cache) /\ Range(cache) = Alive /\ x \notin Range(cache)
  BY DEF CacheSound, TypeOK, NoDangling
<1>2. PICK g : g = Append(cache, x)
  OBVIOUS
<1>3. g \in Seq(Ref) /\ Len(g) = Len(cache) + 1 /\ Range(g) = Range(cache) \cup {x} /\ IsInjective(g)
  BY <1>1, <1>2, AppendOnce
<1>4. PICK out : out = Evicted(g)
  OBVIOUS
<1>5. /\ cache' = IF out = {} THEN g ELSE Tail(g)
      /\ remote' = [y \in Ref |-> IF y = x THEN k ELSE IF y \in out THEN None ELSE remote[y]]
      /\ armed' = (armed \ out) \cup {x}
      /\ query' = Stale(qs, out)
  BY <1>2, <1>4 DEF Insert
<1>6. CASE Len(g) >= Capacity
  <2>1. out = {Head(g)} /\ cache' = Tail(g) /\ g # << >>
    BY <1>1, <1>3, <1>4, <1>5, <1>6 DEF Evicted
  <2>2. /\ Tail(g) \in Seq(Ref) /\ Len(Tail(g)) = Len(g) - 1 /\ Head(g) = g[1]
        /\ Range(Tail(g)) = Range(g) \ {Head(g)} /\ IsInjective(Tail(g))
    BY <1>3, <2>1, TailOnce
  <2>3. g[1] = cache[1] /\ 1 \in DOMAIN cache
    BY <1>1, <1>2, <1>3, <1>6
  <2>4. Head(g) \in Alive
    BY <1>1, <2>2, <2>3 DEF Range
  <2>5. Len(cache') <= Capacity
    BY <1>1, <1>3, <2>1, <2>2
  <2>6. Range(cache') = (Alive \ out) \cup {x}
    <3>1. Head(g) # x
      BY <1>1, <2>4
    <3> QED
      BY <1>1, <1>3, <2>1, <2>2, <3>1
  <2> QED
    BY <1>5, <2>1, <2>2, <2>4, <2>5, <2>6
<1>7. CASE Len(g) < Capacity
  <2>1. out = {} /\ cache' = g
    BY <1>1, <1>3, <1>4, <1>5, <1>7 DEF Evicted
  <2>2. Range(cache') = (Alive \ out) \cup {x}
    BY <1>1, <1>3, <2>1
  <2> QED
    BY <1>3, <1>5, <1>7, <2>1, <2>2
<1> QED
  BY <1>1, <1>3, <1>6, <1>7

\* A new association under a key that none has, whatever is thrown out for it.
LEMMA InsertSound ==
    ASSUME CacheSound, NEW x \in Ref \ Alive, NEW k \in Key, \A r \in Alive : remote[r] # k,
           NEW qs, Holds(qs), Insert(x, k, qs)
    PROVE  /\ remote' \in [Ref -> Key \cup {None}] /\ armed' \subseteq Ref
           /\ cache' \in Seq(Ref) /\ Len(cache') <= Capacity
           /\ query' \in [Query -> Lookup \cup {None}]
           /\ NoDangling' /\ OneEntryPerKey' /\ LookupsHold'
<1>1. PICK out \in SUBSET Alive :
              /\ remote' = [y \in Ref |-> IF y = x THEN k ELSE IF y \in out THEN None ELSE remote[y]]
              /\ armed' = (armed \ out) \cup {x}
              /\ query' = Stale(qs, out)
              /\ cache' \in Seq(Ref) /\ Len(cache') <= Capacity
              /\ Range(cache') = (Alive \ out) \cup {x}
              /\ IsInjective(cache')
  BY InsertCache
<1>2. k # None /\ x \in Ref /\ Alive \subseteq Ref /\ None \notin Lookup
  BY UdpRelayAssumption DEF Alive
<1>3. remote \in [Ref -> Key \cup {None}] /\ armed = Alive
  BY DEF CacheSound, TypeOK, NoDangling
<1>4. remote' \in [Ref -> Key \cup {None}] /\ armed' \subseteq Ref
  BY <1>1, <1>2, <1>3
<1>5. query' \in [Query -> Lookup \cup {None}]
  BY <1>1, StaleType DEF Holds
<1>6. Alive' = (Alive \ out) \cup {x}
  BY <1>1, <1>2, <1>3 DEF Alive
<1>7. NoDangling'
  BY <1>1, <1>3, <1>6 DEF NoDangling
<1>8. OneEntryPerKey'
  BY <1>1, <1>2, <1>3, <1>6 DEF CacheSound, OneEntryPerKey
<1>9. LookupsHold'
  <2> SUFFICES ASSUME NEW q \in Query, query'[q] # None, query'[q].remote # None, ~query'[q].stale
               PROVE  remote'[query'[q].remote] = [src |-> query'[q].src, af |-> "unspec"]
    BY DEF LookupsHold
  <2>1. qs \in [Query -> Lookup \cup {None}]
    BY DEF Holds
  <2>2. query'[q] = IF qs[q] # None /\ qs[q].remote \in out THEN [qs[q] EXCEPT !.stale = TRUE] ELSE qs[q]
    BY <1>1 DEF Stale
  <2>3. query'[q] = qs[q] /\ qs[q] \in Lookup /\ qs[q].remote \in Ref \ out
    BY <2>1, <2>2 DEF Lookup
  <2>4. remote[qs[q].remote] = [src |-> qs[q].src, af |-> "unspec"]
    BY <2>3 DEF Holds
  <2>5. remote[qs[q].remote] # None
    <3>1. [src |-> qs[q].src, af |-> "unspec"] \in Key
      BY <2>3 DEF Lookup, Key
    <3> QED
      BY <2>4, <3>1, UdpRelayAssumption
  <2>6. qs[q].remote \in Alive /\ qs[q].remote # x
    BY <2>3, <2>5 DEF Alive
  <2> QED
    BY <1>1, <2>3, <2>4, <2>6
<1> QED
  BY <1>1, <1>4, <1>5, <1>7, <1>8, <1>9

-----------------------------------------------------------------------------
(* The steps *)

\* A datagram leaves through the association of its client, found or new.
LEMMA SendSound ==
    ASSUME IInv, NEW c \in Client, NEW af \in Numeric \cup {"unspec"}, NEW qs, Holds(qs),
           Send(c, af, qs), side' \in {"off", "remote", "local"}
    PROVE  IInv'
<1>1. PICK k : k = [src |-> c, af |-> af]
  OBVIOUS
<1>2. k \in Key /\ k.src = c
  BY <1>1 DEF Key
<1>3. PICK r : r = Found(k)
  OBVIOUS
<1>4. CacheSound
  BY DEF IInv
<1>5. CASE r # None
  <2>1. r \in Range(cache) /\ remote[r] = k
    BY <1>2, <1>3, <1>4, <1>5, FoundAlive
  <2>2. /\ last' = Through(c, remote[r], FALSE)
        /\ cache' = Touched(r) /\ query' = qs /\ UNCHANGED <<remote, armed>>
    BY <1>1, <1>3, <1>5 DEF Send
  <2>3. last' = "own"
    BY <1>2, <2>1, <2>2 DEF Through
  <2>4. cache' \in Seq(Ref) /\ Len(cache') <= Capacity /\ NoDangling' /\ OneEntryPerKey'
    BY <1>4, <2>1, <2>2, TouchedSound
  <2>5. TypeOK'
    BY <1>4, <2>2, <2>3, <2>4 DEF CacheSound, TypeOK, Holds
  <2>6. LookupsHold'
    BY <2>2 DEF LookupsHold, Holds
  <2> QED
    BY <2>3, <2>4, <2>5, <2>6 DEF IInv, CacheSound, LookupsOwn, OwnAssociation
<1>6. CASE r = None
  <2>1. \A x \in Alive : remote[x] # k
    BY <1>2, <1>3, <1>4, <1>6, FoundAlive
  <2>2. last' = Through(c, k, FALSE) /\ \E x \in Ref \ Alive : Insert(x, k, qs)
    BY <1>1, <1>3, <1>6 DEF Send
  <2>3. PICK x \in Ref \ Alive : Insert(x, k, qs)
    BY <2>2
  <2>4. last' = "own"
    BY <1>2, <2>2 DEF Through
  <2>5. /\ remote' \in [Ref -> Key \cup {None}] /\ armed' \subseteq Ref
        /\ cache' \in Seq(Ref) /\ Len(cache') <= Capacity
        /\ query' \in [Query -> Lookup \cup {None}]
        /\ NoDangling' /\ OneEntryPerKey' /\ LookupsHold'
    BY <1>2, <1>4, <2>1, <2>3, InsertSound
  <2>6. TypeOK'
    BY <2>4, <2>5 DEF TypeOK
  <2> QED
    BY <2>4, <2>5, <2>6 DEF IInv, CacheSound, LookupsOwn, OwnAssociation
<1> QED
  BY <1>5, <1>6

\* The lookups that are in progress, and those that are left when one ends.
LEMMA HoldsNow ==
    ASSUME IInv
    PROVE  Holds(query) /\ \A q \in Query : Holds(Without(q))
BY DEF IInv, CacheSound, TypeOK, LookupsOwn, LookupsHold, Holds, Without

\* A lookup in the cache, by one that then ends or begins.
LEMMA LookSound ==
    ASSUME IInv, NEW r \in Range(cache) \cup {None}, cache' = Touched(r) \/ cache' = cache,
           UNCHANGED <<side, remote, armed, last>>, query' \in [Query -> Lookup \cup {None}], LookupsHold'
    PROVE  IInv'
<1>1. CacheSound /\ cache' \in Seq(Ref) /\ Len(cache') <= Capacity /\ NoDangling' /\ OneEntryPerKey'
  <2>1. CacheSound
    BY DEF IInv
  <2>2. CASE cache' = Touched(r)
    BY <2>1, <2>2, TouchedSound
  <2>3. CASE cache' = cache
    BY <2>1, <2>3 DEF CacheSound, TypeOK, NoDangling, OneEntryPerKey, Alive
  <2> QED
    BY <2>1, <2>2, <2>3
<1>2. TypeOK'
  BY <1>1 DEF CacheSound, TypeOK
<1> QED
  BY <1>1, <1>2 DEF IInv, CacheSound, LookupsOwn, OwnAssociation

LEMMA ServerRecvNameStep ==
    ASSUME IInv, NEW c \in Client, NEW q \in Query, ServerRecvName(c, q)
    PROVE  IInv'
<1>1. PICK k : k = [src |-> c, af |-> "unspec"]
  OBVIOUS
<1>2. PICK r : r = Found(k)
  OBVIOUS
<1>3. k \in Key /\ CacheSound
  BY <1>1 DEF Key, IInv
<1>4. (r \in Range(cache) /\ r \in Ref /\ remote[r] = k) \/ r = None
  BY <1>2, <1>3, FoundAlive
<1>5. PICK l : l = [src |-> c, remote |-> r, requests |-> Request, found |-> FALSE, stale |-> FALSE]
  OBVIOUS
<1>6. l \in Lookup /\ l.remote = r /\ l.src = c
  BY <1>4, <1>5 DEF Lookup
<1>7. /\ cache' = Touched(r) /\ query' = [query EXCEPT ![q] = l]
      /\ UNCHANGED <<side, remote, armed, last>>
  BY <1>1, <1>2, <1>5 DEF ServerRecvName
<1>8. query \in [Query -> Lookup \cup {None}] /\ LookupsHold
  BY DEF IInv, CacheSound, TypeOK, LookupsOwn
<1>9. query' \in [Query -> Lookup \cup {None}]
  BY <1>6, <1>7, <1>8
<1>10. LookupsHold'
  BY <1>1, <1>4, <1>6, <1>7, <1>8 DEF LookupsHold
<1> QED
  BY <1>4, <1>7, <1>9, <1>10, LookSound

LEMMA AnswerStep ==
    ASSUME IInv, NEW q \in Query, NEW request \in Request, NEW ok \in BOOLEAN, Answer(q, request, ok)
    PROVE  IInv'
<1>1. PICK l : l = Answered(query[q], request, ok)
  OBVIOUS
<1>2. /\ query[q] # None /\ query' = [query EXCEPT ![q] = l]
      /\ UNCHANGED <<side, remote, armed, cache, last>>
  BY <1>1 DEF Answer
<1>3. query \in [Query -> Lookup \cup {None}] /\ LookupsHold
  BY DEF IInv, CacheSound, TypeOK, LookupsOwn
<1>4. l \in Lookup /\ l.remote = query[q].remote /\ l.src = query[q].src /\ l.stale = query[q].stale
  BY <1>1, <1>2, <1>3 DEF Answered, Lookup
<1>5. query' \in [Query -> Lookup \cup {None}]
  BY <1>2, <1>3, <1>4
<1>6. LookupsHold'
  BY <1>2, <1>3, <1>4 DEF LookupsHold
<1> QED
  BY <1>2, <1>5, <1>6, LookSound

LEMMA ResolveFailsStep ==
    ASSUME IInv, NEW q \in Query, NEW request \in Request, NEW ok \in BOOLEAN, ResolveFails(q, request, ok)
    PROVE  IInv'
<1>1. PICK l : l = query[q]
  OBVIOUS
<1>2. PICK r : r = IF ok \/ l.found THEN Found([src |-> l.src, af |-> "unspec"]) ELSE None
  OBVIOUS
<1>3. /\ query[q] # None /\ query' = Without(q) /\ (cache' = Touched(r) \/ cache' = cache)
      /\ UNCHANGED <<side, remote, armed, last>>
  BY <1>1, <1>2 DEF ResolveFails, Done
<1>4. CacheSound /\ l \in Lookup
  BY <1>1, <1>3 DEF IInv, CacheSound, TypeOK
<1>5. [src |-> l.src, af |-> "unspec"] \in Key
  BY <1>4 DEF Lookup, Key
<1>6. r \in Range(cache) \cup {None}
  BY <1>2, <1>4, <1>5, FoundAlive
<1>7. query' \in [Query -> Lookup \cup {None}] /\ LookupsHold'
  BY <1>3, HoldsNow DEF Holds, LookupsHold
<1> QED
  BY <1>3, <1>6, <1>7, LookSound

LEMMA ResolvedFreshStep ==
    ASSUME IInv, NEW q \in Query, NEW request \in Request, NEW ok \in BOOLEAN, ResolvedFresh(q, request, ok)
    PROVE  IInv'
<1>1. PICK c : c = query[q].src
  OBVIOUS
<1>2. PICK qs : qs = Without(q)
  OBVIOUS
<1>3. query[q] # None /\ Send(c, "unspec", qs) /\ side' = side
  BY <1>1, <1>2 DEF ResolvedFresh, Done
<1>4. c \in Client /\ side' \in {"off", "remote", "local"}
  BY <1>1, <1>3 DEF IInv, CacheSound, TypeOK, Lookup
<1>5. Holds(qs)
  BY <1>2, HoldsNow
<1> QED
  BY <1>3, <1>4, <1>5, SendSound

\* The association that a lookup has kept is its client's, or was freed.
LEMMA ResolvedKeptStep ==
    ASSUME IInv, NEW q \in Query, NEW request \in Request, NEW ok \in BOOLEAN, ResolvedKept(q, request, ok)
    PROVE  IInv'
<1>1. PICK l : l = query[q]
  OBVIOUS
<1>2. PICK r \in (IF remote[l.remote] # None THEN {l.remote} ELSE Alive) :
          last' = Through(l.src, remote[r], l.stale)
  BY <1>1 DEF ResolvedKept
<1>3. /\ query[q] # None /\ l.remote # None /\ query' = Without(q)
      /\ UNCHANGED <<side, remote, armed, cache>>
  BY <1>1 DEF ResolvedKept, Done
<1>4. l \in Lookup
  BY <1>1, <1>3 DEF IInv, CacheSound, TypeOK
<1>5. last' \in {"own", "stray", "foreign"}
  BY <1>2 DEF Through
<1>6. last' # "foreign"
  <2>1. CASE l.stale
    BY <1>2, <2>1 DEF Through
  <2>2. CASE ~l.stale
    <3>1. remote[l.remote] = [src |-> l.src, af |-> "unspec"]
      BY <1>1, <1>3, <2>2 DEF IInv, LookupsOwn, LookupsHold
    <3>2. remote[l.remote] # None
      BY <1>4, <3>1, UdpRelayAssumption DEF Key, Lookup
    <3>3. r = l.remote
      BY <1>2, <3>2
    <3> QED
      BY <1>2, <3>1, <3>3 DEF Through
  <2> QED
    BY <2>1, <2>2
<1>7. query' \in [Query -> Lookup \cup {None}] /\ LookupsHold'
  BY <1>3, HoldsNow DEF Holds, LookupsHold
<1>8. TypeOK'
  BY <1>3, <1>5, <1>7 DEF IInv, CacheSound, TypeOK
<1>9. NoDangling' /\ OneEntryPerKey'
  BY <1>3 DEF IInv, CacheSound, NoDangling, OneEntryPerKey, Alive
<1> QED
  BY <1>6, <1>7, <1>8, <1>9 DEF IInv, CacheSound, LookupsOwn, OwnAssociation

\* The timer of an association finds that association under its key.
LEMMA TimeoutStep ==
    ASSUME IInv, NEW r \in Ref, Timeout(r)
    PROVE  IInv'
<1>1. PICK x : x = Found(remote[r])
  OBVIOUS
<1>2. /\ r \in armed /\ x # None
      /\ cache' = Unlinked(x) /\ armed' = armed \ {x} /\ remote' = [remote EXCEPT ![x] = None]
      /\ query' = Stale(query, {x}) /\ side' = side /\ last' = last
  BY <1>1 DEF Timeout
<1>3. CacheSound /\ TypeOK /\ Range(cache) = Alive /\ armed = Alive /\ LookupsHold /\ last # "foreign"
  BY DEF IInv, CacheSound, NoDangling, LookupsOwn, OwnAssociation
<1>4. remote[r] \in Key
  BY <1>2, <1>3 DEF Alive, TypeOK
<1>5. x \in Range(cache) /\ x \in Ref
  BY <1>1, <1>2, <1>3, <1>4, FoundAlive
<1>6. /\ cache' \in Seq(Ref) /\ Len(cache') = Len(cache) - 1
      /\ Range(cache') = Range(cache) \ {x} /\ IsInjective(cache')
  BY <1>2, <1>3, <1>5, UnlinkedOnce
<1>7. Alive' = Alive \ {x}
  BY <1>2, <1>3, <1>5 DEF Alive, TypeOK
<1>8. NoDangling'
  BY <1>2, <1>3, <1>6, <1>7 DEF NoDangling
<1>9. OneEntryPerKey'
  BY <1>2, <1>3, <1>7 DEF CacheSound, OneEntryPerKey, Alive, TypeOK
<1>10. query' \in [Query -> Lookup \cup {None}]
  BY <1>2, <1>3, StaleType DEF TypeOK
<1>11. Len(cache') <= Capacity
  BY <1>3, <1>6, UdpRelayAssumption DEF TypeOK
<1>12. TypeOK'
  BY <1>2, <1>3, <1>6, <1>10, <1>11 DEF TypeOK
<1>13. LookupsHold'
  <2> SUFFICES ASSUME NEW q \in Query, query'[q] # None, query'[q].remote # None, ~query'[q].stale
               PROVE  remote'[query'[q].remote] = [src |-> query'[q].src, af |-> "unspec"]
    BY DEF LookupsHold
  <2>1. query'[q] = IF query[q] # None /\ query[q].remote \in {x} THEN [query[q] EXCEPT !.stale = TRUE] ELSE query[q]
    BY <1>2 DEF Stale
  <2>2. query'[q] = query[q] /\ query[q] \in Lookup /\ query[q].remote \in Ref \ {x}
    BY <1>3, <2>1 DEF Lookup, TypeOK
  <2>3. remote[query[q].remote] = [src |-> query[q].src, af |-> "unspec"]
    BY <1>3, <2>2 DEF LookupsHold
  <2> QED
    BY <1>2, <1>3, <2>2, <2>3 DEF TypeOK
<1> QED
  BY <1>2, <1>3, <1>8, <1>9, <1>12, <1>13 DEF IInv, CacheSound, LookupsOwn, OwnAssociation

\* The cache frees what it holds, which is everything.
LEMMA ShutdownStep ==
    ASSUME IInv, Shutdown
    PROVE  IInv'
<1>1. /\ side' = "off" /\ query' = [q \in Query |-> None] /\ cache' = << >> /\ last' = "own"
      /\ remote' = [r \in Ref |-> IF r \in Alive THEN None ELSE remote[r]] /\ armed' = {}
  BY DEF IInv, CacheSound, NoDangling, Shutdown
<1>2. Alive' = {}
  BY <1>1 DEF Alive
<1>3. cache' \in Seq(Ref) /\ Len(cache') = 0 /\ Range(cache') = {} /\ IsInjective(cache')
  BY <1>1 DEF Range, IsInjective
<1>4. TypeOK'
  BY <1>1, <1>3, UdpRelayAssumption DEF IInv, CacheSound, TypeOK, Alive
<1>5. NoDangling' /\ OneEntryPerKey'
  BY <1>1, <1>2, <1>3 DEF NoDangling, OneEntryPerKey
<1>6. LookupsHold'
  BY <1>1 DEF LookupsHold
<1> QED
  BY <1>1, <1>4, <1>5, <1>6 DEF IInv, CacheSound, LookupsOwn, OwnAssociation

-----------------------------------------------------------------------------
(* The theorems *)

\* Nothing is allocated before init_udprelay.
LEMMA InitInv == Init => IInv
<1> SUFFICES ASSUME Init PROVE IInv
  OBVIOUS
<1>1. Alive = {}
  BY DEF Init, Alive
<1>2. cache \in Seq(Ref) /\ Len(cache) = 0 /\ Range(cache) = {} /\ IsInjective(cache)
  BY DEF Init, Range, IsInjective
<1>3. TypeOK
  BY <1>2, UdpRelayAssumption DEF Init, TypeOK
<1>4. NoDangling /\ OneEntryPerKey
  BY <1>1, <1>2 DEF Init, NoDangling, OneEntryPerKey
<1>5. LookupsOwn
  BY DEF Init, LookupsOwn, OwnAssociation, LookupsHold
<1> QED
  BY <1>3, <1>4, <1>5 DEF IInv, CacheSound

\* One step per callback.
LEMMA NextInv == IInv /\ [Next]_vars => IInv'
<1> SUFFICES ASSUME IInv, [Next]_vars PROVE IInv'
  OBVIOUS
<1>1. PICK qs : qs = query
  OBVIOUS
<1>2. Holds(qs) /\ side \in {"off", "remote", "local"}
  BY <1>1, HoldsNow DEF IInv, CacheSound, TypeOK
<1>3. ASSUME NEW c \in Client, NEW af \in Numeric, ServerRecv(c, af) PROVE IInv'
  BY <1>1, <1>2, <1>3, SendSound DEF ServerRecv
<1>4. ASSUME NEW c \in Client, LocalRecv(c) PROVE IInv'
  BY <1>1, <1>2, <1>4, SendSound, UdpRelayAssumption DEF LocalRecv
<1>5. ASSUME NEW c \in Client, NEW q \in Query, ServerRecvName(c, q) PROVE IInv'
  BY <1>5, ServerRecvNameStep
<1>6. ASSUME NEW q \in Query, Resolv(q) PROVE IInv'
  BY <1>6, AnswerStep, ResolveFailsStep, ResolvedFreshStep, ResolvedKeptStep DEF Resolv
<1>7. ASSUME NEW r \in Ref, Timeout(r) PROVE IInv'
  BY <1>7, TimeoutStep
<1>8. ASSUME NEW s \in {"remote", "local"}, Start(s) PROVE IInv'
  BY <1>8 DEF Start, IInv, CacheSound, TypeOK, NoDangling, OneEntryPerKey, LookupsOwn, OwnAssociation, LookupsHold, Alive
<1>9. CASE Shutdown
  BY <1>9, ShutdownStep
<1>10. CASE UNCHANGED vars
  BY <1>10 DEF vars, IInv, CacheSound, TypeOK, NoDangling, OneEntryPerKey, LookupsOwn, OwnAssociation, LookupsHold, Alive
<1> QED
  BY <1>3, <1>4, <1>5, <1>6, <1>7, <1>8, <1>9, <1>10 DEF Next

LEMMA Invariant == Spec => []IInv
BY InitInv, NextInv, PTL DEF Spec

\* Cache, heap and event loop agree, for every number of clients, associations
\* and lookups and every size of the cache above one (cache.c, free_cb,
\* remote_timeout_cb): nothing freed is found or called, no socket is lost, no
\* two associations share a key, and the cache stays below its capacity.
THEOREM CacheSoundAlways == Spec => []CacheSound
<1>1. IInv => CacheSound
  BY DEF IInv
<1> QED
  BY <1>1, Invariant, PTL

\* A lookup finds its association where it left it, and a datagram leaves by
\* the association of its own client, unless its lookup outlived it
\* (resolv_cb, server_recv_cb).
THEOREM LookupsOwnAlways == Spec => []LookupsOwn
<1>1. IInv => LookupsOwn
  BY DEF IInv
<1> QED
  BY <1>1, Invariant, PTL
=============================================================================
