---------------------------- MODULE CryptoProofs ----------------------------
(***************************************************************************)
(* Proofs about crypto.c and its ciphers.  First the replay filter and its *)
(* users, for any set of salts and sessions and any size of the filter.    *)
(* Then the framing of a connection and of packets, and the keys: for any  *)
(* tables of ciphers, any sizes of salt, tag, length field, block and      *)
(* buffer, any number of bytes, sent and received in any pieces.           *)
(***************************************************************************)
EXTENDS AeadReplay, Framing, FiniteSetTheorems, SequenceTheorems, WellFoundedInduction, TLAPS

\* The filter that is not current has no additions counted; the current one
\* holds no more salts than it has counted, the other no more than `entries'.
SizeInv ==
    /\ count[Other(current)] = 0
    /\ \A k \in Slot : IsFiniteSet(bloom[k])
    /\ Cardinality(bloom[current]) <= count[current]
    /\ Cardinality(bloom[Other(current)]) <= Entries

\* The inductive invariant.
IInv == TypeOK /\ SizeInv /\ WindowInv /\ OnlyAuthentic

\* ppbloom_add keeps the shape of the filter.
LEMMA AddType ==
    ASSUME NEW s \in Salt, BloomType, Add(s)
    PROVE  BloomType'
<1>1. count[current] \in 0..(Entries - 1) /\ Entries \in Nat \ {0}
  BY EntriesAssumption DEF BloomType
<1>2. bloom' \in [Slot -> SUBSET Salt]
  BY DEF Add, BloomType, Other, Slot, PING, PONG
<1>3. count' \in [Slot -> 0..(Entries - 1)]
  BY <1>1 DEF Add, BloomType
<1>4. current' \in Slot
  BY DEF Add, BloomType, Other, Slot
<1>5. age' \in [Salt -> 0..Forever]
  BY <1>1 DEF Add, BloomType, Forever
<1> QED
  BY <1>2, <1>3, <1>4, <1>5 DEF BloomType

\* The switch of ppbloom_add comes before a filter overflows.
LEMMA AddSize ==
    ASSUME NEW s \in Salt, BloomType, SizeInv, Add(s)
    PROVE  SizeInv'
<1> DEFINE c == current
           o == Other(current)
           full == count[c] + 1 >= Entries
<1>1. /\ c \in Slot /\ o \in Slot /\ c # o /\ Other(o) = c
      /\ \A k \in Slot : k = c \/ k = o
      /\ Entries \in Nat \ {0} /\ count[c] \in 0..(Entries - 1) /\ count[o] = 0
  BY EntriesAssumption DEF BloomType, SizeInv, Other, Slot, PING, PONG
<1>2. /\ IsFiniteSet(bloom[c] \cup {s})
      /\ Cardinality(bloom[c] \cup {s}) \in Nat
      /\ Cardinality(bloom[c] \cup {s}) <= count[c] + 1
  <2>1. IsFiniteSet(bloom[c]) /\ Cardinality(bloom[c]) <= count[c]
    BY <1>1 DEF SizeInv
  <2>2. /\ Cardinality(bloom[c]) \in Nat
        /\ IsFiniteSet(bloom[c] \cup {s})
        /\ Cardinality(bloom[c] \cup {s}) \in Nat
        /\ \/ Cardinality(bloom[c] \cup {s}) = Cardinality(bloom[c])
           \/ Cardinality(bloom[c] \cup {s}) = Cardinality(bloom[c]) + 1
    BY <2>1, FS_AddElement, FS_CardinalityType
  <2> QED BY <1>1, <2>1, <2>2
<1>3. bloom'[c] = bloom[c] \cup {s} /\ bloom'[o] = IF full THEN {} ELSE bloom[o]
  BY <1>1 DEF Add, BloomType
<1>4. \A k \in Slot : IsFiniteSet(bloom'[k])
  BY <1>1, <1>2, <1>3, FS_EmptySet DEF SizeInv
<1>5. CASE full
  <2>1. current' = o /\ count'[o] = 0 /\ count'[c] = 0 /\ bloom'[o] = {}
    BY <1>1, <1>3, <1>5 DEF Add, BloomType
  <2>2. Cardinality(bloom'[o]) = 0
    BY <2>1, FS_EmptySet
  <2>3. Cardinality(bloom'[c]) <= Entries
    BY <1>1, <1>2, <1>3
  <2> QED BY <1>1, <1>4, <2>1, <2>2, <2>3 DEF SizeInv
<1>6. CASE ~full
  <2>1. current' = c /\ count'[c] = count[c] + 1 /\ count'[o] = 0 /\ bloom'[o] = bloom[o]
    BY <1>1, <1>3, <1>6 DEF Add, BloomType
  <2> QED BY <1>1, <1>2, <1>3, <1>4, <2>1 DEF SizeInv
<1> QED BY <1>5, <1>6

\* An addition moves the window by one and loses no salt that is inside it.
LEMMA AddWindow ==
    ASSUME NEW s \in Salt, BloomType, SizeInv, WindowInv, Add(s)
    PROVE  WindowInv'
<1> DEFINE c == current
           o == Other(current)
           full == count[c] + 1 >= Entries
<1>1. /\ c \in Slot /\ o \in Slot /\ c # o
      /\ \A k \in Slot : k = c \/ k = o
      /\ (c = PING /\ o = PONG) \/ (c = PONG /\ o = PING)
      /\ Entries \in Nat \ {0} /\ count[c] \in 0..(Entries - 1) /\ count[o] = 0
  BY EntriesAssumption DEF BloomType, SizeInv, Other, Slot, PING, PONG
<1>2. bloom'[c] = bloom[c] \cup {s} /\ bloom'[o] = IF full THEN {} ELSE bloom[o]
  BY <1>1 DEF Add, BloomType
<1>U. bloom'[PING] \cup bloom'[PONG] = bloom'[c] \cup bloom'[o]
  BY <1>1
<1> SUFFICES ASSUME NEW t \in Salt
             PROVE  /\ age'[t] < count'[current'] => t \in bloom'[current']
                    /\ age'[t] < count'[current'] + Entries => t \in bloom'[c] \cup bloom'[o]
  BY <1>U DEF WindowInv
<1>3. /\ age[t] < count[c] => t \in bloom[c]
      /\ age[t] < count[c] + Entries => t \in bloom[c] \cup bloom[o]
  BY <1>1 DEF WindowInv
<1>4. /\ age[t] \in 0..Forever
      /\ age'[t] = IF t = s THEN 0 ELSE IF age[t] < Forever THEN age[t] + 1 ELSE Forever
  BY DEF Add, BloomType
<1>5. CASE full
  <2>1. current' = o /\ count'[o] = 0
    BY <1>1, <1>5 DEF Add, BloomType
  <2>2. age'[t] < Entries => t \in bloom'[c]
    BY <1>1, <1>2, <1>3, <1>4, <1>5 DEF Forever
  <2> QED BY <1>1, <1>4, <2>1, <2>2 DEF Forever
<1>6. CASE ~full
  <2>1. current' = c /\ count'[c] = count[c] + 1
    BY <1>1, <1>6 DEF Add, BloomType
  <2> QED BY <1>1, <1>2, <1>3, <1>4, <1>6, <2>1 DEF Forever
<1> QED BY <1>5, <1>6

\* Only what is added comes in.
LEMMA AddAuthentic ==
    ASSUME NEW s \in Salt, BloomType, OnlyAuthentic, Authentic(s), Add(s)
    PROVE  OnlyAuthentic'
BY DEF Add, BloomType, OnlyAuthentic, Authentic, Other, Slot, PING, PONG

\* ppbloom_add keeps what the window and the size of the filter are about.
LEMMA AddKeeps ==
    ASSUME NEW s \in Salt, BloomType, SizeInv, WindowInv, OnlyAuthentic, Authentic(s), Add(s)
    PROVE  BloomType' /\ SizeInv' /\ WindowInv' /\ OnlyAuthentic'
BY AddType, AddSize, AddWindow, AddAuthentic

\* A step that leaves the filter alone keeps what is said of it.
LEMMA FilterAlone ==
    ASSUME BloomType, SizeInv, WindowInv, OnlyAuthentic, UNCHANGED bloomVars
    PROVE  BloomType' /\ SizeInv' /\ WindowInv' /\ OnlyAuthentic'
BY DEF bloomVars, BloomType, SizeInv, WindowInv, OnlyAuthentic, Other

\* A fresh filter, in a fresh process.
LEMMA FreshFilter ==
    ASSUME BloomInit
    PROVE  BloomType /\ SizeInv /\ WindowInv /\ OnlyAuthentic
<1>1. IsFiniteSet({}) /\ Cardinality({}) = 0
  BY FS_EmptySet
<1>2. Forever \in Nat /\ Forever = 2 * Entries /\ Entries \in Nat \ {0}
  BY EntriesAssumption DEF Forever
<1>3. BloomType
  BY <1>2 DEF BloomInit, BloomType, Slot
<1>4. SizeInv
  BY <1>1, <1>2 DEF BloomInit, SizeInv, Other, Slot, PING, PONG
<1>5. WindowInv
  BY <1>2 DEF BloomInit, WindowInv, Slot, PING, PONG
<1>6. OnlyAuthentic
  BY DEF BloomInit, OnlyAuthentic, Slot, PING, PONG
<1> QED BY <1>3, <1>4, <1>5, <1>6

\* An empty filter and new sessions satisfy the invariant.
LEMMA InitIInv == Init => IInv
<1> SUFFICES ASSUME Init PROVE IInv
  OBVIOUS
<1>1. BloomType /\ SizeInv /\ WindowInv /\ OnlyAuthentic
  BY FreshFilter DEF Init
<1>2. TypeOK
  BY <1>1 DEF Init, TypeOK
<1> QED BY <1>1, <1>2 DEF IInv

\* The same fact about the state after a restart.
LEMMA RestartIInv == Restart => IInv'
<1> SUFFICES ASSUME Restart PROVE IInv'
  OBVIOUS
<1>1. IsFiniteSet({}) /\ Cardinality({}) = 0
  BY FS_EmptySet
<1>2. Forever \in Nat /\ Forever = 2 * Entries /\ Entries \in Nat \ {0}
  BY EntriesAssumption DEF Forever
<1>3. TypeOK'
  BY <1>2 DEF Restart, TypeOK, BloomType, Slot
<1>4. SizeInv'
  BY <1>1, <1>2 DEF Restart, SizeInv, Other, Slot, PING, PONG
<1>5. WindowInv'
  BY <1>2 DEF Restart, WindowInv, Slot, PING, PONG
<1>6. OnlyAuthentic'
  BY DEF Restart, OnlyAuthentic, Slot, PING, PONG
<1> QED BY <1>3, <1>4, <1>5, <1>6 DEF IInv

\* Every step of the sessions keeps it.
LEMMA NextIInv == IInv /\ [Next]_vars => IInv'
<1> SUFFICES ASSUME IInv, [Next]_vars PROVE IInv'
  OBVIOUS
<1> USE DEF IInv
<1>1. ASSUME NEW x \in Session, NEW s \in Salt, SaltArrives(x, s) PROVE IInv'
  <2>1. BloomType' /\ SizeInv' /\ WindowInv' /\ OnlyAuthentic'
    BY <1>1, FilterAlone DEF SaltArrives, TypeOK
  <2> QED BY <1>1, <2>1 DEF SaltArrives, TypeOK
<1>2. ASSUME NEW x \in Session, FirstChunk(x) PROVE IInv'
  <2>1. salt[x] \in Salt
    BY <1>2 DEF FirstChunk, TypeOK
  <2>2. BloomType' /\ SizeInv' /\ WindowInv' /\ OnlyAuthentic'
    BY <1>2, <2>1, AddKeeps DEF FirstChunk, TypeOK
  <2> QED BY <1>2, <2>1, <2>2 DEF FirstChunk, TypeOK
<1>3. ASSUME NEW x \in Session, Release(x) PROVE IInv'
  <2>1. BloomType' /\ SizeInv' /\ WindowInv' /\ OnlyAuthentic'
    BY <1>3, FilterAlone DEF Release, TypeOK
  <2> QED BY <1>3, <2>1 DEF Release, TypeOK
<1>4. ASSUME NEW s \in Salt, Packet(s) PROVE IInv'
  <2>1. BloomType' /\ SizeInv' /\ WindowInv' /\ OnlyAuthentic'
    BY <1>4, AddKeeps DEF Packet, TypeOK
  <2> QED BY <1>4, <2>1 DEF Packet, TypeOK
<1>5. ASSUME NEW s \in Salt, Send(s) PROVE IInv'
  <2>1. BloomType' /\ SizeInv' /\ WindowInv' /\ OnlyAuthentic'
    BY <1>5, AddKeeps DEF Send, TypeOK, Authentic
  <2> QED BY <1>5, <2>1 DEF Send, TypeOK
<1>6. CASE UNCHANGED vars
  <2>1. BloomType' /\ SizeInv' /\ WindowInv' /\ OnlyAuthentic'
    BY <1>6, FilterAlone DEF vars, TypeOK
  <2> QED BY <1>6, <2>1 DEF vars, TypeOK
<1> QED
  BY <1>1, <1>2, <1>3, <1>4, <1>5, <1>6, RestartIInv DEF Next

\* The invariant holds in every reachable state.
LEMMA IInvAlways == Spec => []IInv
BY InitIInv, NextIInv, PTL DEF Spec

\* The state of the filter and of the sessions keeps its type, and the window
\* of ppbloom.c is what the comments of PpBloom say.
THEOREM WindowAlways == Spec => [](TypeOK /\ WindowInv)
<1>1. IInv => TypeOK /\ WindowInv
  BY DEF IInv
<1> QED BY <1>1, IInvAlways, PTL

\* A salt inside the window is in one of the filters.
LEMMA InsideWindow ==
    ASSUME IInv, NEW s \in Salt, age[s] < Entries
    PROVE  s \in bloom[PING] \cup bloom[PONG]
<1>1. count[current] \in Nat /\ Entries \in Nat /\ age[s] \in Nat
  BY EntriesAssumption DEF IInv, TypeOK, BloomType, Forever
<1> QED BY <1>1 DEF IInv, WindowInv

\* ppbloom_check reports every salt added within the last `entries' additions.
THEOREM RemembersAlways == Spec => []Remembers
<1>1. IInv => Remembers
  BY InsideWindow DEF Remembers, CheckAnswers, Slot
<1> QED BY <1>1, IInvAlways, PTL

\* No filter takes more than the `entries' it was sized for.
THEOREM CapacityAlways == Spec => []WithinCapacity
<1>1. IInv => WithinCapacity
  <2> SUFFICES ASSUME IInv, NEW k \in Slot PROVE Cardinality(bloom[k]) <= Entries
    BY DEF WithinCapacity
  <2>1. Entries \in Nat /\ count[current] \in 0..(Entries - 1)
    BY EntriesAssumption DEF IInv, TypeOK, BloomType
  <2>2. k = current \/ k = Other(current)
    BY DEF IInv, TypeOK, BloomType, Other, Slot
  <2>3. Cardinality(bloom[k]) \in Nat
    BY FS_CardinalityType DEF IInv, SizeInv
  <2> QED BY <2>1, <2>2, <2>3 DEF IInv, SizeInv
<1> QED BY <1>1, IInvAlways, PTL

\* Unauthenticated data takes no room in the filter.
THEOREM OnlyAuthenticAlways == Spec => []OnlyAuthentic
<1>1. IInv => OnlyAuthentic
  BY DEF IInv
<1> QED BY <1>1, IInvAlways, PTL

\* However sessions and packets interleave, data under a salt that is inside
\* the window is not let through.
THEOREM NoReplayHolds == Spec => NoReplay
<1>1. IInv /\ [Next]_vars => [\A s \in Salt : LetThrough(s) => age[s] >= Entries]_vars
  <2> SUFFICES ASSUME IInv, NEW s \in Salt, LetThrough(s) PROVE age[s] >= Entries
    OBVIOUS
  <2>1. FALSE \in CheckAnswers(s)
    BY DEF LetThrough, Packet, FirstChunk
  <2>2. s \notin bloom[PING] \cup bloom[PONG]
    BY <2>1 DEF CheckAnswers, Slot
  <2>3. Entries \in Nat /\ age[s] \in Nat
    BY EntriesAssumption DEF IInv, TypeOK, BloomType, Forever
  <2> QED BY <2>2, <2>3, InsideWindow
<1> QED BY <1>1, IInvAlways, PTL DEF Spec, NoReplay

\* The filter of ppbloom.c as a whole: types, capacity, window and memory, for
\* any number of salts, sessions and entries.
THEOREM FilterSoundAlways == Spec => []FilterSound
<1>1. TypeOK /\ WindowInv /\ Remembers /\ WithinCapacity => FilterSound
  BY DEF FilterSound
<1> QED BY <1>1, WindowAlways, RemembersAlways, CapacityAlways, PTL

-----------------------------------------------------------------------------
(* Cells, texts and packets *)

\* A byte of ciphertext.
Cell == [kind : {"salt", "junk", "box", "stream"}, nonce : Nat, body : Seq(Nat), at : Nat]

\* What the tables say of a cipher.
IsCipher(c) ==
    /\ c.kind \in {"aead", "evp", "salsa"}
    /\ c.salt \in Nat /\ c.tag \in Nat /\ c.key \in Nat
    /\ c.filtered \in BOOLEAN
    /\ c.kind = "aead" <=> c.tag # 0
    /\ c.kind = "salsa" => c.blocks \in Nat \ {0}

\* A byte of somebody else is a cell of a kind of its own.
LEMMA JunkIs == Junk \in Cell /\ Junk.kind = "junk"
  BY DEF Junk, Cell

\* The bytes of a text are numbered.
LEMMA TextIs ==
    ASSUME NEW from \in Nat, NEW n \in Nat
    PROVE  /\ Text(from, n) \in Seq(Nat) /\ Len(Text(from, n)) = n
           /\ \A i \in 1..n : Text(from, n)[i] = from + i
  BY DEF Text

\* The cells of a salt or IV.
LEMMA SaltIs ==
    ASSUME NEW c, IsCipher(c)
    PROVE  /\ SaltCells(c) \in Seq(Cell) /\ Len(SaltCells(c)) = c.salt
           /\ \A i \in 1..c.salt : SaltCells(c)[i] = [kind |-> "salt", nonce |-> 0, body |-> << >>, at |-> i]
<1>1. c.salt \in Nat
  BY DEF IsCipher
<1>2. \A i \in 1..c.salt : [kind |-> "salt", nonce |-> 0, body |-> << >>, at |-> i] \in Cell
  BY <1>1, EmptySeq DEF Cell
<1> QED BY <1>1, <1>2 DEF SaltCells

\* The cells of a box.
LEMMA BoxIs ==
    ASSUME NEW c, IsCipher(c), NEW nonce \in Nat, NEW body \in Seq(Nat)
    PROVE  /\ Box(c, nonce, body) \in Seq(Cell) /\ Len(Box(c, nonce, body)) = Len(body) + c.tag
           /\ \A i \in 1..(Len(body) + c.tag) :
                 Box(c, nonce, body)[i] = [kind |-> "box", nonce |-> nonce, body |-> body, at |-> i]
<1>1. c.tag \in Nat /\ Len(body) \in Nat
  BY LenProperties DEF IsCipher
<1>2. \A i \in 1..(Len(body) + c.tag) : [kind |-> "box", nonce |-> nonce, body |-> body, at |-> i] \in Cell
  BY <1>1 DEF Cell
<1> QED BY <1>1, <1>2, SMTT(60) DEF Box

\* A number divided, and what is left of it.
LEMMA DivMod ==
    ASSUME NEW k \in Nat, NEW s \in Nat \ {0}, NEW r \in Nat, r < s
    PROVE  (k * s + r) \div s = k /\ (k * s + r) % s = r
  OBVIOUS

\* The length of a key stream.
LEMMA PeriodIs ==
    ASSUME NEW c, IsCipher(c), c.kind = "salsa"
    PROVE  Period(c) \in Nat \ {0}
<1>1. PICK b \in Nat \ {0} : b = c.blocks
  BY DEF IsCipher
<1>2. PICK z \in Nat \ {0} : z = BlockSize
  BY StreamAssumption
<1>3. b * z \in Nat \ {0}
  OBVIOUS
<1> QED BY <1>1, <1>2, <1>3 DEF Period

\* A place in the key stream, which is the number of the byte until the key
\* stream is used up.
LEMMA PlaceIs ==
    ASSUME NEW c, IsCipher(c), NEW n \in Nat \ {0}
    PROVE  /\ Place(c, n) \in Nat
           /\ (c.kind = "salsa" => n <= Period(c)) => Place(c, n) = n
<1>1. CASE c.kind = "salsa"
  <2>1. PICK p \in Nat \ {0} : p = Period(c)
    BY <1>1, PeriodIs
  <2>2. PICK m \in Nat : m = n - 1 /\ m + 1 = n
    <3>1. n - 1 \in Nat /\ (n - 1) + 1 = n
      OBVIOUS
    <3> QED BY <3>1
  <2>3. m % p \in Nat
    OBVIOUS
  <2>4. m < p => m % p = m
    OBVIOUS
  <2>5. Place(c, n) = (m % p) + 1
    BY <1>1, <2>1, <2>2 DEF Place
  <2>6. n <= p => m < p
    BY <2>2
  <2> QED BY <1>1, <2>1, <2>2, <2>3, <2>4, <2>5, <2>6
<1>2. CASE c.kind # "salsa"
  BY <1>2 DEF Place
<1> QED BY <1>1, <1>2

\* Whole periods do not matter.
LEMMA ModPeriod ==
    ASSUME NEW d \in Nat, NEW p \in Nat \ {0}, NEW x \in Nat
    PROVE  (d * p + x) % p = x % p
<1>1. PICK e \in Nat, y \in Nat : e = x \div p /\ y = x % p /\ y < p /\ x = e * p + y
  <2>1. x \div p \in Nat /\ x % p \in 0..(p - 1)
    OBVIOUS
  <2>2. x = p * (x \div p) + (x % p)
    OBVIOUS
  <2>3. PICK e \in Nat, y \in Nat : e = x \div p /\ y = x % p /\ y < p
    BY <2>1
  <2>4. x = p * e + y /\ p * e = e * p
    BY <2>2, <2>3
  <2> QED BY <2>3, <2>4
<1>2. d * p + x = (d + e) * p + y
  BY <1>1
<1>3. d + e \in Nat
  OBVIOUS
<1>4. ((d + e) * p + y) % p = y
  BY <1>1, <1>3, DivMod
<1> QED BY <1>1, <1>2, <1>4

\* (uint32_t)ic: the counter of blocks that is cut to its width leads to the same
\* place of the key stream.
LEMMA SamePlace ==
    ASSUME NEW c, IsCipher(c), c.kind = "salsa", NEW ic \in Nat, NEW i \in Nat \ {0}
    PROVE  /\ (ic % c.blocks) * BlockSize \in Nat /\ ic * BlockSize \in Nat
           /\ Place(c, (ic % c.blocks) * BlockSize + i) = Place(c, ic * BlockSize + i)
<1>1. PICK b \in Nat \ {0} : b = c.blocks
  BY DEF IsCipher
<1>2. PICK z \in Nat \ {0} : z = BlockSize
  BY StreamAssumption
<1>3. PICK p \in Nat \ {0} : p = b * z /\ p = Period(c)
  BY <1>1, <1>2, PeriodIs DEF Period
<1>4. PICK d \in Nat, m \in Nat : d = ic \div b /\ m = ic % b /\ ic = d * b + m
  <2>1. ic \div b \in Nat /\ ic % b \in 0..(b - 1)
    OBVIOUS
  <2>2. ic = b * (ic \div b) + (ic % b)
    OBVIOUS
  <2>3. PICK d \in Nat, m \in Nat : d = ic \div b /\ m = ic % b
    BY <2>1
  <2>4. ic = b * d + m /\ b * d = d * b
    BY <2>2, <2>3
  <2> QED BY <2>3, <2>4
<1>5. PICK k \in Nat : i = k + 1
  <2>1. i - 1 \in Nat /\ i = (i - 1) + 1
    OBVIOUS
  <2> QED BY <2>1
<1>6. m * z \in Nat /\ ic * z \in Nat /\ m * z + k \in Nat
  OBVIOUS
<1>7. ic * z + k = d * p + (m * z + k)
  <2>1. (d * b + m) * z = d * (b * z) + m * z
    OBVIOUS
  <2>2. ic * z = d * (b * z) + m * z
    BY <1>4, <2>1
  <2>3. ic * z = d * p + m * z
    BY <1>3, <2>2
  <2>4. d * p \in Nat
    OBVIOUS
  <2> QED BY <1>6, <2>3, <2>4
<1>8. (ic * z + k) % p = (m * z + k) % p
  BY <1>6, <1>7, ModPeriod
<1>9. (ic * z + i) - 1 = ic * z + k /\ (m * z + i) - 1 = m * z + k
  BY <1>5, <1>6
<1> QED BY <1>1, <1>2, <1>3, <1>4, <1>6, <1>8, <1>9 DEF Place

\* The cells of a key stream.
LEMMA KeyStreamIs ==
    ASSUME NEW c, IsCipher(c), NEW pos \in Nat, NEW bytes \in Seq(Nat)
    PROVE  /\ KeyStream(c, pos, bytes) \in Seq(Cell) /\ Len(KeyStream(c, pos, bytes)) = Len(bytes)
           /\ \A i \in 1..Len(bytes) :
                 KeyStream(c, pos, bytes)[i] = [kind |-> "stream", nonce |-> 0, body |-> <<bytes[i]>>, at |-> Place(c, pos + i)]
<1>1. ASSUME NEW i \in 1..Len(bytes) PROVE Place(c, pos + i) \in Nat
  <2>1. pos + i \in Nat \ {0}
    OBVIOUS
  <2> QED BY <2>1, PlaceIs
<1> QED BY <1>1 DEF KeyStream, Cell

\* What deciphering gives, cell by cell.
LEMMA PlainIs ==
    ASSUME NEW c, NEW pos \in Nat, NEW cells \in Seq(Cell)
    PROVE  /\ Len(Plain(c, pos, cells)) = Len(cells)
           /\ \A i \in 1..Len(cells) :
                Plain(c, pos, cells)[i] = IF cells[i].kind = "stream" /\ cells[i].at = Place(c, pos + i) THEN cells[i].body[1] ELSE 0
  BY DEF Plain

\* crypto_stream_xor_ic goes on where the block is.
LEMMA XorIcIs ==
    ASSUME NEW c, IsCipher(c), c.kind = "salsa", NEW ic \in Nat, NEW q, q = ic * BlockSize
    PROVE  /\ \A bytes \in Seq(Nat) : XorIc(c, bytes, ic) = KeyStream(c, q, bytes)
           /\ \A cells \in Seq(Cell) : PlainIc(c, cells, ic) = Plain(c, q, cells)
<1>1. PICK o : o = (ic % c.blocks) * BlockSize
  OBVIOUS
<1>2. \A i \in Nat \ {0} : Place(c, o + i) = Place(c, q + i)
  BY <1>1, SamePlace
<1>3. ASSUME NEW bytes \in Seq(Nat) PROVE KeyStream(c, o, bytes) = KeyStream(c, q, bytes)
  <2>1. \A i \in 1..Len(bytes) : Place(c, o + i) = Place(c, q + i)
    BY <1>2
  <2> QED BY <2>1 DEF KeyStream
<1>4. ASSUME NEW cells \in Seq(Cell) PROVE Plain(c, o, cells) = Plain(c, q, cells)
  <2>1. \A i \in 1..Len(cells) : Place(c, o + i) = Place(c, q + i)
    BY <1>2
  <2> QED BY <2>1 DEF Plain
<1> QED BY <1>1, <1>3, <1>4 DEF XorIc, PlainIc

\* What is left of a sequence behind its first elements.
LEMMA DropIs ==
    ASSUME NEW S, NEW s \in Seq(S), NEW n \in 0..Len(s)
    PROVE  /\ Drop(s, n) \in Seq(S) /\ Len(Drop(s, n)) = Len(s) - n
           /\ \A i \in 1..(Len(s) - n) : Drop(s, n)[i] = s[n + i]
  BY SubSeqProperties DEF Drop

\* The maximum and the minimum of a few numbers.
LEMMA MaxOfTwo ==
    ASSUME NEW a \in Nat, NEW b \in Nat
    PROVE  Max({a, b}) = IF a >= b THEN a ELSE b
  BY DEF Max

\* The same for three.
LEMMA MaxOfThree ==
    ASSUME NEW a \in Nat, NEW b \in Nat, NEW d \in Nat
    PROVE  Max({a, b, d}) \in {a, b, d} /\ Max({a, b, d}) >= a /\ Max({a, b, d}) >= b /\ Max({a, b, d}) >= d
<1>1. \E x \in {a, b, d} : \A y \in {a, b, d} : x >= y
  OBVIOUS
<1> QED BY <1>1 DEF Max

\* The same for the minimum.
LEMMA MinOfTwo ==
    ASSUME NEW a \in Int, NEW b \in Int
    PROVE  Min({a, b}) = IF a <= b THEN a ELSE b
  BY DEF Min

\* The text from the start.
LEMMA FirstText ==
    ASSUME NEW n \in Nat
    PROVE  /\ Text(0, n) \in Seq(Nat) /\ Len(Text(0, n)) = n
           /\ \A i \in 1..n : Text(0, n)[i] = i
  BY DEF Text

-----------------------------------------------------------------------------
(* Packets *)

\* What a cut packet looks like: the salt, and then as many cells of the box or
\* of the key stream as are left.
LEMMA CutPacket ==
    ASSUME NEW c, IsCipher(c), NEW n \in Nat, NEW cut \in 0..n
    PROVE  LET cells == EncryptAll(c, Text(0, n))
               left == SubSeq(cells, 1, Len(cells) - cut)
           IN  /\ left \in Seq(Cell) /\ Len(left) = c.salt + c.tag + n - cut
               /\ \A i \in 1..(c.tag + n - cut) : left[c.salt + i] =
                    IF c.kind = "aead" THEN [kind |-> "box", nonce |-> 0, body |-> Text(0, n), at |-> i]
                    ELSE [kind |-> "stream", nonce |-> 0, body |-> <<i>>, at |-> Place(c, i)]
<1> DEFINE cells == EncryptAll(c, Text(0, n))
           left == SubSeq(cells, 1, Len(cells) - cut)
           rest == IF c.kind = "aead" THEN Box(c, 0, Text(0, n)) ELSE KeyStream(c, 0, Text(0, n))
<1>1. c.salt \in Nat /\ c.tag \in Nat /\ (c.kind # "aead" => c.tag = 0)
  BY DEF IsCipher
<1>2. /\ rest \in Seq(Cell) /\ Len(rest) = c.tag + n
      /\ \A i \in 1..(c.tag + n) : rest[i] =
            IF c.kind = "aead" THEN [kind |-> "box", nonce |-> 0, body |-> Text(0, n), at |-> i]
            ELSE [kind |-> "stream", nonce |-> 0, body |-> <<i>>, at |-> Place(c, i)]
  <2>1. CASE c.kind = "aead"
    <3>1. rest = Box(c, 0, Text(0, n))
      BY <2>1
    <3>2. Text(0, n) \in Seq(Nat) /\ Len(Text(0, n)) = n
      BY FirstText
    <3>3. /\ Box(c, 0, Text(0, n)) \in Seq(Cell) /\ Len(Box(c, 0, Text(0, n))) = Len(Text(0, n)) + c.tag
          /\ \A i \in 1..(Len(Text(0, n)) + c.tag) :
                Box(c, 0, Text(0, n))[i] = [kind |-> "box", nonce |-> 0, body |-> Text(0, n), at |-> i]
      <4>1. 0 \in Nat
        OBVIOUS
      <4> QED BY <3>2, <4>1, BoxIs, Zenon
    <3>4. n + c.tag = c.tag + n
      BY <1>1
    <3> HIDE DEF rest
    <3> QED BY <2>1, <3>1, <3>2, <3>3, <3>4
  <2>2. CASE c.kind # "aead"
    <3>1. rest = KeyStream(c, 0, Text(0, n))
      BY <2>2
    <3>2. Text(0, n) \in Seq(Nat) /\ Len(Text(0, n)) = n /\ \A i \in 1..n : Text(0, n)[i] = i
      BY FirstText
    <3>3. /\ KeyStream(c, 0, Text(0, n)) \in Seq(Cell) /\ Len(KeyStream(c, 0, Text(0, n))) = Len(Text(0, n))
          /\ \A i \in 1..Len(Text(0, n)) : KeyStream(c, 0, Text(0, n))[i] =
                [kind |-> "stream", nonce |-> 0, body |-> <<Text(0, n)[i]>>, at |-> Place(c, 0 + i)]
      <4>1. 0 \in Nat
        OBVIOUS
      <4> QED BY <3>2, <4>1, KeyStreamIs, Zenon
    <3>4. c.tag + n = n
      BY <1>1, <2>2
    <3> HIDE DEF rest
    <3>5. ASSUME NEW i \in 1..n PROVE rest[i] = [kind |-> "stream", nonce |-> 0, body |-> <<i>>, at |-> Place(c, i)]
      <4>1. 0 + i = i /\ Text(0, n)[i] = i
        BY <3>2
      <4> QED BY <3>1, <3>2, <3>3, <4>1, Zenon
    <3> QED BY <2>2, <3>1, <3>2, <3>3, <3>4, <3>5
  <2> QED BY <2>1, <2>2
<1>3. cells = SaltCells(c) \o rest
  BY DEF EncryptAll
<1> HIDE DEF rest, cells
<1>4. /\ cells \in Seq(Cell) /\ Len(cells) = c.salt + (c.tag + n)
      /\ \A i \in 1..(c.salt + (c.tag + n)) : cells[i] = IF i <= c.salt THEN SaltCells(c)[i] ELSE rest[i - c.salt]
  <2>1. SaltCells(c) \in Seq(Cell) /\ Len(SaltCells(c)) = c.salt
    BY SaltIs
  <2>2. /\ cells \in Seq(Cell) /\ Len(cells) = Len(SaltCells(c)) + Len(rest)
        /\ \A i \in 1..(Len(SaltCells(c)) + Len(rest)) :
               cells[i] = IF i <= Len(SaltCells(c)) THEN SaltCells(c)[i] ELSE rest[i - Len(SaltCells(c))]
    BY <1>2, <1>3, <2>1, ConcatProperties, Zenon
  <2> QED BY <1>2, <2>1, <2>2
<1>5. \A i \in 1..(c.tag + n) : cells[c.salt + i] = rest[i]
  BY <1>1, <1>4
<1>6. \A i \in 1..(Len(cells) - cut) : cells[i] \in Cell
  BY <1>1, <1>4, ElementOfSeq
<1>7. /\ left \in Seq(Cell) /\ Len(left) = Len(cells) - cut
      /\ \A i \in 1..(Len(cells) - cut) : left[i] = cells[i]
  BY <1>1, <1>4, <1>6, SubSeqProperties
<1>8. \A i \in 1..(c.tag + n - cut) : left[c.salt + i] = rest[i]
  <2> SUFFICES ASSUME NEW i \in 1..(c.tag + n - cut) PROVE left[c.salt + i] = rest[i]
    OBVIOUS
  <2>1. c.salt + i \in 1..(Len(cells) - cut) /\ i \in 1..(c.tag + n)
    BY <1>1, <1>4, SMTT(60)
  <2> HIDE DEF left
  <2> QED BY <1>5, <1>7, <2>1
<1>9. Len(left) = c.salt + c.tag + n - cut
  BY <1>1, <1>4, <1>7
<1>10. \A i \in 1..(c.tag + n - cut) : i \in 1..(c.tag + n)
  BY <1>1
<1> HIDE DEF left
<1>11. \A i \in 1..(c.tag + n - cut) : left[c.salt + i] =
                    IF c.kind = "aead" THEN [kind |-> "box", nonce |-> 0, body |-> Text(0, n), at |-> i]
                    ELSE [kind |-> "stream", nonce |-> 0, body |-> <<i>>, at |-> Place(c, i)]
  BY <1>2, <1>8, <1>10, Zenon
<1> QED BY <1>7, <1>9, <1>11 DEF left, cells

\* What aead_decrypt_all and stream_decrypt_all make of a packet that
\* aead_encrypt_all or stream_encrypt_all made, of which the end may be missing.
LEMMA PacketResult ==
    ASSUME NEW c, IsCipher(c), NEW n \in Nat \ {0}, NEW cut \in 0..n, NEW nonce
    PROVE  LET cells == EncryptAll(c, Text(0, n))
               r == DecryptAll(c, SubSeq(cells, 1, Len(cells) - cut), nonce)
           IN  /\ cut = 0 /\ nonce \notin filter => r = Taken(Text(0, n))
               /\ nonce \in filter => r.err = ERROR
               /\ cut # 0 /\ c.kind = "aead" => r.err = ERROR
               /\ IsPrefixOf(r.plain, Text(0, n))
<1> DEFINE left == SubSeq(EncryptAll(c, Text(0, n)), 1, Len(EncryptAll(c, Text(0, n))) - cut)
           r == DecryptAll(c, left, nonce)
<1>1. /\ left \in Seq(Cell) /\ Len(left) = c.salt + c.tag + n - cut
      /\ \A i \in 1..(c.tag + n - cut) : left[c.salt + i] =
            IF c.kind = "aead" THEN [kind |-> "box", nonce |-> 0, body |-> Text(0, n), at |-> i]
            ELSE [kind |-> "stream", nonce |-> 0, body |-> <<i>>, at |-> Place(c, i)]
  BY CutPacket
<1> HIDE DEF left
<1>2. c.salt \in Nat /\ c.tag \in Nat /\ (c.kind = "aead" <=> c.tag # 0)
  BY DEF IsCipher
<1>3. /\ Drop(left, c.salt) \in Seq(Cell) /\ Len(Drop(left, c.salt)) = c.tag + n - cut
      /\ \A i \in 1..(c.tag + n - cut) : Drop(left, c.salt)[i] = left[c.salt + i]
  <2>1. c.salt \in 0..Len(left)
    BY <1>1, <1>2
  <2>2. /\ Drop(left, c.salt) \in Seq(Cell) /\ Len(Drop(left, c.salt)) = Len(left) - c.salt
        /\ \A i \in 1..(Len(left) - c.salt) : Drop(left, c.salt)[i] = left[c.salt + i]
    <3>1. left \in Seq(Cell)
      BY <1>1
    <3> QED BY <2>1, <3>1, DropIs, Zenon
  <2>3. Len(left) - c.salt = c.tag + n - cut
    BY <1>1, <1>2
  <2> QED BY <2>2, <2>3
<1>4. /\ Text(0, n) \in Seq(Nat) /\ Len(Text(0, n)) = n /\ \A i \in 1..n : Text(0, n)[i] = i
  BY FirstText
<1>5. IsPrefixOf(<< >>, Text(0, n)) /\ IsPrefixOf(Text(0, n), Text(0, n))
  BY <1>4, SubSeqFull, SubSeqEmpty, EmptySeq DEF IsPrefixOf
<1>6. CASE Len(left) <= c.salt + c.tag \/ nonce \in filter
  <2>1. r = Refused
    BY <1>6 DEF DecryptAll
  <2>2. cut # 0 \/ nonce \in filter
    BY <1>1, <1>2, <1>6
  <2> QED BY <1>5, <2>1, <2>2 DEF Refused, left
<1>7. CASE ~(Len(left) <= c.salt + c.tag \/ nonce \in filter) /\ c.kind # "aead"
  <2>1. r = Taken(Plain(c, 0, Drop(left, c.salt)))
    BY <1>7 DEF DecryptAll
  <2> DEFINE p == Plain(c, 0, Drop(left, c.salt))
  <2>2. Len(p) = n - cut /\ \A i \in 1..(n - cut) : p[i] = i
    <3>1. /\ Len(p) = Len(Drop(left, c.salt))
          /\ \A i \in 1..Len(Drop(left, c.salt)) : p[i] =
                IF Drop(left, c.salt)[i].kind = "stream" /\ Drop(left, c.salt)[i].at = Place(c, 0 + i)
                THEN Drop(left, c.salt)[i].body[1] ELSE 0
      <4>1. 0 \in Nat
        OBVIOUS
      <4> QED BY <1>3, <4>1, PlainIs, Zenon
    <3>2. c.tag + n - cut = n - cut
      BY <1>2, <1>7
    <3>3. \A i \in 1..(n - cut) : Drop(left, c.salt)[i] = [kind |-> "stream", nonce |-> 0, body |-> <<i>>, at |-> Place(c, i)]
      BY <1>1, <1>3, <1>7, <3>2
    <3> HIDE DEF p
    <3>4. ASSUME NEW i \in 1..(n - cut) PROVE p[i] = i
      <4>1. 0 + i = i /\ i \in 1..Len(Drop(left, c.salt))
        BY <1>3, <3>2
      <4>2. Drop(left, c.salt)[i] = [kind |-> "stream", nonce |-> 0, body |-> <<i>>, at |-> Place(c, i)]
        BY <3>3
      <4>3. p[i] = Drop(left, c.salt)[i].body[1]
        BY <3>1, <4>1, <4>2
      <4> QED BY <4>2, <4>3
    <3> QED BY <1>3, <3>1, <3>2, <3>4
  <2>3. p \in Seq(Nat)
    <3>1. p = [i \in 1..(n - cut) |-> p[i]]
      <4>1. Len(Drop(left, c.salt)) = n - cut
        BY <1>2, <1>3, <1>7
      <4> QED BY <4>1 DEF Plain
    <3> HIDE DEF p
    <3> QED BY <2>2, <3>1
  <2>4. /\ SubSeq(Text(0, n), 1, n - cut) \in Seq(Nat) /\ Len(SubSeq(Text(0, n), 1, n - cut)) = n - cut
        /\ \A i \in 1..(n - cut) : SubSeq(Text(0, n), 1, n - cut)[i] = i
    <3>1. \A i \in 1..(n - cut) : Text(0, n)[i] \in Nat
      BY <1>4
    <3> QED BY <1>4, <3>1, SubSeqProperties
  <2> HIDE DEF p
  <2>5. p = SubSeq(Text(0, n), 1, n - cut)
    BY <2>2, <2>3, <2>4, SeqEqual
  <2>6. IsPrefixOf(p, Text(0, n))
    BY <1>4, <2>2, <2>5 DEF IsPrefixOf
  <2>7. cut = 0 => p = Text(0, n)
    BY <1>4, <2>5, SubSeqFull
  <2> QED BY <1>7, <2>1, <2>6, <2>7 DEF Taken, p, left
<1>8. CASE ~(Len(left) <= c.salt + c.tag \/ nonce \in filter) /\ c.kind = "aead"
  <2>1. Drop(left, c.salt)[1] = [kind |-> "box", nonce |-> 0, body |-> Text(0, n), at |-> 1]
    <3>1. 1 \in 1..(c.tag + n - cut)
      BY <1>2, <1>8
    <3>2. left[c.salt + 1] = [kind |-> "box", nonce |-> 0, body |-> Text(0, n), at |-> 1]
      BY <1>1, <1>8, <3>1
    <3> QED BY <1>3, <3>1, <3>2
  <2>2. Opens(c, 0, Drop(left, c.salt)) <=> Drop(left, c.salt) = Box(c, 0, Text(0, n))
    BY <2>1 DEF Opens
  <2>3. /\ Box(c, 0, Text(0, n)) \in Seq(Cell) /\ Len(Box(c, 0, Text(0, n))) = n + c.tag
        /\ \A i \in 1..(n + c.tag) : Box(c, 0, Text(0, n))[i] = [kind |-> "box", nonce |-> 0, body |-> Text(0, n), at |-> i]
    <3>1. 0 \in Nat
      OBVIOUS
    <3>2. /\ Box(c, 0, Text(0, n)) \in Seq(Cell) /\ Len(Box(c, 0, Text(0, n))) = Len(Text(0, n)) + c.tag
          /\ \A i \in 1..(Len(Text(0, n)) + c.tag) :
                Box(c, 0, Text(0, n))[i] = [kind |-> "box", nonce |-> 0, body |-> Text(0, n), at |-> i]
      BY <1>4, <3>1, BoxIs, Zenon
    <3> QED BY <1>4, <3>2
  <2>4. CASE cut = 0
    <3>1. Drop(left, c.salt) = Box(c, 0, Text(0, n))
      <4>1. c.tag + n - cut = n + c.tag
        BY <1>2, <2>4
      <4>2. \A i \in 1..(n + c.tag) : Drop(left, c.salt)[i] = Box(c, 0, Text(0, n))[i]
        BY <1>1, <1>3, <1>8, <2>3, <4>1, ZenonT(60)
      <4> QED BY <1>3, <2>3, <4>1, <4>2, SeqEqual
    <3>2. left[Len(left)].body = Text(0, n)
      <4>1. left[c.salt + (c.tag + n)] = [kind |-> "box", nonce |-> 0, body |-> Text(0, n), at |-> c.tag + n]
        BY <1>1, <1>2, <1>8, <2>4
      <4>2. Len(left) = c.salt + (c.tag + n)
        BY <1>1, <1>2, <2>4
      <4> QED BY <4>1, <4>2
    <3>3. r = Taken(Text(0, n))
      BY <1>8, <2>2, <3>1, <3>2 DEF DecryptAll
    <3> QED BY <1>5, <1>8, <2>4, <3>3 DEF Taken, left
  <2>5. CASE cut # 0
    <3>1. Drop(left, c.salt) # Box(c, 0, Text(0, n))
      BY <1>2, <1>3, <2>3, <2>5
    <3>2. r = Refused
      BY <1>8, <2>2, <3>1 DEF DecryptAll
    <3> QED BY <1>5, <1>8, <2>5, <3>2 DEF Refused, left
  <2> QED BY <2>4, <2>5
<1> QED BY <1>6, <1>7, <1>8

-----------------------------------------------------------------------------
(* Keys *)

\* A set of natural numbers has a least one.
LEMMA LeastNat ==
    ASSUME NEW T, T \subseteq Nat, T # {}
    PROVE  \E x \in T : \A y \in T : x <= y
<1>1. IsWellFoundedOn(OpToRel(<, Nat), Nat)
  BY NatLessThanWellFounded, Zenon
<1>2. PICK x \in T : \A y \in T : ~(<<y, x>> \in OpToRel(<, Nat))
  BY <1>1, WFMin, Zenon
<1>3. ASSUME NEW y \in T PROVE x <= y
  <2>1. ~(<<y, x>> \in OpToRel(<, Nat))
    BY <1>2, Zenon
  <2>2. ~(y < x)
    BY <2>1 DEF OpToRel
  <2> QED BY <2>2
<1> QED BY <1>3

-----------------------------------------------------------------------------
(* The loops: how often they went round, and what they have by then *)

\* The loops of crypto.c that are recursive functions here: where one begins,
\* and one round of it.
Start(loop, x) ==
    IF loop = "chunks" THEN [err |-> OK, over |-> FALSE, ctx |-> x, cidx |-> 0, plain |-> << >>] ELSE << >>

\* One round.
Turn(loop, x, y, v, k) ==
    IF loop = "chunks" THEN ChunkRound(y, v)
    ELSE IF loop = "derive" THEN v \o [i \in 1..Min({y, x - Len(v)}) |-> <<k, i>>]
    ELSE v \o [i \in 1..(IF k # Blocks(x, y) THEN y ELSE x - (k - 1) * y) |-> <<k, i>>]

\* A loop of n rounds.
Loops(f, loop, x, y, n) == f = [k \in 0..n |-> IF k = 0 THEN Start(loop, x) ELSE Turn(loop, x, y, f[k - 1], k)]

\* Each of the loops computes something.
LEMMA LoopExists ==
    ASSUME NEW loop, NEW x, NEW y, NEW N \in Nat
    PROVE  \E f : Loops(f, loop, x, y, N)
<1> DEFINE Bad == {n \in Nat : ~\E f : Loops(f, loop, x, y, n)}
<1>1. SUFFICES ASSUME Bad # {} PROVE FALSE
  OBVIOUS
<1>2. PICK n \in Bad : \A m \in Bad : n <= m
  BY <1>1, LeastNat
<1>3. n # 0
  <2>1. PICK f : f = [m \in 0..0 |-> Start(loop, x)]
    OBVIOUS
  <2>2. Loops(f, loop, x, y, 0)
    BY <2>1 DEF Loops
  <2> QED BY <1>2, <2>2
<1>4. n \in Nat /\ n - 1 \in Nat /\ ~(n <= n - 1)
  BY <1>2, <1>3
<1>5. n - 1 \notin Bad
  BY <1>2, <1>4
<1>6. PICK f : Loops(f, loop, x, y, n - 1)
  BY <1>4, <1>5
<1>7. PICK v : v = Turn(loop, x, y, f[n - 1], n)
  OBVIOUS
<1>8. PICK g : g = [m \in 0..n |-> IF m = n THEN v ELSE f[m]]
  OBVIOUS
<1>9. ASSUME NEW m \in 0..n
      PROVE  g[m] = IF m = 0 THEN Start(loop, x) ELSE Turn(loop, x, y, g[m - 1], m)
  <2>1. CASE m = n
    BY <1>3, <1>4, <1>7, <1>8, <2>1
  <2>2. CASE m # n
    <3>1. m \in 0..(n - 1) /\ (m # 0 => m - 1 \in 0..(n - 1))
      BY <1>4, <2>2
    <3>2. g[m] = f[m] /\ (m # 0 => g[m - 1] = f[m - 1])
      BY <1>4, <1>8, <2>2, <3>1
    <3>3. f[m] = IF m = 0 THEN Start(loop, x) ELSE Turn(loop, x, y, f[m - 1], m)
      BY <1>6, <3>1 DEF Loops
    <3> QED BY <3>2, <3>3
  <2> QED BY <2>1, <2>2
<1>10. Loops(g, loop, x, y, n)
  BY <1>8, <1>9 DEF Loops
<1> QED BY <1>2, <1>10

-----------------------------------------------------------------------------
(* Keys *)

\* Products of natural numbers.
LEMMA Product ==
    ASSUME NEW a \in Nat, NEW b \in Nat, NEW s \in Nat, a <= b
    PROVE  a * s \in Nat /\ b * s \in Nat /\ a * s <= b * s
  OBVIOUS

\* The next multiple.
LEMMA NextProduct ==
    ASSUME NEW a \in Nat, NEW s \in Nat
    PROVE  (a + 1) * s = a * s + s
  OBVIOUS

\* A key made of digests, byte by byte.
LEMMA FirstBytesIs ==
    ASSUME NEW n \in Nat, NEW s \in Nat \ {0}
    PROVE  /\ FirstBytes(n, s) \in Seq(Nat \X Nat) /\ Len(FirstBytes(n, s)) = n
           /\ \A j \in 1..n : FirstBytes(n, s)[j] = <<(j - 1) \div s + 1, ((j - 1) % s) + 1>>
<1>1. \A j \in 1..n : <<(j - 1) \div s + 1, ((j - 1) % s) + 1>> \in Nat \X Nat
  OBVIOUS
<1> QED BY <1>1 DEF FirstBytes

\* The digests up to the k-th, and then m bytes of the next.
LEMMA FirstBytesGrow ==
    ASSUME NEW k \in Nat, NEW s \in Nat \ {0}, NEW m \in 0..s
    PROVE  FirstBytes(k * s, s) \o [i \in 1..m |-> <<k + 1, i>>] = FirstBytes(k * s + m, s)
<1> DEFINE S == Nat \X Nat
           a == FirstBytes(k * s, s)
           b == [i \in 1..m |-> <<k + 1, i>>]
           t == FirstBytes(k * s + m, s)
<1>1. PICK p \in Nat : p = k * s
  BY Product
<1>2. /\ a \in Seq(S) /\ Len(a) = p /\ \A j \in 1..p : a[j] = <<(j - 1) \div s + 1, ((j - 1) % s) + 1>>
  BY <1>1, FirstBytesIs
<1>3. p + m \in Nat
  OBVIOUS
<1>4. /\ t \in Seq(S) /\ Len(t) = p + m /\ \A j \in 1..(p + m) : t[j] = <<(j - 1) \div s + 1, ((j - 1) % s) + 1>>
  BY <1>1, <1>3, FirstBytesIs
<1>5. b \in Seq(S) /\ Len(b) = m /\ \A i \in 1..m : b[i] = <<k + 1, i>>
  OBVIOUS
<1> HIDE DEF a, b, t, S
<1>6. /\ a \o b \in Seq(S) /\ Len(a \o b) = Len(a) + Len(b)
      /\ \A i \in 1..(Len(a) + Len(b)) : (a \o b)[i] = IF i <= Len(a) THEN a[i] ELSE b[i - Len(a)]
  BY <1>2, <1>5, ConcatProperties, Zenon
<1>7. ASSUME NEW j \in 1..(p + m) PROVE (a \o b)[j] = t[j]
  <2>1. CASE j <= p
    <3>1. (a \o b)[j] = a[j] /\ j \in 1..p
      BY <1>2, <1>5, <1>6, <2>1
    <3> QED BY <1>2, <1>4, <3>1
  <2>2. CASE ~(j <= p)
    <3>1. PICK r \in Nat : r = j - p - 1
      BY <2>2
    <3>2. r < s /\ j - 1 = k * s + r /\ j - p = r + 1
      BY <1>1, <3>1
    <3>3. (j - 1) \div s = k /\ (j - 1) % s = r
      BY <3>2, DivMod
    <3>4. t[j] = <<k + 1, r + 1>>
      BY <1>4, <3>3
    <3>5. (a \o b)[j] = b[r + 1] /\ r + 1 \in 1..m
      BY <1>2, <1>5, <1>6, <2>2, <3>1, <3>2
    <3> QED BY <1>5, <3>4, <3>5
  <2> QED BY <2>1, <2>2
<1>8. a \o b = t
  BY <1>2, <1>4, <1>5, <1>6, <1>7, SeqEqual
<1> QED BY <1>8 DEF a, b, t

\* An empty key.
LEMMA NoBytes == ASSUME NEW s PROVE FirstBytes(0, s) = << >>
  BY DEF FirstBytes

\* crypto_derive_key is its loop.
LEMMA DeriveKeyIs ==
    ASSUME NEW keyLen \in Nat, NEW mds
    PROVE  \E f : Loops(f, "derive", keyLen, mds, keyLen) /\ DeriveKey(keyLen, mds) = f[keyLen]
<1> DEFINE R(f) == f = [addmd \in 0..keyLen |-> IF addmd = 0 THEN << >>
                        ELSE f[addmd - 1] \o [i \in 1..Min({mds, keyLen - Len(f[addmd - 1])}) |-> <<addmd, i>>]]
<1>1. \A f : R(f) <=> Loops(f, "derive", keyLen, mds, keyLen)
  BY DEF Loops, Start, Turn
<1>2. \E f : R(f)
  BY <1>1, LoopExists
<1>3. DeriveKey(keyLen, mds) = (CHOOSE f : R(f))[keyLen]
  BY Zenon DEF DeriveKey
<1> HIDE DEF R
<1> QED BY <1>1, <1>2, <1>3, Zenon

\* After k digests the key has the first k * mds bytes, or all it can hold.
LEMMA DeriveKeyExact ==
    ASSUME NEW keyLen \in Nat, NEW mds \in Nat \ {0}
    PROVE  DeriveKey(keyLen, mds) = FirstBytes(keyLen, mds)
<1>1. PICK f : Loops(f, "derive", keyLen, mds, keyLen) /\ DeriveKey(keyLen, mds) = f[keyLen]
  BY DeriveKeyIs
<1> DEFINE P(k) == \/ k * mds <= keyLen /\ f[k] = FirstBytes(k * mds, mds)
                   \/ k * mds >= keyLen /\ f[k] = FirstBytes(keyLen, mds)
           Bad == {k \in 0..keyLen : ~P(k)}
<1>2. ASSUME Bad # {} PROVE FALSE
  <2>1. PICK k \in Bad : \A j \in Bad : k <= j
    <3>1. Bad \subseteq Nat
      OBVIOUS
    <3> HIDE DEF Bad
    <3> QED BY <1>2, <3>1, LeastNat
  <2>2. f[0] = << >>
    BY <1>1 DEF Loops, Start
  <2>3. P(0)
    BY <2>2, NoBytes
  <2>4. k # 0
    BY <2>1, <2>3
  <2>5. PICK h \in Nat : h = k - 1
    BY <2>1, <2>4
  <2>6. h \in 0..keyLen /\ P(h)
    <3>1. h \in 0..keyLen /\ ~(k <= h)
      BY <2>1, <2>5
    <3> QED BY <2>1, <3>1
  <2>7. f[k] = f[h] \o [i \in 1..Min({mds, keyLen - Len(f[h])}) |-> <<h + 1, i>>]
    <3>1. k - 1 = h /\ k = h + 1
      BY <2>1, <2>5
    <3>2. f[k] = Turn("derive", keyLen, mds, f[k - 1], k)
      BY <1>1, <2>1, <2>4 DEF Loops
    <3> QED BY <3>1, <3>2 DEF Turn
  <2>8. h * mds \in Nat /\ k * mds = h * mds + mds
    BY <2>1, <2>5, NextProduct, Product
  <2>9. CASE h * mds < keyLen
    <3>1. f[h] = FirstBytes(h * mds, mds)
      BY <2>6, <2>8, <2>9
    <3>2. Len(f[h]) = h * mds
      BY <2>8, <3>1, FirstBytesIs
    <3>3. PICK m \in 0..mds : m = Min({mds, keyLen - Len(f[h])}) /\ m = IF mds <= keyLen - h * mds THEN mds ELSE keyLen - h * mds
      <4>1. keyLen - h * mds \in Nat
        BY <2>8, <2>9
      <4> QED BY <3>2, <4>1, MinOfTwo
    <3>4. f[k] = FirstBytes(h * mds + m, mds)
      BY <2>5, <2>7, <3>1, <3>3, FirstBytesGrow
    <3>5. P(k)
      BY <2>8, <2>9, <3>3, <3>4
    <3> QED BY <2>1, <3>5
  <2>10. CASE ~(h * mds < keyLen)
    <3>1. f[h] = FirstBytes(keyLen, mds)
      BY <2>6, <2>8, <2>10
    <3>2. Len(f[h]) = keyLen /\ f[h] \in Seq(Nat \X Nat)
      BY <3>1, FirstBytesIs
    <3>3. Min({mds, keyLen - Len(f[h])}) = 0
      BY <3>2, MinOfTwo
    <3>4. [i \in 1..Min({mds, keyLen - Len(f[h])}) |-> <<h + 1, i>>] = << >>
      <4>1. ASSUME NEW d, d = 0 PROVE [i \in 1..d |-> <<h + 1, i>>] = << >>
        BY <4>1
      <4> QED BY <3>3, <4>1
    <3>5. f[k] = f[h]
      BY <2>7, <3>2, <3>4, ConcatEmptySeq
    <3>6. P(k)
      BY <2>8, <2>10, <3>1, <3>5
    <3> QED BY <2>1, <3>6
  <2> QED BY <2>9, <2>10
<1>3. P(keyLen)
  BY <1>2
<1>4. keyLen * mds >= keyLen
  OBVIOUS
<1>5. keyLen * mds <= keyLen => keyLen * mds = keyLen
  BY <1>4
<1> QED BY <1>1, <1>3, <1>5

\* crypto_hkdf_expand is its loop.
LEMMA HkdfIs ==
    ASSUME NEW okmLen, NEW hashLen, Blocks(okmLen, hashLen) \in Nat
    PROVE  \E f : /\ Loops(f, "hkdf", okmLen, hashLen, Blocks(okmLen, hashLen))
                  /\ HkdfExpand(okmLen, hashLen) =
                        IF Blocks(okmLen, hashLen) > MaxBlocks THEN << >> ELSE f[Blocks(okmLen, hashLen)]
<1> DEFINE N == Blocks(okmLen, hashLen)
           R(f) == f = [i \in 0..N |-> IF i = 0 THEN << >>
                        ELSE f[i - 1] \o [k \in 1..(IF i # N THEN hashLen ELSE okmLen - (i - 1) * hashLen) |-> <<i, k>>]]
<1>1. \A f : R(f) <=> Loops(f, "hkdf", okmLen, hashLen, N)
  BY DEF Loops, Start, Turn
<1>2. \E f : R(f)
  BY <1>1, LoopExists
<1>3. HkdfExpand(okmLen, hashLen) = IF N > MaxBlocks THEN << >> ELSE (CHOOSE f : R(f))[N]
  BY Zenon DEF HkdfExpand
<1> HIDE DEF R, N
<1>4. \E f : /\ Loops(f, "hkdf", okmLen, hashLen, N)
             /\ HkdfExpand(okmLen, hashLen) = IF N > MaxBlocks THEN << >> ELSE f[N]
  BY <1>1, <1>2, <1>3, Zenon
<1> QED BY <1>4 DEF N

\* The number of digests is the length divided by theirs, rounded up.
LEMMA BlocksIs ==
    ASSUME NEW n \in Nat, NEW s \in Nat \ {0}
    PROVE  /\ Blocks(n, s) \in Nat /\ n <= Blocks(n, s) * s
           /\ Blocks(n, s) # 0 => (Blocks(n, s) - 1) * s < n
           /\ Blocks(n, s) = 0 => n = 0
<1>1. PICK q \in Nat, r \in Nat : q = n \div s /\ r = n % s /\ r < s /\ n = q * s + r
  OBVIOUS
<1>2. Blocks(n, s) = IF r # 0 THEN q + 1 ELSE q
  BY <1>1 DEF Blocks
<1>3. q * s \in Nat /\ (q + 1) * s = q * s + s /\ (q # 0 => q * s = (q - 1) * s + s)
  BY NextProduct, Product
<1>4. CASE r # 0
  <2>1. Blocks(n, s) = q + 1 /\ Blocks(n, s) - 1 = q
    BY <1>2, <1>4
  <2> QED BY <1>1, <1>3, <1>4, <2>1
<1>5. CASE r = 0
  BY <1>1, <1>2, <1>3, <1>5
<1> QED BY <1>4, <1>5

\* crypto_hkdf_expand gives the first bytes of its blocks.
LEMMA HkdfExact ==
    ASSUME NEW okmLen \in Nat, NEW hashLen \in Nat \ {0}, MaxBlocks \in Nat
    PROVE  HkdfExpand(okmLen, hashLen) =
                IF okmLen <= MaxBlocks * hashLen THEN FirstBytes(okmLen, hashLen) ELSE << >>
<1>1. PICK N \in Nat : N = Blocks(okmLen, hashLen)
  BY BlocksIs
<1>2. okmLen <= N * hashLen /\ (N # 0 => (N - 1) * hashLen < okmLen) /\ (N = 0 => okmLen = 0)
  BY <1>1, BlocksIs
<1>3. PICK f : /\ Loops(f, "hkdf", okmLen, hashLen, N)
               /\ HkdfExpand(okmLen, hashLen) = IF N > MaxBlocks THEN << >> ELSE f[N]
  BY <1>1, HkdfIs
<1>4. N > MaxBlocks <=> ~(okmLen <= MaxBlocks * hashLen)
  <2>1. CASE N > MaxBlocks
    <3>1. MaxBlocks * hashLen <= (N - 1) * hashLen /\ (N - 1) * hashLen \in Nat /\ MaxBlocks * hashLen \in Nat
      <4>1. N - 1 \in Nat /\ MaxBlocks <= N - 1
        BY <2>1
      <4> QED BY <4>1, Product
    <3> QED BY <1>2, <2>1, <3>1
  <2>2. CASE ~(N > MaxBlocks)
    <3>1. N * hashLen <= MaxBlocks * hashLen /\ N * hashLen \in Nat /\ MaxBlocks * hashLen \in Nat
      BY <2>2, Product
    <3> QED BY <1>2, <2>2, <3>1
  <2> QED BY <2>1, <2>2
<1> DEFINE P(k) == f[k] = FirstBytes(IF k = N THEN okmLen ELSE k * hashLen, hashLen)
           Bad == {k \in 0..N : ~P(k)}
<1>5. ASSUME Bad # {} PROVE FALSE
  <2>1. PICK k \in Bad : \A j \in Bad : k <= j
    <3>1. Bad \subseteq Nat
      OBVIOUS
    <3> HIDE DEF Bad
    <3> QED BY <1>5, <3>1, LeastNat
  <2>2. f[0] = << >>
    BY <1>3 DEF Loops, Start
  <2>3. P(0)
    BY <1>2, <2>2, NoBytes
  <2>4. k # 0
    BY <2>1, <2>3
  <2>5. PICK h \in Nat : h = k - 1
    BY <2>1, <2>4
  <2>6. h \in 0..N /\ P(h) /\ h # N
    <3>1. h \in 0..N /\ ~(k <= h) /\ h # N
      BY <2>1, <2>5
    <3> QED BY <2>1, <3>1
  <2>7. f[k] = f[h] \o [i \in 1..(IF k # N THEN hashLen ELSE okmLen - h * hashLen) |-> <<h + 1, i>>]
    <3>1. k - 1 = h /\ k = h + 1
      BY <2>1, <2>5
    <3>2. f[k] = Turn("hkdf", okmLen, hashLen, f[k - 1], k)
      BY <1>3, <2>1, <2>4 DEF Loops
    <3> QED BY <1>1, <3>1, <3>2 DEF Turn
  <2>8. h * hashLen \in Nat /\ k * hashLen = h * hashLen + hashLen
    BY <2>1, <2>5, NextProduct, Product
  <2>9. PICK m \in 0..hashLen : m = IF k # N THEN hashLen ELSE okmLen - h * hashLen
    BY <1>2, <2>1, <2>4, <2>5, <2>8
  <2>10. f[k] = FirstBytes(h * hashLen + m, hashLen)
    BY <2>5, <2>6, <2>7, <2>9, FirstBytesGrow
  <2>11. h * hashLen + m = IF k = N THEN okmLen ELSE k * hashLen
    BY <2>8, <2>9
  <2> QED BY <2>1, <2>10, <2>11
<1>6. f[N] = FirstBytes(okmLen, hashLen)
  BY <1>5
<1> QED BY <1>3, <1>4, <1>6

\* For every cipher of the tables the keys are as asked for.
LEMMA KeysExactFollows ==
    ASSUME IsCipher(cipher)
    PROVE  KeysExact
<1>1. cipher.key \in Nat /\ MaxBlocks \in Nat
  BY TablesAssumption DEF IsCipher
<1>2. ASSUME NEW size \in 1..(cipher.key + 1)
      PROVE  /\ DeriveKey(cipher.key, size) = FirstBytes(cipher.key, size)
             /\ HkdfExpand(cipher.key, size) = IF cipher.key <= MaxBlocks * size THEN FirstBytes(cipher.key, size) ELSE << >>
  <2>1. size \in Nat \ {0}
    BY <1>1
  <2> QED BY <1>1, <2>1, DeriveKeyExact, HkdfExact
<1> QED BY <1>2 DEF KeysExact

-----------------------------------------------------------------------------
(* The stream: what is on the wire, and where the receiver is in it *)

\* A buffer_t, and a cipher_ctx_t.
Buffer == [data : Seq(Cell), idx : Nat, len : Nat, cap : Nat]

\* A cipher context.
Context == [init : Nat, nonce : Nat, chunk : Buffer]

\* K chunks: txt[k] bytes are in the first k of them, which end at off[k].
Layout(c, K, txt, off) ==
    /\ K \in Nat /\ txt \in [0..K -> Nat] /\ off \in [0..K -> Nat]
    /\ txt[0] = 0 /\ off[0] = c.salt
    /\ \A k \in 0..(K - 1) :
            /\ txt[k + 1] - txt[k] \in 1..Capacity
            /\ off[k + 1] = off[k] + LenLen + 2 * c.tag + (txt[k + 1] - txt[k])
    /\ \A k \in 0..K : txt[k] <= txt[K] /\ off[k] <= off[K]

\* The cells of chunk k.
Chunk(c, k, txt) == ChunkEncrypt(c, 2 * k, Text(txt[k], txt[k + 1] - txt[k]))

\* The wire of an AEAD cipher: the salt and the chunks, but for bytes that were
\* changed on the way.
Chunked(c, w, K, txt, off) ==
    /\ w \in Seq(Cell)
    /\ Len(w) = IF K = 0 THEN 0 ELSE off[K]
    /\ \A i \in 1..Len(w) : i <= c.salt => w[i].kind = "salt"
    /\ \A k \in 0..(K - 1) : \A i \in 1..(off[k + 1] - off[k]) : w[off[k] + i] \in {Junk, Chunk(c, k, txt)[i]}

\* The chunk buffer has what arrived after the first `from' bytes.
Holds(b, w, from, A) ==
    /\ from <= A /\ b.len = A - from
    /\ \A i \in 1..b.len : b.data[b.idx + i] = w[from + i]

\* A buffer of a receiver.
Fits(b) == b \in Buffer /\ b.idx + b.len <= Len(b.data) /\ b.idx + b.len <= b.cap /\ (b.cap = 0 \/ b.cap >= Capacity)

\* m chunks were given to the receiver, and the next is not there in full.
Reading(K, txt, off, m, ctx, w, A, g) ==
    /\ m \in 0..K /\ ctx.nonce = 2 * m /\ g = Text(0, txt[m])
    /\ Holds(ctx.chunk, w, off[m], A)
    /\ m < K => A < off[m + 1]

\* The parts of a receiver.
Parts(ctx, b) == ctx \in Context /\ Fits(ctx.chunk) /\ ctx.init \in 0..2 /\ b \in Buffer /\ b.cap >= Capacity

\* The receiver, as long as it runs: the salt is not there in full, or it reads.
Runs(c, K, txt, off, ctx, w, A, g) ==
    /\ ctx.init = 0 => g = << >> /\ Holds(ctx.chunk, w, 0, A) /\ A <= c.salt
    /\ ctx.init # 0 => \E m \in 0..K : Reading(K, txt, off, m, ctx, w, A, g)

\* When it failed it had been given whole chunks.
Stopped(K, txt, g) == \E m \in 0..K : g = Text(0, txt[m])

\* A byte of somebody else.
Tampered(w) == \E i \in 1..Len(w) : w[i] = Junk

\* A connection with an AEAD cipher, of which K chunks were sent.
AeadAt(K, txt, off) ==
    /\ Layout(cipher, K, txt, off) /\ Chunked(cipher, wire, K, txt, off)
    /\ sent = txt[K] /\ enc \in Context /\ enc.nonce = 2 * K /\ enc.init = IF K = 0 THEN 0 ELSE 1
    /\ Parts(dec, buf) /\ arrived \in 0..Len(wire)
    /\ ~failed => Runs(cipher, K, txt, off, dec, wire, arrived, got)
    /\ failed => (Tampered(wire) \/ known = TRUE) /\ Stopped(K, txt, got)

\* There is such a layout of the wire.
AeadInv == \E K \in Nat : \E txt, off \in [0..K -> Nat] : AeadAt(K, txt, off)

\* The wire of a stream cipher: the IV and the key stream.
Ciphered(c, i) == [kind |-> "stream", nonce |-> 0, body |-> <<i>>, at |-> Place(c, i)]

\* The wire of a stream cipher: the IV and the key stream.
Streamed(c, w, n) ==
    /\ w \in Seq(Cell)
    /\ Len(w) = IF n = 0 THEN 0 ELSE c.salt + n
    /\ \A i \in 1..Len(w) : i <= c.salt => w[i].kind = "salt"
    /\ \A i \in 1..n : w[c.salt + i] \in {Junk, Ciphered(c, i)}

\* The receiver: it gathers the IV, and then is where the key stream is.
StreamParts(ctx, b) ==
    /\ ctx \in Context /\ ctx.init \in 0..2 /\ ctx.chunk.idx = 0 /\ ctx.chunk.len <= Len(ctx.chunk.data)
    /\ b \in Buffer /\ b.cap >= Capacity

\* The receiver was given no more than was sent, and that, unless bytes were changed.
StreamGot(w, n, g) == g \in Seq(Nat) /\ Len(g) <= n /\ (~Tampered(w) => g = Text(0, Len(g)))

\* The receiver, as long as it runs, is where the key stream is.
StreamRuns(c, ctx, A, g) ==
    /\ ctx.init = 0 => g = << >> /\ ctx.chunk.len = A /\ (A = 0 \/ A < c.salt)
    /\ ctx.init # 0 => ctx.nonce = Len(g) /\ A = c.salt + Len(g)

\* A connection with a stream cipher.
StreamInv ==
    /\ Streamed(cipher, wire, sent)
    /\ enc \in Context /\ enc.nonce = sent /\ enc.init = IF sent = 0 THEN 0 ELSE 1
    /\ StreamParts(dec, buf) /\ arrived \in 0..Len(wire) /\ StreamGot(wire, sent, got)
    /\ ~failed => StreamRuns(cipher, dec, arrived, got)
    /\ failed => known = TRUE

\* The connection.
BytesInv ==
    /\ IsCipher(cipher) /\ sent \in 0..MaxBytes
    /\ failed \in BOOLEAN /\ known \in BOOLEAN
    /\ IF cipher.kind = "aead" THEN AeadInv ELSE StreamInv

-----------------------------------------------------------------------------
(* The layout of the wire *)

\* The boxes of a chunk.
Boxed(cs, from, n, nonce, body) ==
    \A i \in 1..n : cs[from + i] = [kind |-> "box", nonce |-> nonce, body |-> body, at |-> i]

\* The contents of the box of the length.
LenBody(p) == [j \in 1..LenLen |-> Len(p)]

\* The cells of a chunk: the box of the length, then the box of the text.
LEMMA ChunkCells ==
    ASSUME NEW c, IsCipher(c), NEW nonce \in Nat, NEW p \in Seq(Nat), Len(p) \in 1..Capacity
    PROVE  /\ ChunkEncrypt(c, nonce, p) \in Seq(Cell)
           /\ Len(ChunkEncrypt(c, nonce, p)) = LenLen + 2 * c.tag + Len(p)
           /\ Boxed(ChunkEncrypt(c, nonce, p), 0, LenLen + c.tag, nonce, LenBody(p))
           /\ Boxed(ChunkEncrypt(c, nonce, p), LenLen + c.tag, Len(p) + c.tag, nonce + 1, p)
<1> DEFINE L == [j \in 1..LenLen |-> Len(p)]
           a == Box(c, nonce, L)
           b == Box(c, nonce + 1, p)
<1>1. LenLen \in Nat /\ Capacity \in Nat /\ c.tag \in Nat /\ Len(p) \in Nat /\ nonce + 1 \in Nat
  BY StreamAssumption DEF IsCipher
<1>2. Len(p) % (Capacity + 1) = Len(p)
  BY <1>1
<1>3. ChunkEncrypt(c, nonce, p) = a \o b
  BY <1>2 DEF ChunkEncrypt
<1>4. L \in Seq(Nat) /\ Len(L) = LenLen
  BY <1>1
<1> HIDE DEF L
<1>5. /\ a \in Seq(Cell) /\ Len(a) = Len(L) + c.tag
      /\ \A i \in 1..(Len(L) + c.tag) : a[i] = [kind |-> "box", nonce |-> nonce, body |-> L, at |-> i]
  BY <1>4, BoxIs, ZenonT(60)
<1>6. /\ b \in Seq(Cell) /\ Len(b) = Len(p) + c.tag
      /\ \A i \in 1..(Len(p) + c.tag) : b[i] = [kind |-> "box", nonce |-> nonce + 1, body |-> p, at |-> i]
  <2>1. PICK m \in Nat : m = nonce + 1
    BY <1>1
  <2>2. /\ Box(c, m, p) \in Seq(Cell) /\ Len(Box(c, m, p)) = Len(p) + c.tag
        /\ \A i \in 1..(Len(p) + c.tag) : Box(c, m, p)[i] = [kind |-> "box", nonce |-> m, body |-> p, at |-> i]
    BY BoxIs
  <2> QED BY <2>1, <2>2
<1> HIDE DEF a, b
<1>7. /\ a \o b \in Seq(Cell) /\ Len(a \o b) = Len(a) + Len(b)
      /\ \A i \in 1..(Len(a) + Len(b)) : (a \o b)[i] = IF i <= Len(a) THEN a[i] ELSE b[i - Len(a)]
  BY <1>5, <1>6, ConcatProperties, ZenonT(60)
<1>8. Len(a \o b) = LenLen + 2 * c.tag + Len(p)
  <2>1. Len(a) = LenLen + c.tag /\ Len(b) = Len(p) + c.tag
    BY <1>4, <1>5, <1>6
  <2>2. Len(a \o b) = (LenLen + c.tag) + (Len(p) + c.tag)
    BY <1>7, <2>1
  <2> QED BY <1>1, <2>2
<1>9. \A i \in 1..(LenLen + c.tag) : (a \o b)[i] = [kind |-> "box", nonce |-> nonce, body |-> L, at |-> i]
  <2> SUFFICES ASSUME NEW i \in 1..(LenLen + c.tag)
               PROVE  (a \o b)[i] = [kind |-> "box", nonce |-> nonce, body |-> L, at |-> i]
    OBVIOUS
  <2>1. (a \o b)[i] = a[i] /\ i \in 1..(Len(L) + c.tag)
    <3>1. Len(a) = LenLen + c.tag /\ Len(L) = LenLen /\ Len(b) \in Nat
      BY <1>4, <1>5, <1>6
    <3>2. i \in 1..(Len(a) + Len(b)) /\ i <= Len(a)
      BY <1>1, <3>1
    <3> QED BY <1>7, <3>1, <3>2
  <2> QED BY <1>5, <2>1
<1>10. \A i \in 1..(Len(p) + c.tag) : (a \o b)[LenLen + c.tag + i] =
            [kind |-> "box", nonce |-> nonce + 1, body |-> p, at |-> i]
  <2> SUFFICES ASSUME NEW i \in 1..(Len(p) + c.tag)
               PROVE  (a \o b)[LenLen + c.tag + i] = [kind |-> "box", nonce |-> nonce + 1, body |-> p, at |-> i]
    OBVIOUS
  <2>1. PICK H \in Nat : H = LenLen + c.tag
    BY <1>1
  <2>2. PICK B \in Nat : B = Len(p) + c.tag
    BY <1>1
  <2>3. Len(a) = H /\ Len(b) = B
    BY <1>4, <1>5, <1>6, <2>1, <2>2
  <2>4. i \in 1..B
    BY <2>2
  <2>5. PICK x : x = H + i
    OBVIOUS
  <2>6. x \in 1..(H + B) /\ ~(x <= H) /\ x - H = i
    BY <2>4, <2>5
  <2>7. (a \o b)[x] = b[i]
    BY <1>7, <2>3, <2>6
  <2>8. (a \o b)[LenLen + c.tag + i] = b[i]
    BY <2>1, <2>5, <2>7
  <2> QED BY <1>6, <2>8
<1>11. Boxed(a \o b, 0, LenLen + c.tag, nonce, L)
  <2>1. \A i \in 1..(LenLen + c.tag) : 0 + i = i
    BY <1>1
  <2> QED BY <1>9, <2>1 DEF Boxed
<1>12. Boxed(a \o b, LenLen + c.tag, Len(p) + c.tag, nonce + 1, p)
  BY <1>10, Zenon DEF Boxed
<1> QED BY <1>3, <1>7, <1>8, <1>11, <1>12, Zenon DEF L, LenBody

\* What one chunk adds to the layout.
LEMMA LayoutGrows ==
    ASSUME NEW c, IsCipher(c), NEW K, NEW txt, NEW off, Layout(c, K, txt, off), NEW n \in 1..Capacity,
           NEW txt2, txt2 = [k \in 0..(K + 1) |-> IF k = K + 1 THEN txt[K] + n ELSE txt[k]],
           NEW off2, off2 = [k \in 0..(K + 1) |-> IF k = K + 1 THEN off[K] + LenLen + 2 * c.tag + n ELSE off[k]]
    PROVE  Layout(c, K + 1, txt2, off2)
<1>1. /\ K \in Nat /\ txt \in [0..K -> Nat] /\ off \in [0..K -> Nat] /\ LenLen \in Nat /\ Capacity \in Nat /\ c.tag \in Nat
      /\ n \in Nat /\ txt[K] \in Nat /\ off[K] \in Nat
  BY StreamAssumption DEF Layout, IsCipher
<1>2. txt2 \in [0..(K + 1) -> Nat] /\ off2 \in [0..(K + 1) -> Nat]
  <2>1. txt[K] + n \in Nat /\ off[K] + LenLen + 2 * c.tag + n \in Nat
    BY <1>1, SMTT(60)
  <2>2. \A k \in 0..(K + 1) : k # K + 1 => txt[k] \in Nat /\ off[k] \in Nat
    BY <1>1
  <2> QED BY <2>1, <2>2
<1>3. ASSUME NEW k \in 0..K PROVE txt2[k] = txt[k] /\ off2[k] = off[k]
  <2>1. k \in 0..(K + 1) /\ k # K + 1
    BY <1>1
  <2> QED BY <2>1
<1>4. txt2[K + 1] = txt[K] + n /\ off2[K + 1] = off[K] + LenLen + 2 * c.tag + n
  BY <1>1
<1>5. ASSUME NEW k \in 0..((K + 1) - 1)
      PROVE  /\ txt2[k + 1] - txt2[k] \in 1..Capacity
             /\ off2[k + 1] = off2[k] + LenLen + 2 * c.tag + (txt2[k + 1] - txt2[k])
  <2>1. CASE k = K
    BY <1>1, <1>3, <1>4, <2>1, SMTT(60)
  <2>2. CASE k # K
    <3>1. k \in 0..(K - 1) /\ k \in 0..K /\ k + 1 \in 0..K
      BY <1>1, <2>2
    <3> QED BY <1>3, <3>1 DEF Layout
  <2> QED BY <2>1, <2>2
<1>6. ASSUME NEW k \in 0..(K + 1) PROVE txt2[k] <= txt2[K + 1] /\ off2[k] <= off2[K + 1]
  <2>1. CASE k = K + 1
    BY <1>1, <1>4, <2>1
  <2>2. CASE k # K + 1
    <3>1. k \in 0..K /\ txt[k] \in Nat /\ off[k] \in Nat
      BY <1>1, <2>2
    <3>2. txt[k] <= txt[K] /\ off[k] <= off[K]
      BY <3>1 DEF Layout
    <3>3. txt2[k] = txt[k] /\ off2[k] = off[k]
      BY <1>3, <3>1
    <3>4. PICK x \in Nat : x = LenLen + 2 * c.tag + n
      BY <1>1, SMTT(60)
    <3>5. txt[k] <= txt[K] + n /\ off[k] <= off[K] + x
      BY <1>1, <3>1, <3>2, SMTT(60)
    <3>6. off[K] + LenLen + 2 * c.tag + n = off[K] + x
      <4>1. LenLen \in Nat /\ c.tag \in Nat /\ n \in Nat /\ off[K] \in Nat
        BY <1>1
      <4> QED BY <3>4, <4>1, SMTT(60)
    <3> QED BY <1>4, <3>3, <3>5, <3>6
  <2> QED BY <2>1, <2>2
<1>7. txt2[0] = 0 /\ off2[0] = c.salt
  BY <1>1, <1>3 DEF Layout
<1>8. K + 1 \in Nat
  BY <1>1
<1> QED BY <1>2, <1>5, <1>6, <1>7, <1>8, Zenon DEF Layout

\* What the layout says of its numbers.
LEMMA LayoutNumbers ==
    ASSUME NEW c, IsCipher(c), NEW K, NEW txt, NEW off, Layout(c, K, txt, off)
    PROVE  /\ K \in Nat /\ LenLen \in Nat \ {0} /\ Capacity \in Nat \ {0} /\ c.tag \in Nat /\ c.salt \in Nat
           /\ \A k \in 0..K : txt[k] \in Nat /\ off[k] \in Nat /\ txt[k] <= txt[K] /\ off[k] <= off[K]
           /\ txt[0] = 0 /\ off[0] = c.salt
           /\ \A k \in 0..(K - 1) : /\ k \in 0..K /\ k + 1 \in 0..K
                                    /\ txt[k + 1] - txt[k] \in 1..Capacity
                                    /\ off[k + 1] = off[k] + LenLen + 2 * c.tag + (txt[k + 1] - txt[k])
<1>1. K \in Nat /\ txt \in [0..K -> Nat] /\ off \in [0..K -> Nat] /\ txt[0] = 0 /\ off[0] = c.salt
  BY DEF Layout
<1>2. LenLen \in Nat \ {0} /\ Capacity \in Nat \ {0} /\ c.tag \in Nat /\ c.salt \in Nat
  BY StreamAssumption DEF IsCipher
<1>3. \A k \in 0..K : txt[k] \in Nat /\ off[k] \in Nat
  BY <1>1
<1>4. \A k \in 0..K : txt[k] <= txt[K] /\ off[k] <= off[K]
  BY DEF Layout
<1>5. \A k \in 0..(K - 1) : k \in 0..K /\ k + 1 \in 0..K
  BY <1>1
<1>6. \A k \in 0..(K - 1) : /\ txt[k + 1] - txt[k] \in 1..Capacity
                            /\ off[k + 1] = off[k] + LenLen + 2 * c.tag + (txt[k + 1] - txt[k])
  BY DEF Layout
<1> QED BY <1>1, <1>2, <1>3, <1>4, <1>5, <1>6

\* The salt comes first: no chunk begins before it.
LEMMA SaltFirst ==
    ASSUME NEW c, IsCipher(c), NEW K, NEW txt, NEW off, Layout(c, K, txt, off), NEW k \in 0..K
    PROVE  c.salt <= off[k]
<1>1. /\ K \in Nat /\ LenLen \in Nat /\ c.tag \in Nat /\ c.salt \in Nat /\ off[0] = c.salt
      /\ \A j \in 0..K : txt[j] \in Nat /\ off[j] \in Nat
      /\ \A j \in 0..(K - 1) : /\ j \in 0..K /\ j + 1 \in 0..K
                               /\ txt[j + 1] - txt[j] \in 1..Capacity
                               /\ off[j + 1] = off[j] + LenLen + 2 * c.tag + (txt[j + 1] - txt[j])
  BY LayoutNumbers
<1> DEFINE Bad == {j \in 0..K : ~(c.salt <= off[j])}
<1>2. ASSUME Bad # {} PROVE FALSE
  <2>1. PICK j \in Bad : \A h \in Bad : j <= h
    <3>1. Bad \subseteq Nat
      OBVIOUS
    <3> HIDE DEF Bad
    <3> QED BY <1>2, <3>1, LeastNat
  <2>2. j # 0
    BY <1>1, <2>1
  <2>3. PICK h : h = j - 1
    OBVIOUS
  <2>4. h \in 0..(K - 1) /\ h + 1 = j /\ ~(j <= h)
    BY <1>1, <2>1, <2>2, <2>3
  <2>5. h \in 0..K /\ h \notin Bad
    BY <1>1, <2>1, <2>4
  <2>6. c.salt <= off[h] /\ off[h] \in Nat
    BY <1>1, <2>5
  <2>7. txt[j] - txt[h] \in Nat /\ off[j] = off[h] + LenLen + 2 * c.tag + (txt[j] - txt[h])
    BY <1>1, <2>4
  <2>8. PICK d \in Nat : d = txt[j] - txt[h]
    BY <2>7
  <2>9. PICK t \in Nat : t = c.tag
    BY <1>1
  <2>10. off[j] = off[h] + LenLen + 2 * t + d
    BY <2>7, <2>8, <2>9
  <2>11. c.salt <= off[j]
    BY <1>1, <2>6, <2>10
  <2> QED BY <2>1, <2>11
<1> QED BY <1>2

\* aead_encrypt puts one chunk behind those that are there, and the salt before
\* the first.
LEMMA ChunkedGrows ==
    ASSUME NEW c, IsCipher(c), NEW K, NEW txt, NEW off, Layout(c, K, txt, off),
           NEW w, Chunked(c, w, K, txt, off), NEW n \in 1..Capacity,
           NEW txt2, txt2 = [k \in 0..(K + 1) |-> IF k = K + 1 THEN txt[K] + n ELSE txt[k]],
           NEW off2, off2 = [k \in 0..(K + 1) |-> IF k = K + 1 THEN off[K] + LenLen + 2 * c.tag + n ELSE off[k]]
    PROVE  Chunked(c, w \o ((IF K = 0 THEN SaltCells(c) ELSE << >>) \o ChunkEncrypt(c, 2 * K, Text(txt[K], n))),
                   K + 1, txt2, off2)
<1> DEFINE E == ChunkEncrypt(c, 2 * K, Text(txt[K], n))
           w0 == IF K = 0 THEN SaltCells(c) ELSE w
           W == w \o ((IF K = 0 THEN SaltCells(c) ELSE << >>) \o E)
<1>1. /\ K \in Nat /\ LenLen \in Nat /\ Capacity \in Nat /\ c.tag \in Nat /\ c.salt \in Nat
      /\ \A k \in 0..K : txt[k] \in Nat /\ off[k] \in Nat /\ txt[k] <= txt[K] /\ off[k] <= off[K]
      /\ txt[0] = 0 /\ off[0] = c.salt
  BY LayoutNumbers
<1>2. K \in 0..K /\ txt[K] \in Nat /\ off[K] \in Nat /\ n \in Nat /\ 2 * K \in Nat /\ c.salt <= off[K]
  BY <1>1, SaltFirst
<1>3. E \in Seq(Cell) /\ Len(E) = LenLen + 2 * c.tag + n
  <2>1. Text(txt[K], n) \in Seq(Nat) /\ Len(Text(txt[K], n)) = n
    BY <1>2, TextIs
  <2>2. Len(Text(txt[K], n)) \in 1..Capacity
    BY <2>1
  <2>3. /\ ChunkEncrypt(c, 2 * K, Text(txt[K], n)) \in Seq(Cell)
        /\ Len(ChunkEncrypt(c, 2 * K, Text(txt[K], n))) = LenLen + 2 * c.tag + Len(Text(txt[K], n))
    <3>1. ASSUME NEW p \in Seq(Nat), Len(p) \in 1..Capacity, NEW N \in Nat
          PROVE  /\ ChunkEncrypt(c, N, p) \in Seq(Cell)
                 /\ Len(ChunkEncrypt(c, N, p)) = LenLen + 2 * c.tag + Len(p)
      BY <3>1, ChunkCells
    <3> QED BY <1>2, <2>1, <2>2, <3>1, Zenon
  <2> QED BY <2>1, <2>3
<1>4. w \in Seq(Cell) /\ Len(w) = IF K = 0 THEN 0 ELSE off[K]
  BY DEF Chunked
<1>5. w0 \in Seq(Cell) /\ Len(w0) = off[K]
  <2>1. CASE K = 0
    BY <1>1, <2>1, SaltIs
  <2>2. CASE K # 0
    BY <1>4, <2>2
  <2> QED BY <2>1, <2>2
<1>6. \A i \in 1..off[K] : i <= c.salt => w0[i].kind = "salt"
  <2>1. CASE K = 0
    <3>1. \A i \in 1..c.salt : SaltCells(c)[i] = [kind |-> "salt", nonce |-> 0, body |-> << >>, at |-> i]
      BY SaltIs
    <3>2. ASSUME NEW i \in 1..off[K], i <= c.salt PROVE SaltCells(c)[i].kind = "salt"
      <4>1. i \in 1..c.salt
        BY <1>1, <1>2, <3>2
      <4>2. SaltCells(c)[i] = [kind |-> "salt", nonce |-> 0, body |-> << >>, at |-> i]
        BY <3>1, <4>1, Zenon
      <4> QED BY <4>2
    <3> QED BY <2>1, <3>2
  <2>2. CASE K # 0
    BY <1>4, <2>2 DEF Chunked
  <2> QED BY <2>1, <2>2
<1>7. \A k \in 0..(K - 1) : \A i \in 1..(off[k + 1] - off[k]) : w0[off[k] + i] \in {Junk, Chunk(c, k, txt)[i]}
  <2>1. CASE K = 0
    BY <2>1
  <2>2. CASE K # 0
    BY <2>2 DEF Chunked
  <2> QED BY <2>1, <2>2
<1> HIDE DEF E
<1>8. W = w0 \o E
  <2>1. CASE K = 0
    <3>1. w = << >>
      BY <1>4, <2>1, EmptySeq
    <3>2. SaltCells(c) \in Seq(Cell)
      BY SaltIs
    <3>3. SaltCells(c) \o E \in Seq(Cell)
      BY <1>3, <3>2, ConcatProperties
    <3> QED BY <2>1, <3>1, <3>3, ConcatEmptySeq
  <2>2. CASE K # 0
    <3>1. << >> \o E = E
      BY <1>3, ConcatEmptySeq
    <3> QED BY <2>2, <3>1
  <2> QED BY <2>1, <2>2
<1> HIDE DEF w0, W
<1>9. /\ W \in Seq(Cell) /\ Len(W) = off[K] + Len(E)
      /\ \A i \in 1..(off[K] + Len(E)) : W[i] = IF i <= off[K] THEN w0[i] ELSE E[i - off[K]]
  <2>1. /\ w0 \o E \in Seq(Cell) /\ Len(w0 \o E) = Len(w0) + Len(E)
        /\ \A i \in 1..(Len(w0) + Len(E)) : (w0 \o E)[i] = IF i <= Len(w0) THEN w0[i] ELSE E[i - Len(w0)]
    BY <1>3, <1>5, ConcatProperties, Zenon
  <2> QED BY <1>5, <1>8, <2>1
<1>10. PICK z \in Nat : z = Len(E) /\ z = LenLen + 2 * c.tag + n
  BY <1>3
<1>11. ASSUME NEW k \in 0..K PROVE txt2[k] = txt[k] /\ off2[k] = off[k]
  <2>1. k \in 0..(K + 1) /\ k # K + 1
    BY <1>1
  <2> QED BY <2>1
<1>12. txt2[K + 1] = txt[K] + n /\ off2[K + 1] = off[K] + z
  <2>1. K + 1 \in 0..(K + 1)
    BY <1>1
  <2>2. off[K] + LenLen + 2 * c.tag + n = off[K] + z
    BY <1>1, <1>2, <1>10
  <2> QED BY <2>1, <2>2
<1>13. Len(W) = IF K + 1 = 0 THEN 0 ELSE off2[K + 1]
  BY <1>1, <1>9, <1>10, <1>12
<1>14. \A i \in 1..Len(W) : i <= c.salt => W[i].kind = "salt"
  <2> SUFFICES ASSUME NEW i \in 1..Len(W), i <= c.salt PROVE W[i].kind = "salt"
    OBVIOUS
  <2>1. i \in 1..off[K] /\ i \in 1..(off[K] + Len(E))
    BY <1>1, <1>2, <1>9
  <2>2. W[i] = w0[i]
    BY <1>9, <2>1
  <2> QED BY <1>6, <2>1, <2>2
<1>15. ASSUME NEW k \in 0..((K + 1) - 1), NEW i \in 1..(off2[k + 1] - off2[k])
       PROVE  W[off2[k] + i] \in {Junk, Chunk(c, k, txt2)[i]}
  <2>1. CASE k = K
    <3>1. off2[k] = off[K] /\ off2[k + 1] - off2[k] = z
      BY <1>2, <1>11, <1>12, <2>1
    <3>2. i \in 1..z
      BY <3>1
    <3>3. PICK x : x = off[K] + i
      OBVIOUS
    <3>4. x \in 1..(off[K] + z) /\ ~(x <= off[K]) /\ x - off[K] = i
      <4>1. PICK o \in Nat : o = off[K]
        BY <1>2
      <4>2. o + i \in 1..(o + z) /\ ~(o + i <= o) /\ (o + i) - o = i
        BY <3>2
      <4> QED BY <3>3, <4>1, <4>2
    <3>5. W[x] = E[i]
      BY <1>9, <1>10, <3>4
    <3>6. txt2[k + 1] - txt2[k] = n /\ txt2[k] = txt[K]
      BY <1>2, <1>11, <1>12, <2>1
    <3>7. Chunk(c, k, txt2) = E
      BY <2>1, <3>6 DEF Chunk, E
    <3> QED BY <3>1, <3>3, <3>5, <3>7
  <2>2. CASE k # K
    <3>1. k \in 0..(K - 1) /\ k \in 0..K /\ k + 1 \in 0..K
      BY <1>1, <2>2
    <3>2. off2[k] = off[k] /\ off2[k + 1] = off[k + 1] /\ txt2[k] = txt[k] /\ txt2[k + 1] = txt[k + 1]
      BY <1>11, <3>1
    <3>3. off[k] \in Nat /\ off[k + 1] \in Nat /\ off[k + 1] <= off[K]
      BY <1>1, <3>1
    <3>4. i \in 1..(off[k + 1] - off[k])
      BY <3>2
    <3>5. PICK x : x = off[k] + i
      OBVIOUS
    <3>6. x \in 1..(off[K] + z) /\ x <= off[K]
      <4>1. PICK o \in Nat, a \in Nat, b \in Nat : o = off[K] /\ a = off[k] /\ b = off[k + 1]
        BY <1>2, <3>3
      <4>2. b <= o /\ i \in 1..(b - a)
        BY <3>3, <3>4, <4>1
      <4>3. a + i \in 1..(o + z) /\ a + i <= o
        BY <4>2
      <4> QED BY <3>5, <4>1, <4>3
    <3>7. W[x] = w0[x]
      BY <1>9, <1>10, <3>6
    <3>8. Chunk(c, k, txt2) = Chunk(c, k, txt)
      BY <3>2 DEF Chunk
    <3> QED BY <1>7, <3>1, <3>2, <3>4, <3>5, <3>7, <3>8
  <2> QED BY <2>1, <2>2
<1>16. Chunked(c, W, K + 1, txt2, off2)
  BY <1>9, <1>13, <1>14, <1>15, Zenon DEF Chunked
<1> QED BY <1>16 DEF W, E

-----------------------------------------------------------------------------
(* One chunk *)

\* A box in which bytes may have been changed.
MaybeBox(cs, nonce, body) ==
    \A i \in 1..Len(cs) : cs[i] \in {Junk, [kind |-> "box", nonce |-> nonce, body |-> body, at |-> i]}

\* A box in which bytes may have been changed opens if none was.
LEMMA BoxOpens ==
    ASSUME NEW c, IsCipher(c), c.kind = "aead", NEW nonce \in Nat, NEW body \in Seq(Nat),
           NEW cs \in Seq(Cell), Len(cs) = Len(body) + c.tag, MaybeBox(cs, nonce, body)
    PROVE  \/ Opens(c, nonce, cs) /\ cs[1].body = body
           \/ ~Opens(c, nonce, cs) /\ Tampered(cs)
<1>0. \A i \in 1..Len(cs) : cs[i] \in {Junk, [kind |-> "box", nonce |-> nonce, body |-> body, at |-> i]}
  BY DEF MaybeBox
<1>1. c.tag \in Nat \ {0} /\ Len(body) \in Nat
  BY DEF IsCipher
<1>2. PICK z \in Nat \ {0} : z = Len(body) + c.tag
  BY <1>1
<1>3. /\ Box(c, nonce, body) \in Seq(Cell) /\ Len(Box(c, nonce, body)) = z
      /\ \A i \in 1..z : Box(c, nonce, body)[i] = [kind |-> "box", nonce |-> nonce, body |-> body, at |-> i]
  BY <1>2, BoxIs
<1>4. CASE \A i \in 1..z : cs[i] = Box(c, nonce, body)[i]
  <2>1. cs = Box(c, nonce, body)
    BY <1>2, <1>3, <1>4, SeqEqual
  <2>2. Box(c, nonce, body)[1] = [kind |-> "box", nonce |-> nonce, body |-> body, at |-> 1]
    BY <1>3
  <2>3. cs[1].body = body
    BY <2>1, <2>2
  <2> QED BY <2>1, <2>3 DEF Opens
<1>5. CASE \E i \in 1..z : cs[i] # Box(c, nonce, body)[i]
  <2>1. PICK i \in 1..z : cs[i] # Box(c, nonce, body)[i]
    BY <1>5
  <2>2. cs[i] = Junk
    BY <1>0, <1>2, <1>3, <2>1
  <2>3. ASSUME cs = Box(c, nonce, cs[1].body) PROVE FALSE
    <3>1. CASE cs[1] = Junk
      <4>1. cs[1].body = << >>
        BY <3>1 DEF Junk
      <4>2. cs = Box(c, nonce, << >>)
        BY <2>3, <4>1
      <4>3. Len(<< >>) = 0 /\ << >> \in Seq(Nat)
        BY EmptySeq
      <4>4. \A j \in 1..c.tag : Box(c, nonce, << >>)[j] = [kind |-> "box", nonce |-> nonce, body |-> << >>, at |-> j]
        <5>1. \A j \in 1..(Len(<< >>) + c.tag) :
                Box(c, nonce, << >>)[j] = [kind |-> "box", nonce |-> nonce, body |-> << >>, at |-> j]
          BY <4>3, BoxIs, Zenon
        <5>2. Len(<< >>) + c.tag = c.tag
          BY <1>1, <4>3
        <5> QED BY <5>1, <5>2
      <4>5. cs[1].kind = "box"
        <5>1. 1 \in 1..c.tag
          BY <1>1
        <5>2. cs[1] = [kind |-> "box", nonce |-> nonce, body |-> << >>, at |-> 1]
          BY <4>2, <4>4, <5>1
        <5> QED BY <5>2
      <4> QED BY <3>1, <4>5, JunkIs
    <3>2. CASE cs[1] # Junk
      <4>1. 1 \in 1..Len(cs)
        BY <1>2
      <4>2. cs[1] = [kind |-> "box", nonce |-> nonce, body |-> body, at |-> 1]
        BY <1>0, <3>2, <4>1
      <4>3. cs[1].body = body
        BY <4>2
      <4> QED BY <2>1, <2>3, <4>3
    <3> QED BY <3>1, <3>2
  <2> QED BY <1>2, <2>2, <2>3 DEF Opens, Tampered
<1> QED BY <1>4, <1>5

\* A part of a sequence of cells.
LEMMA Part ==
    ASSUME NEW cells \in Seq(Cell), NEW a \in Nat, NEW n \in Nat, a + n <= Len(cells)
    PROVE  /\ SubSeq(cells, a + 1, a + n) \in Seq(Cell) /\ Len(SubSeq(cells, a + 1, a + n)) = n
           /\ \A i \in 1..n : SubSeq(cells, a + 1, a + n)[i] = cells[a + i]
<1>1. \A i \in (a + 1)..(a + n) : cells[i] \in Cell
  BY ElementOfSeq
<1>2. /\ SubSeq(cells, a + 1, a + n) \in Seq(Cell)
      /\ Len(SubSeq(cells, a + 1, a + n)) = IF a + 1 <= a + n THEN (a + n) - (a + 1) + 1 ELSE 0
      /\ \A i \in 1..((a + n) - (a + 1) + 1) : SubSeq(cells, a + 1, a + n)[i] = cells[(a + 1) + i - 1]
  BY <1>1, SubSeqProperties
<1>3. (a + n) - (a + 1) + 1 = n
  OBVIOUS
<1>4. \A i \in 1..n : (a + 1) + i - 1 = a + i
  OBVIOUS
<1>5. ASSUME NEW i \in 1..n PROVE SubSeq(cells, a + 1, a + n)[i] = cells[a + i]
  <2>1. SubSeq(cells, a + 1, a + n)[i] = cells[(a + 1) + i - 1]
    BY <1>2, <1>3
  <2> QED BY <1>4, <2>1
<1>6. Len(SubSeq(cells, a + 1, a + n)) = n
  <2>1. CASE a + 1 <= a + n
    BY <1>2, <1>3, <2>1
  <2>2. CASE ~(a + 1 <= a + n)
    BY <1>2, <2>2
  <2> QED BY <2>1, <2>2
<1> QED BY <1>2, <1>5, <1>6

\* A chunk in which bytes may have been changed and of which the end may be
\* missing; what may come of it.
MaybeChunk(c, N, P, S, cells) ==
    /\ S = LenLen + 2 * c.tag + Len(P)
    /\ \A i \in 1..Len(cells) : i <= S => cells[i] \in {Junk, ChunkEncrypt(c, N, P)[i]}

\* What aead_chunk_decrypt returns for cells that begin with a chunk.
Read(r, N, P, S, cells) ==
    \/ (\E e \in Nat : r = [err |-> ERROR, nonce |-> e]) /\ Tampered(cells)
    \/ r = [err |-> NEED_MORE, nonce |-> N] /\ Len(cells) < S
    \/ r = [err |-> OK, nonce |-> N + 2, plain |-> P, size |-> S] /\ S <= Len(cells)

\* aead_chunk_decrypt on what has arrived of a chunk and what follows it: the
\* chunk, or that more is needed as long as it is not there in full, or an error if
\* a byte was changed.
LEMMA ChunkRead ==
    ASSUME NEW c, IsCipher(c), c.kind = "aead", NEW N \in Nat, NEW P \in Seq(Nat), Len(P) \in 1..Capacity,
           NEW S \in Nat, NEW cells \in Seq(Cell), MaybeChunk(c, N, P, S, cells)
    PROVE  Read(ChunkDecrypt(c, N, cells), N, P, S, cells)
<1>0. /\ S = LenLen + 2 * c.tag + Len(P)
      /\ \A i \in 1..Len(cells) : i <= S => cells[i] \in {Junk, ChunkEncrypt(c, N, P)[i]}
  BY DEF MaybeChunk
<1> DEFINE L == LenBody(P)
           head == SubSeq(cells, 1, LenLen + c.tag)
           mlen == head[1].body[1]
           size == 2 * c.tag + LenLen + mlen
           text == SubSeq(cells, LenLen + c.tag + 1, size)
           R == ChunkDecrypt(c, N, cells)
<1>1. PICK t \in Nat \ {0} : t = c.tag
  BY DEF IsCipher
<1>2. PICK l \in Nat \ {0} : l = LenLen
  BY StreamAssumption
<1>3. PICK d \in Nat \ {0} : d = Len(P)
  BY StreamAssumption
<1>4. PICK n \in Nat : n = Len(cells)
  OBVIOUS
<1>5. PICK H \in Nat : H = l + t /\ H = LenLen + c.tag
  BY <1>1, <1>2
<1>6. S = H + (t + d) /\ S = 2 * t + l + d
  <2>1. S = l + 2 * t + d
    BY <1>0, <1>1, <1>2, <1>3
  <2> QED BY <1>5, <2>1
<1>7. R = IF n <= 2 * t + l THEN [err |-> NEED_MORE, nonce |-> N]
          ELSE IF ~Opens(c, N, head) \/ mlen = 0 THEN [err |-> ERROR, nonce |-> N]
          ELSE IF n < size THEN [err |-> NEED_MORE, nonce |-> N]
          ELSE IF ~Opens(c, N + 1, text) THEN [err |-> ERROR, nonce |-> N + 1]
          ELSE [err |-> OK, nonce |-> N + 2, plain |-> text[1].body, size |-> size]
  BY <1>1, <1>2, <1>4, Zenon DEF ChunkDecrypt
<1>8. L \in Seq(Nat) /\ Len(L) = l /\ L[1] = d
  <2>1. L = [j \in 1..l |-> d]
    BY <1>2, <1>3 DEF LenBody
  <2> HIDE DEF L
  <2> QED BY <2>1
<1>9. /\ \A i \in 1..H : ChunkEncrypt(c, N, P)[i] = [kind |-> "box", nonce |-> N, body |-> L, at |-> i]
      /\ \A i \in 1..(t + d) : ChunkEncrypt(c, N, P)[H + i] = [kind |-> "box", nonce |-> N + 1, body |-> P, at |-> i]
  <2>1. t + d = Len(P) + c.tag
    BY <1>1, <1>3
  <2>2. /\ Boxed(ChunkEncrypt(c, N, P), 0, LenLen + c.tag, N, LenBody(P))
        /\ Boxed(ChunkEncrypt(c, N, P), LenLen + c.tag, Len(P) + c.tag, N + 1, P)
    BY ChunkCells, Zenon
  <2>3. Boxed(ChunkEncrypt(c, N, P), 0, H, N, L) /\ Boxed(ChunkEncrypt(c, N, P), H, t + d, N + 1, P)
    BY <1>5, <2>1, <2>2
  <2>4. \A i \in 1..H : 0 + i = i
    OBVIOUS
  <2> HIDE DEF L
  <2> QED BY <2>3, <2>4 DEF Boxed
<1> HIDE DEF L, R, mlen, size, text, head
<1>10. CASE n <= 2 * t + l
  <2>1. R = [err |-> NEED_MORE, nonce |-> N] /\ n < S
    BY <1>6, <1>7, <1>10
  <2> QED BY <1>4, <2>1 DEF R, Read
<1>11. CASE ~(n <= 2 * t + l)
  <2>1. H <= n /\ H <= S
    BY <1>5, <1>6, <1>11
  <2>2. head \in Seq(Cell) /\ Len(head) = H /\ \A i \in 1..H : head[i] = cells[i]
    <3>1. /\ SubSeq(cells, 0 + 1, 0 + H) \in Seq(Cell) /\ Len(SubSeq(cells, 0 + 1, 0 + H)) = H
          /\ \A i \in 1..H : SubSeq(cells, 0 + 1, 0 + H)[i] = cells[0 + i]
      <4>1. 0 \in Nat /\ 0 + H <= Len(cells)
        BY <1>4, <2>1
      <4> QED BY <4>1, Part, Zenon
    <3>2. 0 + 1 = 1 /\ 0 + H = H /\ \A i \in 1..H : 0 + i = i
      OBVIOUS
    <3>3. head = SubSeq(cells, 1, H)
      BY <1>5 DEF head
    <3> QED BY <3>1, <3>2, <3>3
  <2>3. ASSUME NEW i \in 1..H PROVE head[i] \in {Junk, [kind |-> "box", nonce |-> N, body |-> L, at |-> i]}
    <3>1. i \in 1..Len(cells) /\ i <= S
      BY <1>4, <2>1
    <3>2. cells[i] \in {Junk, ChunkEncrypt(c, N, P)[i]}
      BY <1>0, <3>1
    <3> QED BY <1>9, <2>2, <3>2
  <2>4. \/ Opens(c, N, head) /\ head[1].body = L
        \/ ~Opens(c, N, head) /\ Tampered(head)
    <3>1. Len(head) = Len(L) + c.tag
      BY <1>1, <1>2, <1>5, <1>8, <2>2
    <3>2. MaybeBox(head, N, L)
      BY <2>2, <2>3 DEF MaybeBox
    <3> QED BY <1>8, <2>2, <3>1, <3>2, BoxOpens
  <2>5. CASE ~Opens(c, N, head) /\ Tampered(head)
    <3>1. R = [err |-> ERROR, nonce |-> N]
      BY <1>7, <1>11, <2>5
    <3>2. PICK i \in 1..H : head[i] = Junk
      BY <2>2, <2>5 DEF Tampered
    <3>3. i \in 1..Len(cells) /\ cells[i] = Junk
      BY <1>4, <2>1, <2>2, <3>2
    <3> QED BY <3>1, <3>3 DEF R, Tampered, Read
  <2>6. CASE Opens(c, N, head) /\ head[1].body = L
    <3>1. mlen = d
      BY <1>8, <2>6 DEF mlen
    <3>2. size = S
      BY <1>1, <1>2, <1>6, <3>1 DEF size
    <3>3. R = IF n < S THEN [err |-> NEED_MORE, nonce |-> N]
              ELSE IF ~Opens(c, N + 1, text) THEN [err |-> ERROR, nonce |-> N + 1]
              ELSE [err |-> OK, nonce |-> N + 2, plain |-> text[1].body, size |-> S]
      BY <1>7, <1>11, <2>6, <3>1, <3>2
    <3>4. CASE n < S
      BY <1>4, <3>3, <3>4 DEF R, Read
    <3>5. CASE ~(n < S)
      <4>1. S <= Len(cells)
        BY <1>4, <3>5
      <4>2. text \in Seq(Cell) /\ Len(text) = t + d /\ \A i \in 1..(t + d) : text[i] = cells[H + i]
        <5>1. t + d \in Nat /\ H + (t + d) <= Len(cells)
          BY <1>6, <4>1
        <5>2. /\ SubSeq(cells, H + 1, H + (t + d)) \in Seq(Cell) /\ Len(SubSeq(cells, H + 1, H + (t + d))) = t + d
              /\ \A i \in 1..(t + d) : SubSeq(cells, H + 1, H + (t + d))[i] = cells[H + i]
          BY <5>1, Part, Zenon
        <5>3. text = SubSeq(cells, H + 1, H + (t + d))
          BY <1>5, <1>6, <3>2 DEF text
        <5> QED BY <5>2, <5>3
      <4>3. ASSUME NEW i \in 1..(t + d)
            PROVE  text[i] \in {Junk, [kind |-> "box", nonce |-> N + 1, body |-> P, at |-> i]}
        <5>1. H + i \in 1..Len(cells) /\ H + i <= S
          BY <1>4, <1>6, <3>5
        <5>2. cells[H + i] \in {Junk, ChunkEncrypt(c, N, P)[H + i]}
          BY <1>0, <5>1
        <5> QED BY <1>9, <4>2, <5>2
      <4>4. \/ Opens(c, N + 1, text) /\ text[1].body = P
            \/ ~Opens(c, N + 1, text) /\ Tampered(text)
        <5>1. Len(text) = Len(P) + c.tag
          BY <1>1, <1>3, <4>2
        <5>2. MaybeBox(text, N + 1, P)
          BY <4>2, <4>3 DEF MaybeBox
        <5>3. N + 1 \in Nat
          OBVIOUS
        <5> QED BY <4>2, <5>1, <5>2, <5>3, BoxOpens
      <4>5. CASE ~Opens(c, N + 1, text) /\ Tampered(text)
        <5>1. R = [err |-> ERROR, nonce |-> N + 1] /\ N + 1 \in Nat
          BY <3>3, <3>5, <4>5
        <5>2. PICK i \in 1..(t + d) : text[i] = Junk
          BY <4>2, <4>5 DEF Tampered
        <5>3. H + i \in 1..Len(cells) /\ cells[H + i] = Junk
          BY <1>6, <4>1, <4>2, <5>2
        <5> QED BY <5>1, <5>3 DEF R, Tampered, Read
      <4>6. CASE Opens(c, N + 1, text) /\ text[1].body = P
        <5>1. R = [err |-> OK, nonce |-> N + 2, plain |-> P, size |-> S]
          BY <3>3, <3>5, <4>6
        <5> QED BY <4>1, <5>1 DEF R, Read
      <4> QED BY <4>4, <4>5, <4>6
    <3> QED BY <3>4, <3>5
  <2> QED BY <2>4, <2>5, <2>6
<1> QED BY <1>10, <1>11

-----------------------------------------------------------------------------
(* The loop over the chunks *)

\* The context with another nonce and another part of its buffer in use.
Moved(ctx, nonce, idx, len) ==
    [init |-> ctx.init, nonce |-> nonce, chunk |-> [data |-> ctx.chunk.data, idx |-> idx, len |-> len, cap |-> ctx.chunk.cap]]

\* The parts of a context.
LEMMA ContextParts ==
    ASSUME NEW ctx \in Context
    PROVE  /\ ctx.init \in Nat /\ ctx.nonce \in Nat /\ ctx.chunk \in Buffer
           /\ ctx.chunk.data \in Seq(Cell) /\ ctx.chunk.idx \in Nat /\ ctx.chunk.len \in Nat /\ ctx.chunk.cap \in Nat
           /\ ctx = [init |-> ctx.init, nonce |-> ctx.nonce, chunk |-> ctx.chunk]
           /\ ctx.chunk = [data |-> ctx.chunk.data, idx |-> ctx.chunk.idx, len |-> ctx.chunk.len, cap |-> ctx.chunk.cap]
  BY DEF Context, Buffer

\* A context that moved is a context.
LEMMA MovedIs ==
    ASSUME NEW ctx \in Context, NEW nonce \in Nat, NEW idx \in Nat, NEW len \in Nat
    PROVE  /\ Moved(ctx, nonce, idx, len) \in Context
           /\ Moved(ctx, nonce, idx, len).init = ctx.init
           /\ Moved(ctx, nonce, idx, len).nonce = nonce
           /\ Moved(ctx, nonce, idx, len).chunk = [data |-> ctx.chunk.data, idx |-> idx, len |-> len, cap |-> ctx.chunk.cap]
<1>1. ctx.init \in Nat /\ ctx.chunk.data \in Seq(Cell) /\ ctx.chunk.cap \in Nat
  BY ContextParts
<1> QED BY <1>1 DEF Moved, Context, Buffer

\* The variables of the loop over the chunks.
LoopState(err, over, ctx, cidx, plain) == [err |-> err, over |-> over, ctx |-> ctx, cidx |-> cidx, plain |-> plain]

\* The loop, while it goes on.
InLoop(ctx, cidx, plain) == LoopState(OK, FALSE, ctx, cidx, plain)

\* One round, by what aead_chunk_decrypt returns.
AfterRound(ctx, idx, n, x, p, r) ==
    IF r.err = OK THEN InLoop(Moved(ctx, r.nonce, idx, n - r.size), x + r.size, p \o r.plain)
    ELSE IF r.err = NEED_MORE /\ p # << >> THEN LoopState(OK, TRUE, Moved(ctx, r.nonce, idx + x, n), x, p)
    ELSE LoopState(r.err, TRUE, Moved(ctx, r.nonce, idx, n), x, p)

\* One round is what aead_chunk_decrypt makes of it.
LEMMA RoundIs ==
    ASSUME NEW c, NEW ctx \in Context, NEW N \in Nat, NEW idx \in Nat, NEW n \in Nat \ {0}, NEW x \in Nat, NEW p, NEW r,
           r = ChunkDecrypt(c, N, SubSeq(ctx.chunk.data, idx + x + 1, idx + x + n))
    PROVE  ChunkRound(c, InLoop(Moved(ctx, N, idx, n), x, p)) = AfterRound(ctx, idx, n, x, p, r)
<1> DEFINE s == InLoop(Moved(ctx, N, idx, n), x, p)
           M == Moved(ctx, N, idx, n)
<1>1. /\ s.err = OK /\ s.over = FALSE /\ s.ctx = M /\ s.cidx = x /\ s.plain = p
      /\ s = [err |-> OK, over |-> FALSE, ctx |-> M, cidx |-> x, plain |-> p]
  BY DEF InLoop, LoopState
<1>2. M.nonce = N /\ M.chunk.data = ctx.chunk.data /\ M.chunk.idx = idx /\ M.chunk.len = n
  BY DEF Moved
<1>3. [M EXCEPT !.nonce = r.nonce] = Moved(ctx, r.nonce, idx, n)
  BY DEF Moved
<1>4. [Moved(ctx, r.nonce, idx, n) EXCEPT !.chunk.len = @ - r.size] = Moved(ctx, r.nonce, idx, n - r.size)
  BY DEF Moved
<1>5. [Moved(ctx, r.nonce, idx, n) EXCEPT !.chunk.idx = @ + x] = Moved(ctx, r.nonce, idx + x, n)
  BY DEF Moved
<1> HIDE DEF s, M
<1>6. ~(s.over \/ s.ctx.chunk.len = 0)
  BY <1>1, <1>2
<1>7. ChunkDecrypt(c, s.ctx.nonce, SubSeq(s.ctx.chunk.data, s.ctx.chunk.idx + s.cidx + 1,
                                          s.ctx.chunk.idx + s.cidx + s.ctx.chunk.len)) = r
  BY <1>1, <1>2
<1>8. ChunkRound(c, s) =
        IF r.err = OK
        THEN [err |-> OK, over |-> FALSE, ctx |-> [[s.ctx EXCEPT !.nonce = r.nonce] EXCEPT !.chunk.len = @ - r.size],
              cidx |-> s.cidx + r.size, plain |-> s.plain \o r.plain]
        ELSE IF r.err = NEED_MORE /\ s.plain # << >>
        THEN [s EXCEPT !.over = TRUE, !.ctx = [[s.ctx EXCEPT !.nonce = r.nonce] EXCEPT !.chunk.idx = @ + s.cidx]]
        ELSE [s EXCEPT !.over = TRUE, !.err = r.err, !.ctx = [s.ctx EXCEPT !.nonce = r.nonce]]
  BY <1>6, <1>7, Zenon DEF ChunkRound
<1>9. [s.ctx EXCEPT !.nonce = r.nonce] = Moved(ctx, r.nonce, idx, n)
  BY <1>1, <1>3
<1>10. CASE r.err = OK
  BY <1>1, <1>4, <1>8, <1>9, <1>10 DEF InLoop, LoopState, AfterRound, s, M
<1>11. CASE r.err # OK /\ r.err = NEED_MORE /\ p # << >>
  <2>1. ChunkRound(c, s) = [s EXCEPT !.over = TRUE, !.ctx = Moved(ctx, r.nonce, idx + x, n)]
    <3>1. [[s.ctx EXCEPT !.nonce = r.nonce] EXCEPT !.chunk.idx = @ + s.cidx] = Moved(ctx, r.nonce, idx + x, n)
      BY <1>1, <1>5, <1>9
    <3>2. s.plain # << >>
      BY <1>1, <1>11
    <3> QED BY <1>8, <1>11, <3>1, <3>2, Zenon
  <2>2. ChunkRound(c, s) = [err |-> OK, over |-> TRUE, ctx |-> Moved(ctx, r.nonce, idx + x, n), cidx |-> x, plain |-> p]
    BY <1>1, <2>1
  <2> QED BY <1>11, <2>2 DEF InLoop, LoopState, AfterRound, s, M
<1>12. CASE r.err # OK /\ ~(r.err = NEED_MORE /\ p # << >>)
  <2>1. ChunkRound(c, s) = [s EXCEPT !.over = TRUE, !.err = r.err, !.ctx = Moved(ctx, r.nonce, idx, n)]
    BY <1>1, <1>8, <1>9, <1>12
  <2>2. ChunkRound(c, s) = [err |-> r.err, over |-> TRUE, ctx |-> Moved(ctx, r.nonce, idx, n), cidx |-> x, plain |-> p]
    BY <1>1, <2>1
  <2> QED BY <1>12, <2>2 DEF InLoop, LoopState, AfterRound, s, M
<1> QED BY <1>10, <1>11, <1>12

\* A round after the end changes nothing.
LEMMA RoundOver ==
    ASSUME NEW c, NEW s, s.over = TRUE \/ s.ctx.chunk.len = 0
    PROVE  ChunkRound(c, s) = s
  BY DEF ChunkRound

\* Two texts, one behind the other, are one.
LEMMA TextJoin ==
    ASSUME NEW a \in Nat, NEW n \in Nat, NEW d \in Nat
    PROVE  Text(a, n) \o Text(a + n, d) = Text(a, n + d)
<1> DEFINE A == Text(a, n)
           B == Text(a + n, d)
           C == Text(a, n + d)
<1>1. /\ A \in Seq(Nat) /\ Len(A) = n /\ \A i \in 1..n : A[i] = a + i
  BY TextIs
<1>2. /\ B \in Seq(Nat) /\ Len(B) = d /\ \A i \in 1..d : B[i] = (a + n) + i
  <2>1. a + n \in Nat
    OBVIOUS
  <2> QED BY <2>1, TextIs
<1>3. /\ C \in Seq(Nat) /\ Len(C) = n + d /\ \A i \in 1..(n + d) : C[i] = a + i
  <2>1. n + d \in Nat
    OBVIOUS
  <2> QED BY <2>1, TextIs
<1> HIDE DEF A, B, C
<1>4. /\ A \o B \in Seq(Nat) /\ Len(A \o B) = Len(A) + Len(B)
      /\ \A i \in 1..(Len(A) + Len(B)) : (A \o B)[i] = IF i <= Len(A) THEN A[i] ELSE B[i - Len(A)]
  BY <1>1, <1>2, ConcatProperties, Zenon
<1>5. ASSUME NEW i \in 1..(n + d) PROVE (A \o B)[i] = C[i]
  <2>1. CASE i <= n
    <3>1. (A \o B)[i] = A[i] /\ i \in 1..n
      BY <1>1, <1>2, <1>4, <2>1
    <3> QED BY <1>1, <1>3, <3>1
  <2>2. CASE ~(i <= n)
    <3>1. (A \o B)[i] = B[i - n] /\ i - n \in 1..d /\ (a + n) + (i - n) = a + i
      BY <1>1, <1>2, <1>4, <2>2
    <3> QED BY <1>2, <1>3, <3>1
  <2> QED BY <2>1, <2>2
<1>6. A \o B = C
  BY <1>1, <1>2, <1>3, <1>4, <1>5, SeqEqual
<1> QED BY <1>6 DEF A, B, C

\* The loop of aead_decrypt after it has read the chunks from m0 to m, of what has
\* arrived up to A; and when it ends before all was read.
Going(ctx, txt, off, m0, m, A) ==
    InLoop(Moved(ctx, 2 * m, ctx.chunk.idx, A - off[m]), off[m] - off[m0], Text(txt[m0], txt[m] - txt[m0]))

\* A round ended the loop: a byte was changed,
Broken(s, ctx, w) ==
    /\ s.err = ERROR /\ s.over = TRUE /\ Tampered(w)
    /\ \E e \in Nat, l \in 1..ctx.chunk.len : s.ctx = Moved(ctx, e, ctx.chunk.idx, l)

\* the first chunk is not there in full,
Waits(s, ctx, K, off, m0, A) ==
    /\ s.err = NEED_MORE /\ s.over = TRUE /\ s.ctx = Moved(ctx, 2 * m0, ctx.chunk.idx, A - off[m0])
    /\ m0 < K /\ off[m0] < A /\ A < off[m0 + 1]

\* or a later one is not.
Pauses(s, ctx, K, txt, off, m0, m, A) ==
    /\ s.err = OK /\ s.over = TRUE /\ s.plain = Text(txt[m0], txt[m] - txt[m0])
    /\ s.ctx = Moved(ctx, 2 * m, ctx.chunk.idx + (off[m] - off[m0]), A - off[m])
    /\ m < K /\ off[m] < A /\ A < off[m + 1]

\* The end of the loop.
Ended(s, ctx, w, K, txt, off, m0, A) ==
    \/ Broken(s, ctx, w)
    \/ Waits(s, ctx, K, off, m0, A)
    \/ \E m \in m0..K : Pauses(s, ctx, K, txt, off, m0, m, A) /\ off[m0] <= off[m] /\ txt[m0] <= txt[m]

\* Where a part of a part is.
LEMMA Offsets ==
    ASSUME NEW e \in Nat, NEW l \in Nat, NEW D \in Nat, e + l <= D, NEW A \in Nat, NEW a0 \in Nat, NEW a \in Nat,
           a0 <= a, a <= A, l = A - a0
    PROVE  /\ (a - a0) + (A - a) = l /\ (e + (a - a0)) + (A - a) <= D
           /\ \A i \in 1..(A - a) : /\ (a - a0) + i \in 1..l
                                   /\ (e + (a - a0)) + i = e + ((a - a0) + i)
                                   /\ a0 + ((a - a0) + i) = a + i
  OBVIOUS

\* The cells that the loop has left.
Rest(b, off, m0, m, A, x, n, cells) ==
    x = off[m] - off[m0] /\ n = A - off[m] /\ cells = SubSeq(b.data, b.idx + x + 1, b.idx + x + n)

\* What is left in the buffer is the next chunk, as far as it arrived.
LEMMA NextCells ==
    ASSUME NEW c, IsCipher(c), NEW K, NEW txt, NEW off, Layout(c, K, txt, off),
           NEW w, Chunked(c, w, K, txt, off), NEW b \in Buffer, b.idx + b.len <= Len(b.data),
           NEW A \in Nat, A <= Len(w), NEW m0 \in 0..K, Holds(b, w, off[m0], A),
           NEW m \in 0..K, off[m0] <= off[m], off[m] < A, NEW x, NEW n, NEW cells, Rest(b, off, m0, m, A, x, n, cells)
    PROVE  /\ m < K /\ x \in Nat /\ n \in Nat \ {0} /\ cells \in Seq(Cell) /\ Len(cells) = n
           /\ \A i \in 1..n : cells[i] = w[off[m] + i] /\ off[m] + i \in 1..Len(w)
<1>0. x = off[m] - off[m0] /\ n = A - off[m] /\ cells = SubSeq(b.data, b.idx + x + 1, b.idx + x + n)
  BY DEF Rest
<1>1. K \in Nat /\ off[m] \in Nat /\ off[m0] \in Nat /\ off[K] \in Nat
  BY LayoutNumbers
<1>2. PICK a0 \in Nat, a \in Nat : a0 = off[m0] /\ a = off[m]
  BY <1>1
<1>3. x \in Nat /\ n \in Nat \ {0} /\ x = a - a0 /\ n = A - a
  <2>1. a0 <= a /\ a < A /\ x = a - a0 /\ n = A - a
    BY <1>0, <1>2
  <2>2. a - a0 \in Nat /\ A - a \in Nat \ {0}
    <3>1. a0 <= a /\ a < A
      BY <2>1
    <3> QED BY <3>1
  <2> QED BY <2>1, <2>2
<1>4. w \in Seq(Cell) /\ Len(w) = IF K = 0 THEN 0 ELSE off[K]
  BY DEF Chunked
<1>5. m < K
  <2>1. Len(w) \in Nat /\ Len(w) <= off[K]
    BY <1>1, <1>4
  <2>2. m # K
    BY <1>1, <1>2, <1>3, <2>1
  <2> QED BY <1>1, <2>2
<1>6. b.data \in Seq(Cell) /\ b.idx \in Nat /\ b.len \in Nat /\ Len(b.data) \in Nat
  BY DEF Buffer
<1>7. b.len = A - a0 /\ \A i \in 1..b.len : b.data[b.idx + i] = w[a0 + i]
  BY <1>2 DEF Holds
<1>8. PICK h \in Nat : h = b.idx + x
  BY <1>3, <1>6
<1>b. PICK e \in Nat, l \in Nat, d \in Nat : e = b.idx /\ l = b.len /\ d = Len(b.data)
  BY <1>6
<1>9. e + l <= d /\ l = A - a0 /\ a0 <= a /\ a <= A
  BY <1>1, <1>2, <1>7, <1>b
<1>c. h + n <= Len(b.data) /\ x + n = b.len
  <2>1. (a - a0) + (A - a) = l /\ (e + (a - a0)) + (A - a) <= d
    BY <1>9, Offsets
  <2> QED BY <1>3, <1>8, <1>b, <2>1
<1>10. /\ cells \in Seq(Cell) /\ Len(cells) = n
       /\ \A i \in 1..n : cells[i] = b.data[h + i]
  <2>1. cells = SubSeq(b.data, h + 1, h + n)
    BY <1>0, <1>8
  <2>2. n \in Nat
    BY <1>3
  <2>3. ASSUME NEW D \in Seq(Cell), NEW g \in Nat, NEW q \in Nat, g + q <= Len(D)
        PROVE  /\ SubSeq(D, g + 1, g + q) \in Seq(Cell) /\ Len(SubSeq(D, g + 1, g + q)) = q
               /\ \A i \in 1..q : SubSeq(D, g + 1, g + q)[i] = D[g + i]
    BY <2>3, Part, ZenonT(60)
  <2>4. /\ SubSeq(b.data, h + 1, h + n) \in Seq(Cell) /\ Len(SubSeq(b.data, h + 1, h + n)) = n
        /\ \A i \in 1..n : SubSeq(b.data, h + 1, h + n)[i] = b.data[h + i]
    BY <1>6, <1>c, <2>2, <2>3, ZenonT(60)
  <2> QED BY <2>1, <2>4
<1>11. ASSUME NEW i \in 1..n PROVE cells[i] = w[off[m] + i] /\ off[m] + i \in 1..Len(w)
  <2>1. PICK y : y = x + i
    OBVIOUS
  <2>2. y \in 1..b.len /\ h + i = b.idx + y /\ a0 + y = a + i
    <3>1. i \in 1..(A - a)
      BY <1>3
    <3>2. (a - a0) + i \in 1..l /\ (e + (a - a0)) + i = e + ((a - a0) + i) /\ a0 + ((a - a0) + i) = a + i
      BY <1>9, <3>1, Offsets
    <3> QED BY <1>3, <1>8, <1>b, <2>1, <3>2
  <2>3. b.data[b.idx + y] = w[a0 + y]
    BY <1>7, <2>2
  <2>4. cells[i] = w[a + i]
    BY <1>10, <2>2, <2>3
  <2>5. a + i \in 1..Len(w)
    <3>1. PICK W \in Nat : W = Len(w)
      BY <1>4
    <3>2. A <= W /\ n = A - a /\ i \in 1..n
      BY <1>3, <3>1
    <3>3. a + i \in 1..W
      BY <3>2
    <3> QED BY <3>1, <3>3
  <2> QED BY <1>2, <2>4, <2>5
<1> QED BY <1>3, <1>5, <1>10, <1>11

\* A round of the loop reads the next chunk or ends the loop.
LEMMA RoundGoing ==
    ASSUME NEW c, IsCipher(c), c.kind = "aead", NEW K, NEW txt, NEW off, Layout(c, K, txt, off),
           NEW w, Chunked(c, w, K, txt, off), NEW ctx \in Context, ctx.chunk.idx + ctx.chunk.len <= Len(ctx.chunk.data),
           NEW A \in Nat, A <= Len(w), NEW m0 \in 0..K, Holds(ctx.chunk, w, off[m0], A),
           NEW m \in m0..K, off[m0] <= off[m], txt[m0] <= txt[m], m = m0 \/ txt[m0] < txt[m], off[m] < A
    PROVE  \/ /\ ChunkRound(c, Going(ctx, txt, off, m0, m, A)) = Going(ctx, txt, off, m0, m + 1, A)
              /\ m + 1 \in m0..K /\ off[m + 1] <= A /\ off[m] < off[m + 1] /\ txt[m] < txt[m + 1]
           \/ Ended(ChunkRound(c, Going(ctx, txt, off, m0, m, A)), ctx, w, K, txt, off, m0, A)
<1>1. K \in Nat /\ m \in 0..K /\ m0 \in Nat /\ m \in Nat
  <2>1. K \in Nat
    BY LayoutNumbers
  <2> QED BY <2>1
<1>2. off[m] \in Nat /\ off[m0] \in Nat /\ txt[m] \in Nat /\ txt[m0] \in Nat
  BY <1>1, LayoutNumbers
<1>3. PICK x : x = off[m] - off[m0]
  OBVIOUS
<1>4. PICK n : n = A - off[m]
  OBVIOUS
<1>0. PICK b : b = ctx.chunk
  OBVIOUS
<1>5. b \in Buffer /\ b.data \in Seq(Cell) /\ b.idx \in Nat /\ b.len \in Nat
  BY <1>0, ContextParts
<1>6. PICK cells : cells = SubSeq(b.data, b.idx + x + 1, b.idx + x + n)
  OBVIOUS
<1>7. /\ m < K /\ x \in Nat /\ n \in Nat \ {0} /\ cells \in Seq(Cell) /\ Len(cells) = n
      /\ \A i \in 1..n : cells[i] = w[off[m] + i] /\ off[m] + i \in 1..Len(w)
  <2>1. b.idx + b.len <= Len(b.data) /\ Holds(b, w, off[m0], A)
    BY <1>0
  <2>2. Rest(b, off, m0, m, A, x, n, cells)
    BY <1>3, <1>4, <1>6 DEF Rest
  <2> QED BY <1>1, <1>5, <2>1, <2>2, NextCells
<1>8. m \in 0..(K - 1) /\ m + 1 \in m0..K
  BY <1>1, <1>7
<1>9. /\ off[m + 1] \in Nat /\ txt[m + 1] \in Nat /\ txt[m + 1] - txt[m] \in 1..Capacity
      /\ off[m + 1] = off[m] + LenLen + 2 * c.tag + (txt[m + 1] - txt[m])
  <2>1. m + 1 \in 0..K
    BY <1>1, <1>8
  <2>2. off[m + 1] \in Nat /\ txt[m + 1] \in Nat
    BY <2>1, LayoutNumbers
  <2>3. /\ txt[m + 1] - txt[m] \in 1..Capacity
        /\ off[m + 1] = off[m] + LenLen + 2 * c.tag + (txt[m + 1] - txt[m])
    BY <1>8, LayoutNumbers
  <2> QED BY <2>2, <2>3
<1>10. PICK d \in Nat \ {0} : d = txt[m + 1] - txt[m] /\ d \in 1..Capacity
  BY <1>9, StreamAssumption
<1>11. PICK P \in Seq(Nat) : P = Text(txt[m], d) /\ Len(P) = d
  <2>1. d \in Nat
    OBVIOUS
  <2>2. Text(txt[m], d) \in Seq(Nat) /\ Len(Text(txt[m], d)) = d
    BY <1>2, <2>1, TextIs, Zenon
  <2> QED BY <2>2
<1>12. PICK S \in Nat \ {0} : S = LenLen + 2 * c.tag + d /\ off[m + 1] = off[m] + S
  <2>1. LenLen \in Nat /\ c.tag \in Nat
    BY StreamAssumption DEF IsCipher
  <2>2. PICK t \in Nat, l \in Nat, a \in Nat : t = c.tag /\ l = LenLen /\ a = off[m]
    BY <1>2, <2>1
  <2>3. off[m + 1] = a + l + 2 * t + d
    <3>1. off[m + 1] = off[m] + LenLen + 2 * c.tag + (txt[m + 1] - txt[m])
      BY <1>9
    <3> QED BY <1>10, <2>2, <3>1
  <2>4. off[m + 1] = a + (l + 2 * t + d) /\ l + 2 * t + d \in Nat \ {0}
    BY <2>3, SMTT(60)
  <2> QED BY <2>2, <2>4
<1>13. PICK N \in Nat : N = 2 * m
  BY <1>1
<1>14. \A i \in 1..Len(cells) : i <= S => cells[i] \in {Junk, ChunkEncrypt(c, N, P)[i]}
  <2> SUFFICES ASSUME NEW i \in 1..n, i <= S PROVE cells[i] \in {Junk, ChunkEncrypt(c, N, P)[i]}
    BY <1>7
  <2>1. off[m + 1] - off[m] = S
    BY <1>2, <1>12
  <2>2. i \in 1..(off[m + 1] - off[m])
    BY <1>7, <2>1
  <2>3. w[off[m] + i] \in {Junk, Chunk(c, m, txt)[i]}
    BY <1>8, <2>2 DEF Chunked
  <2>4. Chunk(c, m, txt) = ChunkEncrypt(c, N, P)
    BY <1>10, <1>11, <1>13 DEF Chunk
  <2> QED BY <1>7, <2>3, <2>4
<1>15. PICK r : r = ChunkDecrypt(c, N, cells)
  OBVIOUS
<1>16. \/ (\E e \in Nat : r = [err |-> ERROR, nonce |-> e]) /\ Tampered(cells)
       \/ r = [err |-> NEED_MORE, nonce |-> N] /\ Len(cells) < S
       \/ r = [err |-> OK, nonce |-> N + 2, plain |-> P, size |-> S] /\ S <= Len(cells)
  <2>1. Len(P) \in 1..Capacity /\ S = LenLen + 2 * c.tag + Len(P)
    BY <1>10, <1>11, <1>12
  <2>2. S \in Nat /\ cells \in Seq(Cell)
    BY <1>7
  <2>3. MaybeChunk(c, N, P, S, cells)
    BY <1>14, <2>1 DEF MaybeChunk
  <2>4. Read(r, N, P, S, cells)
    BY <1>15, <2>1, <2>2, <2>3, ChunkRead
  <2> QED BY <2>4 DEF Read
<1> DEFINE p == Text(txt[m0], txt[m] - txt[m0])
           R == ChunkRound(c, Going(ctx, txt, off, m0, m, A))
<1>17. Going(ctx, txt, off, m0, m, A) = InLoop(Moved(ctx, N, b.idx, n), x, p)
  BY <1>0, <1>3, <1>4, <1>13 DEF Going
<1>18. R = IF r.err = OK THEN InLoop(Moved(ctx, r.nonce, b.idx, n - r.size), x + r.size, p \o r.plain)
           ELSE IF r.err = NEED_MORE /\ p # << >> THEN LoopState(OK, TRUE, Moved(ctx, r.nonce, b.idx + x, n), x, p)
           ELSE LoopState(r.err, TRUE, Moved(ctx, r.nonce, b.idx, n), x, p)
  <2> HIDE DEF p
  <2>1. r = ChunkDecrypt(c, N, SubSeq(ctx.chunk.data, b.idx + x + 1, b.idx + x + n))
    BY <1>0, <1>6, <1>15
  <2>2. n \in Nat \ {0} /\ x \in Nat
    BY <1>7
  <2>3. ChunkRound(c, InLoop(Moved(ctx, N, b.idx, n), x, p)) = AfterRound(ctx, b.idx, n, x, p, r)
    <3>1. b.idx \in Nat
      BY <1>5
    <3> QED BY <2>1, <2>2, <3>1, RoundIs
  <2> QED BY <1>17, <2>3 DEF AfterRound
<1>19. OK # ERROR /\ OK # NEED_MORE /\ ERROR # NEED_MORE
  BY DEF OK, ERROR, NEED_MORE
<1>20. p \in Seq(Nat) /\ Len(p) = txt[m] - txt[m0] /\ (p = << >> => txt[m] = txt[m0])
  <2>1. txt[m] - txt[m0] \in Nat
    BY <1>2
  <2>2. p \in Seq(Nat) /\ Len(p) = txt[m] - txt[m0]
    BY <1>2, <2>1, TextIs
  <2> HIDE DEF p
  <2>3. Len(<< >>) = 0
    BY EmptySeq
  <2> QED BY <1>2, <2>2, <2>3
<1> HIDE DEF p, R
<1>21. CASE (\E e \in Nat : r = [err |-> ERROR, nonce |-> e]) /\ Tampered(cells)
  <2>1. PICK e \in Nat : r = [err |-> ERROR, nonce |-> e]
    BY <1>21
  <2>2. r.err = ERROR /\ r.nonce = e
    BY <2>1
  <2>3. R = LoopState(ERROR, TRUE, Moved(ctx, e, b.idx, n), x, p)
    BY <1>18, <1>19, <2>2
  <2>4. R.err = ERROR /\ R.over = TRUE /\ R.ctx = Moved(ctx, e, ctx.chunk.idx, n)
    BY <1>0, <2>3 DEF LoopState
  <2>5. n \in 1..ctx.chunk.len
    <3>1. ctx.chunk.len = A - off[m0] /\ ctx.chunk.len \in Nat
      BY <1>0, <1>5 DEF Holds
    <3> QED BY <1>2, <1>4, <1>7, <3>1, SMTT(60)
  <2>6. Tampered(w)
    <3>1. PICK i \in 1..n : cells[i] = Junk
      BY <1>7, <1>21 DEF Tampered
    <3> QED BY <1>7, <3>1 DEF Tampered
  <2>7. Broken(R, ctx, w)
    BY <2>4, <2>5, <2>6 DEF Broken
  <2> QED BY <2>7 DEF Ended, R
<1>22. CASE r = [err |-> NEED_MORE, nonce |-> N] /\ Len(cells) < S
  <2>1. r.err = NEED_MORE /\ r.nonce = N
    BY <1>22
  <2>2. A < off[m + 1]
    BY <1>2, <1>4, <1>7, <1>12, <1>22
  <2>3. CASE p # << >>
    <3>1. R = LoopState(OK, TRUE, Moved(ctx, N, b.idx + x, n), x, p)
      BY <1>18, <1>19, <2>1, <2>3
    <3>2. R.err = OK /\ R.over = TRUE /\ R.ctx = Moved(ctx, 2 * m, ctx.chunk.idx + (off[m] - off[m0]), A - off[m]) /\ R.plain = p
      BY <1>0, <1>3, <1>4, <1>13, <3>1 DEF LoopState
    <3>3. Pauses(R, ctx, K, txt, off, m0, m, A)
      BY <1>7, <2>2, <3>2 DEF Pauses, p
    <3> QED BY <3>3 DEF Ended, R
  <2>4. CASE p = << >>
    <3>1. m = m0
      BY <1>2, <1>20, <2>4
    <3>2. R = LoopState(NEED_MORE, TRUE, Moved(ctx, N, b.idx, n), x, p)
      BY <1>18, <1>19, <2>1, <2>4
    <3>3. R.err = NEED_MORE /\ R.over = TRUE /\ R.ctx = Moved(ctx, 2 * m0, ctx.chunk.idx, A - off[m0])
      BY <1>0, <1>4, <1>13, <3>1, <3>2 DEF LoopState
    <3>4. Waits(R, ctx, K, off, m0, A)
      BY <1>7, <2>2, <3>1, <3>3 DEF Waits
    <3> QED BY <3>4 DEF Ended, R
  <2> QED BY <2>3, <2>4
<1>23. CASE r = [err |-> OK, nonce |-> N + 2, plain |-> P, size |-> S] /\ S <= Len(cells)
  <2>1. r.err = OK /\ r.nonce = N + 2 /\ r.plain = P /\ r.size = S
    BY <1>23
  <2>2. R = InLoop(Moved(ctx, N + 2, b.idx, n - S), x + S, p \o P)
    BY <1>18, <2>1
  <2>3. N + 2 = 2 * (m + 1)
    BY <1>1, <1>13
  <2>4. n - S = A - off[m + 1] /\ x + S = off[m + 1] - off[m0] /\ off[m + 1] <= A /\ off[m] < off[m + 1]
    <3>1. PICK a \in Nat, a0 \in Nat, a1 \in Nat : a = off[m] /\ a0 = off[m0] /\ a1 = off[m + 1]
      BY <1>2, <1>9
    <3>2. a1 = a + S /\ n = A - a /\ x = a - a0 /\ S <= n
      BY <1>3, <1>4, <1>7, <1>12, <1>23, <3>1
    <3>3. n - S = A - a1 /\ x + S = a1 - a0 /\ a1 <= A /\ a < a1
      BY <3>2
    <3> QED BY <3>1, <3>3
  <2>5. p \o P = Text(txt[m0], txt[m + 1] - txt[m0]) /\ txt[m] < txt[m + 1]
    <3>0. PICK u \in Nat, q \in Nat, z \in Nat : u = txt[m0] /\ q = txt[m] /\ z = txt[m + 1]
      BY <1>2, <1>9
    <3>a. u <= q /\ d = z - q
      BY <1>10, <3>0
    <3>b. PICK v \in Nat : v = q - u
      BY <3>a
    <3>1. v = txt[m] - txt[m0] /\ txt[m] = u + v /\ z = (u + v) + d /\ z - u = v + d /\ u + v < z
      <4>1. q = u + v /\ z = (u + v) + d /\ z - u = v + d /\ u + v < z
        BY <3>a, <3>b
      <4> QED BY <3>0, <3>b, <4>1
    <3>3. Text(u, v) \o Text(u + v, d) = Text(u, v + d)
      BY TextJoin, ZenonT(60)
    <3>4. txt[m + 1] - txt[m0] = v + d /\ u + v < z
      BY <3>0, <3>1
    <3>5. p = Text(u, v) /\ P = Text(u + v, d)
      BY <1>11, <3>0, <3>1 DEF p
    <3> QED BY <3>0, <3>1, <3>3, <3>4, <3>5
  <2>6. R = Going(ctx, txt, off, m0, m + 1, A)
    BY <1>0, <2>2, <2>3, <2>4, <2>5 DEF Going
  <2> QED BY <1>8, <2>4, <2>5, <2>6 DEF R
<1> QED BY <1>16, <1>21, <1>22, <1>23

\* m0 chunks were read and what arrived since, up to A, is in the context.
Arrived(c, K, txt, off, w, ctx, A, m0) ==
    /\ IsCipher(c) /\ c.kind = "aead" /\ Layout(c, K, txt, off) /\ Chunked(c, w, K, txt, off)
    /\ ctx \in Context /\ ctx.nonce = 2 * m0 /\ ctx.chunk.idx + ctx.chunk.len <= Len(ctx.chunk.data)
    /\ A \in Nat /\ A <= Len(w) /\ m0 \in 0..K /\ Holds(ctx.chunk, w, off[m0], A)

\* The loop after k rounds, unless it ended.
AtRound(s, k, ctx, K, txt, off, m0, A) ==
    \E m \in m0..K :
        /\ s = Going(ctx, txt, off, m0, m, A)
        /\ off[m0] <= off[m] /\ off[m] <= A /\ txt[m0] <= txt[m] /\ (m = m0 \/ txt[m0] < txt[m])
        /\ off[m] = A \/ (A - off[m]) + k <= A - off[m0]

\* A loop that ended is over.
LEMMA EndedIsOver ==
    ASSUME NEW s, NEW ctx, NEW w, NEW K, NEW txt, NEW off, NEW m0, NEW A, Ended(s, ctx, w, K, txt, off, m0, A)
    PROVE  s.over = TRUE
  BY DEF Ended, Broken, Waits, Pauses

\* A loop that goes on is at a chunk.
LEMMA GoingIs ==
    ASSUME NEW ctx, NEW txt, NEW off, NEW m0, NEW m, NEW A
    PROVE  /\ Going(ctx, txt, off, m0, m, A).err = OK
           /\ Going(ctx, txt, off, m0, m, A).ctx = Moved(ctx, 2 * m, ctx.chunk.idx, A - off[m])
           /\ Going(ctx, txt, off, m0, m, A).ctx.chunk.len = A - off[m]
           /\ Going(ctx, txt, off, m0, m, A).plain = Text(txt[m0], txt[m] - txt[m0])
  BY DEF Going, InLoop, LoopState, Moved

\* The arithmetic of a round: one that reads a chunk reads a byte at least.
LEMMA Shorter ==
    ASSUME NEW A \in Nat, NEW a0 \in Nat, NEW a \in Nat, NEW a1 \in Nat, NEW k \in Nat,
           (A - a) + k <= A - a0, a < a1, a0 <= a
    PROVE  (A - a1) + (k + 1) <= A - a0 /\ a0 <= a1
  OBVIOUS

\* A round goes on to the next chunk or ends the loop.
LEMMA LoopStep ==
    ASSUME NEW c, NEW K, NEW txt, NEW off, NEW w, NEW ctx, NEW A, NEW m0, Arrived(c, K, txt, off, w, ctx, A, m0),
           NEW s, NEW k \in Nat, AtRound(s, k, ctx, K, txt, off, m0, A) \/ Ended(s, ctx, w, K, txt, off, m0, A)
    PROVE  \/ AtRound(ChunkRound(c, s), k + 1, ctx, K, txt, off, m0, A)
           \/ Ended(ChunkRound(c, s), ctx, w, K, txt, off, m0, A)
<1>1. CASE Ended(s, ctx, w, K, txt, off, m0, A)
  <2>1. ChunkRound(c, s) = s
    BY <1>1, EndedIsOver, RoundOver
  <2> QED BY <1>1, <2>1
<1>2. CASE AtRound(s, k, ctx, K, txt, off, m0, A)
  <2>1. PICK m \in m0..K :
            /\ s = Going(ctx, txt, off, m0, m, A)
            /\ off[m0] <= off[m] /\ off[m] <= A /\ txt[m0] <= txt[m] /\ (m = m0 \/ txt[m0] < txt[m])
            /\ off[m] = A \/ (A - off[m]) + k <= A - off[m0]
    BY <1>2 DEF AtRound
  <2>2. K \in Nat /\ m0 \in 0..K /\ A \in Nat /\ \A j \in 0..K : off[j] \in Nat /\ txt[j] \in Nat
    BY LayoutNumbers DEF Arrived
  <2>3. m \in 0..K
    BY <2>2
  <2>4. CASE off[m] = A
    <3>1. s.ctx.chunk.len = A - off[m]
      BY <2>1, GoingIs
    <3>2. A - off[m] = 0
      BY <2>2, <2>4
    <3>3. ChunkRound(c, s) = s
      BY <3>1, <3>2, RoundOver
    <3>4. AtRound(s, k + 1, ctx, K, txt, off, m0, A)
      BY <2>1, <2>4 DEF AtRound
    <3> QED BY <3>3, <3>4
  <2>5. CASE off[m] # A
    <3>1. off[m] < A
      <4>1. PICK a \in Nat : a = off[m]
        BY <2>2, <2>3
      <4>2. a <= A /\ a # A
        BY <2>1, <2>5, <4>1
      <4>3. a < A
        BY <2>2, <4>2
      <4> QED BY <4>1, <4>3
    <3>2. \/ /\ ChunkRound(c, Going(ctx, txt, off, m0, m, A)) = Going(ctx, txt, off, m0, m + 1, A)
             /\ m + 1 \in m0..K /\ off[m + 1] <= A /\ off[m] < off[m + 1] /\ txt[m] < txt[m + 1]
          \/ Ended(ChunkRound(c, Going(ctx, txt, off, m0, m, A)), ctx, w, K, txt, off, m0, A)
      BY <2>1, <3>1, RoundGoing DEF Arrived
    <3>3. CASE Ended(ChunkRound(c, Going(ctx, txt, off, m0, m, A)), ctx, w, K, txt, off, m0, A)
      BY <2>1, <3>3
    <3>4. CASE /\ ChunkRound(c, Going(ctx, txt, off, m0, m, A)) = Going(ctx, txt, off, m0, m + 1, A)
               /\ m + 1 \in m0..K /\ off[m + 1] <= A /\ off[m] < off[m + 1] /\ txt[m] < txt[m + 1]
      <4>1. m + 1 \in 0..K
        BY <2>2, <3>4
      <4>2. PICK a0 \in Nat, a \in Nat, a1 \in Nat : a0 = off[m0] /\ a = off[m] /\ a1 = off[m + 1]
        BY <2>2, <2>3, <4>1
      <4>3. (A - a) + k <= A - a0 /\ a < a1 /\ a0 <= a
        BY <2>1, <2>5, <3>4, <4>2
      <4>4. (A - a1) + (k + 1) <= A - a0 /\ a0 <= a1
        BY <2>2, <4>3, Shorter
      <4>5. (A - off[m + 1]) + (k + 1) <= A - off[m0] /\ off[m0] <= off[m + 1]
        BY <4>2, <4>4
      <4>6. txt[m0] <= txt[m + 1] /\ txt[m0] < txt[m + 1]
        <5>1. PICK t0 \in Nat, t \in Nat, t1 \in Nat : t0 = txt[m0] /\ t = txt[m] /\ t1 = txt[m + 1]
          BY <2>2, <2>3, <4>1
        <5>2. t0 <= t /\ t < t1
          BY <2>1, <3>4, <5>1
        <5>3. t0 <= t1 /\ t0 < t1
          BY <5>2
        <5> QED BY <5>1, <5>3
      <4>7. AtRound(Going(ctx, txt, off, m0, m + 1, A), k + 1, ctx, K, txt, off, m0, A)
        BY <3>4, <4>5, <4>6 DEF AtRound
      <4> QED BY <2>1, <3>4, <4>7
    <3> QED BY <3>2, <3>3, <3>4
  <2> QED BY <2>4, <2>5
<1> QED BY <1>1, <1>2

\* The loop of aead_decrypt is its rounds.
LEMMA ChunksIs ==
    ASSUME NEW c, NEW ctx, ctx.chunk.len \in Nat
    PROVE  \E f : /\ Loops(f, "chunks", ctx, c, ctx.chunk.len)
                  /\ Chunks(c, ctx) = IF f[ctx.chunk.len].ctx.chunk.len = 0
                                      THEN [f[ctx.chunk.len] EXCEPT !.ctx.chunk.idx = 0] ELSE f[ctx.chunk.len]
<1> DEFINE R(f) == f = [k \in 0..ctx.chunk.len |->
                            IF k = 0 THEN [err |-> OK, over |-> FALSE, ctx |-> ctx, cidx |-> 0, plain |-> << >>]
                            ELSE ChunkRound(c, f[k - 1])]
           last == (CHOOSE f : R(f))[ctx.chunk.len]
<1>1. \A f : R(f) <=> Loops(f, "chunks", ctx, c, ctx.chunk.len)
  BY DEF Loops, Start, Turn
<1>2. \E f : R(f)
  BY <1>1, LoopExists
<1>3. Chunks(c, ctx) = IF last.ctx.chunk.len = 0 THEN [last EXCEPT !.ctx.chunk.idx = 0] ELSE last
  BY Zenon DEF Chunks
<1> HIDE DEF R
<1>4. PICK f : R(f) /\ f = CHOOSE g : R(g)
  BY <1>2
<1>5. Loops(f, "chunks", ctx, c, ctx.chunk.len)
  BY <1>1, <1>4
<1> QED BY <1>3, <1>4, <1>5

\* The loop is over after as many rounds as there are bytes.
LEMMA LoopEnds ==
    ASSUME NEW c, NEW K, NEW txt, NEW off, NEW w, NEW ctx, NEW A, NEW m0, Arrived(c, K, txt, off, w, ctx, A, m0),
           NEW n \in Nat, NEW f, Loops(f, "chunks", ctx, c, n)
    PROVE  AtRound(f[n], n, ctx, K, txt, off, m0, A) \/ Ended(f[n], ctx, w, K, txt, off, m0, A)
<1> DEFINE P(k) == AtRound(f[k], k, ctx, K, txt, off, m0, A) \/ Ended(f[k], ctx, w, K, txt, off, m0, A)
           Bad == {k \in 0..n : ~P(k)}
<1>1. f[0] = [err |-> OK, over |-> FALSE, ctx |-> ctx, cidx |-> 0, plain |-> << >>]
  <2>1. f[0] = Start("chunks", ctx)
    BY DEF Loops
  <2> QED BY <2>1 DEF Start
<1>2. ASSUME NEW k \in 1..n PROVE f[k] = ChunkRound(c, f[k - 1])
  <2>1. f[k] = Turn("chunks", ctx, c, f[k - 1], k)
    BY DEF Loops
  <2> QED BY <2>1 DEF Turn
<1>3. P(0)
  <2>1. K \in Nat /\ m0 \in 0..K /\ A \in Nat /\ off[m0] \in Nat /\ txt[m0] \in Nat
    BY LayoutNumbers DEF Arrived
  <2>2. m0 \in m0..K /\ off[m0] - off[m0] = 0 /\ txt[m0] - txt[m0] = 0 /\ (A - off[m0]) + 0 <= A - off[m0]
    BY <2>1
  <2>3. ctx = Moved(ctx, 2 * m0, ctx.chunk.idx, A - off[m0])
    <3>1. ctx \in Context /\ ctx.nonce = 2 * m0 /\ ctx.chunk.len = A - off[m0]
      BY DEF Arrived, Holds
    <3>2. ctx = [init |-> ctx.init, nonce |-> ctx.nonce, chunk |-> ctx.chunk]
      BY <3>1, ContextParts
    <3>3. ctx.chunk = [data |-> ctx.chunk.data, idx |-> ctx.chunk.idx, len |-> ctx.chunk.len, cap |-> ctx.chunk.cap]
      BY <3>1, ContextParts
    <3> QED BY <3>1, <3>2, <3>3 DEF Moved
  <2>4. Text(txt[m0], 0) = << >>
    BY DEF Text
  <2>5. f[0] = Going(ctx, txt, off, m0, m0, A)
    BY <1>1, <2>2, <2>3, <2>4 DEF Going, InLoop, LoopState
  <2>6. off[m0] <= A /\ off[m0] <= off[m0] /\ txt[m0] <= txt[m0]
    BY <2>1 DEF Arrived, Holds
  <2>7. AtRound(f[0], 0, ctx, K, txt, off, m0, A)
    BY <2>2, <2>5, <2>6 DEF AtRound
  <2> QED BY <2>7
<1>4. ASSUME Bad # {} PROVE FALSE
  <2>1. PICK k \in Bad : \A j \in Bad : k <= j
    <3>1. Bad \subseteq Nat
      OBVIOUS
    <3> HIDE DEF Bad
    <3> QED BY <1>4, <3>1, LeastNat
  <2>2. k # 0
    BY <1>3, <2>1
  <2>3. PICK h \in Nat : h = k - 1
    BY <2>1, <2>2
  <2>4. h \in 0..n /\ ~(k <= h) /\ h + 1 = k /\ k \in 1..n
    BY <2>1, <2>2, <2>3
  <2>5. P(h)
    BY <2>1, <2>4
  <2>6. f[k] = ChunkRound(c, f[h])
    BY <1>2, <2>3, <2>4
  <2>7. P(h + 1)
    BY <2>4, <2>5, <2>6, LoopStep
  <2> QED BY <2>1, <2>4, <2>7
<1>5. n \in 0..n
  OBVIOUS
<1> QED BY <1>4, <1>5

\* What the loop gives: an error for a byte that was changed, the chunks that are
\* there in full, or that the first is not.
ReadOut(r, ctx, w, K, txt, off, m0, A) ==
    \/ /\ r.err = ERROR /\ Tampered(w)
       /\ \E e \in Nat, l \in 1..ctx.chunk.len : r.ctx = Moved(ctx, e, ctx.chunk.idx, l)
    \/ /\ r.err = NEED_MORE /\ r.ctx = Moved(ctx, 2 * m0, ctx.chunk.idx, A - off[m0])
       /\ m0 < K /\ A < off[m0 + 1]
    \/ \E m \in m0..K :
            /\ r.err = OK /\ r.plain = Text(txt[m0], txt[m] - txt[m0])
            /\ r.ctx = Moved(ctx, 2 * m, IF A = off[m] THEN 0 ELSE ctx.chunk.idx + (off[m] - off[m0]), A - off[m])
            /\ txt[m0] <= txt[m] /\ off[m0] <= off[m] /\ off[m] <= A /\ (m < K => A < off[m + 1])

\* The loop gives whole chunks and leaves the rest.
LEMMA ChunksRead ==
    ASSUME NEW c, NEW K, NEW txt, NEW off, NEW w, NEW ctx, NEW A, NEW m0, Arrived(c, K, txt, off, w, ctx, A, m0)
    PROVE  ReadOut(Chunks(c, ctx), ctx, w, K, txt, off, m0, A)
<1>1. ctx \in Context /\ A \in Nat /\ m0 \in 0..K /\ ctx.chunk.len = A - off[m0] /\ off[m0] <= A
  BY DEF Arrived, Holds
<1>2. ctx.chunk.len \in Nat /\ ctx.chunk.idx \in Nat
  BY <1>1, ContextParts
<1>3. PICK n \in Nat : n = ctx.chunk.len
  BY <1>2
<1>4. PICK f : /\ Loops(f, "chunks", ctx, c, n)
               /\ Chunks(c, ctx) = IF f[n].ctx.chunk.len = 0 THEN [f[n] EXCEPT !.ctx.chunk.idx = 0] ELSE f[n]
  BY <1>3, ChunksIs
<1>5. PICK s : s = f[n]
  OBVIOUS
<1>6. AtRound(s, n, ctx, K, txt, off, m0, A) \/ Ended(s, ctx, w, K, txt, off, m0, A)
  BY <1>4, <1>5, LoopEnds
<1>7. K \in Nat /\ \A j \in 0..K : off[j] \in Nat /\ txt[j] \in Nat
  BY LayoutNumbers DEF Arrived
<1>8. PICK r : r = Chunks(c, ctx)
  OBVIOUS
<1>9. r = IF s.ctx.chunk.len = 0 THEN [s EXCEPT !.ctx.chunk.idx = 0] ELSE s
  BY <1>4, <1>5, <1>8
<1>10. CASE Broken(s, ctx, w)
  <2>1. PICK e \in Nat, l \in 1..ctx.chunk.len : s.ctx = Moved(ctx, e, ctx.chunk.idx, l)
    BY <1>10 DEF Broken
  <2>2. s.ctx.chunk.len = l
    BY <2>1 DEF Moved
  <2>3. r = s
    BY <1>9, <2>2
  <2> QED BY <1>8, <1>10, <2>3 DEF Broken, ReadOut
<1>11. CASE Waits(s, ctx, K, off, m0, A)
  <2>1. s.ctx.chunk.len = A - off[m0]
    BY <1>11 DEF Waits, Moved
  <2>2. A - off[m0] # 0
    BY <1>1, <1>7, <1>11 DEF Waits
  <2>3. r = s
    BY <1>9, <2>1, <2>2
  <2> QED BY <1>8, <1>11, <2>3 DEF Waits, ReadOut
<1>12. CASE \E m \in m0..K : Pauses(s, ctx, K, txt, off, m0, m, A) /\ off[m0] <= off[m] /\ txt[m0] <= txt[m]
  <2>1. PICK m \in m0..K : Pauses(s, ctx, K, txt, off, m0, m, A) /\ off[m0] <= off[m] /\ txt[m0] <= txt[m]
    BY <1>12
  <2>2. m \in 0..K /\ off[m] \in Nat
    BY <1>1, <1>7
  <2>3. off[m] < A /\ s.ctx = Moved(ctx, 2 * m, ctx.chunk.idx + (off[m] - off[m0]), A - off[m])
    BY <2>1 DEF Pauses
  <2>4. A - off[m] # 0 /\ off[m] <= A /\ A # off[m]
    BY <1>1, <2>2, <2>3
  <2>5. s.ctx.chunk.len = A - off[m]
    BY <2>3 DEF Moved
  <2>6. r = s
    BY <1>9, <2>4, <2>5
  <2>7. /\ r.err = OK /\ r.plain = Text(txt[m0], txt[m] - txt[m0])
        /\ r.ctx = Moved(ctx, 2 * m, IF A = off[m] THEN 0 ELSE ctx.chunk.idx + (off[m] - off[m0]), A - off[m])
        /\ txt[m0] <= txt[m] /\ off[m0] <= off[m] /\ off[m] <= A /\ (m < K => A < off[m + 1])
    BY <2>1, <2>3, <2>4, <2>6 DEF Pauses
  <2> QED BY <1>8, <2>7 DEF ReadOut
<1>13. CASE AtRound(s, n, ctx, K, txt, off, m0, A)
  <2>1. PICK m \in m0..K :
            /\ s = Going(ctx, txt, off, m0, m, A)
            /\ off[m0] <= off[m] /\ off[m] <= A /\ txt[m0] <= txt[m]
            /\ off[m] = A \/ (A - off[m]) + n <= A - off[m0]
    BY <1>13 DEF AtRound
  <2>2. m \in 0..K /\ off[m] \in Nat /\ off[m0] \in Nat
    BY <1>1, <1>7
  <2>3. off[m] = A
    <3>1. PICK a \in Nat, a0 \in Nat : a = off[m] /\ a0 = off[m0]
      BY <2>2
    <3>2. a = A \/ (A - a) + n <= A - a0
      BY <2>1, <3>1
    <3>3. n = A - a0 /\ a <= A
      BY <1>1, <1>3, <2>1, <3>1
    <3>4. a = A
      BY <1>1, <3>2, <3>3
    <3> QED BY <3>1, <3>4
  <2>4. A - off[m] = 0
    BY <1>1, <2>3
  <2>5. s = [err |-> OK, over |-> FALSE, ctx |-> Moved(ctx, 2 * m, ctx.chunk.idx, A - off[m]), cidx |-> off[m] - off[m0],
             plain |-> Text(txt[m0], txt[m] - txt[m0])]
    BY <2>1 DEF Going, InLoop, LoopState
  <2>6. s.ctx.chunk.len = 0
    BY <2>4, <2>5 DEF Moved
  <2>7. r = [s EXCEPT !.ctx.chunk.idx = 0]
    BY <1>9, <2>6
  <2>8. r = [s EXCEPT !.ctx = [s.ctx EXCEPT !.chunk.idx = 0]]
    BY <2>5, <2>7
  <2>9. [s.ctx EXCEPT !.chunk.idx = 0] = Moved(ctx, 2 * m, 0, A - off[m])
    BY <2>5 DEF Moved
  <2>10. r.err = OK /\ r.plain = Text(txt[m0], txt[m] - txt[m0]) /\ r.ctx = Moved(ctx, 2 * m, 0, A - off[m])
    BY <2>5, <2>8, <2>9
  <2>11. m < K => A < off[m + 1]
    <3> SUFFICES ASSUME m < K PROVE A < off[m + 1]
      OBVIOUS
    <3>1. m \in 0..(K - 1)
      BY <1>7, <2>2
    <3>2. /\ LenLen \in Nat \ {0} /\ c.tag \in Nat /\ txt[m + 1] - txt[m] \in 1..Capacity
          /\ off[m + 1] = off[m] + LenLen + 2 * c.tag + (txt[m + 1] - txt[m])
      BY <3>1, LayoutNumbers DEF Arrived
    <3>3. PICK d \in Nat, t \in Nat, l \in Nat \ {0} : d = txt[m + 1] - txt[m] /\ t = c.tag /\ l = LenLen
      BY <3>2
    <3>4. off[m + 1] = A + l + 2 * t + d
      BY <2>3, <3>2, <3>3
    <3> QED BY <1>1, <3>4
  <2>12. /\ r.err = OK /\ r.plain = Text(txt[m0], txt[m] - txt[m0])
         /\ r.ctx = Moved(ctx, 2 * m, IF A = off[m] THEN 0 ELSE ctx.chunk.idx + (off[m] - off[m0]), A - off[m])
         /\ txt[m0] <= txt[m] /\ off[m0] <= off[m] /\ off[m] <= A /\ (m < K => A < off[m + 1])
    BY <2>1, <2>3, <2>10, <2>11
  <2> QED BY <1>8, <2>12 DEF ReadOut
<1> QED BY <1>6, <1>10, <1>11, <1>12, <1>13 DEF Ended

-----------------------------------------------------------------------------
(* Buffers *)

\* memcpy to a place in a buffer: what is before it stays.
Written(D, data, at, cells) ==
    /\ D \in Seq(Cell) /\ Len(data) <= Len(D) /\ at + Len(cells) <= Len(D)
    /\ \A i \in 1..Len(cells) : D[at + i] = cells[i]
    /\ \A i \in 1..at : D[i] = data[i]

\* The parts of a buffer.
LEMMA BufferParts ==
    ASSUME NEW b \in Buffer
    PROVE  /\ b.data \in Seq(Cell) /\ b.idx \in Nat /\ b.len \in Nat /\ b.cap \in Nat
           /\ b = [data |-> b.data, idx |-> b.idx, len |-> b.len, cap |-> b.cap]
  BY DEF Buffer

\* Writing into a buffer keeps what is before.
LEMMA WriteIs ==
    ASSUME NEW b \in Buffer, NEW at \in Nat, NEW cells \in Seq(Cell), at <= Len(b.data)
    PROVE  \E D : /\ Written(D, b.data, at, cells)
                  /\ Write(b, at, cells) = [data |-> D, idx |-> b.idx, len |-> b.len, cap |-> b.cap]
<1>1. b.data \in Seq(Cell) /\ b = [data |-> b.data, idx |-> b.idx, len |-> b.len, cap |-> b.cap]
  BY BufferParts
<1>2. PICK data \in Seq(Cell) : data = b.data
  BY <1>1
<1>3. PICK l \in Nat, n \in Nat : l = Len(data) /\ n = Len(cells)
  OBVIOUS
<1>4. PICK M \in Nat : M = Max({Len(data), at + Len(cells)}) /\ l <= M /\ at + n <= M /\ M \in {l, at + n}
  <2>1. at + n \in Nat
    OBVIOUS
  <2>2. Max({l, at + n}) = IF l >= at + n THEN l ELSE at + n
    BY <2>1, MaxOfTwo
  <2> QED BY <1>3, <2>2
<1> DEFINE V(i) == IF i \in (at + 1)..(at + n) THEN cells[i - at] ELSE data[i]
           D == [i \in 1..M |-> V(i)]
<1>5. \A i \in 1..M : V(i) \in Cell
  <2> SUFFICES ASSUME NEW i \in 1..M PROVE V(i) \in Cell
    OBVIOUS
  <2>1. CASE i \in (at + 1)..(at + n)
    <3>1. i - at \in 1..Len(cells)
      BY <1>3, <2>1
    <3>2. cells[i - at] \in Cell
      BY <3>1, ElementOfSeq
    <3> QED BY <2>1, <3>2
  <2>2. CASE i \notin (at + 1)..(at + n)
    <3>1. i \in 1..Len(data)
      <4>1. at <= l
        BY <1>2, <1>3
      <4>2. i \in 1..l
        BY <1>4, <2>2, <4>1
      <4> QED BY <1>3, <4>2
    <3>2. data[i] \in Cell
      BY <3>1, ElementOfSeq
    <3> QED BY <2>2, <3>2
  <2> QED BY <2>1, <2>2
<1>6. D \in Seq(Cell) /\ Len(D) = M
  <2> HIDE DEF V
  <2> QED BY <1>5
<1>7. Write(b, at, cells) = [data |-> D, idx |-> b.idx, len |-> b.len, cap |-> b.cap]
  <2>1. Write(b, at, cells) = [b EXCEPT !.data = D]
    BY <1>2, <1>3, <1>4 DEF Write
  <2> HIDE DEF D
  <2> QED BY <1>1, <2>1
<1>8. \A i \in 1..n : D[at + i] = cells[i]
  <2> SUFFICES ASSUME NEW i \in 1..n PROVE D[at + i] = cells[i]
    OBVIOUS
  <2>1. at + i \in 1..M /\ at + i \in (at + 1)..(at + n) /\ (at + i) - at = i
    BY <1>4
  <2> QED BY <2>1
<1>9. \A i \in 1..at : D[i] = data[i]
  <2> SUFFICES ASSUME NEW i \in 1..at PROVE D[i] = data[i]
    OBVIOUS
  <2>1. i \in 1..M /\ i \notin (at + 1)..(at + n)
    BY <1>2, <1>3, <1>4
  <2> QED BY <2>1
<1> HIDE DEF D
<1>10. Written(D, data, at, cells)
  BY <1>3, <1>4, <1>6, <1>8, <1>9 DEF Written
<1> QED BY <1>2, <1>7, <1>10

\* brealloc makes room.
LEMMA ReallocIs ==
    ASSUME NEW b \in Buffer, NEW len \in Nat
    PROVE  \E cap \in Nat : /\ b.cap <= cap /\ len <= cap /\ Capacity <= cap
                            /\ Realloc(b, len) = [data |-> b.data, idx |-> b.idx, len |-> b.len, cap |-> cap]
<1>1. b.cap \in Nat /\ b = [data |-> b.data, idx |-> b.idx, len |-> b.len, cap |-> b.cap] /\ Capacity \in Nat
  BY BufferParts, StreamAssumption
<1>2. PICK a \in Nat : a = b.cap
  BY <1>1
<1>3. PICK m : m = Max({a, len, Capacity})
  OBVIOUS
<1>4. m \in {a, len, Capacity} /\ m >= a /\ m >= len /\ m >= Capacity
  BY <1>1, <1>3, MaxOfThree
<1>5. Realloc(b, len) = [b EXCEPT !.cap = m]
  BY <1>2, <1>3 DEF Realloc
<1>6. m \in Nat /\ a <= m /\ len <= m /\ Capacity <= m
  BY <1>1, <1>4
<1>7. Realloc(b, len) = [data |-> b.data, idx |-> b.idx, len |-> b.len, cap |-> m]
  BY <1>1, <1>5
<1> QED BY <1>2, <1>6, <1>7

\* What arrived is behind what was left, at the front of the chunk buffer.
Gathers(g, w, from, A) ==
    /\ g.chunk \in Buffer /\ Fits(g.chunk) /\ g.chunk.idx = 0 /\ Holds(g.chunk, w, from, A)
    /\ g.buf \in Buffer /\ g.buf.cap >= Capacity

\* What has just arrived.
Comes(cells, w, A, n) ==
    /\ cells \in Seq(Cell) /\ Len(cells) = n /\ n \in 1..Capacity
    /\ \A i \in 1..n : cells[i] = w[A + i]

\* What arrived goes behind what is there, and recv keeps a buffer of full size.
LEMMA GatheredIs ==
    ASSUME NEW ctx \in Context, Fits(ctx.chunk), NEW b \in Buffer, b.cap >= Capacity,
           NEW w, NEW from \in Nat, NEW A \in Nat, Holds(ctx.chunk, w, from, A),
           NEW n, NEW cells, Comes(cells, w, A, n)
    PROVE  Gathers(Gathered(ctx, b, cells), w, from, A + n)
<1>1. /\ cells \in Seq(Cell) /\ Len(cells) = n /\ n \in 1..Capacity
      /\ \A i \in 1..n : cells[i] = w[A + i]
  BY DEF Comes
<1>2. Capacity \in Nat \ {0} /\ n \in Nat \ {0} /\ n <= Capacity
  BY <1>1, StreamAssumption
<1>3. b.data \in Seq(Cell) /\ b.idx \in Nat /\ b.len \in Nat /\ b.cap \in Nat
      /\ b = [data |-> b.data, idx |-> b.idx, len |-> b.len, cap |-> b.cap]
  BY BufferParts
<1>4. PICK u : u = ctx.chunk
  OBVIOUS
<1>5. /\ u \in Buffer /\ u.idx + u.len <= Len(u.data) /\ u.idx + u.len <= u.cap /\ (u.cap = 0 \/ u.cap >= Capacity)
      /\ from <= A /\ u.len = A - from /\ \A i \in 1..u.len : u.data[u.idx + i] = w[from + i]
  BY <1>4 DEF Fits, Holds
<1>6. u.data \in Seq(Cell) /\ u.idx \in Nat /\ u.len \in Nat /\ u.cap \in Nat
      /\ u = [data |-> u.data, idx |-> u.idx, len |-> u.len, cap |-> u.cap]
  BY <1>5, BufferParts
<1> DEFINE chunk == IF ctx.chunk.cap = 0 THEN Alloc(Capacity) ELSE ctx.chunk
           front == [Write(chunk, 0, InUse(chunk)) EXCEPT !.idx = 0]
<1>7. Gathered(ctx, b, cells) =
        IF chunk.len = 0
        THEN [chunk |-> [data |-> cells, idx |-> 0, len |-> Len(cells), cap |-> b.cap], buf |-> [b EXCEPT !.cap = chunk.cap]]
        ELSE [chunk |-> [Write(Realloc(front, front.len + Len(cells)), front.len, cells) EXCEPT !.len = @ + Len(cells)], buf |-> b]
  BY Zenon DEF Gathered
<1>8. u.cap = 0 => u.len = 0
  BY <1>5, <1>6
<1>9. chunk.len = u.len /\ chunk.cap \in Nat /\ chunk.cap >= Capacity
  <2>1. CASE u.cap = 0
    BY <1>2, <1>4, <1>8, <2>1 DEF Alloc
  <2>2. CASE u.cap # 0
    BY <1>4, <1>5, <1>6, <2>2
  <2> QED BY <2>1, <2>2
<1>10. PICK g : g = Gathered(ctx, b, cells)
  OBVIOUS
<1>11. CASE u.len = 0
  <2> HIDE DEF chunk
  <2>1. g = [chunk |-> [data |-> cells, idx |-> 0, len |-> Len(cells), cap |-> b.cap], buf |-> [b EXCEPT !.cap = chunk.cap]]
    BY <1>7, <1>9, <1>10, <1>11, Zenon
  <2>2. PICK v : v = g.chunk
    OBVIOUS
  <2>3. v = [data |-> cells, idx |-> 0, len |-> n, cap |-> b.cap]
    BY <1>1, <2>1, <2>2
  <2>4. v \in Buffer /\ v.data = cells /\ v.idx = 0 /\ v.len = n /\ v.cap = b.cap
    BY <1>1, <1>2, <1>3, <2>3 DEF Buffer
  <2>5. Fits(v)
    BY <1>1, <1>2, <1>3, <2>4 DEF Fits
  <2>6. from = A
    BY <1>5, <1>11
  <2>7. Holds(v, w, from, A + n)
    <3>1. from <= A + n /\ n = (A + n) - from
      BY <1>2, <2>6
    <3>2. ASSUME NEW i \in 1..n PROVE cells[0 + i] = w[from + i]
      <4>1. 0 + i = i
        BY <1>2
      <4> QED BY <1>1, <2>6, <4>1
    <3> QED BY <2>4, <3>1, <3>2 DEF Holds
  <2>8. g.buf = [data |-> b.data, idx |-> b.idx, len |-> b.len, cap |-> chunk.cap]
    BY <1>3, <2>1
  <2>9. g.buf \in Buffer /\ g.buf.cap >= Capacity
    BY <1>3, <1>9, <2>8 DEF Buffer
  <2> QED BY <1>10, <2>2, <2>4, <2>5, <2>7, <2>9 DEF Gathers
<1>12. CASE u.len # 0
  <2>1. chunk = u
    BY <1>4, <1>8, <1>12
  <2> HIDE DEF chunk
  <2>2. PICK used : used = InUse(u)
    OBVIOUS
  <2>3. /\ used \in Seq(Cell) /\ Len(used) = u.len
        /\ \A i \in 1..u.len : used[i] = u.data[u.idx + i]
    <3>1. used = SubSeq(u.data, u.idx + 1, u.idx + u.len)
      BY <2>2 DEF InUse
    <3>2. /\ SubSeq(u.data, u.idx + 1, u.idx + u.len) \in Seq(Cell) /\ Len(SubSeq(u.data, u.idx + 1, u.idx + u.len)) = u.len
          /\ \A i \in 1..u.len : SubSeq(u.data, u.idx + 1, u.idx + u.len)[i] = u.data[u.idx + i]
      <4>1. ASSUME NEW D \in Seq(Cell), NEW h \in Nat, NEW q \in Nat, h + q <= Len(D)
            PROVE  /\ SubSeq(D, h + 1, h + q) \in Seq(Cell) /\ Len(SubSeq(D, h + 1, h + q)) = q
                   /\ \A i \in 1..q : SubSeq(D, h + 1, h + q)[i] = D[h + i]
        BY <4>1, Part, Zenon
      <4> QED BY <1>5, <1>6, <4>1, Zenon
    <3> QED BY <3>1, <3>2
  <2>4. PICK D1 : /\ Written(D1, u.data, 0, used)
                  /\ Write(u, 0, used) = [data |-> D1, idx |-> u.idx, len |-> u.len, cap |-> u.cap]
    <3>1. 0 \in Nat /\ 0 <= Len(u.data)
      BY <1>6
    <3> QED BY <1>5, <2>3, <3>1, WriteIs
  <2>5. PICK l \in Nat \ {0} : l = u.len
    BY <1>6, <1>12
  <2>6. /\ D1 \in Seq(Cell) /\ l <= Len(D1)
        /\ \A i \in 1..l : D1[i] = w[from + i]
    <3>1. D1 \in Seq(Cell) /\ 0 + Len(used) <= Len(D1) /\ \A i \in 1..Len(used) : D1[0 + i] = used[i]
      BY <2>4 DEF Written
    <3>2. l <= Len(D1)
      BY <2>3, <2>5, <3>1
    <3>3. ASSUME NEW i \in 1..l PROVE D1[i] = w[from + i]
      <4>1. 0 + i = i /\ i \in 1..Len(used)
        BY <2>3, <2>5
      <4> QED BY <1>5, <2>3, <2>5, <3>1, <4>1
    <3> QED BY <3>1, <3>2, <3>3
  <2>7. front = [data |-> D1, idx |-> 0, len |-> l, cap |-> u.cap]
    BY <2>1, <2>2, <2>4, <2>5
  <2> HIDE DEF front
  <2>8. front \in Buffer /\ front.data = D1 /\ front.idx = 0 /\ front.len = l /\ front.cap = u.cap
    BY <1>6, <2>6, <2>7 DEF Buffer
  <2>9. PICK cap \in Nat : /\ l + n <= cap /\ Capacity <= cap
                           /\ Realloc(front, l + n) = [data |-> D1, idx |-> 0, len |-> l, cap |-> cap]
    <3>1. l + n \in Nat
      BY <1>2
    <3> QED BY <2>8, <3>1, ReallocIs
  <2>10. PICK f2 : f2 = Realloc(front, l + n)
    OBVIOUS
  <2>11. f2 \in Buffer /\ f2.data = D1 /\ f2.idx = 0 /\ f2.len = l /\ f2.cap = cap
    BY <2>6, <2>9, <2>10 DEF Buffer
  <2>12. PICK D2 : Written(D2, D1, l, cells) /\ Write(f2, l, cells) = [data |-> D2, idx |-> 0, len |-> l, cap |-> cap]
    <3>1. l \in Nat /\ l <= Len(f2.data)
      BY <2>6, <2>11
    <3> QED BY <1>1, <2>11, <3>1, WriteIs
  <2>13. g = [chunk |-> [Write(f2, l, cells) EXCEPT !.len = @ + n], buf |-> b]
    BY <1>1, <1>7, <1>9, <1>10, <1>12, <2>8, <2>10
  <2>14. PICK v : v = g.chunk
    OBVIOUS
  <2>15. v = [data |-> D2, idx |-> 0, len |-> l + n, cap |-> cap]
    BY <2>12, <2>13, <2>14
  <2>16. /\ D2 \in Seq(Cell) /\ l + n <= Len(D2)
         /\ \A i \in 1..n : D2[l + i] = w[A + i]
         /\ \A i \in 1..l : D2[i] = w[from + i]
    BY <1>1, <2>6, <2>12 DEF Written
  <2>17. v \in Buffer /\ v.data = D2 /\ v.idx = 0 /\ v.len = l + n /\ v.cap = cap
    BY <1>2, <2>15, <2>16 DEF Buffer
  <2>18. Fits(v)
    <3>1. 0 + (l + n) = l + n
      BY <1>2
    <3> QED BY <2>9, <2>16, <2>17, <3>1 DEF Fits
  <2>19. Holds(v, w, from, A + n)
    <3>1. l = A - from /\ from <= A
      BY <1>5, <2>5
    <3>2. from <= A + n /\ l + n = (A + n) - from
      BY <1>2, <3>1
    <3>3. ASSUME NEW i \in 1..(l + n) PROVE D2[0 + i] = w[from + i]
      <4>1. 0 + i = i
        BY <1>2
      <4>2. CASE i <= l
        <5>1. i \in 1..l
          BY <1>2, <4>2
        <5> QED BY <2>16, <4>1, <5>1
      <4>3. CASE ~(i <= l)
        <5>1. PICK j \in 1..n : l + j = i
          <6>1. i - l \in 1..n /\ l + (i - l) = i
            BY <1>2, <4>3
          <6> QED BY <6>1
        <5>2. A + j = from + i
          BY <1>2, <3>1, <5>1
        <5> QED BY <2>16, <4>1, <5>1, <5>2
      <4> QED BY <4>2, <4>3
    <3> QED BY <2>17, <3>2, <3>3 DEF Holds
  <2>20. g.buf = b
    BY <2>13
  <2> QED BY <1>10, <2>14, <2>17, <2>18, <2>19, <2>20 DEF Gathers
<1> QED BY <1>11, <1>12

-----------------------------------------------------------------------------
(* aead_decrypt *)

\* What is left in the buffer after x of its bytes is what arrived after them.
LEMMA HoldsRest ==
    ASSUME NEW b \in Buffer, Fits(b), NEW w, NEW from \in Nat, NEW A \in Nat, Holds(b, w, from, A),
           NEW to \in Nat, from <= to, to <= A,
           NEW v, v = [data |-> b.data, idx |-> IF A = to THEN 0 ELSE b.idx + (to - from), len |-> A - to, cap |-> b.cap]
    PROVE  v \in Buffer /\ Fits(v) /\ Holds(v, w, to, A)
<1>1. /\ b.idx + b.len <= Len(b.data) /\ b.idx + b.len <= b.cap /\ (b.cap = 0 \/ b.cap >= Capacity)
      /\ from <= A /\ b.len = A - from /\ \A i \in 1..b.len : b.data[b.idx + i] = w[from + i]
  BY DEF Fits, Holds
<1>2. b.data \in Seq(Cell) /\ b.idx \in Nat /\ b.len \in Nat /\ b.cap \in Nat /\ Len(b.data) \in Nat
  BY BufferParts
<1>3. PICK e \in Nat, l \in Nat, d \in Nat, p \in Nat : e = b.idx /\ l = b.len /\ d = Len(b.data) /\ p = b.cap
  BY <1>2
<1>4. e + l <= d /\ e + l <= p /\ l = A - from /\ (p = 0 \/ p >= Capacity)
  BY <1>1, <1>3
<1>5. PICK x \in Nat : x = IF A = to THEN 0 ELSE e + (to - from)
  OBVIOUS
<1>6. A - to \in Nat /\ v = [data |-> b.data, idx |-> x, len |-> A - to, cap |-> p]
  BY <1>3, <1>5
<1>7. v \in Buffer /\ v.data = b.data /\ v.idx = x /\ v.len = A - to /\ v.cap = p
  BY <1>2, <1>6 DEF Buffer
<1>8. x + (A - to) <= d /\ x + (A - to) <= p
  BY <1>4, <1>5
<1>9. Fits(v)
  BY <1>3, <1>4, <1>7, <1>8 DEF Fits
<1>10. ASSUME NEW i \in 1..(A - to) PROVE b.data[x + i] = w[to + i]
  <2>1. PICK y : y = (to - from) + i
    OBVIOUS
  <2>2. y \in 1..l /\ x + i = e + y /\ from + y = to + i
    BY <1>4, <1>5, <1>6, <2>1
  <2>3. b.data[e + y] = w[from + y]
    BY <1>1, <1>3, <2>2
  <2> QED BY <2>2, <2>3
<1>11. Holds(v, w, to, A)
  BY <1>7, <1>10 DEF Holds
<1> QED BY <1>7, <1>9, <1>11

\* What the loop leaves the receiver with.
Left(r, in, w, K, txt, off, m0, A) ==
    /\ r.ctx \in Context /\ Fits(r.ctx.chunk) /\ r.ctx.init = in /\ r.err \in {OK, NEED_MORE, ERROR}
    /\ r.err = ERROR => Tampered(w)
    /\ r.err = NEED_MORE => Reading(K, txt, off, m0, r.ctx, w, A, Text(0, txt[m0]))
    /\ r.err = OK => \E m \in 0..K : Reading(K, txt, off, m, r.ctx, w, A, Text(0, txt[m0]) \o r.plain)

\* The loop leaves a context that can go on, or a byte was changed.
LEMMA ChunksLeave ==
    ASSUME NEW c, NEW K, NEW txt, NEW off, NEW w, NEW ctx, NEW A, NEW m0, Arrived(c, K, txt, off, w, ctx, A, m0),
           Fits(ctx.chunk)
    PROVE  Left(Chunks(c, ctx), ctx.init, w, K, txt, off, m0, A)
<1>1. PICK r : r = Chunks(c, ctx)
  OBVIOUS
<1>2. ReadOut(r, ctx, w, K, txt, off, m0, A)
  BY <1>1, ChunksRead
<1>3. ctx \in Context /\ A \in Nat /\ m0 \in 0..K /\ Holds(ctx.chunk, w, off[m0], A)
  BY DEF Arrived
<1>4. K \in Nat /\ \A j \in 0..K : off[j] \in Nat /\ txt[j] \in Nat
  BY LayoutNumbers DEF Arrived
<1>5. off[m0] \in Nat /\ txt[m0] \in Nat /\ off[m0] <= A /\ ctx.chunk.len = A - off[m0]
  BY <1>3, <1>4 DEF Holds
<1>6. PICK b : b = ctx.chunk
  OBVIOUS
<1>7. /\ b \in Buffer /\ b.data \in Seq(Cell) /\ b.idx \in Nat /\ b.len \in Nat /\ b.cap \in Nat /\ Fits(b)
      /\ b.idx + b.len <= Len(b.data) /\ b.idx + b.len <= b.cap /\ (b.cap = 0 \/ b.cap >= Capacity)
  <2>1. b \in Buffer /\ Fits(b)
    BY <1>3, <1>6, ContextParts
  <2> QED BY <2>1, BufferParts DEF Fits
<1>8. OK # ERROR /\ OK # NEED_MORE /\ ERROR # NEED_MORE
  BY DEF OK, ERROR, NEED_MORE
<1>9. CASE /\ r.err = ERROR /\ Tampered(w)
           /\ \E e \in Nat, l \in 1..ctx.chunk.len : r.ctx = Moved(ctx, e, ctx.chunk.idx, l)
  <2>1. PICK e \in Nat, l \in 1..b.len : r.ctx = Moved(ctx, e, b.idx, l)
    BY <1>6, <1>9
  <2>2. l \in Nat
    BY <1>7
  <2>3. /\ r.ctx \in Context /\ r.ctx.init = ctx.init
        /\ r.ctx.chunk = [data |-> b.data, idx |-> b.idx, len |-> l, cap |-> b.cap]
    BY <1>3, <1>6, <1>7, <2>1, <2>2, MovedIs
  <2>4. PICK v : v = r.ctx.chunk
    OBVIOUS
  <2>5. v \in Buffer /\ v.data = b.data /\ v.idx = b.idx /\ v.len = l /\ v.cap = b.cap
    BY <1>7, <2>2, <2>3, <2>4 DEF Buffer
  <2>6. b.idx + l <= Len(b.data) /\ b.idx + l <= b.cap
    <3>1. PICK d \in Nat : d = Len(b.data)
      BY <1>7
    <3> QED BY <1>7, <3>1
  <2>7. Fits(v)
    BY <1>7, <2>5, <2>6 DEF Fits
  <2> QED BY <1>1, <1>8, <1>9, <2>3, <2>4, <2>7 DEF Left
<1>10. CASE /\ r.err = NEED_MORE /\ r.ctx = Moved(ctx, 2 * m0, ctx.chunk.idx, A - off[m0])
            /\ m0 < K /\ A < off[m0 + 1]
  <2>1. r.ctx = ctx
    <3>1. ctx.nonce = 2 * m0
      BY DEF Arrived
    <3>2. ctx = [init |-> ctx.init, nonce |-> ctx.nonce, chunk |-> ctx.chunk]
      BY <1>3, ContextParts
    <3>3. ctx.chunk = [data |-> ctx.chunk.data, idx |-> ctx.chunk.idx, len |-> ctx.chunk.len, cap |-> ctx.chunk.cap]
      BY <1>3, ContextParts
    <3> QED BY <1>5, <1>10, <3>1, <3>2, <3>3 DEF Moved
  <2>2. Reading(K, txt, off, m0, ctx, w, A, Text(0, txt[m0]))
    BY <1>3, <1>10 DEF Reading, Arrived
  <2> QED BY <1>1, <1>3, <1>8, <1>10, <2>1, <2>2 DEF Left
<1>11. CASE \E m \in m0..K :
            /\ r.err = OK /\ r.plain = Text(txt[m0], txt[m] - txt[m0])
            /\ r.ctx = Moved(ctx, 2 * m, IF A = off[m] THEN 0 ELSE ctx.chunk.idx + (off[m] - off[m0]), A - off[m])
            /\ txt[m0] <= txt[m] /\ off[m0] <= off[m] /\ off[m] <= A /\ (m < K => A < off[m + 1])
  <2>1. PICK m \in m0..K :
            /\ r.err = OK /\ r.plain = Text(txt[m0], txt[m] - txt[m0])
            /\ r.ctx = Moved(ctx, 2 * m, IF A = off[m] THEN 0 ELSE ctx.chunk.idx + (off[m] - off[m0]), A - off[m])
            /\ txt[m0] <= txt[m] /\ off[m0] <= off[m] /\ off[m] <= A /\ (m < K => A < off[m + 1])
    BY <1>11
  <2>2. m \in 0..K /\ off[m] \in Nat /\ txt[m] \in Nat /\ 2 * m \in Nat
    BY <1>3, <1>4
  <2>3. PICK a0 \in Nat, a \in Nat : a0 = off[m0] /\ a = off[m]
    BY <1>5, <2>2
  <2>4. a0 <= a /\ a <= A
    BY <2>1, <2>3
  <2>5. PICK x : x = IF A = a THEN 0 ELSE b.idx + (a - a0)
    OBVIOUS
  <2>6. x \in Nat /\ A - a \in Nat
    BY <1>3, <1>7, <2>4, <2>5
  <2>7. r.ctx = Moved(ctx, 2 * m, x, A - a)
    BY <1>6, <2>1, <2>3, <2>5
  <2>8. /\ r.ctx \in Context /\ r.ctx.init = ctx.init /\ r.ctx.nonce = 2 * m
        /\ r.ctx.chunk = [data |-> b.data, idx |-> x, len |-> A - a, cap |-> b.cap]
    BY <1>3, <1>6, <2>2, <2>6, <2>7, MovedIs
  <2>9. PICK v : v = r.ctx.chunk
    OBVIOUS
  <2>10. v = [data |-> b.data, idx |-> IF A = a THEN 0 ELSE b.idx + (a - a0), len |-> A - a, cap |-> b.cap]
    BY <2>5, <2>8, <2>9
  <2>11. Fits(v) /\ Holds(v, w, a, A)
    <3>1. Holds(b, w, a0, A)
      BY <1>3, <1>6, <2>3
    <3> QED BY <1>3, <1>7, <2>4, <2>10, <3>1, HoldsRest
  <2>12. Text(0, txt[m0]) \o r.plain = Text(0, txt[m])
    <3>1. PICK t0 \in Nat, t \in Nat : t0 = txt[m0] /\ t = txt[m]
      BY <1>5, <2>2
    <3>2. t0 <= t
      BY <2>1, <3>1
    <3>3. PICK q \in Nat : q = t - t0 /\ t0 + q = t /\ 0 + t0 = t0
      BY <3>2
    <3>4. Text(0, t0) \o Text(0 + t0, q) = Text(0, t0 + q)
      <4>1. 0 \in Nat
        OBVIOUS
      <4> QED BY <4>1, TextJoin
    <3> QED BY <2>1, <3>1, <3>3, <3>4
  <2>13. Reading(K, txt, off, m, r.ctx, w, A, Text(0, txt[m0]) \o r.plain)
    BY <2>1, <2>2, <2>3, <2>8, <2>9, <2>11, <2>12 DEF Reading
  <2> QED BY <1>1, <1>8, <2>1, <2>2, <2>8, <2>9, <2>11, <2>13 DEF Left
<1> QED BY <1>2, <1>9, <1>10, <1>11 DEF ReadOut

\* What aead_decrypt promises.
Delivered(r, c, K, txt, off, w, A, g) ==
    /\ Parts(r.ctx, r.buf) /\ r.err \in {OK, NEED_MORE, ERROR} /\ r.known \in {known, TRUE}
    /\ r.err # ERROR => Runs(c, K, txt, off, r.ctx, w, A, g \o r.plain)
    /\ r.err = ERROR => (Tampered(w) \/ r.known = TRUE) /\ Stopped(K, txt, g \o r.plain)

\* After the loop.
Finish(q, room) ==
    IF q.err # OK THEN [err |-> q.err, ctx |-> q.ctx, buf |-> room, plain |-> << >>, known |-> known]
    ELSE IF q.ctx.init = 1 /\ known THEN [err |-> ERROR, ctx |-> q.ctx, buf |-> room, plain |-> << >>, known |-> known]
    ELSE [err |-> OK, ctx |-> [q.ctx EXCEPT !.init = 2], buf |-> room, plain |-> q.plain, known |-> TRUE]

\* Where the receiver is depends on the nonce and the chunk buffer.
LEMMA ReadingKeeps ==
    ASSUME NEW K, NEW txt, NEW off, NEW m, NEW ctx, NEW ctx2, NEW w, NEW A, NEW g,
           ctx2.nonce = ctx.nonce, ctx2.chunk = ctx.chunk, Reading(K, txt, off, m, ctx, w, A, g)
    PROVE  Reading(K, txt, off, m, ctx2, w, A, g)
  BY DEF Reading

\* The end of aead_decrypt delivers what the loop gave.
LEMMA FinishIs ==
    ASSUME NEW c, NEW K, NEW txt, NEW off, NEW w, NEW A, NEW m0 \in 0..K, K \in Nat, txt[m0] \in Nat, known \in BOOLEAN,
           NEW q, NEW in \in 1..2, Left(q, in, w, K, txt, off, m0, A), NEW room \in Buffer, room.cap >= Capacity
    PROVE  Delivered(Finish(q, room), c, K, txt, off, w, A, Text(0, txt[m0]))
<1>1. PICK r : r = Finish(q, room)
  OBVIOUS
<1>2. PICK g : g = Text(0, txt[m0])
  OBVIOUS
<1>3. g \in Seq(Nat) /\ g \o << >> = g
  BY <1>2, FirstText, ConcatEmptySeq
<1>4. OK # ERROR /\ OK # NEED_MORE /\ ERROR # NEED_MORE
  BY DEF OK, ERROR, NEED_MORE
<1>5. /\ q.ctx \in Context /\ Fits(q.ctx.chunk) /\ q.ctx.init = in /\ q.err \in {OK, NEED_MORE, ERROR}
      /\ q.err = ERROR => Tampered(w)
      /\ q.err = NEED_MORE => Reading(K, txt, off, m0, q.ctx, w, A, g)
      /\ q.err = OK => \E m \in 0..K : Reading(K, txt, off, m, q.ctx, w, A, g \o q.plain)
  BY <1>2 DEF Left
<1>6. Stopped(K, txt, g)
  BY <1>2 DEF Stopped
<1>7. in \in 0..2 /\ in # 0
  OBVIOUS
<1>8. CASE q.err # OK
  <2>1. r.err = q.err /\ r.ctx = q.ctx /\ r.buf = room /\ r.plain = << >> /\ r.known = known
    BY <1>1, <1>8 DEF Finish
  <2>2. Parts(r.ctx, r.buf)
    BY <1>5, <1>7, <2>1 DEF Parts
  <2>3. CASE q.err = ERROR
    BY <1>1, <1>2, <1>3, <1>5, <1>6, <2>1, <2>2, <2>3 DEF Delivered
  <2>4. CASE q.err = NEED_MORE
    <3>1. Reading(K, txt, off, m0, r.ctx, w, A, g \o r.plain)
      BY <1>3, <1>5, <2>1, <2>4
    <3>2. Runs(c, K, txt, off, r.ctx, w, A, g \o r.plain)
      BY <1>5, <1>7, <2>1, <3>1 DEF Runs
    <3> QED BY <1>1, <1>2, <1>4, <1>5, <2>1, <2>2, <2>4, <3>2 DEF Delivered
  <2> QED BY <1>5, <1>8, <2>3, <2>4
<1>9. CASE q.err = OK /\ q.ctx.init = 1 /\ known
  <2>1. r.err = ERROR /\ r.ctx = q.ctx /\ r.buf = room /\ r.plain = << >> /\ r.known = TRUE
    BY <1>1, <1>9 DEF Finish
  <2>2. Parts(r.ctx, r.buf)
    BY <1>5, <1>7, <2>1 DEF Parts
  <2> QED BY <1>1, <1>2, <1>3, <1>6, <2>1, <2>2 DEF Delivered
<1>10. CASE q.err = OK /\ ~(q.ctx.init = 1 /\ known)
  <2>1. r.err = OK /\ r.ctx = [q.ctx EXCEPT !.init = 2] /\ r.buf = room /\ r.plain = q.plain /\ r.known = TRUE
    BY <1>1, <1>10 DEF Finish
  <2>2. PICK x : x = r.ctx
    OBVIOUS
  <2>3. x \in Context /\ x.init = 2 /\ x.nonce = q.ctx.nonce /\ x.chunk = q.ctx.chunk
    BY <1>5, <2>1, <2>2 DEF Context
  <2>4. Parts(r.ctx, r.buf)
    BY <1>5, <2>1, <2>2, <2>3 DEF Parts
  <2>5. PICK m \in 0..K : Reading(K, txt, off, m, q.ctx, w, A, g \o q.plain)
    BY <1>5, <1>10
  <2>6. Reading(K, txt, off, m, x, w, A, g \o q.plain)
    BY <2>3, <2>5, ReadingKeeps
  <2>7. Runs(c, K, txt, off, r.ctx, w, A, g \o r.plain)
    BY <2>1, <2>2, <2>3, <2>6 DEF Runs
  <2> QED BY <1>1, <1>2, <1>4, <2>1, <2>4, <2>7 DEF Delivered
<1> QED BY <1>8, <1>9, <1>10

\* The salt is taken off the front.
SaltOff(x, n) == [x EXCEPT !.init = 1, !.nonce = 0, !.chunk.idx = @ + n, !.chunk.len = @ - n]

\* Taking off the salt.
LEMMA Salted ==
    ASSUME NEW data, NEW idx, NEW len, NEW cap, NEW nonce, NEW n,
           NEW x, x = [init |-> 0, nonce |-> nonce, chunk |-> [data |-> data, idx |-> idx, len |-> len, cap |-> cap]]
    PROVE  SaltOff(x, n) =
           [init |-> 1, nonce |-> 0, chunk |-> [data |-> data, idx |-> idx + n, len |-> len - n, cap |-> cap]]
<1>1. SaltOff(x, n) =
           [[[[x EXCEPT !.init = 1] EXCEPT !.nonce = 0] EXCEPT !.chunk.idx = @ + n] EXCEPT !.chunk.len = @ - n]
  BY DEF SaltOff
<1>2. PICK y : y = [[x EXCEPT !.init = 1] EXCEPT !.nonce = 0]
  OBVIOUS
<1>3. y = [init |-> 1, nonce |-> 0, chunk |-> [data |-> data, idx |-> idx, len |-> len, cap |-> cap]]
  BY <1>2
<1>4. PICK z : z = [y EXCEPT !.chunk.idx = @ + n]
  OBVIOUS
<1>5. z = [init |-> 1, nonce |-> 0, chunk |-> [data |-> data, idx |-> idx + n, len |-> len, cap |-> cap]]
  BY <1>3, <1>4
<1>6. [z EXCEPT !.chunk.len = @ - n] = [init |-> 1, nonce |-> 0, chunk |-> [data |-> data, idx |-> idx + n, len |-> len - n, cap |-> cap]]
  BY <1>5
<1> QED BY <1>1, <1>2, <1>4, <1>6

\* aead_decrypt delivers, however much has arrived.
LEMMA AeadReceives ==
    ASSUME NEW c, IsCipher(c), c.kind = "aead", NEW K, NEW txt, NEW off, Layout(c, K, txt, off),
           NEW w, Chunked(c, w, K, txt, off), NEW ctx, NEW b, Parts(ctx, b), NEW A \in Nat, NEW n, A + n <= Len(w),
           NEW g, Runs(c, K, txt, off, ctx, w, A, g), NEW cells, Comes(cells, w, A, n), known \in BOOLEAN
    PROVE  Delivered(AeadDecrypt(c, ctx, b, cells), c, K, txt, off, w, A + n, g)
<1>1. /\ ctx \in Context /\ Fits(ctx.chunk) /\ ctx.init \in 0..2 /\ b \in Buffer /\ b.cap >= Capacity
  BY DEF Parts
<1>2. /\ K \in Nat /\ c.salt \in Nat /\ off[0] = c.salt /\ txt[0] = 0 /\ Capacity \in Nat
      /\ \A j \in 0..K : off[j] \in Nat /\ txt[j] \in Nat
  BY LayoutNumbers
<1>3. n \in Nat \ {0} /\ A + n \in Nat
  BY <1>2 DEF Comes
<1>4. PICK B \in Nat : B = A + n /\ B <= Len(w)
  BY <1>3
<1>5. PICK h : h = Gathered(ctx, b, cells)
  OBVIOUS
<1>6. PICK have : have = [ctx EXCEPT !.chunk = h.chunk]
  OBVIOUS
<1>7. PICK room : room = Realloc(h.buf, h.chunk.len)
  OBVIOUS
<1>8. PICK keyed : keyed = IF ctx.init # 0 THEN have
                 ELSE [have EXCEPT !.init = 1, !.nonce = 0, !.chunk.idx = @ + c.salt, !.chunk.len = @ - c.salt]
  OBVIOUS
<1>9. PICK q : q = Chunks(c, keyed)
  OBVIOUS
<1>10. PICK r : r = AeadDecrypt(c, ctx, b, cells)
  OBVIOUS
<1>11. r = IF ctx.init = 0 /\ have.chunk.len <= c.salt
           THEN [err |-> NEED_MORE, ctx |-> have, buf |-> room, plain |-> << >>, known |-> known]
           ELSE IF ctx.init = 0 /\ known
           THEN [err |-> ERROR, ctx |-> have, buf |-> room, plain |-> << >>, known |-> known]
           ELSE Finish(q, room)
  BY <1>5, <1>6, <1>7, <1>8, <1>9, <1>10 DEF AeadDecrypt, Finish
<1>12. OK # ERROR /\ OK # NEED_MORE /\ ERROR # NEED_MORE
  BY DEF OK, ERROR, NEED_MORE
<1>13. ASSUME NEW from \in Nat, Gathers(h, w, from, B)
       PROVE  /\ room \in Buffer /\ room.cap >= Capacity
              /\ have \in Context /\ have.init = ctx.init /\ have.nonce = ctx.nonce /\ have.chunk = h.chunk
              /\ Fits(have.chunk) /\ have.chunk \in Buffer /\ have.chunk.idx = 0 /\ Holds(have.chunk, w, from, B)
  <2>1. /\ h.chunk \in Buffer /\ Fits(h.chunk) /\ h.chunk.idx = 0 /\ Holds(h.chunk, w, from, B)
        /\ h.buf \in Buffer /\ h.buf.cap >= Capacity
    BY <1>13 DEF Gathers
  <2>2. h.chunk.len \in Nat /\ h.buf.data \in Seq(Cell) /\ h.buf.idx \in Nat /\ h.buf.len \in Nat
    BY <2>1, BufferParts
  <2>3. PICK cap \in Nat : /\ Capacity <= cap
                           /\ room = [data |-> h.buf.data, idx |-> h.buf.idx, len |-> h.buf.len, cap |-> cap]
    BY <1>7, <2>1, <2>2, ReallocIs
  <2>4. room \in Buffer /\ room.cap >= Capacity
    BY <1>2, <2>2, <2>3 DEF Buffer
  <2>5. have \in Context /\ have.init = ctx.init /\ have.nonce = ctx.nonce /\ have.chunk = h.chunk
    BY <1>1, <1>6, <2>1 DEF Context
  <2> QED BY <2>1, <2>4, <2>5
<1>14. CASE ctx.init # 0
  <2>1. PICK m0 \in 0..K : Reading(K, txt, off, m0, ctx, w, A, g)
    BY <1>14 DEF Runs
  <2>2. PICK from \in Nat : from = off[m0]
    BY <1>2
  <2>3. ctx.nonce = 2 * m0 /\ g = Text(0, txt[m0]) /\ Holds(ctx.chunk, w, from, A)
    BY <2>1, <2>2 DEF Reading
  <2>4. Gathers(h, w, from, B)
    BY <1>1, <1>4, <1>5, <2>3, GatheredIs
  <2>5. /\ room \in Buffer /\ room.cap >= Capacity
        /\ have \in Context /\ have.init = ctx.init /\ have.nonce = ctx.nonce
        /\ Fits(have.chunk) /\ Holds(have.chunk, w, from, B)
    BY <1>13, <2>4
  <2>6. Arrived(c, K, txt, off, w, have, B, m0)
    BY <1>4, <2>2, <2>3, <2>5 DEF Arrived, Fits
  <2>7. keyed = have
    BY <1>8, <1>14
  <2>8. Left(q, ctx.init, w, K, txt, off, m0, B)
    BY <1>9, <2>5, <2>6, <2>7, ChunksLeave
  <2>9. ctx.init \in 1..2
    BY <1>1, <1>14
  <2>10. Delivered(Finish(q, room), c, K, txt, off, w, B, Text(0, txt[m0]))
    BY <1>2, <2>5, <2>8, <2>9, FinishIs
  <2>11. r = Finish(q, room)
    BY <1>11, <1>14
  <2> QED BY <1>4, <1>10, <2>3, <2>10, <2>11
<1>15. CASE ctx.init = 0
  <2>1. g = << >> /\ Holds(ctx.chunk, w, 0, A) /\ A <= c.salt
    BY <1>15 DEF Runs
  <2>2. Gathers(h, w, 0, B)
    <3>1. 0 \in Nat
      OBVIOUS
    <3> QED BY <1>1, <1>4, <1>5, <2>1, <3>1, GatheredIs
  <2>3. /\ room \in Buffer /\ room.cap >= Capacity
        /\ have \in Context /\ have.init = 0 /\ have.nonce = ctx.nonce /\ have.chunk \in Buffer
        /\ Fits(have.chunk) /\ have.chunk.idx = 0 /\ Holds(have.chunk, w, 0, B)
    <3>1. 0 \in Nat
      OBVIOUS
    <3> QED BY <1>13, <1>15, <2>2, <3>1
  <2>4. have.chunk.len = B
    <3>1. have.chunk.len = B - 0
      BY <2>3 DEF Holds
    <3> QED BY <3>1
  <2>5. Parts(have, room)
    BY <2>3 DEF Parts
  <2>6. g \o << >> = << >> /\ Text(0, 0) = << >> /\ 0 \in 0..K
    <3>1. << >> \o << >> = << >>
      BY ConcatEmptySeq, EmptySeq
    <3>2. Text(0, 0) = << >>
      BY DEF Text
    <3> QED BY <1>2, <2>1, <3>1, <3>2
  <2>7. CASE B <= c.salt
    <3>1. r.err = NEED_MORE /\ r.ctx = have /\ r.buf = room /\ r.plain = << >> /\ r.known = known
      BY <1>11, <1>15, <2>4, <2>7
    <3>2. Runs(c, K, txt, off, have, w, B, g \o << >>)
      BY <2>3, <2>6, <2>7 DEF Runs
    <3>3. Delivered(r, c, K, txt, off, w, B, g)
      BY <1>12, <2>5, <3>1, <3>2 DEF Delivered
    <3> QED BY <1>4, <1>10, <3>3
  <2>8. CASE ~(B <= c.salt) /\ known
    <3>1. r.err = ERROR /\ r.ctx = have /\ r.buf = room /\ r.plain = << >> /\ r.known = TRUE
      BY <1>11, <1>15, <2>4, <2>8
    <3>2. Stopped(K, txt, g \o << >>)
      BY <1>2, <2>6 DEF Stopped
    <3>3. Delivered(r, c, K, txt, off, w, B, g)
      BY <2>5, <3>1, <3>2 DEF Delivered
    <3> QED BY <1>4, <1>10, <3>3
  <2>9. CASE ~(B <= c.salt) /\ ~known
    <3>1. r = Finish(q, room)
      BY <1>11, <1>15, <2>4, <2>9
    <3>2. PICK u : u = have.chunk
      OBVIOUS
    <3>3. u.data \in Seq(Cell) /\ u.cap \in Nat /\ u = [data |-> u.data, idx |-> 0, len |-> B, cap |-> u.cap]
      BY <2>3, <2>4, <3>2, BufferParts
    <3>4. PICK s \in Nat : s = c.salt /\ s <= B /\ B # s /\ B - s \in Nat
      BY <1>2, <2>9
    <3>5. PICK v : v = [data |-> u.data, idx |-> IF B = s THEN 0 ELSE u.idx + (s - 0), len |-> B - s, cap |-> u.cap]
      OBVIOUS
    <3>6. v \in Buffer /\ Fits(v) /\ Holds(v, w, s, B)
      <4>1. 0 \in Nat /\ 0 <= s /\ u \in Buffer /\ Fits(u) /\ Holds(u, w, 0, B)
        BY <2>3, <3>2
      <4> QED BY <3>4, <3>5, <4>1, HoldsRest
    <3>7. v = [data |-> u.data, idx |-> s, len |-> B - s, cap |-> u.cap]
      <4>1. u.idx = 0 /\ 0 + (s - 0) = s
        BY <3>3
      <4> QED BY <3>4, <3>5, <4>1
    <3>8. keyed = [init |-> 1, nonce |-> 0, chunk |-> v]
      <4>1. have = [init |-> 0, nonce |-> have.nonce, chunk |-> u]
        BY <2>3, <3>2 DEF Context
      <4>2. keyed = SaltOff(have, s)
        BY <1>8, <1>15, <3>4, Zenon DEF SaltOff
      <4>3. have = [init |-> 0, nonce |-> have.nonce, chunk |-> [data |-> u.data, idx |-> 0, len |-> B, cap |-> u.cap]]
        BY <3>3, <4>1
      <4>4. keyed = [init |-> 1, nonce |-> 0, chunk |-> [data |-> u.data, idx |-> 0 + s, len |-> B - s, cap |-> u.cap]]
        BY <3>4, <4>2, <4>3, Salted
      <4>5. 0 + s = s
        OBVIOUS
      <4> QED BY <3>7, <4>4, <4>5
    <3>9. keyed \in Context /\ keyed.init = 1 /\ keyed.nonce = 2 * 0 /\ keyed.chunk = v
      BY <3>6, <3>8 DEF Context
    <3>10. Arrived(c, K, txt, off, w, keyed, B, 0)
      BY <1>2, <1>4, <2>6, <3>4, <3>6, <3>9 DEF Arrived, Fits
    <3>11. Left(q, 1, w, K, txt, off, 0, B)
      BY <1>9, <3>6, <3>9, <3>10, ChunksLeave
    <3>12. Delivered(Finish(q, room), c, K, txt, off, w, B, Text(0, txt[0]))
      <4>1. 1 \in 1..2 /\ txt[0] \in Nat
        BY <1>2
      <4> QED BY <1>2, <2>3, <2>6, <3>11, <4>1, FinishIs
    <3> QED BY <1>2, <1>4, <1>10, <2>1, <2>6, <3>1, <3>12
  <2> QED BY <2>7, <2>8, <2>9
<1> QED BY <1>14, <1>15

-----------------------------------------------------------------------------
(* The steps of a connection with an AEAD cipher *)

\* What has not arrived is nothing to the receiver.
LEMMA RunsOn ==
    ASSUME NEW c, NEW K \in Nat, NEW txt, NEW off, NEW ctx, NEW w, NEW A \in Nat, NEW g,
           Runs(c, K, txt, off, ctx, w, A, g), \A j \in 0..K : off[j] \in Nat,
           Fits(ctx.chunk), NEW w2, \A i \in 1..A : w2[i] = w[i],
           NEW K2 \in Nat, K <= K2, NEW txt2, NEW off2, \A j \in 0..K : txt2[j] = txt[j] /\ off2[j] = off[j],
           K < K2 => A < off2[K + 1]
    PROVE  Runs(c, K2, txt2, off2, ctx, w2, A, g)
<1>1. ASSUME NEW from \in Nat, Holds(ctx.chunk, w, from, A) PROVE Holds(ctx.chunk, w2, from, A)
  <2>1. /\ from <= A /\ ctx.chunk.len = A - from
        /\ \A i \in 1..ctx.chunk.len : ctx.chunk.data[ctx.chunk.idx + i] = w[from + i]
    BY <1>1 DEF Holds
  <2>2. ASSUME NEW i \in 1..ctx.chunk.len PROVE ctx.chunk.data[ctx.chunk.idx + i] = w2[from + i]
    <3>1. i \in 1..(A - from)
      BY <2>1
    <3>2. from + i \in 1..A
      BY <2>1, <3>1
    <3> QED BY <2>1, <3>2
  <2> QED BY <2>1, <2>2 DEF Holds
<1>2. CASE ctx.init = 0
  <2>1. 0 \in Nat
    OBVIOUS
  <2> QED BY <1>1, <1>2, <2>1 DEF Runs
<1>3. CASE ctx.init # 0
  <2>1. PICK m \in 0..K : Reading(K, txt, off, m, ctx, w, A, g)
    BY <1>3 DEF Runs
  <2>2. m \in 0..K2 /\ off2[m] = off[m] /\ txt2[m] = txt[m] /\ off[m] \in Nat
    OBVIOUS
  <2>3. ctx.nonce = 2 * m /\ g = Text(0, txt2[m]) /\ Holds(ctx.chunk, w2, off2[m], A)
    BY <1>1, <2>1, <2>2 DEF Reading
  <2>4. m < K2 => A < off2[m + 1]
    <3>1. CASE m = K
      BY <3>1
    <3>2. CASE m # K
      <4>1. m < K /\ m + 1 \in 0..K
        BY <3>2
      <4>2. A < off[m + 1]
        BY <2>1, <4>1 DEF Reading
      <4> QED BY <4>1, <4>2
    <3> QED BY <3>1, <3>2
  <2>5. Reading(K2, txt2, off2, m, ctx, w2, A, g)
    BY <2>2, <2>3, <2>4 DEF Reading
  <2> QED BY <1>3, <2>2, <2>5 DEF Runs
<1> QED BY <1>2, <1>3

\* A receiver that stopped stays where it was.
LEMMA StopsOn ==
    ASSUME NEW K \in Nat, NEW txt, NEW g, Stopped(K, txt, g), NEW K2 \in Nat, K <= K2, NEW txt2, \A j \in 0..K : txt2[j] = txt[j]
    PROVE  Stopped(K2, txt2, g)
  BY DEF Stopped

\* A step of the sender.
LEMMA AeadSends ==
    ASSUME IsCipher(cipher), cipher.kind = "aead", NEW K \in Nat, NEW txt, NEW off, AeadAt(K, txt, off),
           NEW n \in 1..Capacity, SendBytes(n)
    PROVE  AeadInv'
<1> DEFINE c == cipher
<1>1. /\ Layout(c, K, txt, off) /\ Chunked(c, wire, K, txt, off)
      /\ sent = txt[K] /\ enc \in Context /\ enc.nonce = 2 * K /\ enc.init = IF K = 0 THEN 0 ELSE 1
      /\ Parts(dec, buf) /\ arrived \in 0..Len(wire)
      /\ ~failed => Runs(c, K, txt, off, dec, wire, arrived, got)
      /\ failed => (Tampered(wire) \/ known = TRUE) /\ Stopped(K, txt, got)
  BY DEF AeadAt
<1>2. PICK txt2 : txt2 = [k \in 0..(K + 1) |-> IF k = K + 1 THEN txt[K] + n ELSE txt[k]]
  OBVIOUS
<1>3. PICK off2 : off2 = [k \in 0..(K + 1) |-> IF k = K + 1 THEN off[K] + LenLen + 2 * c.tag + n ELSE off[k]]
  OBVIOUS
<1>4. Layout(c, K + 1, txt2, off2)
  BY <1>1, <1>2, <1>3, LayoutGrows
<1>5. PICK out : out = (IF K = 0 THEN SaltCells(c) ELSE << >>) \o ChunkEncrypt(c, 2 * K, Text(txt[K], n))
  OBVIOUS
<1>6. Chunked(c, wire \o out, K + 1, txt2, off2)
  BY <1>1, <1>2, <1>3, <1>5, ChunkedGrows
<1>7. /\ LenLen \in Nat \ {0} /\ c.tag \in Nat /\ c.salt \in Nat /\ txt[K] \in Nat /\ off[K] \in Nat /\ off[0] = c.salt
      /\ \A j \in 0..K : txt[j] \in Nat /\ off[j] \in Nat
  BY <1>1, LayoutNumbers
<1>8. Encrypt(c, enc, Text(sent, n)) =
        [ctx |-> [init |-> 1, nonce |-> 2 * (K + 1), chunk |-> enc.chunk], out |-> out]
  <2>1. PICK p : p = Text(txt[K], n) /\ p = Text(sent, n)
    BY <1>1
  <2>2. p \in Seq(Nat) /\ Len(p) = n /\ p # << >>
    <3>1. n \in Nat /\ n # 0
      BY StreamAssumption
    <3>2. p \in Seq(Nat) /\ Len(p) = n
      <4>1. PICK t \in Nat : t = txt[K]
        BY <1>7
      <4>2. Text(t, n) \in Seq(Nat) /\ Len(Text(t, n)) = n
        BY <3>1, TextIs
      <4> QED BY <2>1, <4>1, <4>2
    <3> QED BY <3>1, <3>2, EmptySeq
  <2>3. PICK start : start = IF enc.init = 0 THEN [enc EXCEPT !.init = 1, !.nonce = 0] ELSE enc
    OBVIOUS
  <2>4. Encrypt(c, enc, p) = [ctx |-> [start EXCEPT !.nonce = @ + 2],
              out |-> (IF enc.init = 0 THEN SaltCells(c) ELSE << >>) \o ChunkEncrypt(c, start.nonce, p)]
    BY <2>2, <2>3, Zenon DEF Encrypt, AeadEncrypt
  <2>5. enc = [init |-> enc.init, nonce |-> enc.nonce, chunk |-> enc.chunk]
    BY <1>1 DEF Context
  <2>6. start = [init |-> 1, nonce |-> 2 * K, chunk |-> enc.chunk]
    <3>1. CASE K = 0
      <4>1. start = [enc EXCEPT !.init = 1, !.nonce = 0] /\ 2 * K = 0
        BY <1>1, <2>3, <3>1
      <4>2. start = [init |-> 1, nonce |-> 0, chunk |-> enc.chunk]
        BY <2>5, <4>1
      <4> QED BY <4>1, <4>2
    <3>2. CASE K # 0
      BY <1>1, <2>3, <2>5, <3>2
    <3> QED BY <3>1, <3>2
  <2>7. 2 * K + 2 = 2 * (K + 1)
    OBVIOUS
  <2>8. [start EXCEPT !.nonce = @ + 2] = [init |-> 1, nonce |-> 2 * (K + 1), chunk |-> enc.chunk] /\ start.nonce = 2 * K
    BY <2>6, <2>7
  <2>9. enc.init = 0 <=> K = 0
    BY <1>1
  <2> QED BY <1>5, <2>1, <2>4, <2>8, <2>9
<1>9. /\ enc' = [init |-> 1, nonce |-> 2 * (K + 1), chunk |-> enc.chunk] /\ wire' = wire \o out /\ sent' = sent + n
      /\ UNCHANGED <<cipher, dec, arrived, buf, got, known, failed>>
  BY <1>8 DEF SendBytes
<1>10. wire \in Seq(Cell) /\ wire' \in Seq(Cell) /\ Len(wire) = (IF K = 0 THEN 0 ELSE off[K]) /\ out \in Seq(Cell)
  <2>1. wire \in Seq(Cell) /\ Len(wire) = (IF K = 0 THEN 0 ELSE off[K])
    BY <1>1 DEF Chunked
  <2>2. wire' \in Seq(Cell)
    BY <1>6, <1>9 DEF Chunked
  <2>3. out \in Seq(Cell)
    <3>1. Text(txt[K], n) \in Seq(Nat) /\ Len(Text(txt[K], n)) \in 1..Capacity /\ 2 * K \in Nat
      <4>1. n \in Nat
        BY StreamAssumption
      <4>2. PICK t \in Nat : t = txt[K]
        BY <1>7
      <4>3. Text(t, n) \in Seq(Nat) /\ Len(Text(t, n)) = n
        BY <4>1, TextIs
      <4> QED BY <4>2, <4>3
    <3>2. ChunkEncrypt(c, 2 * K, Text(txt[K], n)) \in Seq(Cell)
      BY <3>1, ChunkCells
    <3>3. SaltCells(c) \in Seq(Cell) /\ << >> \in Seq(Cell)
      BY SaltIs, EmptySeq
    <3> QED BY <1>5, <3>2, <3>3, ConcatProperties
  <2> QED BY <2>1, <2>2, <2>3
<1>11. Len(wire') = Len(wire) + Len(out) /\ \A i \in 1..Len(wire) : wire'[i] = wire[i]
  BY <1>9, <1>10, ConcatProperties
<1>12. arrived \in Nat /\ arrived <= Len(wire) /\ Len(wire) <= off[K] /\ Len(out) \in Nat /\ Len(wire) \in Nat
  BY <1>1, <1>7, <1>10
<1>13. \A j \in 0..K : txt2[j] = txt[j] /\ off2[j] = off[j]
  <2> SUFFICES ASSUME NEW j \in 0..K PROVE txt2[j] = txt[j] /\ off2[j] = off[j]
    OBVIOUS
  <2>1. j \in 0..(K + 1) /\ j # K + 1
    OBVIOUS
  <2> QED BY <1>2, <1>3, <2>1
<1>14. txt2[K + 1] = txt[K] + n /\ arrived < off2[K + 1]
  <2>1. K + 1 \in 0..(K + 1)
    OBVIOUS
  <2>2. off2[K + 1] = off[K] + LenLen + 2 * c.tag + n
    BY <1>3, <2>1
  <2>3. PICK o \in Nat, t \in Nat, l \in Nat \ {0}, k \in Nat : o = off[K] /\ t = c.tag /\ l = LenLen /\ k = n
    BY <1>7, StreamAssumption
  <2>4. arrived <= o
    BY <1>12, <2>3
  <2>5. arrived < o + l + 2 * t + k
    BY <1>12, <2>4
  <2> QED BY <1>2, <2>1, <2>2, <2>3, <2>5
<1>15. /\ ~failed => Runs(c, K + 1, txt2, off2, dec, wire', arrived, got)
       /\ Stopped(K, txt, got) => Stopped(K + 1, txt2, got)
       /\ Tampered(wire) => Tampered(wire')
  <2>1. K + 1 \in Nat /\ K <= K + 1
    OBVIOUS
  <2>2. \A i \in 1..arrived : wire'[i] = wire[i]
    BY <1>11, <1>12
  <2>3. Fits(dec.chunk)
    BY <1>1 DEF Parts
  <2>4. ~failed => Runs(c, K + 1, txt2, off2, dec, wire', arrived, got)
    BY <1>1, <1>7, <1>12, <1>13, <1>14, <2>1, <2>2, <2>3, RunsOn
  <2>5. Stopped(K, txt, got) => Stopped(K + 1, txt2, got)
    BY <1>13, <2>1, StopsOn
  <2>6. Tampered(wire) => Tampered(wire')
    BY <1>11, <1>12 DEF Tampered
  <2> QED BY <2>4, <2>5, <2>6
<1>16. AeadAt(K + 1, txt2, off2)'
  <2>1. enc' \in Context /\ enc'.nonce = 2 * (K + 1) /\ enc'.init = 1 /\ K + 1 # 0
    BY <1>1, <1>9 DEF Context
  <2>2. arrived' \in 0..Len(wire')
    BY <1>9, <1>11, <1>12
  <2>3. sent' = txt2[K + 1]
    BY <1>1, <1>9, <1>14
  <2>4. Chunked(cipher, wire', K + 1, txt2, off2)
    BY <1>6, <1>9
  <2>5. /\ ~failed' => Runs(cipher', K + 1, txt2, off2, dec', wire', arrived', got')
        /\ failed' => (Tampered(wire') \/ known' = TRUE) /\ Stopped(K + 1, txt2, got')
    BY <1>1, <1>9, <1>15
  <2>6. Parts(dec', buf')
    BY <1>1, <1>9
  <2> QED BY <1>4, <1>9, <2>1, <2>2, <2>3, <2>4, <2>5, <2>6 DEF AeadAt
<1>17. K + 1 \in Nat /\ txt2 \in [0..(K + 1) -> Nat] /\ off2 \in [0..(K + 1) -> Nat]
  BY <1>4 DEF Layout
<1> QED BY <1>16, <1>17 DEF AeadInv

\* recv gives the next bytes of the wire.
LEMMA NextBytes ==
    ASSUME NEW w \in Seq(Cell), NEW A \in Nat, NEW n \in 1..Capacity, A + n <= Len(w)
    PROVE  Comes(SubSeq(w, A + 1, A + n), w, A, n)
<1>1. n \in Nat
  BY StreamAssumption
<1>2. /\ SubSeq(w, A + 1, A + n) \in Seq(Cell) /\ Len(SubSeq(w, A + 1, A + n)) = n
      /\ \A i \in 1..n : SubSeq(w, A + 1, A + n)[i] = w[A + i]
  BY <1>1, Part
<1> QED BY <1>2 DEF Comes

\* A step of the receiver.
LEMMA AeadReceiveStep ==
    ASSUME IsCipher(cipher), cipher.kind = "aead", known \in BOOLEAN,
           NEW K \in Nat, NEW txt \in [0..K -> Nat], NEW off \in [0..K -> Nat], AeadAt(K, txt, off),
           NEW n \in 1..Capacity, Receive(n)
    PROVE  AeadInv' /\ failed' \in BOOLEAN /\ known' \in BOOLEAN
<1>1. /\ Layout(cipher, K, txt, off) /\ Chunked(cipher, wire, K, txt, off)
      /\ sent = txt[K] /\ enc \in Context /\ enc.nonce = 2 * K /\ enc.init = IF K = 0 THEN 0 ELSE 1
      /\ Parts(dec, buf) /\ arrived \in 0..Len(wire)
      /\ ~failed => Runs(cipher, K, txt, off, dec, wire, arrived, got)
  BY DEF AeadAt
<1>2. PICK cells : cells = SubSeq(wire, arrived + 1, arrived + n)
  OBVIOUS
<1>3. PICK r : r = AeadDecrypt(cipher, dec, buf, cells)
  OBVIOUS
<1>4. /\ ~failed /\ arrived + n <= Len(wire)
      /\ dec' = r.ctx /\ buf' = r.buf /\ known' = r.known /\ (failed' <=> r.err = ERROR) /\ failed' \in BOOLEAN
      /\ got' = got \o r.plain /\ arrived' = arrived + n
      /\ UNCHANGED <<cipher, enc, sent, wire>>
  BY <1>2, <1>3 DEF Receive
<1>5. wire \in Seq(Cell) /\ arrived \in Nat
  BY <1>1 DEF Chunked
<1>6. Comes(cells, wire, arrived, n)
  BY <1>2, <1>4, <1>5, NextBytes
<1>7. Delivered(r, cipher, K, txt, off, wire, arrived + n, got)
  BY <1>1, <1>3, <1>4, <1>5, <1>6, AeadReceives
<1>8. /\ Parts(r.ctx, r.buf) /\ r.err \in {OK, NEED_MORE, ERROR} /\ r.known \in {known, TRUE}
      /\ r.err # ERROR => Runs(cipher, K, txt, off, r.ctx, wire, arrived + n, got \o r.plain)
      /\ r.err = ERROR => (Tampered(wire) \/ r.known = TRUE) /\ Stopped(K, txt, got \o r.plain)
  BY <1>7 DEF Delivered
<1>9. arrived' \in 0..Len(wire')
  <2>1. n \in Nat /\ Len(wire) \in Nat
    BY <1>5, StreamAssumption
  <2> QED BY <1>4, <1>5, <2>1
<1>10. /\ ~failed' => Runs(cipher', K, txt, off, dec', wire', arrived', got')
       /\ failed' => (Tampered(wire') \/ known' = TRUE) /\ Stopped(K, txt, got')
  BY <1>4, <1>8
<1>11. Parts(dec', buf')
  BY <1>4, <1>8
<1>12. AeadAt(K, txt, off)'
  BY <1>1, <1>4, <1>9, <1>10, <1>11 DEF AeadAt
<1>13. known' \in BOOLEAN
  BY <1>4, <1>8
<1> QED BY <1>4, <1>12, <1>13 DEF AeadInv

\* The attacker's step: behind the salt, and not yet read.
LEMMA AeadCorruptStep ==
    ASSUME IsCipher(cipher), cipher.kind = "aead",
           NEW K \in Nat, NEW txt \in [0..K -> Nat], NEW off \in [0..K -> Nat], AeadAt(K, txt, off), Corrupt
    PROVE  AeadInv'
<1>1. /\ Layout(cipher, K, txt, off) /\ Chunked(cipher, wire, K, txt, off)
      /\ sent = txt[K] /\ enc \in Context /\ enc.nonce = 2 * K /\ enc.init = IF K = 0 THEN 0 ELSE 1
      /\ Parts(dec, buf) /\ arrived \in 0..Len(wire)
      /\ ~failed => Runs(cipher, K, txt, off, dec, wire, arrived, got)
      /\ failed => (Tampered(wire) \/ known = TRUE) /\ Stopped(K, txt, got)
  BY DEF AeadAt
<1>2. /\ wire \in Seq(Cell) /\ Len(wire) = IF K = 0 THEN 0 ELSE off[K]
      /\ \A i \in 1..Len(wire) : i <= cipher.salt => wire[i].kind = "salt"
      /\ \A k \in 0..(K - 1) : \A i \in 1..(off[k + 1] - off[k]) : wire[off[k] + i] \in {Junk, Chunk(cipher, k, txt)[i]}
  BY <1>1 DEF Chunked
<1>3. PICK e : e = arrived + 1
  OBVIOUS
<1>4. /\ arrived \in Nat /\ cipher.salt \in Nat /\ Len(wire) \in Nat /\ arrived >= cipher.salt
      /\ e \in 1..Len(wire) /\ ~(e <= cipher.salt) /\ ~(e <= arrived)
  <2>1. arrived \in cipher.salt..(Len(wire) - 1) /\ cipher.salt \in Nat /\ Len(wire) \in Nat
    BY <1>2 DEF Corrupt, IsCipher
  <2> QED BY <1>3, <2>1
<1>5. /\ wire' = [wire EXCEPT ![e] = Junk]
      /\ UNCHANGED <<cipher, enc, dec, sent, arrived, buf, got, known, failed>>
  BY <1>3 DEF Corrupt
<1>6. wire' \in Seq(Cell) /\ Len(wire') = Len(wire) /\ \A i \in 1..Len(wire) : wire'[i] = IF i = e THEN Junk ELSE wire[i]
  BY <1>2, <1>4, <1>5, JunkIs
<1>7. \A i \in 1..Len(wire') : i <= cipher.salt => wire'[i].kind = "salt"
  <2> SUFFICES ASSUME NEW i \in 1..Len(wire), i <= cipher.salt PROVE wire'[i].kind = "salt"
    BY <1>6
  <2>1. i # e
    BY <1>4
  <2> QED BY <1>2, <1>6, <2>1
<1>8. ASSUME NEW k \in 0..(K - 1), NEW i \in 1..(off[k + 1] - off[k])
      PROVE  wire'[off[k] + i] \in {Junk, Chunk(cipher, k, txt)[i]}
  <2>1. wire[off[k] + i] \in {Junk, Chunk(cipher, k, txt)[i]}
    BY <1>2
  <2>2. off[k] + i \in 1..Len(wire)
    <3>1. off[k] \in Nat /\ off[k + 1] \in Nat /\ off[K] \in Nat /\ off[k + 1] <= off[K] /\ K # 0
      <4>1. k \in 0..K /\ k + 1 \in 0..K /\ K \in 0..K /\ K # 0
        OBVIOUS
      <4>2. \A j \in 0..K : off[j] \in Nat /\ off[j] <= off[K]
        BY <1>1, LayoutNumbers
      <4> QED BY <4>1, <4>2
    <3>2. PICK a \in Nat, a1 \in Nat, o \in Nat : a = off[k] /\ a1 = off[k + 1] /\ o = off[K]
      BY <3>1
    <3>3. i \in 1..(a1 - a) /\ a1 <= o /\ Len(wire) = o
      BY <1>2, <3>1, <3>2
    <3>4. a + i \in 1..o
      BY <3>3
    <3> QED BY <3>2, <3>3, <3>4
  <2> QED BY <1>6, <2>1, <2>2
<1>9. Chunked(cipher, wire', K, txt, off)
  BY <1>2, <1>6, <1>7, <1>8 DEF Chunked
<1>10. \A i \in 1..arrived : wire'[i] = wire[i]
  <2> SUFFICES ASSUME NEW i \in 1..arrived PROVE wire'[i] = wire[i]
    OBVIOUS
  <2>1. i \in 1..Len(wire) /\ i # e
    BY <1>1, <1>4
  <2> QED BY <1>6, <2>1
<1>11. ~failed => Runs(cipher, K, txt, off, dec, wire', arrived, got)
  <2>1. Fits(dec.chunk) /\ \A j \in 0..K : off[j] \in Nat
    BY <1>1 DEF Parts
  <2>2. K <= K /\ ~(K < K) /\ \A j \in 0..K : txt[j] = txt[j] /\ off[j] = off[j]
    OBVIOUS
  <2> QED BY <1>1, <1>4, <1>10, <2>1, <2>2, RunsOn
<1>12. Tampered(wire')
  <2>1. e \in 1..Len(wire') /\ wire'[e] = Junk
    BY <1>4, <1>6
  <2> QED BY <2>1 DEF Tampered
<1>13. AeadAt(K, txt, off)'
  BY <1>1, <1>5, <1>6, <1>9, <1>11, <1>12 DEF AeadAt
<1> QED BY <1>13 DEF AeadInv

\* Another connection, and a packet: the receiver does not move.
LEMMA AeadQuietStep ==
    ASSUME NEW K \in Nat, NEW txt \in [0..K -> Nat], NEW off \in [0..K -> Nat], AeadAt(K, txt, off),
           known = TRUE => known' = TRUE, UNCHANGED <<cipher, enc, dec, sent, wire, arrived, buf, got, failed>>
    PROVE  AeadInv'
<1>1. AeadAt(K, txt, off)'
  BY DEF AeadAt
<1> QED BY <1>1 DEF AeadInv

\* A new connection with an AEAD cipher.
LEMMA AeadStarts ==
    ASSUME FramingInit, IsCipher(cipher)
    PROVE  AeadInv
<1>1. PICK txt : txt = [k \in 0..0 |-> 0]
  OBVIOUS
<1>2. PICK off : off = [k \in 0..0 |-> cipher.salt]
  OBVIOUS
<1>3. cipher.salt \in Nat /\ Capacity \in Nat /\ << >> \in Seq(Cell) /\ Len(<< >>) = 0
  BY StreamAssumption, EmptySeq DEF IsCipher
<1>4. /\ enc = NewContext /\ dec = NewContext /\ sent = 0 /\ wire = << >> /\ arrived = 0 /\ got = << >>
      /\ buf = Alloc(Capacity) /\ known = FALSE /\ failed = FALSE
  BY DEF FramingInit
<1>5. txt \in [0..0 -> Nat] /\ off \in [0..0 -> Nat] /\ txt[0] = 0 /\ off[0] = cipher.salt
  BY <1>1, <1>2, <1>3
<1>6. \A k \in 0..0 : k = 0
  OBVIOUS
<1>7. Layout(cipher, 0, txt, off)
  BY <1>3, <1>5, <1>6 DEF Layout
<1>8. Chunked(cipher, wire, 0, txt, off)
  BY <1>3, <1>4 DEF Chunked
<1>9. Alloc(0) \in Buffer /\ Alloc(Capacity) \in Buffer /\ Fits(Alloc(0)) /\ Alloc(Capacity).cap = Capacity
  BY <1>3 DEF Alloc, Buffer, Fits
<1>10. NewContext \in Context /\ NewContext.nonce = 2 * 0 /\ NewContext.init = 0 /\ NewContext.chunk = Alloc(0)
  BY <1>9 DEF NewContext, Context
<1>11. Parts(dec, buf)
  BY <1>3, <1>4, <1>9, <1>10 DEF Parts
<1>12. Holds(dec.chunk, wire, 0, 0)
  BY <1>4, <1>10 DEF Holds, Alloc
<1>13. Runs(cipher, 0, txt, off, dec, wire, arrived, got)
  BY <1>3, <1>4, <1>10, <1>12 DEF Runs
<1>14. AeadAt(0, txt, off)
  BY <1>3, <1>4, <1>5, <1>7, <1>8, <1>10, <1>11, <1>13 DEF AeadAt
<1> QED BY <1>5, <1>14 DEF AeadInv

-----------------------------------------------------------------------------
(* Stream ciphers *)

\* A position is its block and its place in the block.
LEMMA Position ==
    ASSUME NEW pos \in Nat
    PROVE  /\ pos \div BlockSize \in Nat /\ pos % BlockSize \in Nat /\ (pos \div BlockSize) * BlockSize \in Nat
           /\ (pos \div BlockSize) * BlockSize + (pos % BlockSize) = pos
<1>1. PICK B \in Nat \ {0} : B = BlockSize
  BY StreamAssumption
<1>2. pos \div B \in Nat /\ pos % B \in 0..(B - 1)
  OBVIOUS
<1>3. B * (pos \div B) + (pos % B) = pos
  OBVIOUS
<1>4. PICK d \in Nat, m \in Nat : d = pos \div B /\ m = pos % B
  BY <1>2
<1>5. d * B \in Nat /\ d * B = B * d
  OBVIOUS
<1> QED BY <1>1, <1>3, <1>4, <1>5

\* Deciphering the key stream where it was enciphered.
LEMMA PlainGives ==
    ASSUME NEW c, NEW q \in Nat, NEW cells \in Seq(Cell), \A i \in 1..Len(cells) : cells[i] \in {Junk, Ciphered(c, q + i)}
    PROVE  /\ Plain(c, q, cells) \in Seq(Nat) /\ Len(Plain(c, q, cells)) = Len(cells)
           /\ \A i \in 1..Len(cells) : Plain(c, q, cells)[i] = IF cells[i] = Junk THEN 0 ELSE q + i
<1>1. PICK n \in Nat : n = Len(cells)
  OBVIOUS
<1> DEFINE V(i) == IF cells[i].kind = "stream" /\ cells[i].at = Place(c, q + i) THEN cells[i].body[1] ELSE 0
<1>2. Plain(c, q, cells) = [i \in 1..n |-> V(i)]
  BY <1>1 DEF Plain
<1>3. ASSUME NEW i \in 1..n PROVE V(i) = (IF cells[i] = Junk THEN 0 ELSE q + i) /\ V(i) \in Nat
  <2>1. CASE cells[i] = Junk
    <3>1. cells[i].kind # "stream"
      BY <2>1, JunkIs
    <3> QED BY <2>1, <3>1
  <2>2. CASE cells[i] # Junk
    <3>1. cells[i] = Ciphered(c, q + i)
      BY <1>1, <2>2
    <3>2. cells[i].kind = "stream" /\ cells[i].at = Place(c, q + i) /\ cells[i].body = <<q + i>>
      BY <3>1 DEF Ciphered
    <3>3. cells[i].body[1] = q + i
      BY <3>2
    <3> QED BY <2>2, <3>2, <3>3
  <2> QED BY <2>1, <2>2
<1> HIDE DEF V
<1>4. [i \in 1..n |-> V(i)] \in Seq(Nat) /\ Len([i \in 1..n |-> V(i)]) = n
  BY <1>3
<1>5. ASSUME NEW i \in 1..n PROVE Plain(c, q, cells)[i] = IF cells[i] = Junk THEN 0 ELSE q + i
  <2>1. Plain(c, q, cells)[i] = V(i)
    BY <1>2
  <2> QED BY <1>3, <2>1
<1> QED BY <1>1, <1>2, <1>4, <1>5

\* stream_decrypt's way: libsodium begins at a block.
Decipher(c, pos, rest) ==
    IF c.kind = "salsa"
    THEN Drop(PlainIc(c, [i \in 1..(pos % BlockSize) |-> Junk] \o rest, pos \div BlockSize), pos % BlockSize)
    ELSE Plain(c, pos, rest)

\* stream_decrypt from any position, in the middle of a block too.
LEMMA Deciphers ==
    ASSUME NEW c, IsCipher(c), NEW pos \in Nat, NEW rest \in Seq(Cell), \A i \in 1..Len(rest) : rest[i] \in {Junk, Ciphered(c, pos + i)}
    PROVE  /\ Decipher(c, pos, rest) \in Seq(Nat) /\ Len(Decipher(c, pos, rest)) = Len(rest)
           /\ \A i \in 1..Len(rest) : Decipher(c, pos, rest)[i] = IF rest[i] = Junk THEN 0 ELSE pos + i
<1>1. CASE c.kind # "salsa"
  <2>1. Decipher(c, pos, rest) = Plain(c, pos, rest)
    BY <1>1 DEF Decipher
  <2>2. /\ Plain(c, pos, rest) \in Seq(Nat) /\ Len(Plain(c, pos, rest)) = Len(rest)
        /\ \A i \in 1..Len(rest) : Plain(c, pos, rest)[i] = IF rest[i] = Junk THEN 0 ELSE pos + i
    BY PlainGives, Zenon
  <2> QED BY <2>1, <2>2
<1>2. CASE c.kind = "salsa"
  <2>1. PICK q \in Nat, m \in Nat : q = (pos \div BlockSize) * BlockSize /\ m = pos % BlockSize /\ q + m = pos
    BY Position
  <2>2. PICK pad : pad = [i \in 1..m |-> Junk]
    OBVIOUS
  <2>3. pad \in Seq(Cell) /\ Len(pad) = m /\ \A i \in 1..m : pad[i] = Junk
    BY <2>2, JunkIs
  <2>4. PICK cells : cells = pad \o rest
    OBVIOUS
  <2>5. PICK n \in Nat : n = Len(rest)
    OBVIOUS
  <2>6. /\ cells \in Seq(Cell) /\ Len(cells) = m + n
        /\ \A i \in 1..(m + n) : cells[i] = IF i <= m THEN pad[i] ELSE rest[i - m]
    <3>1. /\ pad \o rest \in Seq(Cell) /\ Len(pad \o rest) = Len(pad) + Len(rest)
          /\ \A i \in 1..(Len(pad) + Len(rest)) : (pad \o rest)[i] = IF i <= Len(pad) THEN pad[i] ELSE rest[i - Len(pad)]
      BY <2>3, ConcatProperties, Zenon
    <3> QED BY <2>3, <2>4, <2>5, <3>1
  <2>7. ASSUME NEW i \in 1..n PROVE m + i \in 1..(m + n) /\ cells[m + i] = rest[i] /\ q + (m + i) = pos + i
    <3>1. m + i \in 1..(m + n) /\ ~(m + i <= m) /\ (m + i) - m = i /\ q + (m + i) = pos + i
      <4>1. q + m = pos
        BY <2>1
      <4> QED BY <4>1
    <3> QED BY <2>6, <3>1
  <2>8. ASSUME NEW i \in 1..(m + n) PROVE cells[i] \in {Junk, Ciphered(c, q + i)}
    <3>1. CASE i <= m
      <4>1. i \in 1..m
        BY <3>1
      <4> QED BY <2>3, <2>6, <3>1, <4>1
    <3>2. CASE ~(i <= m)
      <4>1. PICK j \in 1..n : i = m + j
        <5>1. i - m \in 1..n /\ i = m + (i - m)
          BY <3>2
        <5> QED BY <5>1
      <4>2. rest[j] \in {Junk, Ciphered(c, pos + j)}
        BY <2>5
      <4> QED BY <2>7, <4>1, <4>2
    <3> QED BY <3>1, <3>2
  <2>9. PICK P : P = Plain(c, q, cells)
    OBVIOUS
  <2>10. P \in Seq(Nat) /\ Len(P) = m + n /\ \A i \in 1..(m + n) : P[i] = IF cells[i] = Junk THEN 0 ELSE q + i
    <3>1. \A i \in 1..Len(cells) : cells[i] \in {Junk, Ciphered(c, q + i)}
      BY <2>6, <2>8
    <3>2. /\ Plain(c, q, cells) \in Seq(Nat) /\ Len(Plain(c, q, cells)) = Len(cells)
          /\ \A i \in 1..Len(cells) : Plain(c, q, cells)[i] = IF cells[i] = Junk THEN 0 ELSE q + i
      BY <2>6, <3>1, PlainGives, Zenon
    <3> QED BY <2>6, <2>9, <3>2
  <2>11. Decipher(c, pos, rest) = Drop(P, m)
    <3>0. PICK ic \in Nat : ic = pos \div BlockSize
      BY Position
    <3>1. PlainIc(c, cells, pos \div BlockSize) = P
      <4>1. q = ic * BlockSize
        BY <2>1, <3>0
      <4>2. cells \in Seq(Cell)
        BY <2>6
      <4>3. \A x \in Seq(Cell) : PlainIc(c, x, ic) = Plain(c, q, x)
        BY <1>2, <4>1, XorIcIs
      <4>4. PlainIc(c, cells, ic) = Plain(c, q, cells)
        BY <4>2, <4>3, Zenon
      <4> QED BY <2>9, <3>0, <4>4
    <3> QED BY <1>2, <2>1, <2>2, <2>4, <3>1 DEF Decipher
  <2>12. /\ Drop(P, m) \in Seq(Nat) /\ Len(Drop(P, m)) = Len(P) - m
         /\ \A i \in 1..(Len(P) - m) : Drop(P, m)[i] = P[m + i]
    <3>1. m \in 0..Len(P)
      BY <2>10
    <3> QED BY <2>10, <3>1, DropIs, Zenon
  <2>13. Len(P) - m = n
    BY <2>10
  <2>14. ASSUME NEW i \in 1..n PROVE Drop(P, m)[i] = IF rest[i] = Junk THEN 0 ELSE pos + i
    BY <2>7, <2>10, <2>12, <2>13, ZenonT(60)
  <2> QED BY <2>5, <2>11, <2>12, <2>13, <2>14
<1> QED BY <1>1, <1>2

\* stream_encrypt's way.
Encipher(c, pos, p) ==
    IF c.kind = "salsa" THEN Drop(XorIc(c, Zeros(pos % BlockSize) \o p, pos \div BlockSize), pos % BlockSize)
    ELSE KeyStream(c, pos, p)

\* stream_encrypt from any position.
LEMMA Enciphers ==
    ASSUME NEW c, IsCipher(c), NEW pos \in Nat, NEW n \in Nat
    PROVE  /\ Encipher(c, pos, Text(pos, n)) \in Seq(Cell) /\ Len(Encipher(c, pos, Text(pos, n))) = n
           /\ \A i \in 1..n : Encipher(c, pos, Text(pos, n))[i] = Ciphered(c, pos + i)
<1>1. PICK p : p = Text(pos, n)
  OBVIOUS
<1>2. p \in Seq(Nat) /\ Len(p) = n /\ \A i \in 1..n : p[i] = pos + i
  BY <1>1, TextIs
<1>3. CASE c.kind # "salsa"
  <2>1. Encipher(c, pos, p) = KeyStream(c, pos, p)
    BY <1>3 DEF Encipher
  <2>2. /\ KeyStream(c, pos, p) \in Seq(Cell) /\ Len(KeyStream(c, pos, p)) = Len(p)
        /\ \A i \in 1..Len(p) : KeyStream(c, pos, p)[i] = [kind |-> "stream", nonce |-> 0, body |-> <<p[i]>>, at |-> Place(c, pos + i)]
    BY <1>2, KeyStreamIs, Zenon
  <2> QED BY <1>1, <1>2, <2>1, <2>2 DEF Ciphered
<1>4. CASE c.kind = "salsa"
  <2>1. PICK q \in Nat, m \in Nat : q = (pos \div BlockSize) * BlockSize /\ m = pos % BlockSize /\ q + m = pos
    BY Position
  <2>2. PICK z : z = Zeros(m)
    OBVIOUS
  <2>3. z \in Seq(Nat) /\ Len(z) = m
    BY <2>2 DEF Zeros
  <2>4. PICK t : t = z \o p
    OBVIOUS
  <2>5. /\ t \in Seq(Nat) /\ Len(t) = m + n
        /\ \A i \in 1..(m + n) : t[i] = IF i <= m THEN z[i] ELSE p[i - m]
    <3>1. /\ z \o p \in Seq(Nat) /\ Len(z \o p) = Len(z) + Len(p)
          /\ \A i \in 1..(Len(z) + Len(p)) : (z \o p)[i] = IF i <= Len(z) THEN z[i] ELSE p[i - Len(z)]
      BY <1>2, <2>3, ConcatProperties, Zenon
    <3> QED BY <1>2, <2>3, <2>4, <3>1
  <2>6. PICK s : s = KeyStream(c, q, t)
    OBVIOUS
  <2>7. /\ s \in Seq(Cell) /\ Len(s) = m + n
        /\ \A i \in 1..(m + n) : s[i] = [kind |-> "stream", nonce |-> 0, body |-> <<t[i]>>, at |-> Place(c, q + i)]
    <3>1. /\ KeyStream(c, q, t) \in Seq(Cell) /\ Len(KeyStream(c, q, t)) = Len(t)
          /\ \A i \in 1..Len(t) : KeyStream(c, q, t)[i] = [kind |-> "stream", nonce |-> 0, body |-> <<t[i]>>, at |-> Place(c, q + i)]
      BY <2>5, KeyStreamIs, Zenon
    <3> QED BY <2>5, <2>6, <3>1
  <2>8. Encipher(c, pos, p) = Drop(s, m)
    <3>0. PICK ic \in Nat : ic = pos \div BlockSize
      BY Position
    <3>1. XorIc(c, t, pos \div BlockSize) = s
      <4>1. q = ic * BlockSize
        BY <2>1, <3>0
      <4> QED BY <1>4, <2>5, <2>6, <3>0, <4>1, XorIcIs, Zenon
    <3> QED BY <1>4, <2>1, <2>2, <2>4, <3>1 DEF Encipher
  <2>9. /\ Drop(s, m) \in Seq(Cell) /\ Len(Drop(s, m)) = Len(s) - m
        /\ \A i \in 1..(Len(s) - m) : Drop(s, m)[i] = s[m + i]
    <3>1. m \in 0..Len(s)
      BY <2>7
    <3> QED BY <2>7, <3>1, DropIs, Zenon
  <2>10. Len(s) - m = n
    BY <2>7
  <2>11. ASSUME NEW i \in 1..n PROVE Drop(s, m)[i] = Ciphered(c, pos + i)
    <3>1. m + i \in 1..(m + n) /\ ~(m + i <= m) /\ (m + i) - m = i /\ q + (m + i) = pos + i
      <4>1. q + m = pos
        BY <2>1
      <4> QED BY <4>1
    <3>2. t[m + i] = pos + i
      BY <1>2, <2>5, <3>1
    <3>3. s[m + i] = [kind |-> "stream", nonce |-> 0, body |-> <<pos + i>>, at |-> Place(c, pos + i)]
      BY <2>7, <3>1, <3>2
    <3> QED BY <2>9, <2>10, <3>3 DEF Ciphered
  <2> QED BY <1>1, <2>8, <2>9, <2>10, <2>11
<1> QED BY <1>3, <1>4

\* Setting the parts of a context.
LEMMA Rekeyed ==
    ASSUME NEW x \in Context, NEW i, NEW m
    PROVE  /\ [x EXCEPT !.init = i, !.nonce = m] = [init |-> i, nonce |-> m, chunk |-> x.chunk]
           /\ [x EXCEPT !.init = i] = [init |-> i, nonce |-> x.nonce, chunk |-> x.chunk]
           /\ [x EXCEPT !.nonce = m] = [init |-> x.init, nonce |-> m, chunk |-> x.chunk]
<1>1. PICK i0 : i0 = x.init
  OBVIOUS
<1>2. PICK m0 : m0 = x.nonce
  OBVIOUS
<1>3. PICK b : b = x.chunk
  OBVIOUS
<1>4. x = [init |-> i0, nonce |-> m0, chunk |-> b]
  BY <1>1, <1>2, <1>3, ContextParts
<1>5. [x EXCEPT !.init = i] = [init |-> i, nonce |-> m0, chunk |-> b]
  BY <1>4
<1>6. [x EXCEPT !.nonce = m] = [init |-> i0, nonce |-> m, chunk |-> b]
  BY <1>4
<1>7. PICK y : y = [x EXCEPT !.init = i]
  OBVIOUS
<1>8. [x EXCEPT !.init = i, !.nonce = m] = [[x EXCEPT !.init = i] EXCEPT !.nonce = m]
  OBVIOUS
<1>9. [y EXCEPT !.nonce = m] = [init |-> i, nonce |-> m, chunk |-> b]
  <2>1. y = [init |-> i, nonce |-> m0, chunk |-> b]
    BY <1>5, <1>7
  <2> QED BY <2>1
<1> QED BY <1>1, <1>2, <1>3, <1>5, <1>6, <1>7, <1>8, <1>9

\* stream_encrypt goes on where the key stream is.
LEMMA StreamSends ==
    ASSUME IsCipher(cipher), cipher.kind # "aead", sent \in Nat, StreamInv, NEW n \in 1..Capacity, SendBytes(n)
    PROVE  StreamInv'
<1>1. /\ Streamed(cipher, wire, sent)
      /\ enc \in Context /\ enc.nonce = sent /\ enc.init = IF sent = 0 THEN 0 ELSE 1
      /\ StreamParts(dec, buf) /\ arrived \in 0..Len(wire) /\ StreamGot(wire, sent, got)
      /\ ~failed => StreamRuns(cipher, dec, arrived, got)
      /\ failed => known = TRUE
  BY DEF StreamInv
<1>2. /\ wire \in Seq(Cell) /\ Len(wire) = IF sent = 0 THEN 0 ELSE cipher.salt + sent
      /\ \A i \in 1..Len(wire) : i <= cipher.salt => wire[i].kind = "salt"
      /\ \A i \in 1..sent : wire[cipher.salt + i] \in {Junk, Ciphered(cipher, i)}
  BY <1>1 DEF Streamed
<1>3. n \in Nat \ {0} /\ cipher.salt \in Nat
  BY StreamAssumption DEF IsCipher
<1>4. PICK E : E = Encipher(cipher, sent, Text(sent, n))
  OBVIOUS
<1>5. E \in Seq(Cell) /\ Len(E) = n /\ \A i \in 1..n : E[i] = Ciphered(cipher, sent + i)
  BY <1>3, <1>4, Enciphers
<1>6. PICK out : out = (IF sent = 0 THEN SaltCells(cipher) ELSE << >>) \o E
  OBVIOUS
<1>7. /\ enc' = [init |-> 1, nonce |-> sent + n, chunk |-> enc.chunk] /\ wire' = wire \o out /\ sent' = sent + n
      /\ UNCHANGED <<cipher, dec, arrived, buf, got, known, failed>>
  <2>1. PICK p : p = Text(sent, n)
    OBVIOUS
  <2>2. Len(p) = n
    BY <1>3, <2>1, TextIs
  <2>3. (IF enc.init = 0 THEN 0 ELSE enc.nonce) = sent /\ (enc.init = 0 <=> sent = 0)
    BY <1>1
  <2>4. Encrypt(cipher, enc, p) = [ctx |-> [enc EXCEPT !.init = 1, !.nonce = sent + n],
            out |-> (IF enc.init = 0 THEN SaltCells(cipher) ELSE << >>) \o E]
    BY <1>4, <2>1, <2>2, <2>3 DEF Encrypt, StreamEncrypt, Encipher
  <2>5. [enc EXCEPT !.init = 1, !.nonce = sent + n] = [init |-> 1, nonce |-> sent + n, chunk |-> enc.chunk]
    <3>1. ASSUME NEW i, NEW m PROVE [enc EXCEPT !.init = i, !.nonce = m] = [init |-> i, nonce |-> m, chunk |-> enc.chunk]
      BY <1>1, Rekeyed, Zenon
    <3>2. PICK m : m = sent + n
      OBVIOUS
    <3>3. [enc EXCEPT !.init = 1, !.nonce = m] = [init |-> 1, nonce |-> m, chunk |-> enc.chunk]
      BY <3>1, Zenon
    <3> QED BY <3>2, <3>3, Zenon
  <2>6. Encrypt(cipher, enc, p) = [ctx |-> [init |-> 1, nonce |-> sent + n, chunk |-> enc.chunk], out |-> out]
    BY <1>6, <2>3, <2>4, <2>5
  <2> QED BY <2>1, <2>6 DEF SendBytes
<1>8. PICK w0 : w0 = IF sent = 0 THEN SaltCells(cipher) ELSE wire
  OBVIOUS
<1>9. PICK z \in Nat : z = cipher.salt + sent
  BY <1>3
<1>10. w0 \in Seq(Cell) /\ Len(w0) = z
  <2>1. CASE sent = 0
    BY <1>3, <1>8, <1>9, <2>1, SaltIs
  <2>2. CASE sent # 0
    BY <1>2, <1>8, <1>9, <2>2
  <2> QED BY <2>1, <2>2
<1>11. wire' = w0 \o E
  <2>1. CASE sent = 0
    <3>1. wire = << >>
      BY <1>2, <2>1, EmptySeq
    <3>2. out \in Seq(Cell) /\ out = w0 \o E
      BY <1>5, <1>6, <1>8, <1>10, <2>1, ConcatProperties
    <3>3. << >> \o out = out
      BY <3>2, ConcatEmptySeq
    <3> QED BY <1>7, <3>1, <3>2, <3>3
  <2>2. CASE sent # 0
    <3>1. << >> \o E = E
      BY <1>5, ConcatEmptySeq
    <3> QED BY <1>6, <1>7, <1>8, <2>2, <3>1
  <2> QED BY <2>1, <2>2
<1>12. /\ wire' \in Seq(Cell) /\ Len(wire') = z + n
       /\ \A i \in 1..(z + n) : wire'[i] = IF i <= z THEN w0[i] ELSE E[i - z]
  <2>1. /\ w0 \o E \in Seq(Cell) /\ Len(w0 \o E) = Len(w0) + Len(E)
        /\ \A i \in 1..(Len(w0) + Len(E)) : (w0 \o E)[i] = IF i <= Len(w0) THEN w0[i] ELSE E[i - Len(w0)]
    BY <1>5, <1>10, ConcatProperties, Zenon
  <2> QED BY <1>5, <1>10, <1>11, <2>1
<1>13. Len(wire) <= z /\ Len(wire) \in Nat /\ \A i \in 1..Len(wire) : wire'[i] = wire[i]
  <2>1. CASE sent = 0
    BY <1>2, <2>1
  <2>2. CASE sent # 0
    <3>1. w0 = wire /\ Len(wire) = z
      BY <1>2, <1>8, <1>9, <2>2
    <3>2. ASSUME NEW i \in 1..z PROVE wire'[i] = wire[i]
      <4>1. i \in 1..(z + n) /\ i <= z
        BY <1>3
      <4> QED BY <1>12, <3>1, <4>1
    <3> QED BY <3>1, <3>2
  <2> QED BY <2>1, <2>2
<1>14. \A i \in 1..Len(wire') : i <= cipher.salt => wire'[i].kind = "salt"
  <2> SUFFICES ASSUME NEW i \in 1..(z + n), i <= cipher.salt PROVE wire'[i].kind = "salt"
    BY <1>12
  <2>1. i <= z /\ i \in 1..cipher.salt
    BY <1>3, <1>9
  <2>2. wire'[i] = w0[i]
    BY <1>12, <2>1
  <2>3. CASE sent = 0
    <3>1. SaltCells(cipher)[i] = [kind |-> "salt", nonce |-> 0, body |-> << >>, at |-> i]
      BY <2>1, SaltIs, Zenon
    <3> QED BY <1>8, <2>2, <2>3, <3>1
  <2>4. CASE sent # 0
    <3>1. i \in 1..Len(wire) /\ w0 = wire
      BY <1>2, <1>8, <1>9, <2>1, <2>4
    <3> QED BY <1>2, <2>2, <3>1
  <2> QED BY <2>3, <2>4
<1>15. ASSUME NEW i \in 1..(sent + n) PROVE wire'[cipher.salt + i] \in {Junk, Ciphered(cipher, i)}
  <2>1. PICK x : x = cipher.salt + i
    OBVIOUS
  <2>2. CASE i <= sent
    <3>1. i \in 1..sent /\ x \in 1..(z + n) /\ x <= z
      BY <1>3, <1>9, <2>1, <2>2
    <3>2. w0 = wire
      BY <1>8, <3>1
    <3> QED BY <1>2, <1>12, <2>1, <3>1, <3>2
  <2>3. CASE ~(i <= sent)
    <3>1. PICK j \in 1..n : i = sent + j
      <4>1. i - sent \in 1..n /\ i = sent + (i - sent)
        BY <1>3, <2>3
      <4> QED BY <4>1
    <3>2. x \in 1..(z + n) /\ ~(x <= z) /\ x - z = j
      BY <1>3, <1>9, <2>1, <3>1
    <3>3. wire'[x] = E[j]
      BY <1>12, <3>2
    <3> QED BY <1>5, <2>1, <3>1, <3>3
  <2> QED BY <2>2, <2>3
<1>16. Streamed(cipher', wire', sent')
  <2>1. Len(wire') = IF sent + n = 0 THEN 0 ELSE cipher.salt + (sent + n)
    BY <1>3, <1>9, <1>12
  <2> QED BY <1>7, <1>12, <1>14, <1>15, <2>1 DEF Streamed
<1>17. enc' \in Context /\ enc'.nonce = sent' /\ enc'.init = IF sent' = 0 THEN 0 ELSE 1
  <2>1. enc.chunk \in Buffer
    BY <1>1, ContextParts
  <2>2. sent + n \in Nat /\ sent + n # 0
    BY <1>3
  <2> QED BY <1>7, <2>1, <2>2 DEF Context
<1>18. arrived' \in 0..Len(wire')
  BY <1>1, <1>3, <1>7, <1>12, <1>13
<1>19. StreamGot(wire', sent', got')
  <2>1. Tampered(wire) => Tampered(wire')
    <3> SUFFICES ASSUME NEW i \in 1..Len(wire), wire[i] = Junk PROVE Tampered(wire')
      BY DEF Tampered
    <3>1. i \in 1..Len(wire') /\ wire'[i] = Junk
      BY <1>3, <1>12, <1>13
    <3> QED BY <3>1 DEF Tampered
  <2>2. Len(got) \in Nat /\ Len(got) <= sent
    BY <1>1 DEF StreamGot
  <2>3. Len(got) <= sent + n
    BY <1>3, <2>2
  <2> QED BY <1>1, <1>7, <2>1, <2>3 DEF StreamGot
<1> QED BY <1>1, <1>7, <1>16, <1>17, <1>18, <1>19 DEF StreamInv

\* A changed byte, with a stream cipher.
LEMMA StreamCorruptStep ==
    ASSUME IsCipher(cipher), cipher.kind # "aead", sent \in Nat, StreamInv, Corrupt
    PROVE  StreamInv'
<1>1. /\ Streamed(cipher, wire, sent)
      /\ enc \in Context /\ enc.nonce = sent /\ enc.init = IF sent = 0 THEN 0 ELSE 1
      /\ StreamParts(dec, buf) /\ arrived \in 0..Len(wire) /\ StreamGot(wire, sent, got)
      /\ ~failed => StreamRuns(cipher, dec, arrived, got)
      /\ failed => known = TRUE
  BY DEF StreamInv
<1>2. /\ wire \in Seq(Cell) /\ Len(wire) = IF sent = 0 THEN 0 ELSE cipher.salt + sent
      /\ \A i \in 1..Len(wire) : i <= cipher.salt => wire[i].kind = "salt"
      /\ \A i \in 1..sent : wire[cipher.salt + i] \in {Junk, Ciphered(cipher, i)}
  BY <1>1 DEF Streamed
<1>3. PICK e : e = arrived + 1
  OBVIOUS
<1>4. cipher.salt \in Nat /\ Len(wire) \in Nat /\ e \in 1..Len(wire) /\ ~(e <= cipher.salt)
  <2>1. arrived \in cipher.salt..(Len(wire) - 1) /\ cipher.salt \in Nat /\ Len(wire) \in Nat
    BY <1>2 DEF Corrupt, IsCipher
  <2> QED BY <1>3, <2>1
<1>5. /\ wire' = [wire EXCEPT ![e] = Junk]
      /\ UNCHANGED <<cipher, enc, dec, sent, arrived, buf, got, known, failed>>
  BY <1>3 DEF Corrupt
<1>6. wire' \in Seq(Cell) /\ Len(wire') = Len(wire) /\ \A i \in 1..Len(wire) : wire'[i] = IF i = e THEN Junk ELSE wire[i]
  BY <1>2, <1>4, <1>5, JunkIs
<1>7. \A i \in 1..Len(wire') : i <= cipher.salt => wire'[i].kind = "salt"
  <2> SUFFICES ASSUME NEW i \in 1..Len(wire), i <= cipher.salt PROVE wire'[i].kind = "salt"
    BY <1>6
  <2>1. i # e
    BY <1>4
  <2> QED BY <1>2, <1>6, <2>1
<1>8. ASSUME NEW i \in 1..sent PROVE wire'[cipher.salt + i] \in {Junk, Ciphered(cipher, i)}
  <2>1. cipher.salt + i \in 1..Len(wire)
    BY <1>2, <1>4
  <2> QED BY <1>2, <1>6, <2>1
<1>9. Streamed(cipher, wire', sent)
  BY <1>2, <1>6, <1>7, <1>8 DEF Streamed
<1>10. Tampered(wire')
  <2>1. e \in 1..Len(wire') /\ wire'[e] = Junk
    BY <1>4, <1>6
  <2> QED BY <2>1 DEF Tampered
<1>11. StreamGot(wire', sent, got)
  BY <1>1, <1>10 DEF StreamGot
<1> QED BY <1>1, <1>5, <1>6, <1>9, <1>11 DEF StreamInv

\* Nothing happens to the connection but in the filter.
LEMMA StreamQuietStep ==
    ASSUME StreamInv, known = TRUE => known' = TRUE,
           UNCHANGED <<cipher, enc, dec, sent, wire, arrived, buf, got, failed>>
    PROVE  StreamInv'
  BY DEF StreamInv

\* A new connection with a stream cipher.
LEMMA StreamStarts ==
    ASSUME FramingInit, IsCipher(cipher)
    PROVE  StreamInv
<1>1. cipher.salt \in Nat /\ Capacity \in Nat /\ << >> \in Seq(Cell) /\ Len(<< >>) = 0 /\ << >> \in Seq(Nat)
  BY StreamAssumption, EmptySeq DEF IsCipher
<1>2. /\ enc = NewContext /\ dec = NewContext /\ sent = 0 /\ wire = << >> /\ arrived = 0 /\ got = << >>
      /\ buf = Alloc(Capacity) /\ known = FALSE /\ failed = FALSE
  BY DEF FramingInit
<1>3. Alloc(0) \in Buffer /\ Alloc(Capacity) \in Buffer /\ Alloc(Capacity).cap = Capacity
  BY <1>1 DEF Alloc, Buffer
<1>4. NewContext \in Context /\ NewContext.nonce = 0 /\ NewContext.init = 0 /\ NewContext.chunk = Alloc(0)
  BY <1>3 DEF NewContext, Context
<1>5. Alloc(0).idx = 0 /\ Alloc(0).len = 0 /\ Alloc(0).data = << >>
  BY DEF Alloc
<1>6. Streamed(cipher, wire, sent)
  BY <1>1, <1>2 DEF Streamed
<1>7. StreamParts(dec, buf)
  BY <1>1, <1>2, <1>3, <1>4, <1>5 DEF StreamParts
<1>8. StreamGot(wire, sent, got)
  <2>1. Text(0, 0) = << >>
    BY DEF Text
  <2> QED BY <1>1, <1>2, <2>1 DEF StreamGot
<1>9. StreamRuns(cipher, dec, arrived, got)
  BY <1>2, <1>4, <1>5 DEF StreamRuns
<1> QED BY <1>1, <1>2, <1>4, <1>6, <1>7, <1>8, <1>9 DEF StreamInv

\* What stream_decrypt leaves behind.
StreamDelivered(r, c, w, n, A, g) ==
    /\ StreamParts(r.ctx, r.buf) /\ r.err \in {OK, NEED_MORE, ERROR} /\ r.known \in {known, TRUE}
    /\ StreamGot(w, n, g \o r.plain)
    /\ r.err # ERROR => StreamRuns(c, r.ctx, A, g \o r.plain)
    /\ r.err = ERROR => r.known = TRUE

\* The rest of stream_decrypt, when the IV is there.
StreamTail(c, x, b, rest) ==
    LET Result(err, y, p, k) == [err |-> err, ctx |-> y, buf |-> b, plain |-> p, known |-> k]
        moved == [x EXCEPT !.nonce = x.nonce + Len(rest)]
    IN  IF rest = << >> THEN Result(NEED_MORE, x, << >>, known)
        ELSE IF x.init = 1 /\ c.filtered
        THEN IF known THEN Result(ERROR, moved, << >>, known)
             ELSE Result(OK, [moved EXCEPT !.init = 2], Decipher(c, x.nonce, rest), TRUE)
        ELSE Result(OK, moved, Decipher(c, x.nonce, rest), known)

\* Bytes behind what the receiver has.
Follows(rest, c, w, n, g) ==
    /\ rest \in Seq(Cell) /\ Len(g) + Len(rest) <= n
    /\ \A i \in 1..Len(rest) : rest[i] = w[c.salt + Len(g) + i]

\* Sums of natural numbers.
LEMMA Sums ==
    ASSUME NEW z \in Nat, NEW a \in Nat, NEW l \in Nat
    PROVE  a + l \in Nat /\ z + a + l = z + (a + l) /\ z + a + 0 = z + a
  OBVIOUS

\* Deciphered bytes follow the ones that the receiver has.
LEMMA StreamMore ==
    ASSUME NEW c, IsCipher(c), c.salt \in Nat, NEW n \in Nat, NEW w, Streamed(c, w, n), NEW g, StreamGot(w, n, g),
           NEW rest, Follows(rest, c, w, n, g)
    PROVE  /\ StreamGot(w, n, g \o Decipher(c, Len(g), rest))
           /\ Len(g \o Decipher(c, Len(g), rest)) = Len(g) + Len(rest)
<1>1. g \in Seq(Nat) /\ Len(g) \in Nat /\ (~Tampered(w) => g = Text(0, Len(g)))
  BY DEF StreamGot
<1>2. PICK a \in Nat : a = Len(g)
  BY <1>1
<1>3. PICK l \in Nat : l = Len(rest)
  BY DEF Follows
<1>4. PICK z \in Nat : z = c.salt
  OBVIOUS
<1>5. a + l <= n
  BY <1>2, <1>3 DEF Follows
<1>6. n # 0 => Len(w) = z + n
  BY <1>4 DEF Streamed
<1>7. \A i \in 1..n : w[z + i] \in {Junk, Ciphered(c, i)}
  BY <1>4 DEF Streamed
<1>8. ASSUME NEW i \in 1..l PROVE /\ a + i \in 1..n /\ rest[i] = w[z + (a + i)] /\ z + (a + i) \in 1..Len(w)
  <2>1. a + i \in 1..n /\ n # 0 /\ z + (a + i) = z + a + i
    BY <1>5
  <2>2. z + (a + i) \in 1..(z + n)
    BY <2>1
  <2>3. rest[i] = w[z + a + i]
    BY <1>2, <1>3, <1>4 DEF Follows
  <2> QED BY <1>6, <2>1, <2>2, <2>3
<1>9. \A i \in 1..l : rest[i] \in {Junk, Ciphered(c, a + i)}
  BY <1>7, <1>8
<1>10. PICK P : P = Decipher(c, a, rest)
  OBVIOUS
<1>11. P \in Seq(Nat) /\ Len(P) = l /\ \A i \in 1..l : P[i] = IF rest[i] = Junk THEN 0 ELSE a + i
  <2>1. \A i \in 1..Len(rest) : rest[i] \in {Junk, Ciphered(c, a + i)}
    BY <1>3, <1>9
  <2>2. /\ Decipher(c, a, rest) \in Seq(Nat) /\ Len(Decipher(c, a, rest)) = Len(rest)
        /\ \A i \in 1..Len(rest) : Decipher(c, a, rest)[i] = IF rest[i] = Junk THEN 0 ELSE a + i
    <3>1. rest \in Seq(Cell)
      BY DEF Follows
    <3> QED BY <2>1, <3>1, Deciphers, ZenonT(60)
  <2> QED BY <1>3, <1>10, <2>2
<1>12. g \o P \in Seq(Nat) /\ Len(g \o P) = a + l
  BY <1>1, <1>2, <1>11, ConcatProperties
<1>13. ASSUME ~Tampered(w) PROVE g \o P = Text(0, a + l)
  <2>1. ASSUME NEW i \in 1..l PROVE P[i] = a + i
    <3>1. rest[i] # Junk
      BY <1>8, <1>13 DEF Tampered
    <3> QED BY <1>11, <3>1
  <2>2. P = Text(a, l)
    <3>1. Text(a, l) \in Seq(Nat) /\ Len(Text(a, l)) = l /\ \A i \in 1..l : Text(a, l)[i] = a + i
      BY DEF Text
    <3> QED BY <1>11, <2>1, <3>1, SeqEqual
  <2>3. g = Text(0, a)
    BY <1>1, <1>2, <1>13
  <2>4. Text(0, a) \o Text(0 + a, l) = Text(0, a + l)
    BY TextJoin
  <2>5. 0 + a = a
    OBVIOUS
  <2> QED BY <2>2, <2>3, <2>4, <2>5
<1> QED BY <1>2, <1>3, <1>5, <1>10, <1>12, <1>13 DEF StreamGot

\* stream_decrypt delivers, once the IV is there.
LEMMA TailDelivers ==
    ASSUME NEW c, IsCipher(c), c.salt \in Nat, NEW n \in Nat, NEW w, Streamed(c, w, n), NEW g, StreamGot(w, n, g),
           NEW rest, Follows(rest, c, w, n, g),
           NEW x, NEW b, StreamParts(x, b), x.init \in 1..2, x.nonce = Len(g), known \in BOOLEAN
    PROVE  StreamDelivered(StreamTail(c, x, b, rest), c, w, n, c.salt + Len(g) + Len(rest), g)
<1>1. /\ x \in Context /\ x.chunk.idx = 0 /\ x.chunk.len <= Len(x.chunk.data) /\ b \in Buffer /\ b.cap >= Capacity
  BY DEF StreamParts
<1>2. PICK r : r = StreamTail(c, x, b, rest)
  OBVIOUS
<1>3. PICK P : P = Decipher(c, Len(g), rest)
  OBVIOUS
<1>4. StreamGot(w, n, g \o P) /\ Len(g \o P) = Len(g) + Len(rest)
  <2>1. /\ StreamGot(w, n, g \o Decipher(c, Len(g), rest))
        /\ Len(g \o Decipher(c, Len(g), rest)) = Len(g) + Len(rest)
    BY StreamMore
  <2> QED BY <1>3, <2>1
<1>5. g \in Seq(Nat) /\ Len(g) \in Nat /\ Len(rest) \in Nat /\ g \o << >> = g
  BY ConcatEmptySeq DEF StreamGot, Follows
<1>6. PICK moved : moved = [x EXCEPT !.nonce = x.nonce + Len(rest)]
  OBVIOUS
<1>7. moved = [init |-> x.init, nonce |-> Len(g) + Len(rest), chunk |-> x.chunk]
  BY <1>1, <1>6, Rekeyed, Zenon
<1>8. Len(g) + Len(rest) \in Nat /\ x.chunk \in Buffer
  <2>1. x.chunk \in Buffer
    BY <1>1, ContextParts
  <2> QED BY <1>5, <2>1, Sums
<1>9. moved \in Context
  BY <1>7, <1>8 DEF Context
<1>10. StreamParts(moved, b)
  BY <1>1, <1>7, <1>9 DEF StreamParts
<1>11. PICK done : done = [moved EXCEPT !.init = 2]
  OBVIOUS
<1>12. done = [init |-> 2, nonce |-> Len(g) + Len(rest), chunk |-> x.chunk]
  BY <1>7, <1>11
<1>13. StreamParts(done, b)
  <2>1. done \in Context
    BY <1>8, <1>12 DEF Context
  <2> QED BY <1>1, <1>12, <2>1 DEF StreamParts
<1>14. CASE rest = << >>
  <2>1. r = [err |-> NEED_MORE, ctx |-> x, buf |-> b, plain |-> << >>, known |-> known]
    BY <1>2, <1>14 DEF StreamTail
  <2>2. Len(rest) = 0
    BY <1>14
  <2>3. c.salt + Len(g) + Len(rest) = c.salt + Len(g)
    BY <1>5, <2>2
  <2>4. StreamRuns(c, x, c.salt + Len(g) + Len(rest), g)
    BY <2>3 DEF StreamRuns
  <2> QED BY <1>2, <1>5, <2>1, <2>4 DEF StreamDelivered, OK, NEED_MORE, ERROR
<1>15. CASE rest # << >> /\ x.init = 1 /\ c.filtered /\ known
  <2>1. r = [err |-> ERROR, ctx |-> moved, buf |-> b, plain |-> << >>, known |-> known]
    BY <1>2, <1>6, <1>15 DEF StreamTail
  <2> QED BY <1>2, <1>5, <1>10, <1>15, <2>1 DEF StreamDelivered, OK, NEED_MORE, ERROR
<1>16. ASSUME NEW y, y \in {moved, done} PROVE StreamParts(y, b) /\ StreamRuns(c, y, c.salt + Len(g) + Len(rest), g \o P)
  <2>1. y.init \in 1..2 /\ y.nonce = Len(g) + Len(rest)
    BY <1>7, <1>12, <1>16
  <2>2. c.salt + Len(g) + Len(rest) = c.salt + (Len(g) + Len(rest))
    BY <1>5, Sums
  <2> QED BY <1>4, <1>10, <1>13, <1>16, <2>1, <2>2 DEF StreamRuns
<1>17. CASE rest # << >> /\ x.init = 1 /\ c.filtered /\ ~known
  <2>1. r = [err |-> OK, ctx |-> done, buf |-> b, plain |-> P, known |-> TRUE]
    BY <1>2, <1>3, <1>6, <1>11, <1>17 DEF StreamTail
  <2> QED BY <1>2, <1>4, <1>16, <2>1 DEF StreamDelivered, OK, NEED_MORE, ERROR
<1>18. CASE rest # << >> /\ ~(x.init = 1 /\ c.filtered)
  <2>1. r = [err |-> OK, ctx |-> moved, buf |-> b, plain |-> P, known |-> known]
    BY <1>2, <1>3, <1>6, <1>18 DEF StreamTail
  <2> QED BY <1>2, <1>4, <1>16, <2>1 DEF StreamDelivered, OK, NEED_MORE, ERROR
<1> QED BY <1>14, <1>15, <1>17, <1>18

\* Gathering the IV.
Ivs(ctx, cells, l) == [ctx EXCEPT !.chunk = [Write(ctx.chunk, ctx.chunk.len, SubSeq(cells, 1, l)) EXCEPT !.len = @ + l]]

\* The bytes of the IV go into the chunk buffer.
LEMMA IvGathers ==
    ASSUME NEW ctx \in Context, ctx.chunk.idx = 0, ctx.chunk.len <= Len(ctx.chunk.data),
           NEW cells \in Seq(Cell), NEW l \in 0..Len(cells)
    PROVE  \E B \in Buffer : /\ Ivs(ctx, cells, l) = [init |-> ctx.init, nonce |-> ctx.nonce, chunk |-> B]
                             /\ B.idx = 0 /\ B.len = ctx.chunk.len + l /\ B.len <= Len(B.data)
<1>1. PICK b \in Buffer : b = ctx.chunk
  BY ContextParts
<1>2. b.data \in Seq(Cell) /\ b.idx = 0 /\ b.len \in Nat /\ b.cap \in Nat /\ Len(b.data) \in Nat /\ b.len <= Len(b.data)
  BY <1>1, BufferParts
<1>3. PICK sub : sub = SubSeq(cells, 1, l)
  OBVIOUS
<1>4. l \in Nat /\ Len(cells) \in Nat
  OBVIOUS
<1>5. sub \in Seq(Cell) /\ Len(sub) = l
  <2>1. CASE l = 0
    BY <1>3, <2>1, EmptySeq
  <2>2. CASE l # 0
    BY <1>3, <1>4, <2>2, SubSeqProperties
  <2> QED BY <2>1, <2>2
<1>6. PICK D : /\ Written(D, b.data, b.len, sub)
               /\ Write(b, b.len, sub) = [data |-> D, idx |-> b.idx, len |-> b.len, cap |-> b.cap]
  BY <1>2, <1>5, WriteIs
<1>7. D \in Seq(Cell) /\ b.len + l <= Len(D)
  BY <1>5, <1>6 DEF Written
<1>8. PICK W : W = Write(b, b.len, sub)
  OBVIOUS
<1>9. PICK B : B = [data |-> D, idx |-> b.idx, len |-> b.len + l, cap |-> b.cap]
  OBVIOUS
<1>10. [W EXCEPT !.len = @ + l] = B
  BY <1>6, <1>8, <1>9
<1>11. PICK i, m : ctx = [init |-> i, nonce |-> m, chunk |-> b] /\ i = ctx.init /\ m = ctx.nonce
  BY <1>1, ContextParts
<1>12. Ivs(ctx, cells, l) = [ctx EXCEPT !.chunk = [Write(ctx.chunk, ctx.chunk.len, SubSeq(cells, 1, l)) EXCEPT !.len = @ + l]]
  BY Zenon DEF Ivs
<1>13. Ivs(ctx, cells, l) = [ctx EXCEPT !.chunk = B]
  <2>1. Write(ctx.chunk, ctx.chunk.len, SubSeq(cells, 1, l)) = W
    BY <1>1, <1>3, <1>8
  <2> QED BY <1>10, <1>12, <2>1
<1>14. Ivs(ctx, cells, l) = [init |-> i, nonce |-> m, chunk |-> B]
  BY <1>11, <1>13
<1>15. b.len + l \in Nat
  BY <1>2, <1>4
<1>16. B \in Buffer /\ B.idx = 0 /\ B.len = b.len + l /\ B.len <= Len(B.data)
  BY <1>2, <1>7, <1>9, <1>15 DEF Buffer
<1> QED BY <1>1, <1>11, <1>14, <1>16

\* stream_decrypt, by what it has gathered.
StreamBody(c, init0, b, have, rest, ready) ==
    IF init0 = 0 /\ have.chunk.len < c.salt THEN [err |-> NEED_MORE, ctx |-> have, buf |-> b, plain |-> << >>, known |-> known]
    ELSE IF init0 = 0 /\ c.filtered /\ known THEN [err |-> ERROR, ctx |-> ready, buf |-> b, plain |-> << >>, known |-> known]
    ELSE StreamTail(c, ready, b, rest)

\* stream_decrypt in these terms.
LEMMA StreamIs ==
    ASSUME NEW c, NEW ctx, NEW b, NEW cells
    PROVE  LET left == IF ctx.init = 0 THEN Min({c.salt - ctx.chunk.len, Len(cells)}) ELSE 0
               have == IF ctx.init = 0 THEN Ivs(ctx, cells, left) ELSE ctx
           IN  StreamDecrypt(c, ctx, b, cells) =
               StreamBody(c, ctx.init, b, have, Drop(cells, left), IF ctx.init = 0 THEN [have EXCEPT !.init = 1, !.nonce = 0] ELSE ctx)
  BY DEF StreamDecrypt, StreamBody, StreamTail, Decipher, Ivs

\* How much of the IV is missing, when it comes in full.
LEMMA Remains ==
    ASSUME NEW z \in Nat, NEW A \in Nat, NEW n \in Nat, A = 0 \/ A < z, ~(A + n < z)
    PROVE  z - A \in 0..n /\ z - A \in Nat /\ A + (z - A) = z /\ z + (n - (z - A)) = A + n /\ n - (z - A) \in Nat
  OBVIOUS

\* How much of what arrived belongs to the IV.
LEMMA MinLeft ==
    ASSUME NEW z \in Nat, NEW A \in Nat, NEW n \in Nat, A = 0 \/ A < z
    PROVE  Min({z - A, n}) = IF A + n < z THEN n ELSE z - A
<1>1. Min({z - A, n}) = IF z - A <= n THEN z - A ELSE n
  BY MinOfTwo
<1> QED BY <1>1

\* stream_decrypt delivers, however much has arrived.
LEMMA StreamReceives ==
    ASSUME NEW c, IsCipher(c), NEW N \in Nat, NEW w, Streamed(c, w, N), NEW ctx, NEW b, StreamParts(ctx, b),
           NEW A \in Nat, NEW n, A + n <= Len(w), NEW g, StreamGot(w, N, g), StreamRuns(c, ctx, A, g),
           NEW cells, Comes(cells, w, A, n), known \in BOOLEAN
    PROVE  StreamDelivered(StreamDecrypt(c, ctx, b, cells), c, w, N, A + n, g)
<1>1. /\ ctx \in Context /\ ctx.init \in 0..2 /\ ctx.chunk.idx = 0 /\ ctx.chunk.len <= Len(ctx.chunk.data)
      /\ b \in Buffer /\ b.cap >= Capacity
  BY DEF StreamParts
<1>2. cells \in Seq(Cell) /\ Len(cells) = n /\ n \in Nat \ {0} /\ \A i \in 1..n : cells[i] = w[A + i]
  <2>1. cells \in Seq(Cell) /\ Len(cells) = n /\ n \in 1..Capacity /\ \A i \in 1..n : cells[i] = w[A + i]
    BY DEF Comes
  <2>2. n \in Nat \ {0}
    BY <2>1, StreamAssumption
  <2> QED BY <2>1, <2>2
<1>3. PICK z \in Nat : z = c.salt
  BY DEF IsCipher
<1>4. c.filtered \in BOOLEAN
  BY DEF IsCipher
<1>5. A + n <= z + N
  <2>1. Len(w) = IF N = 0 THEN 0 ELSE z + N
    BY <1>3 DEF Streamed
  <2> QED BY <1>2, <2>1
<1>6. PICK r : r = StreamDecrypt(c, ctx, b, cells)
  OBVIOUS
<1>7. CASE ctx.init # 0
  <2>1. ctx.nonce = Len(g) /\ A = z + Len(g) /\ Len(g) \in Nat /\ ctx.init \in 1..2
    BY <1>1, <1>3, <1>7 DEF StreamRuns, StreamGot
  <2>2. Drop(cells, 0) = cells
    <3>1. /\ Drop(cells, 0) \in Seq(Cell) /\ Len(Drop(cells, 0)) = Len(cells) - 0
          /\ \A i \in 1..(Len(cells) - 0) : Drop(cells, 0)[i] = cells[0 + i]
      <4>1. 0 \in 0..Len(cells)
        BY <1>2
      <4> QED BY <1>2, <4>1, DropIs, Zenon
    <3> QED BY <1>2, <3>1, SeqEqual
  <2>3. r = StreamTail(c, ctx, b, cells)
    BY <1>6, <1>7, <2>2, StreamIs DEF StreamBody
  <2>4. Follows(cells, c, w, N, g)
    <3>1. PICK a \in Nat : a = Len(g)
      BY <2>1
    <3>2. A = z + a /\ a + n <= N
      BY <1>2, <1>5, <2>1, <3>1
    <3> QED BY <1>2, <1>3, <3>1, <3>2 DEF Follows
  <2>5. c.salt + Len(g) + Len(cells) = A + n
    BY <1>2, <1>3, <2>1
  <2>6. StreamDelivered(StreamTail(c, ctx, b, cells), c, w, N, c.salt + Len(g) + Len(cells), g)
    BY <1>3, <2>1, <2>4, TailDelivers
  <2> QED BY <1>6, <2>3, <2>5, <2>6
<1>8. CASE ctx.init = 0
  <2>1. g = << >> /\ ctx.chunk.len = A /\ (A = 0 \/ A < z)
    BY <1>3, <1>8 DEF StreamRuns
  <2>2. PICK l : l = IF A + n < z THEN n ELSE z - A
    OBVIOUS
  <2>3. l \in 0..Len(cells) /\ l \in Nat
    BY <1>2, <2>1, <2>2, Remains
  <2>4. Min({c.salt - ctx.chunk.len, Len(cells)}) = l
    BY <1>2, <1>3, <2>1, <2>2, MinLeft
  <2>5. PICK have : have = Ivs(ctx, cells, l)
    OBVIOUS
  <2>6. PICK B \in Buffer : /\ have = [init |-> ctx.init, nonce |-> ctx.nonce, chunk |-> B]
                            /\ B.idx = 0 /\ B.len = ctx.chunk.len + l /\ B.len <= Len(B.data)
    BY <1>1, <1>2, <2>3, <2>5, IvGathers
  <2>7. PICK ready : ready = [have EXCEPT !.init = 1, !.nonce = 0]
    OBVIOUS
  <2>8. have \in Context
    <3>1. ctx.init \in Nat /\ ctx.nonce \in Nat
      BY <1>1, ContextParts
    <3> QED BY <2>6, <3>1 DEF Context
  <2>9. ready = [init |-> 1, nonce |-> 0, chunk |-> B]
    <3>1. ASSUME NEW i, NEW m PROVE [have EXCEPT !.init = i, !.nonce = m] = [init |-> i, nonce |-> m, chunk |-> have.chunk]
      BY <2>8, Rekeyed, Zenon
    <3>2. [have EXCEPT !.init = 1, !.nonce = 0] = [init |-> 1, nonce |-> 0, chunk |-> have.chunk]
      BY <3>1, Zenon
    <3>3. have.chunk = B
      BY <2>6
    <3> QED BY <2>7, <3>2, <3>3, Zenon
  <2>10. PICK rest : rest = Drop(cells, l)
    OBVIOUS
  <2>11. r = IF have.chunk.len < c.salt THEN [err |-> NEED_MORE, ctx |-> have, buf |-> b, plain |-> << >>, known |-> known]
             ELSE IF c.filtered /\ known THEN [err |-> ERROR, ctx |-> ready, buf |-> b, plain |-> << >>, known |-> known]
             ELSE StreamTail(c, ready, b, rest)
    <3>1. r = StreamBody(c, ctx.init, b, have, rest, ready)
      BY <1>6, <1>8, <2>4, <2>5, <2>7, <2>10, StreamIs, Zenon
    <3> QED BY <1>8, <3>1 DEF StreamBody
  <2>12. StreamParts(have, b) /\ have.init = 0 /\ have.chunk.len = A + l
    BY <1>1, <1>8, <2>1, <2>6, <2>8 DEF StreamParts
  <2>13. StreamParts(ready, b) /\ ready.init \in 1..2 /\ ready.nonce = 0
    <3>1. ready \in Context
      BY <2>9 DEF Context
    <3> QED BY <1>1, <2>6, <2>9, <3>1 DEF StreamParts
  <2>14. g \o << >> = g /\ Len(g) = 0
    BY <2>1, ConcatEmptySeq, EmptySeq DEF StreamGot
  <2>15. CASE A + n < z
    <3>1. l = n /\ have.chunk.len < c.salt
      BY <1>3, <2>2, <2>12, <2>15
    <3>2. r = [err |-> NEED_MORE, ctx |-> have, buf |-> b, plain |-> << >>, known |-> known]
      BY <2>11, <3>1
    <3>3. StreamRuns(c, have, A + n, g)
      BY <1>3, <2>1, <2>12, <2>15, <3>1 DEF StreamRuns
    <3> QED BY <1>6, <2>12, <2>14, <3>2, <3>3 DEF StreamDelivered, OK, NEED_MORE, ERROR
  <2>16. CASE ~(A + n < z)
    <3>1. l = z - A /\ A + l = z /\ z + (n - l) = A + n /\ n - l \in Nat
      <4>1. z - A \in 0..n /\ z - A \in Nat /\ A + (z - A) = z /\ z + (n - (z - A)) = A + n /\ n - (z - A) \in Nat
        <5>1. n \in Nat
          BY <1>2
        <5> QED BY <2>1, <2>16, <5>1, Remains
      <4>2. l = z - A
        BY <2>2, <2>16
      <4> QED BY <4>1, <4>2
    <3>2. ~(have.chunk.len < c.salt)
      BY <1>3, <2>12, <3>1
    <3>3. rest \in Seq(Cell) /\ Len(rest) = n - l /\ \A i \in 1..(n - l) : rest[i] = cells[l + i]
      <4>1. /\ Drop(cells, l) \in Seq(Cell) /\ Len(Drop(cells, l)) = Len(cells) - l
            /\ \A i \in 1..(Len(cells) - l) : Drop(cells, l)[i] = cells[l + i]
        BY <1>2, <2>3, DropIs, ZenonT(60)
      <4> QED BY <1>2, <2>10, <4>1
    <3>4. Follows(rest, c, w, N, g)
      <4>1. n - l <= N
        BY <1>2, <1>5, <3>1
      <4>2. ASSUME NEW i \in 1..(n - l) PROVE rest[i] = w[z + 0 + i]
        <5>1. l + i \in 1..n /\ A + (l + i) = z + 0 + i
          BY <1>2, <2>3, <3>1
        <5> QED BY <1>2, <3>3, <5>1
      <4>3. 0 + Len(rest) <= N
        BY <3>1, <3>3, <4>1
      <4> QED BY <1>3, <2>14, <3>3, <4>2, <4>3 DEF Follows
    <3>5. CASE c.filtered /\ known
      <4>1. r = [err |-> ERROR, ctx |-> ready, buf |-> b, plain |-> << >>, known |-> known]
        BY <2>11, <3>2, <3>5
      <4> QED BY <1>6, <2>13, <2>14, <3>5, <4>1 DEF StreamDelivered, OK, NEED_MORE, ERROR
    <3>6. CASE ~(c.filtered /\ known)
      <4>1. r = StreamTail(c, ready, b, rest)
        BY <2>11, <3>2, <3>6
      <4>2. c.salt + Len(g) + Len(rest) = A + n
        <5>1. z + 0 + (n - l) = A + n
          BY <3>1
        <5> QED BY <1>3, <2>14, <3>3, <5>1
      <4>3. StreamDelivered(StreamTail(c, ready, b, rest), c, w, N, c.salt + Len(g) + Len(rest), g)
        BY <1>3, <2>13, <2>14, <3>4, TailDelivers
      <4> QED BY <1>6, <4>1, <4>2, <4>3
    <3> QED BY <3>5, <3>6
  <2> QED BY <2>15, <2>16
<1> QED BY <1>7, <1>8

-----------------------------------------------------------------------------
(* The steps of a connection *)

\* Receiving with a stream cipher.
LEMMA StreamReceiveStep ==
    ASSUME IsCipher(cipher), cipher.kind # "aead", known \in BOOLEAN, sent \in Nat, StreamInv,
           NEW n \in 1..Capacity, Receive(n)
    PROVE  StreamInv' /\ failed' \in BOOLEAN /\ known' \in BOOLEAN
<1>1. /\ Streamed(cipher, wire, sent)
      /\ enc \in Context /\ enc.nonce = sent /\ enc.init = IF sent = 0 THEN 0 ELSE 1
      /\ StreamParts(dec, buf) /\ arrived \in 0..Len(wire) /\ StreamGot(wire, sent, got)
      /\ ~failed => StreamRuns(cipher, dec, arrived, got)
  BY DEF StreamInv
<1>2. PICK cells : cells = SubSeq(wire, arrived + 1, arrived + n)
  OBVIOUS
<1>3. PICK r : r = StreamDecrypt(cipher, dec, buf, cells)
  OBVIOUS
<1>4. /\ ~failed /\ arrived + n <= Len(wire)
      /\ dec' = r.ctx /\ buf' = r.buf /\ known' = r.known /\ (failed' <=> r.err = ERROR) /\ failed' \in BOOLEAN
      /\ got' = got \o r.plain /\ arrived' = arrived + n
      /\ UNCHANGED <<cipher, enc, sent, wire>>
  BY <1>2, <1>3 DEF Receive
<1>5. wire \in Seq(Cell) /\ arrived \in Nat
  BY <1>1 DEF Streamed
<1>6. Comes(cells, wire, arrived, n)
  BY <1>2, <1>4, <1>5, NextBytes
<1>7. StreamDelivered(r, cipher, wire, sent, arrived + n, got)
  BY <1>1, <1>3, <1>4, <1>5, <1>6, StreamReceives
<1>8. /\ StreamParts(r.ctx, r.buf) /\ r.known \in {known, TRUE} /\ StreamGot(wire, sent, got \o r.plain)
      /\ r.err # ERROR => StreamRuns(cipher, r.ctx, arrived + n, got \o r.plain)
      /\ r.err = ERROR => r.known = TRUE
  BY <1>7 DEF StreamDelivered
<1>9. arrived' \in 0..Len(wire')
  <2>1. n \in Nat /\ Len(wire) \in Nat
    BY <1>5, StreamAssumption
  <2> QED BY <1>4, <1>5, <2>1
<1>10. /\ ~failed' => StreamRuns(cipher', dec', arrived', got')
       /\ failed' => known' = TRUE
  BY <1>4, <1>8
<1>11. StreamParts(dec', buf') /\ StreamGot(wire', sent', got') /\ Streamed(cipher', wire', sent')
  BY <1>1, <1>4, <1>8
<1>12. known' \in BOOLEAN
  BY <1>4, <1>8
<1> QED BY <1>1, <1>4, <1>9, <1>10, <1>11, <1>12 DEF StreamInv

-----------------------------------------------------------------------------

\* The cipher is one of the tables.
InTables == cipher \in {StreamTable[i] : i \in DOMAIN StreamTable} \cup {AeadTable[i] : i \in DOMAIN AeadTable}

\* Which say what a cipher is.
LEMMA TableCipher ==
    ASSUME InTables
    PROVE  IsCipher(cipher)
<1>1. CASE \E i \in DOMAIN StreamTable : cipher = StreamTable[i]
  BY <1>1, TablesAssumption DEF IsCipher
<1>2. CASE \E i \in DOMAIN AeadTable : cipher = AeadTable[i]
  BY <1>2, TablesAssumption DEF IsCipher
<1> QED BY <1>1, <1>2 DEF InTables

\* The inductive invariant of the connection.
FramingInv == InTables /\ BytesInv

\* A new connection satisfies it.
LEMMA FramingStarts == FramingInit => FramingInv
<1> SUFFICES ASSUME FramingInit PROVE FramingInv
  OBVIOUS
<1>1. InTables
  BY DEF FramingInit, InTables, CryptoInit, Find
<1>2. IsCipher(cipher)
  BY <1>1, TableCipher
<1>3. sent \in 0..MaxBytes /\ failed \in BOOLEAN /\ known \in BOOLEAN
  <2>1. sent = 0 /\ failed = FALSE /\ known = FALSE
    BY DEF FramingInit
  <2>2. 0 \in 0..MaxBytes
    BY FramingAssumption
  <2> QED BY <2>1, <2>2
<1> QED BY <1>1, <1>2, <1>3, AeadStarts, StreamStarts DEF FramingInv, BytesInv

\* Every step of the sender, the receiver, the wire and the filter keeps it.
LEMMA FramingSteps == FramingInv /\ [FramingNext]_framingVars => FramingInv'
<1> SUFFICES ASSUME FramingInv, [FramingNext]_framingVars PROVE FramingInv'
  OBVIOUS
<1>1. /\ InTables /\ IsCipher(cipher) /\ sent \in 0..MaxBytes /\ sent \in Nat /\ failed \in BOOLEAN /\ known \in BOOLEAN
      /\ cipher.kind = "aead" => AeadInv
      /\ cipher.kind # "aead" => StreamInv
  BY FramingAssumption DEF FramingInv, BytesInv
<1>2. ASSUME cipher.kind = "aead"
      PROVE  \E K \in Nat : \E txt, off \in [0..K -> Nat] : AeadAt(K, txt, off)
  BY <1>1, <1>2 DEF AeadInv
<1>3. ASSUME cipher' = cipher, sent' \in 0..MaxBytes, failed' \in BOOLEAN, known' \in BOOLEAN,
             cipher.kind = "aead" => AeadInv', cipher.kind # "aead" => StreamInv'
      PROVE  FramingInv'
  <2>1. InTables' /\ IsCipher(cipher')
    BY <1>1, <1>3 DEF InTables
  <2> QED BY <1>3, <2>1 DEF FramingInv, BytesInv
<1>4. ASSUME NEW n \in 1..Capacity, SendBytes(n) PROVE FramingInv'
  <2>1. cipher' = cipher /\ failed' = failed /\ known' = known /\ sent' = sent + n /\ sent + n <= MaxBytes
    BY <1>4 DEF SendBytes
  <2>2. sent' \in 0..MaxBytes
    BY <1>1, <2>1, StreamAssumption, FramingAssumption
  <2>3. ASSUME cipher.kind = "aead" PROVE AeadInv'
    <3>1. PICK K \in Nat : \E txt, off \in [0..K -> Nat] : AeadAt(K, txt, off)
      BY <1>2, <2>3
    <3>2. PICK txt \in [0..K -> Nat], off \in [0..K -> Nat] : AeadAt(K, txt, off)
      BY <3>1
    <3> QED BY <1>1, <1>4, <2>3, <3>2, AeadSends
  <2>4. ASSUME cipher.kind # "aead" PROVE StreamInv'
    BY <1>1, <1>4, <2>4, StreamSends
  <2> QED BY <1>1, <1>3, <2>1, <2>2, <2>3, <2>4
<1>5. ASSUME NEW n \in 1..Capacity, Receive(n) PROVE FramingInv'
  <2>1. cipher' = cipher /\ sent' = sent
    BY <1>5 DEF Receive
  <2>2. ASSUME cipher.kind = "aead" PROVE AeadInv' /\ failed' \in BOOLEAN /\ known' \in BOOLEAN
    <3>1. PICK K \in Nat : \E txt, off \in [0..K -> Nat] : AeadAt(K, txt, off)
      BY <1>2, <2>2
    <3>2. PICK txt \in [0..K -> Nat], off \in [0..K -> Nat] : AeadAt(K, txt, off)
      BY <3>1
    <3> QED BY <1>1, <1>5, <2>2, <3>2, AeadReceiveStep
  <2>3. ASSUME cipher.kind # "aead" PROVE StreamInv' /\ failed' \in BOOLEAN /\ known' \in BOOLEAN
    BY <1>1, <1>5, <2>3, StreamReceiveStep
  <2> QED BY <1>1, <1>3, <2>1, <2>2, <2>3
<1>6. ASSUME Corrupt PROVE FramingInv'
  <2>1. cipher' = cipher /\ failed' = failed /\ known' = known /\ sent' = sent
    BY <1>6 DEF Corrupt
  <2>2. ASSUME cipher.kind = "aead" PROVE AeadInv'
    <3>1. PICK K \in Nat : \E txt, off \in [0..K -> Nat] : AeadAt(K, txt, off)
      BY <1>2, <2>2
    <3>2. PICK txt \in [0..K -> Nat], off \in [0..K -> Nat] : AeadAt(K, txt, off)
      BY <3>1
    <3> QED BY <1>1, <1>6, <2>2, <3>2, AeadCorruptStep
  <2>3. ASSUME cipher.kind # "aead" PROVE StreamInv'
    BY <1>1, <1>6, <2>3, StreamCorruptStep
  <2> QED BY <1>1, <1>3, <2>1, <2>2, <2>3
<1>7. ASSUME known = TRUE => known' = TRUE, known' \in BOOLEAN,
             UNCHANGED <<cipher, enc, dec, sent, wire, arrived, buf, got, failed>>
      PROVE  FramingInv'
  <2>1. cipher' = cipher /\ failed' = failed /\ sent' = sent
    BY <1>7
  <2>2. ASSUME cipher.kind = "aead" PROVE AeadInv'
    <3>1. PICK K \in Nat : \E txt, off \in [0..K -> Nat] : AeadAt(K, txt, off)
      BY <1>2, <2>2
    <3>2. PICK txt \in [0..K -> Nat], off \in [0..K -> Nat] : AeadAt(K, txt, off)
      BY <3>1
    <3> QED BY <1>7, <3>2, AeadQuietStep
  <2>3. ASSUME cipher.kind # "aead" PROVE StreamInv'
    BY <1>1, <1>7, <2>3, StreamQuietStep
  <2> QED BY <1>1, <1>3, <1>7, <2>1, <2>2, <2>3
<1>8. ASSUME Overtaken PROVE FramingInv'
  <2>1. /\ known = TRUE => known' = TRUE
        /\ known' \in BOOLEAN
        /\ UNCHANGED <<cipher, enc, dec, sent, wire, arrived, buf, got, failed>>
    BY <1>8 DEF Overtaken
  <2> QED BY <1>7, <2>1
<1>9. ASSUME Answers \/ \E n \in 1..MaxPacket : \E cut \in 0..n : Datagram(n, cut) PROVE FramingInv'
  <2>1. /\ known' = known
        /\ UNCHANGED <<cipher, enc, dec, sent, wire, arrived, buf, got, failed>>
    BY <1>9 DEF Datagram, Answers, streamVars
  <2> QED BY <1>1, <1>7, <2>1
<1>10. ASSUME UNCHANGED framingVars PROVE FramingInv'
  <2>1. /\ known' = known
        /\ UNCHANGED <<cipher, enc, dec, sent, wire, arrived, buf, got, failed>>
    BY <1>10 DEF framingVars
  <2> QED BY <1>1, <1>7, <2>1
<1> QED BY <1>4, <1>5, <1>6, <1>8, <1>9, <1>10 DEF FramingNext

\* On every reachable connection the wire is the salt and what was sent, but for
\* changed bytes, and the contexts of sender and receiver are where the wire is.
THEOREM FramingInvariant == FramingSpec => []FramingInv
  BY FramingStarts, FramingSteps, PTL DEF FramingSpec

-----------------------------------------------------------------------------
(* The properties *)

\* The beginning of a text.
LEMMA TextPrefix ==
    ASSUME NEW a \in Nat, NEW n \in Nat, a <= n
    PROVE  IsPrefixOf(Text(0, a), Text(0, n))
<1>1. Text(0, a) \in Seq(Nat) /\ Len(Text(0, a)) = a /\ \A i \in 1..a : Text(0, a)[i] = i
  BY FirstText, Zenon
<1>2. Text(0, n) \in Seq(Nat) /\ Len(Text(0, n)) = n /\ \A i \in 1..n : Text(0, n)[i] = i
  BY FirstText, Zenon
<1>3. PICK s : s = SubSeq(Text(0, n), 1, a)
  OBVIOUS
<1>4. s \in Seq(Nat) /\ Len(s) = a /\ \A i \in 1..a : s[i] = i
  <2>1. CASE a = 0
    BY <1>3, <2>1, EmptySeq
  <2>2. CASE a # 0
    <3>1. /\ s \in Seq(Nat) /\ Len(s) = a /\ \A i \in 1..a : s[i] = Text(0, n)[1 + i - 1]
      BY <1>2, <1>3, <2>2, SubSeqProperties
    <3>2. ASSUME NEW i \in 1..a PROVE s[i] = i
      <4>1. 1 + i - 1 = i /\ i \in 1..n
        OBVIOUS
      <4> QED BY <1>2, <3>1, <4>1
    <3> QED BY <3>1, <3>2
  <2> QED BY <2>1, <2>2
<1>5. s = Text(0, a)
  BY <1>1, <1>4, SeqEqual
<1> QED BY <1>1, <1>2, <1>3, <1>5 DEF IsPrefixOf

\* The two ways to say that a byte was changed.
LEMMA CorruptedIs ==
    ASSUME wire \in Seq(Cell)
    PROVE  Corrupted <=> Tampered(wire)
<1>1. DOMAIN wire = 1..Len(wire)
  OBVIOUS
<1> QED BY <1>1 DEF Corrupted, Tampered

\* An AEAD cipher: the receiver has whole chunks, and all of them when all has arrived.
LEMMA AeadExact ==
    ASSUME IsCipher(cipher), cipher.kind = "aead", failed \in BOOLEAN, known \in BOOLEAN,
           NEW K \in Nat, NEW txt, NEW off, AeadAt(K, txt, off)
    PROVE  /\ IsPrefixOf(got, Text(0, sent)) /\ AllGiven /\ BuffersFit
           /\ enc.init \in 0..1 /\ dec.init \in 0..2 /\ arrived \in 0..Len(wire)
           /\ dec.chunk.idx + dec.chunk.len <= Len(dec.chunk.data)
<1>1. /\ Layout(cipher, K, txt, off) /\ Chunked(cipher, wire, K, txt, off)
      /\ sent = txt[K] /\ enc.init = IF K = 0 THEN 0 ELSE 1
      /\ Parts(dec, buf) /\ arrived \in 0..Len(wire)
      /\ ~failed => Runs(cipher, K, txt, off, dec, wire, arrived, got)
      /\ failed => (Tampered(wire) \/ known = TRUE) /\ Stopped(K, txt, got)
  BY DEF AeadAt
<1>2. /\ LenLen \in Nat \ {0} /\ cipher.tag \in Nat /\ cipher.salt \in Nat
      /\ \A k \in 0..K : txt[k] \in Nat /\ off[k] \in Nat /\ txt[k] <= txt[K] /\ off[k] <= off[K]
      /\ txt[0] = 0 /\ off[0] = cipher.salt
      /\ \A k \in 0..(K - 1) : /\ txt[k + 1] - txt[k] \in 1..Capacity
                               /\ off[k + 1] = off[k] + LenLen + 2 * cipher.tag + (txt[k + 1] - txt[k])
  BY <1>1, StreamAssumption DEF Layout, IsCipher
<1>3. wire \in Seq(Cell) /\ Len(wire) = IF K = 0 THEN 0 ELSE off[K]
  BY <1>1 DEF Chunked
<1>4. PICK m \in 0..K : /\ got = Text(0, txt[m])
                        /\ ~failed /\ arrived = Len(wire) => txt[m] = sent
  <2>1. CASE failed
    BY <1>1, <2>1 DEF Stopped
  <2>2. CASE ~failed /\ dec.init = 0
    <3>1. got = << >> /\ arrived <= cipher.salt
      BY <1>1, <2>2 DEF Runs
    <3>2. 0 \in 0..K /\ got = Text(0, txt[0])
      BY <1>2, <3>1 DEF Text
    <3>3. ASSUME K # 0, arrived = Len(wire) PROVE FALSE
      <4>1. 0 \in 0..(K - 1) /\ 0 + 1 = 1 /\ 1 \in 0..K
        BY <3>3
      <4>2. PICK d \in 1..Capacity : off[1] = off[0] + LenLen + 2 * cipher.tag + d
        BY <1>2, <4>1
      <4>3. off[1] > cipher.salt
        BY <1>2, <4>2, StreamAssumption
      <4>4. off[1] <= off[K] /\ off[1] \in Nat /\ off[K] \in Nat /\ off[K] = arrived
        BY <1>2, <1>3, <3>3, <4>1
      <4> QED BY <1>2, <3>1, <4>3, <4>4
    <3>4. K = 0 => txt[0] = sent
      BY <1>1
    <3> QED BY <3>2, <3>3, <3>4
  <2>3. CASE ~failed /\ dec.init # 0
    <3>1. PICK m \in 0..K : Reading(K, txt, off, m, dec, wire, arrived, got)
      BY <1>1, <2>3 DEF Runs
    <3>2. got = Text(0, txt[m]) /\ (m < K => arrived < off[m + 1])
      BY <3>1 DEF Reading
    <3>3. ASSUME m # K, arrived = Len(wire) PROVE FALSE
      <4>1. m < K /\ m + 1 \in 0..K /\ K # 0
        BY <3>3
      <4>2. off[m + 1] <= off[K] /\ off[m + 1] \in Nat /\ off[K] \in Nat /\ off[K] = arrived /\ arrived < off[m + 1]
        BY <1>2, <1>3, <3>2, <3>3, <4>1
      <4> QED BY <4>2
    <3> QED BY <1>1, <3>2, <3>3
  <2> QED BY <2>1, <2>2, <2>3
<1>5. txt[m] \in Nat /\ sent \in Nat /\ txt[m] <= sent
  BY <1>1, <1>2
<1>6. IsPrefixOf(got, Text(0, sent))
  BY <1>4, <1>5, TextPrefix
<1>7. Len(got) = txt[m]
  BY <1>4, <1>5, TextIs
<1>8. AllGiven
  BY <1>1, <1>3, <1>4, <1>7, CorruptedIs DEF AllGiven
<1>9. /\ dec.init \in 0..2 /\ buf.cap >= Capacity
      /\ dec.chunk.idx + dec.chunk.len <= Len(dec.chunk.data) /\ dec.chunk.idx + dec.chunk.len <= dec.chunk.cap
  BY <1>1 DEF Parts, Fits
<1> QED BY <1>1, <1>6, <1>8, <1>9 DEF BuffersFit

\* A stream cipher: what the receiver has, and all of it when all has arrived.
LEMMA StreamExactFollows ==
    ASSUME IsCipher(cipher), cipher.kind # "aead", failed \in BOOLEAN, known \in BOOLEAN, sent \in Nat, StreamInv
    PROVE  /\ ~Corrupted => IsPrefixOf(got, Text(0, sent))
           /\ AllGiven /\ BuffersFit
           /\ enc.init \in 0..1 /\ dec.init \in 0..2 /\ arrived \in 0..Len(wire)
           /\ dec.chunk.idx + dec.chunk.len <= Len(dec.chunk.data)
<1>1. /\ Streamed(cipher, wire, sent)
      /\ enc.init = IF sent = 0 THEN 0 ELSE 1
      /\ StreamParts(dec, buf) /\ arrived \in 0..Len(wire) /\ StreamGot(wire, sent, got)
      /\ ~failed => StreamRuns(cipher, dec, arrived, got)
      /\ failed => known = TRUE
  BY DEF StreamInv
<1>2. cipher.salt \in Nat /\ wire \in Seq(Cell) /\ Len(wire) = IF sent = 0 THEN 0 ELSE cipher.salt + sent
  BY <1>1 DEF Streamed, IsCipher
<1>3. Len(got) \in Nat /\ Len(got) <= sent /\ (~Tampered(wire) => got = Text(0, Len(got)))
  BY <1>1 DEF StreamGot
<1>4. ~Corrupted => IsPrefixOf(got, Text(0, sent))
  BY <1>2, <1>3, CorruptedIs, TextPrefix
<1>5. ASSUME ~failed, arrived = Len(wire) PROVE Len(got) = sent
  <2>1. CASE dec.init = 0
    <3>1. got = << >> /\ (arrived = 0 \/ arrived < cipher.salt)
      BY <1>1, <1>5, <2>1 DEF StreamRuns
    <3>2. sent = 0
      BY <1>2, <1>5, <3>1
    <3> QED BY <3>1, <3>2
  <2>2. CASE dec.init # 0
    <3>1. arrived = cipher.salt + Len(got)
      BY <1>1, <1>5, <2>2 DEF StreamRuns
    <3> QED BY <1>2, <1>3, <1>5, <3>1
  <2> QED BY <2>1, <2>2
<1>6. AllGiven
  BY <1>1, <1>5 DEF AllGiven
<1>7. /\ dec \in Context /\ dec.init \in 0..2 /\ buf.cap >= Capacity
      /\ dec.chunk.idx = 0 /\ dec.chunk.len <= Len(dec.chunk.data)
  BY <1>1 DEF StreamParts
<1>8. dec.chunk.len \in Nat
  BY <1>7, ContextParts
<1> QED BY <1>1, <1>4, <1>6, <1>7, <1>8 DEF BuffersFit

\* The invariant says that the stream is exact.
LEMMA InvExact == FramingInv => StreamExact
<1> SUFFICES ASSUME FramingInv PROVE StreamExact
  OBVIOUS
<1>1. /\ InTables /\ IsCipher(cipher) /\ sent \in 0..MaxBytes /\ sent \in Nat /\ failed \in BOOLEAN /\ known \in BOOLEAN
      /\ cipher.kind = "aead" => AeadInv
      /\ cipher.kind # "aead" => StreamInv
  BY FramingAssumption DEF FramingInv, BytesInv
<1>2. /\ cipher.kind = "aead" \/ ~Corrupted => IsPrefixOf(got, Text(0, sent))
      /\ AllGiven /\ BuffersFit
      /\ enc.init \in 0..1 /\ dec.init \in 0..2 /\ arrived \in 0..Len(wire)
      /\ dec.chunk.idx + dec.chunk.len <= Len(dec.chunk.data)
  <2>1. CASE cipher.kind = "aead"
    <3>1. PICK K \in Nat : \E txt, off \in [0..K -> Nat] : AeadAt(K, txt, off)
      BY <1>1, <2>1 DEF AeadInv
    <3>2. PICK txt \in [0..K -> Nat], off \in [0..K -> Nat] : AeadAt(K, txt, off)
      BY <3>1
    <3> QED BY <1>1, <2>1, <3>2, AeadExact
  <2>2. CASE cipher.kind # "aead"
    BY <1>1, <2>2, StreamExactFollows
  <2> QED BY <2>1, <2>2
<1>3. FramingTypeOK
  BY <1>1, <1>2 DEF FramingTypeOK, InTables
<1> QED BY <1>2, <1>3 DEF StreamExact, InOrder

\* aead_decrypt and stream_decrypt give the receiver what was sent, in order, whole
\* when all has arrived and within their buffers, however TCP cuts the ciphertext.
THEOREM StreamIsExact == FramingSpec => []StreamExact
  BY FramingInvariant, InvExact, PTL

-----------------------------------------------------------------------------

\* crypto_derive_key and crypto_hkdf_expand fill a key of any length with the
\* digests in order, or refuse it.
THEOREM KeysAreExact == FramingSpec => []KeysExact
<1>1. FramingInv => KeysExact
  BY KeysExactFollows DEF FramingInv, BytesInv
<1> QED BY <1>1, FramingInvariant, PTL

\* The filter has the nonce of every packet of which something was given, and no
\* nonce of another one, if there are nonces.
FilterInv ==
    /\ \A n \in given : NonceOf(cipher, n) \in filter
    /\ cipher.salt # 0 => \A n \in 1..MaxPacket : n \in filter => n \in given

\* No packet was sent at first.
LEMMA PacketsStart == FramingInit => PacketsWhole /\ FilterInv
<1> SUFFICES ASSUME FramingInit PROVE PacketsWhole /\ FilterInv
  OBVIOUS
<1>1. packet = [text |-> << >>, whole |-> TRUE, again |-> FALSE, result |-> [err |-> OK, plain |-> << >>]]
  BY DEF FramingInit
<1>2. packet.text = << >> /\ packet.whole = TRUE /\ packet.again = FALSE /\ packet.result = Taken(<< >>)
  BY <1>1 DEF Taken
<1>3. packet.result.plain = << >>
  BY <1>2 DEF Taken
<1>4. IsPrefixOf(<< >>, << >>)
  <2>1. << >> \in Seq(Nat) /\ Len(<< >>) = 0
    BY EmptySeq
  <2>2. SubSeq(<< >>, 1, 0) = << >>
    OBVIOUS
  <2> QED BY <2>1, <2>2 DEF IsPrefixOf
<1>5. FilterInv
  BY DEF FramingInit, FilterInv
<1> QED BY <1>2, <1>3, <1>4, <1>5 DEF PacketsWhole

\* A packet, for the first time or again.
LEMMA PacketStep ==
    ASSUME IsCipher(cipher), FilterInv, NEW n \in 1..MaxPacket, NEW cut \in 0..n, Datagram(n, cut)
    PROVE  PacketsWhole' /\ FilterInv'
<1>1. n \in Nat \ {0}
  BY FramingAssumption
<1>2. PICK cells : cells = EncryptAll(cipher, Text(0, n))
  OBVIOUS
<1>3. PICK nonce : nonce = NonceOf(cipher, n)
  OBVIOUS
<1>4. PICK r : r = DecryptAll(cipher, SubSeq(cells, 1, Len(cells) - cut), nonce)
  OBVIOUS
<1>5. PICK again : again = (n \in given)
  OBVIOUS
<1>6. /\ packet' = [text |-> Text(0, n), whole |-> cut = 0, again |-> again, result |-> r]
      /\ filter' = IF r.err = OK THEN filter \cup {nonce} ELSE filter
      /\ given' = IF r.err = OK THEN given \cup {n} ELSE given
      /\ cipher' = cipher
  BY <1>2, <1>3, <1>4, <1>5 DEF Datagram
<1>7. /\ cut = 0 /\ nonce \notin filter => r = Taken(Text(0, n))
      /\ nonce \in filter => r.err = ERROR
      /\ cut # 0 /\ cipher.kind = "aead" => r.err = ERROR
      /\ IsPrefixOf(r.plain, Text(0, n))
  BY <1>1, <1>2, <1>4, PacketResult
<1>8. packet'.text = Text(0, n) /\ (packet'.whole <=> cut = 0) /\ (packet'.again <=> again) /\ packet'.result = r
  BY <1>6
<1>9. /\ n \in given => nonce \in filter
      /\ cipher.salt # 0 => nonce = n /\ (n \in filter => n \in given)
  BY <1>3 DEF FilterInv, NonceOf
<1>10. PacketsWhole'
  BY <1>5, <1>6, <1>7, <1>8, <1>9 DEF PacketsWhole
<1>11. FilterInv'
  <2>1. CASE r.err = OK
    BY <1>3, <1>6, <1>9, <2>1 DEF FilterInv, NonceOf
  <2>2. CASE r.err # OK
    BY <1>6, <2>2 DEF FilterInv, NonceOf
  <2> QED BY <2>1, <2>2
<1> QED BY <1>10, <1>11

\* With a method that has a nonce, a packet that comes whole gives its text if
\* nothing of it was given before; with every method one of which something was,
\* and one of an AEAD cipher that was cut, gives nothing (…_decrypt_all and the
\* filter they share with …_encrypt_all).
THEOREM PacketsAreWhole == FramingSpec => []PacketsWhole
<1>1. FramingInv /\ PacketsWhole /\ FilterInv /\ [FramingNext]_framingVars => PacketsWhole' /\ FilterInv'
  <2> SUFFICES ASSUME FramingInv, PacketsWhole, FilterInv, [FramingNext]_framingVars PROVE PacketsWhole' /\ FilterInv'
    OBVIOUS
  <2>1. IsCipher(cipher)
    BY DEF FramingInv, BytesInv
  <2>2. ASSUME packet' = packet, cipher' = cipher PROVE PacketsWhole'
    BY <2>2 DEF PacketsWhole
  <2>3. ASSUME filter' = filter, given' = given, cipher' = cipher PROVE FilterInv'
    BY <2>3 DEF FilterInv, NonceOf
  <2>4. ASSUME NEW n \in 1..Capacity, SendBytes(n) \/ Receive(n) PROVE PacketsWhole' /\ FilterInv'
    BY <2>2, <2>3, <2>4 DEF SendBytes, Receive, packetVars
  <2>5. CASE Corrupt \/ Overtaken \/ UNCHANGED framingVars
    BY <2>2, <2>3, <2>5 DEF Corrupt, Overtaken, framingVars, packetVars
  <2>6. ASSUME NEW n \in 1..MaxPacket, NEW cut \in 0..n, Datagram(n, cut)
        PROVE  PacketsWhole' /\ FilterInv'
    BY <2>1, <2>6, PacketStep
  <2>7. CASE Answers
    <3>1. packet' = packet /\ cipher' = cipher /\ given' = given
          /\ filter' = filter \cup {NonceOf(cipher, MaxPacket + 1)}
      BY <2>7 DEF Answers
    <3>2. cipher.salt # 0 => NonceOf(cipher, MaxPacket + 1) \notin 1..MaxPacket
      BY FramingAssumption DEF NonceOf
    <3>3. FilterInv'
      BY <3>1, <3>2 DEF FilterInv, NonceOf
    <3> QED BY <2>2, <3>1, <3>3
  <2> QED BY <2>4, <2>5, <2>6, <2>7 DEF FramingNext
<1> QED BY <1>1, PacketsStart, FramingInvariant, PTL DEF FramingSpec

-----------------------------------------------------------------------------
(* Nonces *)

\* Every byte behind the salt is in a chunk.
LEMMA ChunkOf ==
    ASSUME NEW c, IsCipher(c), NEW K, NEW txt, NEW off, Layout(c, K, txt, off), NEW i \in Nat, c.salt < i, i <= off[K]
    PROVE  \E k \in 0..(K - 1) : \E p \in 1..(off[k + 1] - off[k]) : i = off[k] + p
<1>1. /\ K \in Nat /\ c.salt \in Nat /\ off[0] = c.salt /\ \A k \in 0..K : off[k] \in Nat
  BY DEF Layout, IsCipher
<1>2. PICK T : T = {k \in 0..K : i <= off[k]}
  OBVIOUS
<1>3. T \subseteq Nat /\ T # {}
  BY <1>1, <1>2
<1>4. PICK x \in T : \A y \in T : x <= y
  BY <1>3, LeastNat
<1>5. x \in 0..K /\ i <= off[x] /\ x # 0
  BY <1>1, <1>2, <1>4
<1>6. PICK k \in 0..(K - 1) : x = k + 1
  <2>1. x - 1 \in 0..(K - 1) /\ x = (x - 1) + 1
    BY <1>1, <1>5
  <2> QED BY <2>1
<1>7. k \in 0..K /\ k \notin T
  <2>1. k \in 0..K /\ ~(x <= k)
    BY <1>1, <1>6
  <2> QED BY <1>4, <2>1
<1>8. off[k] \in Nat /\ off[k + 1] \in Nat /\ off[k] < i /\ i <= off[k + 1]
  BY <1>1, <1>2, <1>5, <1>6, <1>7
<1>9. PICK p : p = i - off[k]
  OBVIOUS
<1>10. p \in 1..(off[k + 1] - off[k]) /\ i = off[k] + p
  BY <1>8, <1>9
<1> QED BY <1>10

\* Where in its box a byte of a chunk is.
Boxing(cell, k, p, h) ==
    /\ cell.kind = "box"
    /\ IF p <= h THEN cell.nonce = 2 * k /\ cell.at = p ELSE cell.nonce = 2 * k + 1 /\ cell.at = p - h

\* No two bytes of chunks have the same place.
LEMMA BoxingOnce ==
    ASSUME NEW a, NEW b, NEW k \in Nat, NEW p \in Nat, NEW j \in Nat, NEW q \in Nat, NEW h \in Nat,
           Boxing(a, k, p, h), Boxing(b, j, q, h), a.nonce = b.nonce, a.at = b.at
    PROVE  k = j /\ p = q
<1>1. PICK x \in 0..1 : /\ a.nonce = 2 * k + x
                        /\ x = 0 => a.at = p
                        /\ x = 1 => a.at = p - h
  <2>1. CASE p <= h
    BY <2>1 DEF Boxing
  <2>2. CASE ~(p <= h)
    BY <2>2 DEF Boxing
  <2> QED BY <2>1, <2>2
<1>2. PICK y \in 0..1 : /\ b.nonce = 2 * j + y
                        /\ y = 0 => b.at = q
                        /\ y = 1 => b.at = q - h
  <2>1. CASE q <= h
    BY <2>1 DEF Boxing
  <2>2. CASE ~(q <= h)
    BY <2>2 DEF Boxing
  <2> QED BY <2>1, <2>2
<1>3. 2 * k + x = 2 * j + y
  BY <1>1, <1>2
<1>4. k = j /\ x = y
  BY <1>3
<1>5. CASE x = 0
  BY <1>1, <1>2, <1>4, <1>5
<1>6. CASE x = 1
  <2>1. p - h = q - h
    BY <1>1, <1>2, <1>4, <1>6
  <2> QED BY <1>4, <2>1
<1> QED BY <1>5, <1>6

\* The places of the bytes of a chunk.
LEMMA ChunkBoxing ==
    ASSUME NEW c, IsCipher(c), NEW K, NEW txt, NEW off, Layout(c, K, txt, off),
           NEW k \in 0..(K - 1), NEW p \in 1..(off[k + 1] - off[k])
    PROVE  Boxing(Chunk(c, k, txt)[p], k, p, LenLen + c.tag)
<1>1. /\ K \in Nat /\ LenLen \in Nat \ {0} /\ c.tag \in Nat /\ k \in Nat
      /\ txt[k] \in Nat /\ off[k] \in Nat /\ txt[k + 1] - txt[k] \in 1..Capacity
      /\ off[k + 1] = off[k] + LenLen + 2 * c.tag + (txt[k + 1] - txt[k])
  <2>1. K \in Nat /\ k \in 0..K
    BY DEF Layout
  <2> QED BY <2>1, StreamAssumption DEF Layout, IsCipher
<1>2. PICK d \in 1..Capacity : d = txt[k + 1] - txt[k]
  BY <1>1
<1>3. d \in Nat
  BY StreamAssumption
<1>4. PICK h \in Nat : h = LenLen + c.tag
  BY <1>1
<1>5. PICK t \in Nat : t = c.tag
  BY <1>1
<1>6. PICK b : b = Text(txt[k], d)
  OBVIOUS
<1>7. b \in Seq(Nat) /\ Len(b) = d
  BY <1>1, <1>3, <1>6, TextIs
<1>8. PICK C : C = Chunk(c, k, txt)
  OBVIOUS
<1>9. 2 * k \in Nat
  BY <1>1
<1>10. C = ChunkEncrypt(c, 2 * k, b)
  BY <1>2, <1>6, <1>8 DEF Chunk
<1>11. Boxed(C, 0, LenLen + c.tag, 2 * k, LenBody(b)) /\ Boxed(C, LenLen + c.tag, Len(b) + c.tag, 2 * k + 1, b)
  BY <1>7, <1>9, <1>10, ChunkCells
<1>12. CASE p <= h
  <2>1. p \in 1..h /\ 0 + p = p
    BY <1>12
  <2>2. \A i \in 1..h : C[0 + i] = [kind |-> "box", nonce |-> 2 * k, body |-> LenBody(b), at |-> i]
    BY <1>4, <1>11 DEF Boxed
  <2>3. C[p] = [kind |-> "box", nonce |-> 2 * k, body |-> LenBody(b), at |-> p]
    BY <2>1, <2>2
  <2> QED BY <1>4, <1>8, <1>12, <2>3 DEF Boxing
<1>13. CASE ~(p <= h)
  <2>1. PICK e \in 1..(d + t) : p = h + e
    <3>1. off[k + 1] - off[k] = h + t + d
      BY <1>1, <1>2, <1>3, <1>4, <1>5
    <3>2. p \in 1..(h + t + d)
      BY <3>1
    <3>3. p - h \in 1..(d + t) /\ p = h + (p - h)
      BY <1>3, <1>13, <3>2
    <3> QED BY <3>3
  <2>2. \A i \in 1..(d + t) : C[h + i] = [kind |-> "box", nonce |-> 2 * k + 1, body |-> b, at |-> i]
    BY <1>4, <1>5, <1>7, <1>11 DEF Boxed
  <2>3. C[p] = [kind |-> "box", nonce |-> 2 * k + 1, body |-> b, at |-> e]
    BY <2>1, <2>2
  <2>4. e = p - h
    BY <2>1, <1>3
  <2> QED BY <1>4, <1>8, <1>13, <2>3, <2>4 DEF Boxing
<1> QED BY <1>12, <1>13

\* The place of a byte of the key, which may be used once.
PlaceOnce(w, i, j) ==
    i # j /\ w[i] # Junk /\ w[i].kind # "salt" =>
        <<w[i].kind, w[i].nonce, w[i].at>> # <<w[j].kind, w[j].nonce, w[j].at>>

\* NonceOnce, pair by pair.
LEMMA NonceFrom ==
    ASSUME wire \in Seq(Cell),
           (cipher.kind = "salsa" => sent <= Period(cipher)) => \A i, j \in 1..Len(wire) : PlaceOnce(wire, i, j)
    PROVE  NonceOnce
<1>1. DOMAIN wire = 1..Len(wire)
  OBVIOUS
<1> QED BY <1>1 DEF NonceOnce, PlaceOnce

\* The two boxes of a chunk, and the boxes of two chunks, have different nonces.
LEMMA AeadNonceOnce ==
    ASSUME IsCipher(cipher), NEW K \in Nat, NEW txt, NEW off, AeadAt(K, txt, off)
    PROVE  NonceOnce
<1>1. Layout(cipher, K, txt, off) /\ Chunked(cipher, wire, K, txt, off)
  BY DEF AeadAt
<1>2. /\ wire \in Seq(Cell) /\ Len(wire) = IF K = 0 THEN 0 ELSE off[K]
      /\ \A i \in 1..Len(wire) : i <= cipher.salt => wire[i].kind = "salt"
      /\ \A k \in 0..(K - 1) : \A i \in 1..(off[k + 1] - off[k]) : wire[off[k] + i] \in {Junk, Chunk(cipher, k, txt)[i]}
  BY <1>1 DEF Chunked
<1>3. PICK h \in Nat : h = LenLen + cipher.tag
  BY StreamAssumption DEF IsCipher
<1>4. cipher.salt \in Nat /\ Len(wire) \in Nat
  BY <1>2 DEF IsCipher
<1>5. ASSUME NEW i \in 1..Len(wire)
      PROVE  \/ wire[i].kind \in {"salt", "junk"}
             \/ \E k \in 0..(K - 1) : \E p \in 1..(off[k + 1] - off[k]) : i = off[k] + p /\ Boxing(wire[i], k, p, h)
  <2>1. CASE i <= cipher.salt
    BY <1>2, <2>1
  <2>2. CASE ~(i <= cipher.salt)
    <3>1. i \in Nat /\ cipher.salt < i /\ i <= off[K]
      BY <1>2, <1>4, <2>2
    <3>2. PICK k \in 0..(K - 1) : \E p \in 1..(off[k + 1] - off[k]) : i = off[k] + p
      BY <1>1, <3>1, ChunkOf
    <3>3. PICK p \in 1..(off[k + 1] - off[k]) : i = off[k] + p
      BY <3>2
    <3>4. Boxing(Chunk(cipher, k, txt)[p], k, p, h)
      BY <1>1, <1>3, ChunkBoxing
    <3>5. CASE wire[i] = Junk
      BY <3>5, JunkIs
    <3>6. CASE wire[i] = Chunk(cipher, k, txt)[p]
      BY <3>3, <3>4, <3>6
    <3> QED BY <1>2, <3>3, <3>5, <3>6
  <2> QED BY <2>1, <2>2
<1>6. ASSUME NEW i \in 1..Len(wire), NEW j \in 1..Len(wire), i # j, wire[i] # Junk, wire[i].kind # "salt",
             <<wire[i].kind, wire[i].nonce, wire[i].at>> = <<wire[j].kind, wire[j].nonce, wire[j].at>>
      PROVE  FALSE
  <2>1. wire[i].kind = wire[j].kind /\ wire[i].nonce = wire[j].nonce /\ wire[i].at = wire[j].at
    BY <1>6
  <2>2. wire[i].kind # "junk"
    <3>1. CASE i <= cipher.salt
      BY <1>2, <3>1
    <3>2. CASE ~(i <= cipher.salt)
      <4>1. i \in Nat /\ cipher.salt < i /\ i <= off[K]
        BY <1>2, <1>4, <3>2
      <4>2. PICK k \in 0..(K - 1) : \E p \in 1..(off[k + 1] - off[k]) : i = off[k] + p
        BY <1>1, <4>1, ChunkOf
      <4>3. PICK p \in 1..(off[k + 1] - off[k]) : i = off[k] + p
        BY <4>2
      <4>4. Boxing(Chunk(cipher, k, txt)[p], k, p, h) /\ wire[i] = Chunk(cipher, k, txt)[p]
        BY <1>1, <1>2, <1>3, <1>6, <4>3, ChunkBoxing
      <4> QED BY <4>4 DEF Boxing
    <3> QED BY <3>1, <3>2
  <2>3. PICK k \in 0..(K - 1) : \E p \in 1..(off[k + 1] - off[k]) : i = off[k] + p /\ Boxing(wire[i], k, p, h)
    BY <1>5, <1>6, <2>2
  <2>4. PICK p \in 1..(off[k + 1] - off[k]) : i = off[k] + p /\ Boxing(wire[i], k, p, h)
    BY <2>3
  <2>5. wire[j].kind = "box"
    BY <2>1, <2>4 DEF Boxing
  <2>6. PICK l \in 0..(K - 1) : \E q \in 1..(off[l + 1] - off[l]) : j = off[l] + q /\ Boxing(wire[j], l, q, h)
    BY <1>5, <2>5
  <2>7. PICK q \in 1..(off[l + 1] - off[l]) : j = off[l] + q /\ Boxing(wire[j], l, q, h)
    BY <2>6
  <2>8. k \in Nat /\ l \in Nat /\ p \in Nat /\ q \in Nat
    <3>1. \A x \in 0..K : off[x] \in Nat
      BY <1>1 DEF Layout
    <3>2. k \in Nat /\ l \in Nat /\ k + 1 \in 0..K /\ l + 1 \in 0..K /\ k \in 0..K /\ l \in 0..K
      OBVIOUS
    <3> QED BY <3>1, <3>2
  <2>9. k = l /\ p = q
    BY <2>1, <2>4, <2>7, <2>8, BoxingOnce
  <2> QED BY <1>6, <2>4, <2>7, <2>9
<1>7. \A i, j \in 1..Len(wire) : PlaceOnce(wire, i, j)
  BY <1>6 DEF PlaceOnce
<1> QED BY <1>2, <1>7, NonceFrom

\* Two bytes of the key stream have different positions.
LEMMA StreamNonceOnce ==
    ASSUME IsCipher(cipher), sent \in Nat, StreamInv
    PROVE  NonceOnce
<1>0. wire \in Seq(Cell)
  BY DEF StreamInv, Streamed
<1> SUFFICES ASSUME cipher.kind = "salsa" => sent <= Period(cipher)
             PROVE  \A i, j \in 1..Len(wire) : PlaceOnce(wire, i, j)
  BY <1>0, NonceFrom
<1>1. /\ wire \in Seq(Cell) /\ Len(wire) = IF sent = 0 THEN 0 ELSE cipher.salt + sent
      /\ \A i \in 1..Len(wire) : i <= cipher.salt => wire[i].kind = "salt"
      /\ \A i \in 1..sent : wire[cipher.salt + i] \in {Junk, Ciphered(cipher, i)}
  BY DEF StreamInv, Streamed
<1>2. PICK z \in Nat : z = cipher.salt
  BY DEF IsCipher
<1>3. ASSUME NEW i \in 1..Len(wire)
      PROVE  wire[i].kind = "salt" \/ wire[i] = Junk \/ (wire[i].kind = "stream" /\ wire[i].at = i - z)
  <2>1. CASE i <= z
    BY <1>1, <1>2, <2>1
  <2>2. CASE ~(i <= z)
    <3>1. Len(wire) = z + sent /\ i \in 1..(z + sent)
      BY <1>1, <1>2
    <3>2. PICK p \in 1..sent : i = z + p
      <4>1. i - z \in 1..sent /\ i = z + (i - z)
        BY <2>2, <3>1
      <4> QED BY <4>1
    <3>3. wire[i] \in {Junk, Ciphered(cipher, p)}
      BY <1>1, <1>2, <3>2
    <3>4. Ciphered(cipher, p).kind = "stream" /\ Ciphered(cipher, p).at = p /\ p = i - z
      <4>1. p \in Nat \ {0} /\ (cipher.kind = "salsa" => p <= Period(cipher))
        BY PeriodIs
      <4>2. Place(cipher, p) = p
        BY <4>1, PlaceIs
      <4> QED BY <3>2, <4>2 DEF Ciphered
    <3> QED BY <3>3, <3>4
  <2> QED BY <2>1, <2>2
<1>4. ASSUME NEW i \in 1..Len(wire), NEW j \in 1..Len(wire), i # j, wire[i] # Junk, wire[i].kind # "salt",
             <<wire[i].kind, wire[i].nonce, wire[i].at>> = <<wire[j].kind, wire[j].nonce, wire[j].at>>
      PROVE  FALSE
  <2>1. wire[i].kind = wire[j].kind /\ wire[i].at = wire[j].at
    BY <1>4
  <2>2. wire[i].kind = "stream" /\ wire[i].at = i - z
    BY <1>3, <1>4
  <2>3. wire[j].kind = "stream"
    BY <2>1, <2>2
  <2>4. wire[j].at = j - z
    BY <1>3, <2>3, JunkIs
  <2>5. i - z = j - z
    BY <2>1, <2>2, <2>4
  <2> QED BY <1>4, <2>5
<1> QED BY <1>4 DEF PlaceOnce

\* The sender uses no nonce and no position of the key stream twice, over all its
\* sends and for every cipher (aead_encrypt, stream_encrypt), until the counter of
\* blocks of a libsodium cipher is back at zero (crypto_stream_xor_ic).
THEOREM NoncesOnce == FramingSpec => []NonceOnce
<1>1. FramingInv => NonceOnce
  <2> SUFFICES ASSUME FramingInv PROVE NonceOnce
    OBVIOUS
  <2>1. /\ IsCipher(cipher) /\ sent \in Nat
        /\ cipher.kind = "aead" => AeadInv
        /\ cipher.kind # "aead" => StreamInv
    BY FramingAssumption DEF FramingInv, BytesInv
  <2>2. CASE cipher.kind = "aead"
    <3>1. PICK K \in Nat : \E txt, off \in [0..K -> Nat] : AeadAt(K, txt, off)
      BY <2>1, <2>2 DEF AeadInv
    <3>2. PICK txt \in [0..K -> Nat], off \in [0..K -> Nat] : AeadAt(K, txt, off)
      BY <3>1
    <3> QED BY <2>1, <3>2, AeadNonceOnce
  <2>3. CASE cipher.kind # "aead"
    BY <2>1, <2>3, StreamNonceOnce
  <2> QED BY <2>2, <2>3
<1> QED BY <1>1, FramingInvariant, PTL
=============================================================================
