------------------------- MODULE MappingCacheProofs -------------------------
(***************************************************************************)
(* The mapping cache for every number of pages and slots, every budget and *)
(* every size of the read-ahead: the slots and the lookup table agree, a   *)
(* dirty page leaves only through a checkpoint, an acquisition that may    *)
(* not publish always finds a slot, and read-ahead never loses a page of   *)
(* its own batch.                                                          *)
(***************************************************************************)
EXTENDS MappingCache, FiniteSetTheorems, TLAPS

-----------------------------------------------------------------------------
(* The inductive invariant *)

CallTypeOK ==
  call \in [at : {"sizing", "refused", "replay", "vacant", "pressure", "retry", "idle", "latched",
                  "prefetch", "release"},
            kind : {"none", "read", "release", "replay"},
            page : PageIds, slot : Nat, sequential : BOOLEAN,
            todo : SUBSET PageIds, rest : SUBSET PageIds, count : Nat, offset : Nat]

\* The search keeps a range of capacities, the first of which is a slot at least.
SearchInv == 1 <= search.low /\ search.low <= search.high

\* A cache that has been opened has a slot, and enough for a full write buffer unless it is refused.
SizeInv ==
  /\ call.at # "sizing" => 1 <= capacity
  /\ call.at = "refused" => capacity < Required
  /\ call.at \notin {"sizing", "refused"} => Required <= capacity

\* The hand stays where it is until every slot is in use.
CursorInv == resident < capacity => cursor = 0

\* A reserved slot is the next unused one or holds a clean page, and its page is not resident.
VacantInv ==
  /\ call.at \in {"vacant", "pressure", "retry"} => lookup[call.page] = None
  /\ call.at = "vacant" =>
       /\ call.kind # "none" /\ call.slot \in Slots
       /\ call.slot = resident \/ (call.slot < resident /\ Clean(call.slot))
  /\ call.at = "retry" => \A s \in Slots : Clean(s)

ReplayKind == call.at = "replay" => call.kind = "replay"

\* The pages that a release or a replay window has yet to acquire.
Needs == call.todo \cup (IF call.at = "vacant" THEN {call.page} ELSE {})

\* A release, and a replay window, has a slot for every page that is or will be dirty.
RoomInv ==
  \/ call.at \in {"release", "replay"}
  \/ call.at = "vacant" /\ call.kind # "read"
  => Cardinality(Dirty \cup Needs) <= capacity

\* The slots of the batch that a sequential read has stored.
Held == {lookup[p] : p \in call.todo}

\* The slots that read-ahead may take: cold, in use, and not of the batch.
Takeable == {step \in ColdSteps : Hand(step) < resident /\ Hand(step) \notin Held}

\* After a slot of the batch the hand meets no slot in use that it could take.
BatchLast ==
  \A b, j \in Slots :
    /\ b < j /\ Hand(b) \in Held /\ Hand(b) \notin referenced /\ Hand(j) < resident
    => Hand(j) \in Held \/ Hand(j) \in referenced \/ slots[Hand(j)].dirty

BatchInv ==
  call.at = "prefetch" =>
    /\ call.offset \in 1 .. call.count - 1
    /\ call.page \in call.todo /\ lookup[call.page] \in referenced
    /\ \A p \in call.todo : lookup[p] # None
    /\ \A k \in call.offset .. call.count - 1 :
         call.page + k \in PageIds /\ lookup[call.page + k] = None
    /\ call.count - call.offset <= (capacity - resident) + Cardinality(Takeable)
    /\ BatchLast

CacheInductive ==
  /\ CacheInv /\ CallTypeOK
  /\ SearchInv /\ SizeInv /\ CursorInv
  /\ VacantInv /\ ReplayKind /\ RoomInv /\ BatchInv

-----------------------------------------------------------------------------
(* Arithmetic and finite sets *)

\* The place of x among the members of S.
Place(x, S) == Cardinality({y \in S : y < x})

LEMMA IntervalSize ==
  ASSUME NEW n \in Nat
  PROVE  IsFiniteSet(0 .. n - 1) /\ Cardinality(0 .. n - 1) = n
<1>1. 0 \in Int /\ n - 1 \in Int /\ (0 > n - 1 <=> n = 0) /\ n - 1 - 0 + 1 = n
  OBVIOUS
<1> QED
  BY <1>1, FS_Interval

LEMMA PlaceBound ==
  ASSUME NEW S \in SUBSET Nat, IsFiniteSet(S), NEW x \in S
  PROVE  Place(x, S) \in Nat /\ Place(x, S) < Cardinality(S)
<1> DEFINE below == {y \in S : y < x}
<1>1. below \in SUBSET (S \ {x})
  OBVIOUS
<1>2. IsFiniteSet(S \ {x}) /\ Cardinality(S \ {x}) = Cardinality(S) - 1
  BY FS_RemoveElement
<1>3. IsFiniteSet(below) /\ Cardinality(below) <= Cardinality(S \ {x})
  BY <1>1, <1>2, FS_Subset
<1>4. Cardinality(below) \in Nat /\ Cardinality(S) \in Nat
  BY <1>3, FS_CardinalityType
<1> QED
  BY <1>2, <1>3, <1>4 DEF Place

\* Different members have different places.
LEMMA PlaceInjective ==
  ASSUME NEW S \in SUBSET Nat, IsFiniteSet(S), NEW x \in S, NEW y \in S, x < y
  PROVE  Place(x, S) < Place(y, S)
<1> DEFINE lower == {w \in S : w < x}
           upper == {w \in S : w < y}
<1>1. x \in Nat /\ y \in Nat /\ \A w \in S : w \in Nat /\ (w < x => w < y /\ w # x)
  OBVIOUS
<1>2. lower \in SUBSET upper /\ upper \in SUBSET S /\ x \in upper /\ x \notin lower
  BY <1>1
<1>3. IsFiniteSet(upper)
  BY <1>2, FS_Subset
<1>4. /\ IsFiniteSet(lower) /\ Cardinality(lower) <= Cardinality(upper)
      /\ Cardinality(lower) # Cardinality(upper)
  BY <1>2, <1>3, FS_Subset
<1>5. Cardinality(lower) \in Nat /\ Cardinality(upper) \in Nat
  BY <1>3, <1>4, FS_CardinalityType
<1> QED
  BY <1>4, <1>5 DEF Place

\* At most n members have one of the first n places.
LEMMA FirstPlaces ==
  ASSUME NEW S \in SUBSET Nat, IsFiniteSet(S), NEW n \in Nat,
         NEW T \in SUBSET S, \A x \in T : Place(x, S) < n
  PROVE  IsFiniteSet(T) /\ Cardinality(T) <= n
<1> DEFINE f == [x \in T |-> Place(x, S)]
<1>1. f \in [T -> 0 .. n - 1]
  BY PlaceBound
<1>2. \A x, y \in T : f[x] = f[y] => x = y
  <2> SUFFICES ASSUME NEW x \in T, NEW y \in T, x # y
               PROVE  Place(x, S) # Place(y, S)
    OBVIOUS
  <2>1. x \in S /\ y \in S /\ x \in Nat /\ y \in Nat
    OBVIOUS
  <2>2. x < y \/ y < x
    BY <2>1
  <2> QED
    BY <2>1, <2>2, PlaceInjective, PlaceBound
<1> HIDE DEF f
<1>3. f \in Injection(T, 0 .. n - 1)
  BY <1>1, <1>2 DEF Injection, IsInjective
<1> QED
  BY <1>3, IntervalSize, FS_Injection

\* A nonempty set of naturals has a least member.
LEMMA LeastMember ==
  ASSUME NEW S \in SUBSET Nat, S # {}, IsFiniteSet(S)
  PROVE  \E m \in S : \A n \in S : m <= n
<1> SUFFICES ASSUME \A m \in S : \E n \in S : n < m
             PROVE  FALSE
  OBVIOUS
<1> DEFINE k == Cardinality(S)
<1>1. k \in Nat /\ k # 0
  BY FS_CardinalityType, FS_EmptySet
<1>2. \A m \in S : Place(m, S) < k /\ Place(m, S) \in Nat
  BY PlaceBound
<1>3. \A m \in S : Place(m, S) # 0
  <2> SUFFICES ASSUME NEW m \in S
               PROVE  Place(m, S) # 0
    OBVIOUS
  <2>1. PICK n \in S : n < m
    OBVIOUS
  <2> QED
    BY <2>1, PlaceInjective, PlaceBound
<1> DEFINE f == [x \in S |-> Place(x, S) - 1]
           T == 0 .. (k - 1) - 1
<1>4. f \in [S -> T]
  BY <1>1, <1>2, <1>3
<1>5. k - 1 \in Nat
  BY <1>1
<1>6. IsFiniteSet(T) /\ Cardinality(T) < Cardinality(S)
  <2>1. IsFiniteSet(T) /\ Cardinality(T) = k - 1
    <3> HIDE DEF k
    <3> QED
      BY <1>5, IntervalSize
  <2> QED
    BY <1>1, <2>1
<1> HIDE DEF f, T
<1>7. PICK x \in S, y \in S : x # y /\ f[x] = f[y]
  <2>1. \E x, y \in S : x # y /\ f[x] = f[y]
    BY <1>4, <1>6, FS_PigeonHole
  <2> QED
    BY <2>1
<1>8. Place(x, S) = Place(y, S) /\ x \in Nat /\ y \in Nat
  BY <1>2, <1>7 DEF f
<1>9. x < y \/ y < x
  BY <1>7, <1>8
<1> QED
  BY <1>8, <1>9, PlaceInjective, PlaceBound

\* The hand goes round the slots.
LEMMA HandIs ==
  ASSUME NEW n \in Nat \ {0}, NEW c \in 0 .. n - 1, NEW k \in 0 .. 2 * n
  PROVE  (c + k) % n = IF c + k < n THEN c + k
                       ELSE IF c + k < 2 * n THEN c + k - n ELSE c + k - 2 * n
<1>1. \A a \in 0 .. n - 1 : a % n = a /\ (a + n) % n = a /\ (a + 2 * n) % n = a
  OBVIOUS
<1>2. CASE c + k < n
  BY <1>1, <1>2
<1>3. CASE c + k >= n /\ c + k < 2 * n
  <2>1. c + k - n \in 0 .. n - 1 /\ (c + k - n) + n = c + k
    BY <1>3
  <2> QED
    BY <1>1, <1>3, <2>1
<1>4. CASE c + k >= 2 * n
  <2>1. c + k - 2 * n \in 0 .. n - 1 /\ (c + k - 2 * n) + 2 * n = c + k
    BY <1>4
  <2> QED
    BY <1>1, <1>4, <2>1
<1> QED
  BY <1>2, <1>3, <1>4

-----------------------------------------------------------------------------
(* CLOCK *)

Opened == TypeOK /\ 1 <= capacity

LEMMA HandSlot ==
  ASSUME Opened, NEW k \in 0 .. 2 * capacity
  PROVE  /\ Hand(k) \in Slots
         /\ Hand(k) = IF cursor + k < capacity THEN cursor + k
                      ELSE IF cursor + k < 2 * capacity THEN cursor + k - capacity
                      ELSE cursor + k - 2 * capacity
<1>1. capacity \in Nat \ {0} /\ cursor \in 0 .. capacity - 1
  BY DEF Opened, TypeOK
<1>a. PICK n \in Nat \ {0} : n = capacity
  BY <1>1
<1>2. PICK c \in 0 .. n - 1 : c = cursor
  BY <1>1, <1>a
<1>3. Hand(k) = IF c + k < n THEN c + k ELSE IF c + k < 2 * n THEN c + k - n ELSE c + k - 2 * n
  BY <1>a, <1>2, HandIs DEF Hand
<1> QED
  BY <1>1, <1>a, <1>2, <1>3 DEF Slots

\* The hand reaches every slot in its first round.
LEMMA HandReaches ==
  ASSUME Opened, NEW s \in Slots
  PROVE  \E k \in 0 .. capacity - 1 : Hand(k) = s
<1>1. capacity \in Nat \ {0} /\ cursor \in 0 .. capacity - 1 /\ s \in 0 .. capacity - 1
  BY DEF Opened, TypeOK, Slots
<1>2. CASE s >= cursor
  <2>1. s - cursor \in 0 .. capacity - 1 /\ s - cursor \in 0 .. 2 * capacity /\ cursor + (s - cursor) = s
    BY <1>1, <1>2
  <2> QED
    BY <1>1, <2>1, HandSlot
<1>3. CASE s < cursor
  <2> DEFINE k == s - cursor + capacity
  <2>1. k \in 0 .. capacity - 1 /\ k \in 0 .. 2 * capacity /\ cursor + k = s + capacity
    BY <1>1, <1>3
  <2>2. Hand(k) = s
    BY <1>1, <2>1, HandSlot
  <2> QED
    BY <2>1, <2>2
<1> QED
  BY <1>1, <1>2, <1>3

\* Clock::victim finds a clean page if there is one: after one round every bit is clear.
LEMMA VictimExists ==
  ASSUME Opened, NEW s \in Slots, Clean(s)
  PROVE  VictimFound
<1>1. capacity \in Nat \ {0} /\ cursor \in 0 .. capacity - 1 /\ referenced \subseteq Slots
  BY DEF Opened, TypeOK
<1>2. PICK k \in 0 .. capacity - 1 : Hand(k) = s
  BY HandReaches
<1> DEFINE step == capacity + k
<1>3. step \in Scan /\ step \in 0 .. 2 * capacity /\ k \in 0 .. 2 * capacity
  BY <1>1 DEF Scan
<1>4. Hand(step) = s
  BY <1>1, <1>2, <1>3, HandSlot
<1>5. ReferencedAt(step) = {}
  <2> SUFFICES ASSUME NEW t \in Slots
               PROVE  \E j \in 0 .. step - 1 : Hand(j) = t
    BY <1>1 DEF ReferencedAt
  <2>1. PICK j \in 0 .. capacity - 1 : Hand(j) = t
    BY HandReaches
  <2>2. j \in 0 .. step - 1
    BY <1>1
  <2> QED
    BY <2>1, <2>2
<1> QED
  BY <1>3, <1>4, <1>5 DEF VictimFound, Chosen

\* The slot it finds is clean.
LEMMA VictimFacts ==
  ASSUME Opened, VictimFound
  PROVE  /\ VictimStep \in Scan /\ Hand(VictimStep) \in Slots /\ Clean(Hand(VictimStep))
         /\ Hand(VictimStep + 1) \in Slots
<1> DEFINE C == {step \in Scan : Chosen(step)}
<1>1. capacity \in Nat \ {0}
  BY DEF Opened, TypeOK
<1>2. C \in SUBSET Nat /\ C # {} /\ IsFiniteSet(C)
  <2>1. C \in SUBSET (0 .. 2 * capacity - 1) /\ 2 * capacity \in Nat
    BY <1>1 DEF Scan
  <2>2. IsFiniteSet(C)
    BY <2>1, IntervalSize, FS_Subset
  <2> QED
    BY <2>1, <2>2 DEF VictimFound
<1>3. PICK m \in C : \A n \in C : m <= n
  BY <1>2, LeastMember
<1>4. m \in Scan /\ Chosen(m) /\ \A k \in 0 .. m - 1 : ~Chosen(k)
  <2> SUFFICES ASSUME NEW k \in 0 .. m - 1
               PROVE  ~Chosen(k)
    OBVIOUS
  <2>1. k \in Scan /\ ~(m <= k)
    BY <1>1 DEF Scan
  <2> QED
    BY <1>3, <2>1
<1>5. VictimStep \in Scan /\ Chosen(VictimStep)
  BY <1>4 DEF VictimStep
<1>6. VictimStep \in 0 .. 2 * capacity /\ VictimStep + 1 \in 0 .. 2 * capacity
  BY <1>1, <1>5 DEF Scan
<1> QED
  BY <1>5, <1>6, HandSlot DEF Chosen

\* resolve on a page that is not resident reserves the next unused slot or a clean one, or it
\* reports that every page is dirty.
Reserved(onVacant) ==
  \E s \in Slots :
    /\ call' = [onVacant EXCEPT !.slot = s]
    /\ s = resident \/ (s < resident /\ Clean(s))

LEMMA ReserveFacts ==
  ASSUME Opened, NEW page, NEW onVacant, NEW onFull, Reserve(page, onVacant, onFull)
  PROVE  /\ UNCHANGED cacheVars
         /\ referenced' \subseteq Slots /\ cursor' \in Slots
         /\ resident < capacity => UNCHANGED cursor
         /\ \/ Reserved(onVacant)
            \/ /\ call' = onFull /\ resident = capacity /\ \A s \in Slots : ~Clean(s)
<1>1. /\ capacity \in Nat \ {0} /\ cursor \in Slots /\ referenced \subseteq Slots
      /\ resident \in 0 .. capacity
  BY DEF Opened, TypeOK, Slots
<1>2. UNCHANGED cacheVars
  BY DEF Reserve
<1>3. CASE resident < capacity
  BY <1>1, <1>2, <1>3 DEF Reserve, Reserved, clockVars, Slots
<1>4. CASE resident = capacity /\ VictimFound
  <2>1. Hand(VictimStep) \in Slots /\ Clean(Hand(VictimStep)) /\ Hand(VictimStep + 1) \in Slots
    BY <1>4, VictimFacts
  <2>2. /\ call' = [onVacant EXCEPT !.slot = Hand(VictimStep)]
        /\ referenced' = ReferencedAt(VictimStep) /\ cursor' = Hand(VictimStep + 1)
    BY <1>1, <1>4 DEF Reserve
  <2>3. Hand(VictimStep) < resident
    BY <1>1, <1>4, <2>1 DEF Slots
  <2> QED
    BY <1>1, <1>2, <1>4, <2>1, <2>2, <2>3 DEF Reserved, ReferencedAt
<1>5. CASE resident = capacity /\ ~VictimFound
  <2>1. \A s \in Slots : ~Clean(s)
    BY <1>5, VictimExists
  <2> QED
    BY <1>1, <1>2, <1>5, <2>1 DEF Reserve
<1> QED
  BY <1>1, <1>3, <1>4, <1>5

-----------------------------------------------------------------------------
(* The slots and the lookup table *)

\* The part of the cache's invariant that storing and touching pages is about.
StoreInv ==
  /\ resident \in 0 .. capacity
  /\ slots \in [Slots -> [page: PageIds, dirty: BOOLEAN, prefetched: BOOLEAN]]
  /\ lookup \in [PageIds -> Slots \cup {None}]
  /\ referenced \subseteq Slots
  /\ outstanding \in Int
  /\ LookupExact

LEMMA StoreOfCache == CacheInv => StoreInv
  BY DEF CacheInv, TypeOK, StoreInv

Prefetched == {s \in Slots : s < resident /\ slots[s].prefetched}

LEMMA PrefetchedFinite ==
  ASSUME capacity \in Nat
  PROVE  IsFiniteSet(Prefetched) /\ Cardinality(Prefetched) \in Nat
<1>1. Prefetched \in SUBSET (0 .. capacity - 1)
  BY DEF Prefetched, Slots
<1> QED
  BY <1>1, IntervalSize, FS_Subset, FS_CardinalityType

\* VacantPage::install keeps the lookup table exact.
LEMMA InstallStore ==
  ASSUME Opened, StoreInv, UNCHANGED capacity,
         NEW page \in PageIds, lookup[page] = None, NEW slot \in Slots, slot <= resident,
         NEW makesDirty \in BOOLEAN, NEW asPrefetch \in BOOLEAN,
         Install(page, slot, makesDirty, asPrefetch)
  PROVE  StoreInv'
<1>1. /\ capacity \in Nat /\ capacity' = capacity /\ Slots' = Slots
      /\ slot \in 0 .. capacity - 1 /\ resident \in 0 .. capacity /\ None \notin Slots
      /\ \A s \in Slots : s \in Nat /\ s < capacity
  BY DEF Opened, TypeOK, StoreInv, Slots, None
<1> DEFINE evicts == slot < resident
           new == [page |-> page, dirty |-> makesDirty, prefetched |-> asPrefetch]
<1>2. /\ resident' = (IF evicts THEN resident ELSE resident + 1)
      /\ slots' = [slots EXCEPT ![slot] = new]
      /\ lookup' = [p \in PageIds |-> IF p = page THEN slot
                       ELSE IF evicts /\ p = slots[slot].page THEN None ELSE lookup[p]]
      /\ referenced' = IF asPrefetch THEN referenced \ {slot} ELSE referenced \cup {slot}
      /\ outstanding' = outstanding + (IF asPrefetch THEN 1 ELSE 0)
                          - (IF evicts /\ slots[slot].prefetched THEN 1 ELSE 0)
  BY DEF Install
<1>3. /\ \A s \in Slots : s < resident => lookup[slots[s].page] = s
      /\ \A p \in PageIds :
           lookup[p] # None => lookup[p] \in 0 .. resident - 1 /\ slots[lookup[p]].page = p
      /\ outstanding = Cardinality(Prefetched)
  BY DEF StoreInv, LookupExact, Prefetched
<1>4. /\ slots \in [Slots -> [page: PageIds, dirty: BOOLEAN, prefetched: BOOLEAN]]
      /\ lookup \in [PageIds -> Slots \cup {None}] /\ referenced \subseteq Slots
      /\ outstanding \in Int
  BY DEF StoreInv
<1>5. /\ resident' \in 0 .. capacity' /\ referenced' \subseteq Slots'
      /\ slots' \in [Slots' -> [page: PageIds, dirty: BOOLEAN, prefetched: BOOLEAN]]
      /\ lookup' \in [PageIds -> Slots' \cup {None}]
  BY <1>1, <1>2, <1>4
<1>6. \A s \in Slots : s < resident' => lookup'[slots'[s].page] = s
  <2> SUFFICES ASSUME NEW s \in Slots, s < resident'
               PROVE  lookup'[slots'[s].page] = s
    OBVIOUS
  <2>1. CASE s = slot
    BY <1>2, <1>4, <2>1
  <2>2. CASE s # slot
    <3>1. s < resident /\ slots'[s] = slots[s]
      BY <1>1, <1>2, <1>4, <2>2
    <3>2. slots[s].page \in PageIds /\ lookup[slots[s].page] = s
      BY <1>3, <1>4, <3>1
    <3>3. slots[s].page # page /\ (evicts => slots[s].page # slots[slot].page)
      BY <1>1, <1>3, <2>2, <3>2
    <3> QED
      BY <1>2, <3>1, <3>2, <3>3
  <2> QED
    BY <2>1, <2>2
<1>7. \A p \in PageIds :
        lookup'[p] # None => lookup'[p] \in 0 .. resident' - 1 /\ slots'[lookup'[p]].page = p
  <2> SUFFICES ASSUME NEW p \in PageIds, lookup'[p] # None
               PROVE  lookup'[p] \in 0 .. resident' - 1 /\ slots'[lookup'[p]].page = p
    OBVIOUS
  <2>1. CASE p = page
    BY <1>1, <1>2, <1>4, <2>1
  <2>2. CASE p # page
    <3>1. lookup'[p] = lookup[p] /\ ~(evicts /\ p = slots[slot].page)
      BY <1>2, <2>2
    <3>2. lookup[p] \in 0 .. resident - 1 /\ slots[lookup[p]].page = p /\ lookup[p] \in Slots
      BY <1>3, <1>4, <3>1
    <3>3. lookup[p] # slot
      BY <1>1, <3>1, <3>2
    <3>4. slots'[lookup[p]] = slots[lookup[p]] /\ lookup[p] \in 0 .. resident' - 1
      BY <1>1, <1>2, <1>4, <3>2, <3>3
    <3> QED
      BY <3>1, <3>2, <3>4
  <2> QED
    BY <2>1, <2>2
<1>8. outstanding' = Cardinality(Prefetched')
  <2>1. IsFiniteSet(Prefetched) /\ Cardinality(Prefetched) \in Nat
    BY <1>1, PrefetchedFinite
  <2>2. slot \in Prefetched <=> (evicts /\ slots[slot].prefetched)
    BY DEF Prefetched
  <2>3. Prefetched' = IF asPrefetch THEN (Prefetched \ {slot}) \cup {slot} ELSE Prefetched \ {slot}
    <3>1. \A s \in Slots : s # slot => slots'[s] = slots[s] /\ (s < resident' <=> s < resident)
      BY <1>1, <1>2, <1>4
    <3>2. slot < resident' /\ slots'[slot].prefetched = asPrefetch
      BY <1>1, <1>2, <1>4
    <3> QED
      BY <1>1, <3>1, <3>2 DEF Prefetched
  <2>4. /\ IsFiniteSet(Prefetched \ {slot})
        /\ Cardinality(Prefetched \ {slot})
             = IF slot \in Prefetched THEN Cardinality(Prefetched) - 1 ELSE Cardinality(Prefetched)
    BY <2>1, FS_RemoveElement
  <2>5. Cardinality((Prefetched \ {slot}) \cup {slot}) = Cardinality(Prefetched \ {slot}) + 1
    BY <2>4, FS_AddElement
  <2> QED
    BY <1>2, <1>3, <2>1, <2>2, <2>3, <2>4, <2>5
<1>9. outstanding' \in Int
  BY <1>2, <1>4
<1> QED
  BY <1>1, <1>5, <1>6, <1>7, <1>8, <1>9 DEF StoreInv, LookupExact, Prefetched

\* resolve on a resident page changes its flags only.
LEMMA TouchStore ==
  ASSUME Opened, StoreInv, UNCHANGED capacity,
         NEW page \in PageIds, lookup[page] # None, NEW makesDirty \in BOOLEAN, Touch(page, makesDirty)
  PROVE  StoreInv'
<1> DEFINE slot == lookup[page]
<1>1. /\ capacity \in Nat /\ capacity' = capacity /\ Slots' = Slots
      /\ slot \in Slots /\ slot < resident /\ UNCHANGED <<resident, lookup>>
  BY DEF Opened, TypeOK, StoreInv, LookupExact, Slots, Touch
<1>2. /\ slots \in [Slots -> [page: PageIds, dirty: BOOLEAN, prefetched: BOOLEAN]]
      /\ referenced \subseteq Slots /\ outstanding = Cardinality(Prefetched)
  BY DEF StoreInv, LookupExact, Prefetched
<1>3. /\ slots' = [slots EXCEPT ![slot] = [slots[slot] EXCEPT !.prefetched = FALSE,
                                             !.dirty = slots[slot].dirty \/ makesDirty]]
      /\ referenced' = referenced \cup {slot}
      /\ outstanding' = IF slots[slot].prefetched THEN outstanding - 1 ELSE outstanding
  BY <1>1, <1>2 DEF Touch
<1>4. /\ slots' \in [Slots -> [page: PageIds, dirty: BOOLEAN, prefetched: BOOLEAN]]
      /\ \A s \in Slots : slots'[s].page = slots[s].page
      /\ \A s \in Slots \ {slot} : slots'[s] = slots[s]
      /\ slots'[slot].prefetched = FALSE
  <2>1. [slots[slot] EXCEPT !.prefetched = FALSE, !.dirty = slots[slot].dirty \/ makesDirty]
          \in [page: PageIds, dirty: BOOLEAN, prefetched: BOOLEAN]
    BY <1>1, <1>2
  <2> QED
    BY <1>1, <1>2, <1>3, <2>1
<1>5. outstanding' = Cardinality(Prefetched') /\ outstanding' \in Int
  <2>1. IsFiniteSet(Prefetched) /\ Cardinality(Prefetched) \in Nat
    BY <1>1, PrefetchedFinite
  <2>2. slot \in Prefetched <=> slots[slot].prefetched
    BY <1>1 DEF Prefetched
  <2>3. Prefetched' = Prefetched \ {slot}
    BY <1>1, <1>4 DEF Prefetched
  <2>4. Cardinality(Prefetched \ {slot})
          = IF slot \in Prefetched THEN Cardinality(Prefetched) - 1 ELSE Cardinality(Prefetched)
    BY <2>1, FS_RemoveElement
  <2> QED
    BY <1>2, <1>3, <2>1, <2>2, <2>3, <2>4
<1> QED
  BY <1>1, <1>2, <1>3, <1>4, <1>5 DEF StoreInv, LookupExact, Prefetched

\* A checkpoint changes the dirty flags only.
LEMMA CleanStore ==
  ASSUME Opened, StoreInv, UNCHANGED <<capacity, resident, lookup, outstanding, referenced>>,
         AllClean \/ UNCHANGED slots
  PROVE  StoreInv'
<1>1. Slots' = Slots /\ slots \in [Slots -> [page: PageIds, dirty: BOOLEAN, prefetched: BOOLEAN]]
  BY DEF StoreInv, Slots
<1>2. /\ slots' \in [Slots -> [page: PageIds, dirty: BOOLEAN, prefetched: BOOLEAN]]
      /\ \A s \in Slots : slots'[s].page = slots[s].page
      /\ \A s \in Slots : slots'[s].prefetched = slots[s].prefetched
  BY <1>1 DEF AllClean
<1>3. Prefetched' = Prefetched
  BY <1>1, <1>2 DEF Prefetched
<1> QED
  BY <1>1, <1>2, <1>3 DEF StoreInv, LookupExact, Prefetched

\* A new cache is empty.
LEMMA FreshStore ==
  ASSUME NEW n \in Nat \ {0}, capacity' = n, Fresh(n)
  PROVE  StoreInv' /\ cursor' = 0 /\ resident' = 0
<1>1. Slots' = 0 .. n - 1 /\ 0 \in PageIds
  BY CacheAssumption DEF Slots, PageIds
<1>2. /\ slots' = [s \in 0 .. n - 1 |-> [page |-> 0, dirty |-> FALSE, prefetched |-> FALSE]]
      /\ resident' = 0 /\ lookup' = [p \in PageIds |-> None] /\ outstanding' = 0
      /\ referenced' = {} /\ cursor' = 0
  BY DEF Fresh
<1>3. Prefetched' = {} /\ \A s \in Slots' : ~(s < resident')
  BY <1>1, <1>2 DEF Prefetched
<1>4. LookupExact'
  BY <1>2, <1>3, FS_EmptySet DEF LookupExact, Prefetched
<1> QED
  BY <1>1, <1>2, <1>4 DEF StoreInv

-----------------------------------------------------------------------------
(* Dirty pages and the slots they leave *)

LEMMA PageSetFinite ==
  ASSUME NEW S \in SUBSET PageIds
  PROVE  IsFiniteSet(S) /\ Cardinality(S) \in Nat
<1>1. IsFiniteSet(0 .. PageTotal - 1)
  BY CacheAssumption, IntervalSize
<1> QED
  BY <1>1, FS_Subset, FS_CardinalityType DEF PageIds

LEMMA DirtyPages ==
  ASSUME StoreInv
  PROVE  Dirty \in SUBSET PageIds
  BY DEF Dirty, StoreInv

LEMMA SmallerRoom ==
  ASSUME NEW S \in SUBSET PageIds, NEW T \in SUBSET S, NEW n \in Nat, Cardinality(S) <= n
  PROVE  Cardinality(T) <= n
<1>1. IsFiniteSet(S) /\ Cardinality(S) \in Nat /\ T \in SUBSET PageIds
  BY PageSetFinite
<1>2. Cardinality(T) <= Cardinality(S) /\ Cardinality(T) \in Nat
  BY <1>1, FS_Subset, PageSetFinite
<1> QED
  BY <1>1, <1>2

\* A page that is not resident finds a slot when the dirty pages and the pages still to come fit.
LEMMA RoomFinds ==
  ASSUME Opened, StoreInv, NEW page \in PageIds, lookup[page] = None,
         NEW T \in SUBSET PageIds, page \in T, Cardinality(Dirty \cup T) <= capacity,
         resident = capacity, \A s \in Slots : ~Clean(s)
  PROVE  FALSE
<1>1. /\ capacity \in Nat /\ \A s \in Slots : s < capacity
      /\ slots \in [Slots -> [page: PageIds, dirty: BOOLEAN, prefetched: BOOLEAN]]
      /\ \A s \in Slots : lookup[slots[s].page] = s /\ s # None
  BY DEF Opened, TypeOK, StoreInv, LookupExact, Slots, None
<1> DEFINE f == [s \in Slots |-> slots[s].page]
<1>2. \A s \in Slots : slots[s].page \in Dirty
  BY <1>1 DEF Dirty, Clean
<1>3. f \in [Slots -> Dirty] /\ \A s, t \in Slots : f[s] = f[t] => s = t
  BY <1>1, <1>2
<1>4. page \notin Dirty
  BY <1>1 DEF Dirty
<1>5. /\ IsFiniteSet(Dirty) /\ Cardinality(Dirty) \in Nat
      /\ IsFiniteSet(Dirty \cup T) /\ Dirty \cup T \in SUBSET PageIds
  BY DirtyPages, PageSetFinite
<1>6. Cardinality(Slots) = capacity
  BY <1>1, IntervalSize DEF Slots
<1>7. capacity <= Cardinality(Dirty)
  <2> HIDE DEF f
  <2>1. f \in Injection(Slots, Dirty)
    BY <1>3 DEF Injection, IsInjective
  <2> QED
    BY <1>5, <1>6, <2>1, FS_Injection
<1>8. Cardinality(Dirty \cup {page}) = Cardinality(Dirty) + 1
  BY <1>4, <1>5, FS_AddElement
<1>9. Cardinality(Dirty \cup {page}) <= capacity
  <2>1. Dirty \cup {page} \in SUBSET (Dirty \cup T)
    OBVIOUS
  <2> QED
    BY <1>1, <1>5, <2>1, SmallerRoom
<1> QED
  BY <1>1, <1>5, <1>7, <1>8, <1>9

LEMMA InstallDirty ==
  ASSUME Opened, StoreInv, UNCHANGED capacity, NEW page \in PageIds, NEW slot \in Slots, slot <= resident,
         NEW makesDirty \in BOOLEAN, NEW asPrefetch \in BOOLEAN,
         Install(page, slot, makesDirty, asPrefetch)
  PROVE  Dirty' \in SUBSET (Dirty \cup {page})
<1>1. /\ Slots' = Slots /\ resident \in Nat /\ \A s \in Slots : s \in Nat
      /\ slots \in [Slots -> [page: PageIds, dirty: BOOLEAN, prefetched: BOOLEAN]]
  BY DEF Opened, TypeOK, StoreInv, Slots
<1>2. /\ slots'[slot].page = page
      /\ \A s \in Slots \ {slot} : slots'[s] = slots[s] /\ (s < resident' => s < resident)
  BY <1>1 DEF Install
<1> QED
  BY <1>1, <1>2 DEF Dirty

LEMMA TouchDirty ==
  ASSUME Opened, StoreInv, UNCHANGED capacity, NEW page \in PageIds, lookup[page] # None,
         NEW makesDirty \in BOOLEAN, Touch(page, makesDirty)
  PROVE  Dirty' \in SUBSET (Dirty \cup {page})
<1>1. /\ Slots' = Slots /\ resident' = resident
      /\ slots \in [Slots -> [page: PageIds, dirty: BOOLEAN, prefetched: BOOLEAN]]
      /\ lookup[page] \in Slots /\ slots[lookup[page]].page = page
  BY DEF StoreInv, LookupExact, Slots, Touch
<1>2. /\ slots'[lookup[page]].page = page
      /\ \A s \in Slots \ {lookup[page]} : slots'[s] = slots[s]
  BY <1>1 DEF Touch
<1> QED
  BY <1>1, <1>2 DEF Dirty

LEMMA CleanDirty ==
  ASSUME StoreInv, UNCHANGED capacity, AllClean
  PROVE  Dirty' = {} /\ \A s \in Slots' : ~slots'[s].dirty
<1>1. /\ Slots' = Slots
      /\ slots \in [Slots -> [page: PageIds, dirty: BOOLEAN, prefetched: BOOLEAN]]
  BY DEF StoreInv, Slots
<1>2. \A s \in Slots : slots'[s].dirty = FALSE
  BY <1>1 DEF AllClean
<1> QED
  BY <1>1, <1>2 DEF Dirty

\* A replay window has a slot for each of its pages.
LEMMA WindowFits ==
  ASSUME NEW pages \in SUBSET PageIds, NEW n \in Nat
  PROVE  /\ NextWindow(pages, n) \in SUBSET pages
         /\ Cardinality(NextWindow(pages, n)) <= n
<1>1. pages \in SUBSET Nat /\ IsFiniteSet(pages)
  BY CacheAssumption, PageSetFinite DEF PageIds
<1>2. /\ NextWindow(pages, n) \in SUBSET pages
      /\ \A p \in NextWindow(pages, n) : Place(p, pages) < n
  BY DEF NextWindow, Place
<1> QED
  BY <1>1, <1>2, FirstPlaces

-----------------------------------------------------------------------------
(* One lemma per action *)

\* What a step that keeps the size of the cache has to show.
LEMMA CacheFrame ==
  ASSUME CacheInductive, StoreInv', UNCHANGED sizeVars, cursor' = cursor \/ cursor' \in Slots,
         last' \in PageIds \cup {None}
  PROVE  CacheInv' /\ SearchInv' /\ Slots' = Slots
<1>1. TypeOK /\ SearchInv /\ UNCHANGED <<budget, search, capacity>>
  BY DEF CacheInductive, CacheInv, sizeVars
<1>2. Slots' = Slots /\ cursor' \in Nat /\ (capacity > 0 => cursor' < capacity)
  BY <1>1 DEF TypeOK, Slots
<1> QED
  BY <1>1, <1>2 DEF CacheInv, TypeOK, StoreInv, SearchInv

LEMMA CacheOpened ==
  ASSUME CacheInductive
  PROVE  StoreInv /\ (call.at # "sizing" => Opened)
  BY StoreOfCache DEF CacheInductive, CacheInv, SizeInv, Opened

LEMMA SizeStepKeeps ==
  ASSUME CacheInductive, SizeStep
  PROVE  CacheInductive'
<1> DEFINE middle == search.low + CeilDiv(search.high - search.low, 2)
<1>1. /\ TypeOK /\ SearchInv /\ call.at = "sizing" /\ search.low < search.high
      /\ search' = IF AllocatedBytes(middle) <= budget THEN [search EXCEPT !.low = middle]
                   ELSE [search EXCEPT !.high = middle - 1]
      /\ UNCHANGED <<budget, capacity, slots, resident, lookup, outstanding, referenced, cursor, last, call>>
  BY DEF CacheInductive, CacheInv, SizeStep, cacheVars, clockVars
<1>2. middle \in Nat /\ search.low < middle /\ middle <= search.high
  BY <1>1 DEF TypeOK, CeilDiv
<1> HIDE DEF middle
<1>3. search' \in [low : Nat, high : Nat] /\ SearchInv'
  BY <1>1, <1>2 DEF TypeOK, SearchInv
<1>4. CacheInv'
  <2>1. UNCHANGED Slots
    BY <1>1 DEF Slots
  <2> QED
    BY <1>1, <1>3, <2>1 DEF CacheInductive, CacheInv, TypeOK, LookupExact
<1>5. CallTypeOK' /\ SizeInv' /\ CursorInv'
  BY <1>1 DEF CacheInductive, CallTypeOK, SizeInv, CursorInv
<1> QED
  BY <1>1, <1>3, <1>4, <1>5 DEF CacheInductive, VacantInv, ReplayKind, RoomInv, BatchInv

LEMMA PageZero == 0 \in PageIds
  BY CacheAssumption DEF PageIds

\* The types of the calls the actions build.
LEMMA CallTypes ==
  /\ Idle \in [at : {"idle"}, kind : {"none"}, page : PageIds, slot : Nat, sequential : BOOLEAN,
               todo : {{}}, rest : {{}}, count : Nat, offset : {0}]
  /\ Idle.at = "idle"
  BY CacheAssumption DEF Idle, Call, PageIds

LEMMA OpenKeeps ==
  ASSUME CacheInductive, NEW touched \in SUBSET PageIds, Open(touched)
  PROVE  CacheInductive'
<1> DEFINE n == search.low
           window == NextWindow(touched, n)
<1>1. /\ TypeOK /\ SearchInv /\ capacity' = n /\ Fresh(n) /\ UNCHANGED <<budget, search, last>>
  BY DEF CacheInductive, CacheInv, Open
<1>2. n \in Nat \ {0}
  BY <1>1 DEF TypeOK, SearchInv
<1>3. StoreInv' /\ cursor' = 0 /\ resident' = 0
  BY <1>1, <1>2, FreshStore
<1>4. CacheInv' /\ SearchInv' /\ CursorInv'
  BY <1>1, <1>2, <1>3 DEF CacheInv, TypeOK, StoreInv, SearchInv, CursorInv
<1>5. window \in SUBSET touched /\ Cardinality(window) <= n
  BY <1>2, WindowFits
<1>6. Dirty' = {}
  BY <1>1, <1>2, <1>3 DEF Dirty, Slots
<1> HIDE DEF window
<1>7. CASE search.low < Required
  <2>1. call' = Call("refused", 0, 0)
    BY <1>7 DEF Open
  <2>2. CallTypeOK' /\ call'.at = "refused"
    BY <2>1, CacheAssumption DEF Call, CallTypeOK, PageIds
  <2>3. SizeInv'
    BY <1>1, <1>2, <1>7, <2>2 DEF SizeInv, Required
  <2> QED
    BY <1>4, <2>2, <2>3 DEF CacheInductive, VacantInv, ReplayKind, RoomInv, BatchInv
<1>8. CASE ~(search.low < Required)
  <2>1. call' = [Call("replay", 0, 0) EXCEPT !.kind = "replay", !.todo = window,
                   !.rest = touched \ window]
    BY <1>8 DEF Open, window
  <2>2. CallTypeOK' /\ call'.at = "replay" /\ call'.kind = "replay" /\ call'.todo = window
    <3>1. call' = [at |-> "replay", kind |-> "replay", page |-> 0, slot |-> 0, sequential |-> FALSE,
                   todo |-> window, rest |-> touched \ window, count |-> 0, offset |-> 0]
      BY <2>1 DEF Call
    <3>2. window \in SUBSET PageIds /\ touched \ window \in SUBSET PageIds
      BY <1>5
    <3> QED
      BY <3>1, <3>2, PageZero DEF CallTypeOK
  <2>3. Required \in Nat
    BY CacheAssumption DEF Required, Least
  <2>4. SizeInv'
    BY <1>1, <1>2, <1>8, <2>2, <2>3 DEF SizeInv
  <2>5. RoomInv'
    BY <1>1, <1>5, <1>6, <2>2 DEF RoomInv, Needs
  <2> QED
    BY <1>4, <2>2, <2>4, <2>5 DEF CacheInductive, VacantInv, ReplayKind, BatchInv
<1> QED
  BY <1>7, <1>8

\* A step into a call that holds nothing and needs nothing.
LEMMA CallEnds ==
  ASSUME CacheInductive, CacheInv', SearchInv', CursorInv', UNCHANGED capacity,
         call.at \notin {"sizing", "refused"},
         call' = Idle \/ call' = Latched
  PROVE  CacheInductive'
<1>1. CallTypeOK' /\ call'.at \in {"idle", "latched"}
  <2>1. \E at \in {"idle", "latched"} :
          call' = [at |-> at, kind |-> "none", page |-> 0, slot |-> 0, sequential |-> FALSE,
                   todo |-> {}, rest |-> {}, count |-> 0, offset |-> 0]
    BY DEF Idle, Latched, Call
  <2> QED
    BY <2>1, PageZero DEF CallTypeOK
<1>2. SizeInv'
  BY <1>1 DEF CacheInductive, SizeInv
<1> QED
  BY <1>1, <1>2 DEF CacheInductive, VacantInv, ReplayKind, RoomInv, BatchInv

\* Reserving a slot for a page that is not resident.
LEMMA ReserveKeeps ==
  ASSUME CacheInductive, call.at \notin {"sizing", "refused"}, NEW page, NEW onVacant, NEW onFull,
         Reserve(page, onVacant, onFull), UNCHANGED sizeVars, last' \in PageIds \cup {None}
  PROVE  /\ CacheInv' /\ SearchInv' /\ CursorInv' /\ Slots' = Slots /\ UNCHANGED <<cacheVars, capacity>>
         /\ \/ Reserved(onVacant)
            \/ call' = onFull /\ resident = capacity /\ \A s \in Slots : ~Clean(s)
<1>1. Opened /\ StoreInv /\ UNCHANGED capacity
  BY CacheOpened DEF sizeVars
<1>2. /\ UNCHANGED cacheVars /\ referenced' \subseteq Slots /\ cursor' \in Slots
      /\ resident < capacity => UNCHANGED cursor
      /\ \/ Reserved(onVacant)
         \/ call' = onFull /\ resident = capacity /\ \A s \in Slots : ~Clean(s)
  BY <1>1, ReserveFacts
<1>3. UNCHANGED <<slots, resident, lookup, outstanding>> /\ Slots' = Slots
  BY <1>1, <1>2 DEF cacheVars, Slots
<1>4. StoreInv'
  BY <1>1, <1>2, <1>3 DEF StoreInv, LookupExact
<1>5. CursorInv'
  BY <1>1, <1>2, <1>3 DEF CacheInductive, CursorInv
<1> QED
  BY <1>1, <1>2, <1>3, <1>4, <1>5, CacheFrame

LEMMA TouchKeeps ==
  ASSUME CacheInductive, call.at \notin {"sizing", "refused"}, NEW page \in PageIds, lookup[page] # None,
         NEW makesDirty \in BOOLEAN, Touch(page, makesDirty), UNCHANGED sizeVars,
         last' \in PageIds \cup {None}
  PROVE  CacheInv' /\ SearchInv' /\ CursorInv' /\ UNCHANGED capacity
<1>1. Opened /\ StoreInv /\ UNCHANGED <<capacity, cursor, resident>>
  BY CacheOpened DEF sizeVars, Touch
<1>2. StoreInv'
  BY <1>1, TouchStore
<1> QED
  BY <1>1, <1>2, CacheFrame DEF CacheInductive, CursorInv

\* The records of a call that waits for the snapshot of page.
VacantCalls(page) ==
  [at : {"vacant"}, kind : {"read", "release", "replay"}, page : {page}, slot : Nat,
   sequential : BOOLEAN, todo : SUBSET PageIds, rest : SUBSET PageIds, count : Nat, offset : Nat]

LEMMA VacantType ==
  ASSUME NEW kind \in {"read", "release", "replay"}, NEW page \in PageIds, NEW sequential \in BOOLEAN
  PROVE  /\ Vacant(kind, page, sequential) \in VacantCalls(page)
         /\ Vacant(kind, page, sequential).kind = kind
  BY DEF Vacant, Call, VacantCalls

\* A reserved slot, as VacantInv describes it.
LEMMA ReservedVacant ==
  ASSUME CacheInductive, call.at \notin {"sizing", "refused"}, NEW page \in PageIds, lookup[page] = None,
         NEW onVacant \in VacantCalls(page),
         Reserved(onVacant), UNCHANGED <<cacheVars, capacity>>, Slots' = Slots
  PROVE  /\ CallTypeOK' /\ SizeInv' /\ VacantInv' /\ BatchInv'
         /\ call'.at = "vacant" /\ call'.kind = onVacant.kind /\ call'.page = page
         /\ call'.todo = onVacant.todo /\ Dirty' = Dirty
<1>1. PICK s \in Slots : /\ call' = [onVacant EXCEPT !.slot = s]
                         /\ s = resident \/ (s < resident /\ Clean(s))
  BY DEF Reserved
<1>2. s \in Nat
  BY DEF CacheInductive, CacheInv, TypeOK, Slots
<1>3. /\ CallTypeOK' /\ call'.at = "vacant" /\ call'.kind = onVacant.kind /\ call'.page = page
      /\ call'.slot = s /\ call'.todo = onVacant.todo /\ call'.kind # "none"
  BY <1>1, <1>2 DEF CallTypeOK, VacantCalls
<1>4. UNCHANGED <<slots, resident, lookup>>
  BY DEF cacheVars
<1>5. VacantInv'
  BY <1>1, <1>3, <1>4 DEF VacantInv, Clean
<1>6. SizeInv'
  BY <1>3 DEF CacheInductive, SizeInv
<1>7. Dirty' = Dirty
  BY <1>4 DEF Dirty
<1> QED
  BY <1>3, <1>5, <1>6, <1>7 DEF BatchInv

LEMMA ReadKeeps ==
  ASSUME CacheInductive, NEW page \in PageIds, Read(page)
  PROVE  CacheInductive'
<1> DEFINE sequential == last # None /\ last + 1 = page
           vacant == Vacant("read", page, sequential)
           full == [Call("pressure", page, 0) EXCEPT !.sequential = sequential]
<1>1. call = Idle /\ call.at = "idle" /\ last' = page /\ UNCHANGED sizeVars
  BY CallTypes DEF Read
<1>2. CASE lookup[page] # None
  <2>1. Touch(page, FALSE) /\ call' = Idle
    BY <1>1, <1>2 DEF Read
  <2> QED
    BY <1>1, <1>2, <2>1, TouchKeeps, CallEnds
<1>3. CASE lookup[page] = None
  <2>1. Reserve(page, vacant, full)
    BY <1>3 DEF Read
  <2> HIDE DEF vacant, full
  <2>2. /\ CacheInv' /\ SearchInv' /\ CursorInv' /\ Slots' = Slots /\ UNCHANGED <<cacheVars, capacity>>
        /\ Reserved(vacant) \/ call' = full
    BY <1>1, <2>1, ReserveKeeps
  <2>3. CASE Reserved(vacant)
    <3>1. /\ vacant \in VacantCalls(page)
          /\ vacant.kind = "read"
      <4>1. sequential \in BOOLEAN
        OBVIOUS
      <4> HIDE DEF sequential
      <4> QED
        BY <4>1, VacantType DEF vacant
    <3>2. CallTypeOK' /\ SizeInv' /\ VacantInv' /\ BatchInv' /\ call'.at = "vacant" /\ call'.kind = "read"
      BY <1>1, <1>3, <2>2, <2>3, <3>1, ReservedVacant
    <3> QED
      BY <2>2, <3>2 DEF CacheInductive, ReplayKind, RoomInv
  <2>4. CASE call' = full
    <3>1. CallTypeOK' /\ call'.at = "pressure" /\ call'.page = page
      BY <2>4 DEF full, Call, CallTypeOK
    <3>2. SizeInv' /\ VacantInv'
      BY <1>1, <1>3, <2>2, <3>1 DEF CacheInductive, SizeInv, VacantInv, cacheVars
    <3> QED
      BY <2>2, <3>1, <3>2 DEF CacheInductive, ReplayKind, RoomInv, BatchInv
  <2> QED
    BY <2>2, <2>3, <2>4
<1> QED
  BY <1>2, <1>3

LEMMA PressureCheckpointKeeps ==
  ASSUME CacheInductive, PressureCheckpoint
  PROVE  CacheInductive'
<1>1. /\ call.at = "pressure" /\ AllClean /\ call' = [call EXCEPT !.at = "retry"]
      /\ UNCHANGED <<sizeVars, resident, lookup, outstanding, referenced, cursor, last>>
      /\ UNCHANGED capacity
  BY DEF PressureCheckpoint, clockVars, sizeVars
<1>2. Opened /\ StoreInv /\ last \in PageIds \cup {None}
  BY <1>1, CacheOpened DEF CacheInductive, CacheInv, TypeOK
<1>3. StoreInv' /\ \A s \in Slots' : ~slots'[s].dirty
  BY <1>1, <1>2, CleanStore, CleanDirty
<1>4. CacheInv' /\ SearchInv' /\ CursorInv'
  BY <1>1, <1>2, <1>3, CacheFrame DEF CacheInductive, CursorInv
<1>5. CallTypeOK' /\ call'.at = "retry" /\ call'.page = call.page
  BY <1>1 DEF CacheInductive, CallTypeOK
<1>6. VacantInv' /\ SizeInv'
  BY <1>1, <1>3, <1>5 DEF CacheInductive, VacantInv, SizeInv, Clean
<1> QED
  BY <1>4, <1>5, <1>6 DEF CacheInductive, ReplayKind, RoomInv, BatchInv

LEMMA RetryKeeps ==
  ASSUME CacheInductive, Retry
  PROVE  CacheInductive'
<1> DEFINE vacant == Vacant("read", call.page, call.sequential)
<1>1. call.at = "retry" /\ UNCHANGED <<sizeVars, last>> /\ Reserve(call.page, vacant, Stuck)
  BY DEF Retry
<1>2. /\ call.page \in PageIds /\ call.sequential \in BOOLEAN /\ last \in PageIds \cup {None}
      /\ lookup[call.page] = None /\ \A s \in Slots : Clean(s)
  BY <1>1 DEF CacheInductive, CallTypeOK, VacantInv, CacheInv, TypeOK
<1>3. vacant \in VacantCalls(call.page) /\ vacant.kind = "read"
  BY <1>2, VacantType
<1> HIDE DEF vacant
<1>4. /\ CacheInv' /\ SearchInv' /\ CursorInv' /\ Slots' = Slots /\ UNCHANGED <<cacheVars, capacity>>
      /\ Reserved(vacant) \/ \A s \in Slots : ~Clean(s)
  BY <1>1, <1>2, ReserveKeeps
<1>5. Slots # {}
  BY <1>1, CacheOpened DEF Opened, TypeOK, Slots
<1>6. Reserved(vacant)
  BY <1>2, <1>4, <1>5
<1>7. CallTypeOK' /\ SizeInv' /\ VacantInv' /\ BatchInv' /\ call'.at = "vacant" /\ call'.kind = "read"
  BY <1>1, <1>2, <1>3, <1>4, <1>6, ReservedVacant
<1> QED
  BY <1>4, <1>7 DEF CacheInductive, ReplayKind, RoomInv

\* Storing the page that a call waits for, in the slot it reserved.
LEMMA InstallKeeps ==
  ASSUME CacheInductive, call.at = "vacant", NEW makesDirty \in BOOLEAN,
         Install(call.page, call.slot, makesDirty, FALSE), UNCHANGED <<sizeVars, cursor, last>>
  PROVE  /\ CacheInv' /\ SearchInv' /\ CursorInv' /\ UNCHANGED capacity
         /\ Dirty' \in SUBSET (Dirty \cup {call.page})
<1>1. /\ Opened /\ StoreInv /\ UNCHANGED capacity
      /\ call.page \in PageIds /\ call.slot \in Slots /\ lookup[call.page] = None
      /\ call.slot = resident \/ call.slot < resident
      /\ last' \in PageIds \cup {None} /\ cursor' = cursor
  BY CacheOpened DEF CacheInductive, CallTypeOK, VacantInv, CacheInv, TypeOK, sizeVars
<1>2. resident \in Nat /\ call.slot \in Nat /\ call.slot <= resident /\ resident <= resident'
  BY <1>1 DEF StoreInv, Opened, TypeOK, Slots, Install
<1>3. StoreInv' /\ Dirty' \in SUBSET (Dirty \cup {call.page})
  BY <1>1, <1>2, InstallStore, InstallDirty
<1>4. CursorInv'
  BY <1>1, <1>2, <1>3 DEF CacheInductive, CursorInv, StoreInv, Opened, TypeOK
<1> QED
  BY <1>1, <1>3, <1>4, CacheFrame

LEMMA ReleaseKeeps ==
  ASSUME CacheInductive, NEW pages \in SUBSET PageIds, Release(pages)
  PROVE  CacheInductive'
<1> DEFINE pressure == Cardinality(Dirty \ pages) + Cardinality(pages) > capacity
<1>1. /\ call = Idle /\ call.at = "idle" /\ Cardinality(pages) <= BufferBlocks
      /\ call' = Releasing(pages) /\ IF pressure THEN AllClean ELSE UNCHANGED slots
      /\ UNCHANGED <<sizeVars, resident, lookup, outstanding, referenced, cursor, last, capacity>>
  BY CallTypes DEF Release, clockVars, sizeVars
<1>2. Opened /\ StoreInv /\ last \in PageIds \cup {None} /\ capacity \in Nat /\ Required <= capacity
  BY <1>1, CacheOpened DEF CacheInductive, CacheInv, TypeOK, SizeInv
<1>3. StoreInv'
  BY <1>1, <1>2, CleanStore
<1>4. CacheInv' /\ SearchInv' /\ CursorInv'
  BY <1>1, <1>2, <1>3, CacheFrame DEF CacheInductive, CursorInv
<1>5. CallTypeOK' /\ call'.at = "release" /\ call'.todo = pages
  <2>1. call' = [at |-> "release", kind |-> "release", page |-> 0, slot |-> 0, sequential |-> FALSE,
                 todo |-> pages, rest |-> {}, count |-> 0, offset |-> 0]
    BY <1>1 DEF Releasing, Call
  <2> QED
    BY <2>1, PageZero DEF CallTypeOK
<1>6. /\ IsFiniteSet(pages) /\ Cardinality(pages) \in Nat
      /\ IsFiniteSet(Dirty \ pages) /\ Cardinality(Dirty \ pages) \in Nat
  BY <1>2, DirtyPages, PageSetFinite
<1>7. Cardinality(Dirty' \cup pages) <= capacity
  <2>1. CASE pressure
    <3>1. Dirty' = {}
      BY <1>1, <1>2, <2>1, CleanDirty
    <3>2. Cardinality(pages) <= PageTotal
      <4>1. IsFiniteSet(PageIds) /\ Cardinality(PageIds) = PageTotal
        BY CacheAssumption, IntervalSize DEF PageIds
      <4> QED
        BY <4>1, FS_Subset
    <3>3. Cardinality(pages) <= Required /\ Required \in Nat
      BY <1>1, <1>6, <3>2, CacheAssumption DEF Required, Least
    <3>4. Dirty' \cup pages = pages
      BY <3>1
    <3> QED
      BY <1>2, <1>6, <3>3, <3>4
  <2>2. CASE ~pressure
    <3>1. Dirty' = Dirty /\ Dirty \cup pages = (Dirty \ pages) \cup pages
          /\ (Dirty \ pages) \cap pages = {}
      BY <1>1, <2>2 DEF Dirty, Slots
    <3>2. Cardinality((Dirty \ pages) \cup pages)
            = Cardinality(Dirty \ pages) + Cardinality(pages) - Cardinality((Dirty \ pages) \cap pages)
      BY <1>6, FS_Union
    <3>3. Cardinality((Dirty \ pages) \cap pages) = 0
      BY <3>1, FS_EmptySet
    <3>4. Cardinality(Dirty' \cup pages) = Cardinality(Dirty \ pages) + Cardinality(pages)
      BY <1>6, <3>1, <3>2, <3>3
    <3> QED
      BY <1>2, <1>6, <2>2, <3>4
  <2> QED
    BY <2>1, <2>2
<1>8. SizeInv' /\ RoomInv'
  BY <1>1, <1>2, <1>5, <1>7 DEF CacheInductive, SizeInv, RoomInv, Needs
<1> QED
  BY <1>4, <1>5, <1>8 DEF CacheInductive, VacantInv, ReplayKind, BatchInv

\* The pages of a call that has to find a slot fit the cache.
LEMMA RoomShrinks ==
  ASSUME CacheInductive, Cardinality(Dirty \cup Needs) <= capacity,
         NEW D \in SUBSET (Dirty \cup Needs), NEW N \in SUBSET (Dirty \cup Needs)
  PROVE  Cardinality(D \cup N) <= capacity
<1>1. Dirty \cup Needs \in SUBSET PageIds /\ capacity \in Nat
  BY StoreOfCache, DirtyPages DEF CacheInductive, CacheInv, TypeOK, Needs, CallTypeOK
<1>2. D \cup N \in SUBSET (Dirty \cup Needs)
  OBVIOUS
<1> QED
  BY <1>1, <1>2, SmallerRoom

LEMMA ReleasingType ==
  ASSUME NEW pages \in SUBSET PageIds, call' = Releasing(pages)
  PROVE  CallTypeOK' /\ call'.at = "release" /\ call'.todo = pages
<1>1. call' = [at |-> "release", kind |-> "release", page |-> 0, slot |-> 0, sequential |-> FALSE,
               todo |-> pages, rest |-> {}, count |-> 0, offset |-> 0]
  BY DEF Releasing, Call
<1> QED
  BY <1>1, PageZero DEF CallTypeOK

LEMMA ReleasePageKeeps ==
  ASSUME CacheInductive, NEW page \in PageIds, ReleasePage(page)
  PROVE  CacheInductive'
<1> DEFINE later == call.todo \ {page}
           vacant == [Vacant("release", page, FALSE) EXCEPT !.todo = later]
<1>1. /\ call.at = "release" /\ page \in call.todo /\ last' = None /\ UNCHANGED sizeVars
      /\ last' \in PageIds \cup {None}
  BY DEF ReleasePage
<1>2. /\ Opened /\ StoreInv /\ UNCHANGED capacity /\ Needs = call.todo /\ call.todo \in SUBSET PageIds
      /\ Cardinality(Dirty \cup Needs) <= capacity
  BY <1>1, CacheOpened DEF CacheInductive, CallTypeOK, RoomInv, Needs, sizeVars
<1>3. CASE lookup[page] # None
  <2>1. Touch(page, TRUE) /\ call' = IF later = {} THEN Idle ELSE Releasing(later)
    BY <1>3 DEF ReleasePage
  <2>2. CacheInv' /\ SearchInv' /\ CursorInv'
    BY <1>1, <1>3, <2>1, TouchKeeps
  <2>3. CASE later = {}
    BY <1>1, <1>2, <2>1, <2>2, <2>3, CallEnds
  <2>4. CASE later # {}
    <3>1. CallTypeOK' /\ call'.at = "release" /\ call'.todo = later
      BY <1>2, <2>1, <2>4, ReleasingType
    <3>2. Dirty' \in SUBSET (Dirty \cup Needs) /\ Needs' \in SUBSET (Dirty \cup Needs)
      BY <1>1, <1>2, <1>3, <2>1, <3>1, TouchDirty DEF Needs
    <3>3. RoomInv' /\ SizeInv'
      BY <1>1, <1>2, <3>1, <3>2, RoomShrinks DEF CacheInductive, RoomInv, SizeInv
    <3> QED
      BY <2>2, <3>1, <3>3 DEF CacheInductive, VacantInv, ReplayKind, BatchInv
  <2> QED
    BY <2>3, <2>4
<1>4. CASE lookup[page] = None
  <2>1. Reserve(page, vacant, Stuck)
    BY <1>4 DEF ReleasePage
  <2>2. vacant \in VacantCalls(page) /\ vacant.kind = "release" /\ vacant.todo = later
    BY <1>2 DEF Vacant, Call, VacantCalls
  <2> HIDE DEF vacant
  <2>3. /\ CacheInv' /\ SearchInv' /\ CursorInv' /\ Slots' = Slots /\ UNCHANGED <<cacheVars, capacity>>
        /\ Reserved(vacant) \/ (resident = capacity /\ \A s \in Slots : ~Clean(s))
    BY <1>1, <2>1, ReserveKeeps
  <2>4. Reserved(vacant)
    BY <1>1, <1>2, <1>4, <2>3, RoomFinds
  <2>5. /\ CallTypeOK' /\ SizeInv' /\ VacantInv' /\ BatchInv'
        /\ call'.at = "vacant" /\ call'.page = page /\ call'.todo = later /\ Dirty' = Dirty
    BY <1>1, <1>4, <2>2, <2>3, <2>4, ReservedVacant
  <2>6. Dirty' \in SUBSET (Dirty \cup Needs) /\ Needs' \in SUBSET (Dirty \cup Needs)
    BY <1>1, <1>2, <2>5 DEF Needs
  <2>7. RoomInv'
    BY <1>2, <2>6, RoomShrinks DEF RoomInv
  <2> QED
    BY <2>3, <2>5, <2>7 DEF CacheInductive, ReplayKind
<1> QED
  BY <1>3, <1>4

LEMMA ReleaseLoadKeeps ==
  ASSUME CacheInductive, ReleaseLoad
  PROVE  CacheInductive'
<1>1. /\ call.at = "vacant" /\ call.kind = "release" /\ Install(call.page, call.slot, TRUE, FALSE)
      /\ call' = (IF call.todo = {} THEN Idle ELSE Releasing(call.todo))
      /\ UNCHANGED <<sizeVars, cursor, last>>
  BY DEF ReleaseLoad
<1>2. /\ CacheInv' /\ SearchInv' /\ CursorInv' /\ UNCHANGED capacity
      /\ Dirty' \in SUBSET (Dirty \cup {call.page})
  BY <1>1, InstallKeeps
<1>3. CASE call.todo = {}
  BY <1>1, <1>2, <1>3, CallEnds
<1>4. CASE call.todo # {}
  <2>1. Cardinality(Dirty \cup Needs) <= capacity /\ Needs = call.todo \cup {call.page}
        /\ call.todo \in SUBSET PageIds
    BY <1>1 DEF CacheInductive, RoomInv, Needs, CallTypeOK
  <2>2. CallTypeOK' /\ call'.at = "release" /\ call'.todo = call.todo
    BY <1>1, <1>4, <2>1, ReleasingType
  <2>3. Dirty' \in SUBSET (Dirty \cup Needs) /\ Needs' \in SUBSET (Dirty \cup Needs)
    BY <1>2, <2>1, <2>2 DEF Needs
  <2>4. RoomInv' /\ SizeInv'
    BY <1>1, <1>2, <2>1, <2>2, <2>3, RoomShrinks DEF CacheInductive, RoomInv, SizeInv
  <2> QED
    BY <1>2, <2>2, <2>4 DEF CacheInductive, VacantInv, ReplayKind, BatchInv
<1> QED
  BY <1>3, <1>4

LEMMA CheckpointKeeps ==
  ASSUME CacheInductive, Checkpoint
  PROVE  CacheInductive'
<1>1. /\ call = Idle /\ call' = Idle /\ call.at = "idle" /\ AllClean
      /\ UNCHANGED <<sizeVars, resident, lookup, outstanding, referenced, cursor, last, capacity>>
  BY CallTypes DEF Checkpoint, clockVars, sizeVars
<1>2. Opened /\ StoreInv /\ last \in PageIds \cup {None}
  BY <1>1, CacheOpened DEF CacheInductive, CacheInv, TypeOK
<1>3. StoreInv'
  BY <1>1, <1>2, CleanStore
<1>4. CacheInv' /\ SearchInv' /\ CursorInv'
  BY <1>1, <1>2, <1>3, CacheFrame DEF CacheInductive, CursorInv
<1> QED
  BY <1>1, <1>4, CallEnds

LEMMA ReplayKeeps ==
  ASSUME CacheInductive, NEW page \in PageIds, Replay(page)
  PROVE  CacheInductive'
<1> DEFINE vacant == [call EXCEPT !.at = "vacant", !.page = page]
<1>1. /\ call.at = "replay" /\ page \in call.todo /\ UNCHANGED <<sizeVars, last>>
  BY DEF Replay
<1>2. /\ Opened /\ StoreInv /\ UNCHANGED capacity /\ Needs = call.todo /\ call.todo \in SUBSET PageIds
      /\ Cardinality(Dirty \cup Needs) <= capacity /\ last' \in PageIds \cup {None}
      /\ CallTypeOK
  BY <1>1, CacheOpened DEF CacheInductive, CacheInv, TypeOK, CallTypeOK, RoomInv, Needs, sizeVars
<1>3. CASE lookup[page] # None
  <2>1. Touch(page, TRUE) /\ UNCHANGED call
    BY <1>3 DEF Replay
  <2>2. CacheInv' /\ SearchInv' /\ CursorInv'
    BY <1>1, <1>2, <1>3, <2>1, TouchKeeps
  <2>3. Dirty' \in SUBSET (Dirty \cup Needs) /\ Needs' \in SUBSET (Dirty \cup Needs)
    BY <1>1, <1>2, <1>3, <2>1, TouchDirty DEF Needs
  <2>4. RoomInv' /\ SizeInv' /\ CallTypeOK'
    BY <1>1, <1>2, <2>1, <2>3, RoomShrinks DEF CacheInductive, RoomInv, SizeInv, CallTypeOK
  <2> QED
    BY <1>1, <2>1, <2>2, <2>4 DEF CacheInductive, VacantInv, ReplayKind, BatchInv
<1>4. CASE lookup[page] = None
  <2>1. Reserve(page, vacant, Stuck)
    BY <1>4 DEF Replay
  <2>2. call.kind = "replay"
    BY <1>1 DEF CacheInductive, ReplayKind
  <2>3. vacant \in VacantCalls(page) /\ vacant.kind = "replay" /\ vacant.todo = call.todo
    BY <1>2, <2>2 DEF CallTypeOK, VacantCalls
  <2> HIDE DEF vacant
  <2>4. /\ CacheInv' /\ SearchInv' /\ CursorInv' /\ Slots' = Slots /\ UNCHANGED <<cacheVars, capacity>>
        /\ Reserved(vacant) \/ (resident = capacity /\ \A s \in Slots : ~Clean(s))
    BY <1>1, <1>2, <2>1, ReserveKeeps
  <2>5. Reserved(vacant)
    BY <1>1, <1>2, <1>4, <2>4, RoomFinds
  <2>6. /\ CallTypeOK' /\ SizeInv' /\ VacantInv' /\ BatchInv'
        /\ call'.at = "vacant" /\ call'.page = page /\ call'.todo = call.todo /\ Dirty' = Dirty
    BY <1>1, <1>4, <2>3, <2>4, <2>5, ReservedVacant
  <2>7. Dirty' \in SUBSET (Dirty \cup Needs) /\ Needs' \in SUBSET (Dirty \cup Needs)
    BY <1>1, <1>2, <2>6 DEF Needs
  <2>8. RoomInv'
    BY <1>2, <2>7, RoomShrinks DEF RoomInv
  <2> QED
    BY <2>4, <2>6, <2>8 DEF CacheInductive, ReplayKind
<1> QED
  BY <1>3, <1>4

LEMMA ReplayLoadKeeps ==
  ASSUME CacheInductive, ReplayLoad
  PROVE  CacheInductive'
<1>1. /\ call.at = "vacant" /\ call.kind = "replay" /\ Install(call.page, call.slot, TRUE, FALSE)
      /\ call' = [call EXCEPT !.at = "replay", !.page = 0]
      /\ UNCHANGED <<sizeVars, cursor, last>>
  BY DEF ReplayLoad
<1>2. /\ CacheInv' /\ SearchInv' /\ CursorInv' /\ UNCHANGED capacity
      /\ Dirty' \in SUBSET (Dirty \cup {call.page})
  BY <1>1, InstallKeeps
<1>3. Cardinality(Dirty \cup Needs) <= capacity /\ Needs = call.todo \cup {call.page}
  BY <1>1 DEF CacheInductive, RoomInv, Needs
<1>4. /\ CallTypeOK' /\ call'.at = "replay" /\ call'.todo = call.todo /\ call'.kind = "replay"
  BY <1>1, PageZero DEF CacheInductive, CallTypeOK
<1>5. Dirty' \in SUBSET (Dirty \cup Needs) /\ Needs' \in SUBSET (Dirty \cup Needs)
  BY <1>2, <1>3, <1>4 DEF Needs
<1>6. RoomInv' /\ SizeInv'
  BY <1>1, <1>2, <1>3, <1>4, <1>5, RoomShrinks DEF CacheInductive, RoomInv, SizeInv
<1> QED
  BY <1>2, <1>4, <1>6 DEF CacheInductive, VacantInv, BatchInv, ReplayKind

LEMMA WindowDoneKeeps ==
  ASSUME CacheInductive, NEW published \in BOOLEAN, WindowDone(published)
  PROVE  CacheInductive'
<1>1. call.at = "replay" /\ UNCHANGED <<sizeVars, last, capacity>>
  BY DEF WindowDone, sizeVars
<1>2. /\ Opened /\ StoreInv /\ last' \in PageIds \cup {None} /\ capacity \in Nat \ {0}
      /\ CallTypeOK /\ call.kind = "replay"
  BY <1>1, CacheOpened DEF CacheInductive, CacheInv, TypeOK, Opened, ReplayKind
<1>3. CASE call.rest # {}
  <2> DEFINE window == NextWindow(call.rest, capacity)
  <2>1. Fresh(capacity) /\ call' = [call EXCEPT !.todo = window, !.rest = call.rest \ window, !.offset = 1]
    BY <1>2, <1>3 DEF WindowDone, CallTypeOK
  <2>2. StoreInv' /\ cursor' = 0 /\ resident' = 0
    <3>1. PICK n \in Nat \ {0} : n = capacity
      BY <1>2
    <3> QED
      BY <1>1, <2>1, <3>1, FreshStore
  <2>3. CacheInv' /\ SearchInv' /\ CursorInv'
    <3>1. 0 \in Slots
      BY <1>2 DEF Slots
    <3> QED
      BY <1>1, <1>2, <2>2, <3>1, CacheFrame DEF CursorInv
  <2>4. window \in SUBSET call.rest /\ Cardinality(window) <= capacity /\ call.rest \in SUBSET PageIds
    <3>1. call.rest \in SUBSET PageIds
      BY <1>2 DEF CallTypeOK
    <3> QED
      BY <1>2, <3>1, WindowFits
  <2> HIDE DEF window
  <2>5. /\ CallTypeOK' /\ call'.at = "replay" /\ call'.todo = window /\ call'.kind = "replay"
    BY <1>1, <1>2, <2>1, <2>4 DEF CallTypeOK
  <2>6. Dirty' = {}
    BY <2>2 DEF Dirty, Slots
  <2>7. RoomInv' /\ SizeInv'
    BY <1>1, <2>4, <2>5, <2>6 DEF CacheInductive, RoomInv, SizeInv, Needs
  <2> QED
    BY <2>3, <2>5, <2>7 DEF CacheInductive, VacantInv, BatchInv, ReplayKind
<1>4. CASE call.rest = {}
  <2>1. /\ call' = Idle /\ UNCHANGED <<resident, lookup, outstanding, referenced, cursor>>
        /\ AllClean \/ UNCHANGED slots
    BY <1>4 DEF WindowDone, clockVars
  <2>2. StoreInv'
    BY <1>1, <1>2, <2>1, CleanStore
  <2>3. CacheInv' /\ SearchInv' /\ CursorInv'
    BY <1>1, <1>2, <2>1, <2>2, CacheFrame DEF CacheInductive, CursorInv
  <2> QED
    BY <1>1, <2>1, <2>3, CallEnds
<1> QED
  BY <1>3, <1>4

\* Steps that leave the cache as it is.
LEMMA CacheUnchanged ==
  ASSUME CacheInductive, UNCHANGED <<sizeVars, cacheVars, clockVars>>, last' \in PageIds \cup {None}
  PROVE  CacheInv' /\ SearchInv' /\ CursorInv' /\ UNCHANGED capacity
<1>1. UNCHANGED <<capacity, slots, resident, lookup, outstanding, referenced, cursor>>
  BY DEF sizeVars, cacheVars, clockVars
<1>2. StoreInv'
  BY <1>1, CacheOpened DEF StoreInv, LookupExact, Slots
<1> QED
  BY <1>1, <1>2, CacheFrame DEF CacheInductive, CursorInv

LEMMA FailKeeps ==
  ASSUME CacheInductive, Fail
  PROVE  CacheInductive'
<1>1. /\ call.at \notin {"sizing", "refused"} /\ call' = Latched
      /\ UNCHANGED <<sizeVars, cacheVars, clockVars>> /\ last' \in PageIds \cup {None}
  BY DEF Fail, CacheInductive, CacheInv, TypeOK
<1> QED
  BY <1>1, CacheUnchanged, CallEnds

LEMMA ReopenKeeps ==
  ASSUME CacheInductive, Reopen
  PROVE  CacheInductive'
<1>1. /\ call' = Call("sizing", 0, 0) /\ last' \in PageIds \cup {None}
      /\ UNCHANGED <<sizeVars, cacheVars, clockVars>>
  BY DEF Reopen
<1>2. CallTypeOK' /\ call'.at = "sizing"
  BY <1>1, PageZero DEF Call, CallTypeOK
<1> QED
  BY <1>1, <1>2, CacheUnchanged DEF CacheInductive, SizeInv, VacantInv, RoomInv, BatchInv, ReplayKind

-----------------------------------------------------------------------------
(* Read-ahead *)

LEMMA ColdFacts ==
  ASSUME Opened
  PROVE  /\ ColdSteps \in SUBSET Slots /\ IsFiniteSet(ColdSteps)
         /\ \A k \in ColdSteps, j \in Slots :
              j < k => (j \in ColdSteps <=> Hand(j) \notin referenced /\ ~slots[Hand(j)].dirty)
         /\ \A k \in ColdSteps : Hand(k) \notin referenced /\ ~slots[Hand(k)].dirty
<1> DEFINE W == Least(capacity, ColdWindow)
<1>1. capacity \in Nat /\ W \in Nat /\ W <= capacity
  BY CacheAssumption DEF Opened, TypeOK, Least
<1>2. ColdSteps = {step \in 0 .. W - 1 : Hand(step) \notin referenced /\ ~slots[Hand(step)].dirty}
  BY DEF ColdSteps, Cold, Clean
<1> HIDE DEF W
<1>3. ColdSteps \in SUBSET (0 .. W - 1) /\ ColdSteps \in SUBSET Slots
  BY <1>1, <1>2 DEF Slots
<1>4. IsFiniteSet(ColdSteps)
  BY <1>1, <1>3, IntervalSize, FS_Subset
<1>5. \A k \in ColdSteps, j \in Slots : j < k => j \in 0 .. W - 1
  BY <1>1, <1>3 DEF Slots
<1> QED
  BY <1>2, <1>3, <1>4, <1>5

\* The hand meets each slot once in a round.
LEMMA HandInjective ==
  ASSUME Opened, NEW j \in Slots, NEW k \in Slots, Hand(j) = Hand(k)
  PROVE  j = k
<1>1. /\ capacity \in Nat \ {0} /\ cursor \in 0 .. capacity - 1
      /\ j \in 0 .. capacity - 1 /\ k \in 0 .. capacity - 1
      /\ j \in 0 .. 2 * capacity /\ k \in 0 .. 2 * capacity
  BY DEF Opened, TypeOK, Slots
<1> QED
  BY <1>1, HandSlot

LEMMA HandAt ==
  Opened => \A k \in 0 .. 2 * capacity :
    Hand(k) = IF cursor + k < capacity THEN cursor + k
              ELSE IF cursor + k < 2 * capacity THEN cursor + k - capacity
              ELSE cursor + k - 2 * capacity
  BY HandSlot

LEMMA HandAtNext ==
  (Opened => \A k \in 0 .. 2 * capacity :
     Hand(k) = IF cursor + k < capacity THEN cursor + k
               ELSE IF cursor + k < 2 * capacity THEN cursor + k - capacity
               ELSE cursor + k - 2 * capacity)'
  BY HandAt, PTL

\* Moving the hand past step m renumbers the steps.
LEMMA HandTurns ==
  ASSUME Opened, Opened', UNCHANGED capacity, NEW m \in Slots, cursor' = Hand(m + 1), NEW k \in Slots
  PROVE  /\ m + 1 + k < capacity => Hand(k)' = Hand(m + 1 + k)
         /\ m + 1 + k >= capacity => Hand(k)' = Hand(m + 1 + k - capacity)
<1>1. /\ capacity \in Nat \ {0} /\ cursor \in 0 .. capacity - 1 /\ cursor' \in 0 .. capacity - 1
      /\ m \in 0 .. capacity - 1 /\ k \in 0 .. capacity - 1 /\ m + 1 \in 0 .. 2 * capacity
  BY DEF Opened, TypeOK, Slots
<1>2. cursor' = IF cursor + m + 1 < capacity THEN cursor + m + 1 ELSE cursor + m + 1 - capacity
  BY <1>1, HandSlot
<1>3. Hand(k)' = IF cursor' + k < capacity THEN cursor' + k ELSE cursor' + k - capacity
  <2>1. k \in 0 .. 2 * capacity'
    BY <1>1
  <2>2. Hand(k)' = IF cursor' + k < capacity' THEN cursor' + k
                   ELSE IF cursor' + k < 2 * capacity' THEN cursor' + k - capacity'
                   ELSE cursor' + k - 2 * capacity'
    BY <2>1, HandAtNext
  <2> QED
    BY <1>1, <2>1, <2>2
<1>4. CASE m + 1 + k < capacity
  <2>1. m + 1 + k \in 0 .. 2 * capacity
    BY <1>1
  <2>2. Hand(m + 1 + k) = IF cursor + (m + 1 + k) < capacity THEN cursor + (m + 1 + k)
                          ELSE cursor + (m + 1 + k) - capacity
    BY <1>1, <1>4, <2>1, HandSlot
  <2> QED
    BY <1>1, <1>2, <1>3, <1>4, <2>2
<1>5. CASE m + 1 + k >= capacity
  <2> DEFINE j == m + 1 + k - capacity
  <2>1. j \in 0 .. 2 * capacity /\ j < capacity
    BY <1>1, <1>5
  <2>2. Hand(j) = IF cursor + j < capacity THEN cursor + j ELSE cursor + j - capacity
    BY <1>1, <2>1, HandSlot
  <2> QED
    BY <1>1, <1>2, <1>3, <1>5, <2>2
<1> QED
  BY <1>1, <1>4, <1>5

\* The slots that prefetch_limit counts on besides the unused ones.
ColdFor(slot) == {step \in ColdSteps : Hand(step) < resident /\ Hand(step) # slot}

\* prefetch_limit admits pages that are on the volume, absent, and will each find a slot.
LEMMA LimitFacts ==
  ASSUME CacheInductive, call.at = "vacant",
         NEW count \in Nat, 2 <= count, count <= PrefetchLimit(call.page, call.slot)
  PROVE  /\ \A k \in 1 .. count - 1 : call.page + k \in PageIds /\ lookup[call.page + k] = None
         /\ count - 1 <= (capacity - resident) - (IF call.slot = resident THEN 1 ELSE 0)
                           + Cardinality(ColdFor(call.slot))
         /\ Cardinality(ColdFor(call.slot)) \in Nat
<1> DEFINE page == call.page
           spare == (capacity - resident) - (IF call.slot = resident THEN 1 ELSE 0)
           cold == Cardinality(ColdFor(call.slot))
           available == spare + Least(cold, ReadAhead - 1)
           bound == Least(ReadAhead, available + 1)
           absent == {n \in 0 .. bound - 1 :
                        \A k \in 1 .. n : page + k \in PageIds /\ lookup[page + k] = None}
<1>1. count <= Cardinality(absent)
  BY DEF PrefetchLimit, ColdFor
<1>2. cold \in Nat
  <2>1. Opened
    BY CacheOpened
  <2>2. IsFiniteSet(ColdSteps) /\ ColdFor(call.slot) \in SUBSET ColdSteps
    BY <2>1, ColdFacts DEF ColdFor
  <2> QED
    BY <2>2, FS_Subset, FS_CardinalityType
<1>3. spare \in Nat
  BY DEF CacheInductive, CacheInv, TypeOK, VacantInv, Slots
<1> HIDE DEF spare, cold
<1>4. bound \in Nat /\ bound <= spare + cold + 1
  BY <1>2, <1>3, CacheAssumption DEF Least
<1> HIDE DEF bound
<1>5. IsFiniteSet(absent) /\ Cardinality(absent) <= bound /\ Cardinality(absent) \in Nat
  <2>1. IsFiniteSet(0 .. bound - 1) /\ Cardinality(0 .. bound - 1) = bound
    BY <1>4, IntervalSize
  <2> QED
    BY <2>1, FS_Subset, FS_CardinalityType
<1>6. count - 1 \in absent
  <2> SUFFICES ASSUME count - 1 \notin absent
               PROVE  FALSE
    OBVIOUS
  <2>1. \A n \in absent : n < count - 1
    <3> SUFFICES ASSUME NEW n \in absent, n >= count - 1
                 PROVE  FALSE
      BY <1>4
    <3>1. count - 1 \in 0 .. bound - 1 /\ \A k \in 1 .. count - 1 : k \in 1 .. n
      BY <1>4
    <3> QED
      BY <3>1
  <2>2. PICK m \in Nat : m = count - 1
    OBVIOUS
  <2>3. absent \in SUBSET (0 .. m - 1)
    BY <1>4, <2>1, <2>2
  <2>4. IsFiniteSet(0 .. m - 1) /\ Cardinality(0 .. m - 1) = m
    BY <2>2, IntervalSize
  <2>5. Cardinality(absent) <= m
    <3> HIDE DEF absent
    <3> QED
      BY <2>3, <2>4, FS_Subset
  <2> QED
    BY <1>1, <1>5, <2>2, <2>5
<1>7. count - 1 <= spare + cold
  BY <1>1, <1>2, <1>3, <1>4, <1>5
<1> QED
  BY <1>2, <1>6, <1>7 DEF spare, cold

LEMMA LoadKeeps ==
  ASSUME CacheInductive, NEW count \in 0 .. ReadAhead, Load(count)
  PROVE  CacheInductive'
<1> DEFINE page == call.page
           slot == call.slot
<1>1. /\ call.at = "vacant" /\ Install(page, slot, FALSE, FALSE)
      /\ count <= IF call.sequential THEN PrefetchLimit(page, slot) ELSE 1
      /\ call' = (IF count <= 1 THEN Idle
                  ELSE [Call("prefetch", page, 0) EXCEPT !.count = count, !.offset = 1, !.todo = {page}])
      /\ UNCHANGED <<sizeVars, cursor, last>>
  BY DEF Load
<1>2. CacheInv' /\ SearchInv' /\ CursorInv' /\ UNCHANGED capacity
  BY <1>1, InstallKeeps
<1>3. count \in Nat
  BY CacheAssumption
<1>4. CASE count <= 1
  BY <1>1, <1>2, <1>4, CallEnds
<1>5. CASE count > 1
  <2>1. count <= PrefetchLimit(page, slot) /\ 2 <= count
    BY <1>1, <1>3, <1>5
  <2>2. /\ \A k \in 1 .. count - 1 : page + k \in PageIds /\ lookup[page + k] = None
        /\ count - 1 <= (capacity - resident) - (IF slot = resident THEN 1 ELSE 0)
                          + Cardinality(ColdFor(slot))
        /\ Cardinality(ColdFor(slot)) \in Nat
    BY <1>1, <1>3, <2>1, LimitFacts
  <2>3. /\ page \in PageIds /\ slot \in Slots /\ lookup[page] = None
        /\ slot = resident \/ slot < resident
        /\ resident \in 0 .. capacity /\ capacity \in Nat /\ Slots' = Slots
        /\ slots \in [Slots -> [page: PageIds, dirty: BOOLEAN, prefetched: BOOLEAN]]
        /\ Opened
    BY <1>1, <1>2, CacheOpened DEF CacheInductive, CallTypeOK, VacantInv, CacheInv, TypeOK, Slots
  <2>4. /\ resident' = (IF slot < resident THEN resident ELSE resident + 1)
        /\ lookup'[page] = slot /\ \A p \in PageIds : p # page /\ lookup[p] = None => lookup'[p] = None
        /\ \A s \in Slots \ {slot} : slots'[s] = slots[s]
        /\ referenced' = referenced \cup {slot} /\ cursor' = cursor
    BY <1>1, <2>3 DEF Install
  <2>5. /\ CallTypeOK' /\ call'.at = "prefetch" /\ call'.page = page /\ call'.count = count
        /\ call'.offset = 1 /\ call'.todo = {page}
    <3>1. call' = [at |-> "prefetch", kind |-> "none", page |-> page, slot |-> 0, sequential |-> FALSE,
                   todo |-> {page}, rest |-> {}, count |-> count, offset |-> 1]
      <4>1. ~(count <= 1)
        BY <1>3, <1>5
      <4>2. call' = [Call("prefetch", page, 0) EXCEPT !.count = count, !.offset = 1, !.todo = {page}]
        BY <1>1, <4>1
      <4> HIDE DEF page
      <4> QED
        BY <4>2 DEF Call
    <3> QED
      BY <1>3, <2>3, <3>1 DEF CallTypeOK
  <2>6. Held' = {slot}
    BY <2>4, <2>5 DEF Held
  <2>7. Takeable' = ColdFor(slot)
    <3>1. \A step \in Slots : Hand(step)' = Hand(step) /\ Hand(step) \in Slots
      <4>1. \A step \in Slots : step \in 0 .. 2 * capacity
        BY <2>3 DEF Slots
      <4> QED
        BY <1>2, <2>3, <2>4, <4>1, HandSlot DEF Hand
    <3>2. \A s \in Slots : s # slot =>
            /\ (s < resident' <=> s < resident)
            /\ (s \in referenced' <=> s \in referenced)
            /\ slots'[s] = slots[s]
      <4>1. resident \in Nat /\ slot \in Nat /\ \A s \in Slots : s \in Nat
        BY <2>3 DEF Slots
      <4> QED
        BY <2>3, <2>4, <4>1
    <3>3. ColdSteps' = {step \in ColdSteps : Hand(step) # slot}
      <4> DEFINE W == Least(capacity, ColdWindow)
      <4>1. W' = W /\ 0 .. W - 1 \in SUBSET Slots
        BY <1>2, <2>3, CacheAssumption DEF Least, Slots
      <4>2. \A step \in 0 .. W - 1 :
              step \in ColdSteps' <=> step \in ColdSteps /\ Hand(step) # slot
        BY <2>4, <3>1, <3>2, <4>1 DEF ColdSteps, Cold, Clean
      <4> QED
        BY <4>1, <4>2 DEF ColdSteps
    <3>4. ColdSteps \in SUBSET Slots
      BY <2>3, ColdFacts
    <3>5. ASSUME NEW step \in ColdSteps
          PROVE  step \in Takeable' <=> step \in ColdFor(slot)
      <4>1. PICK h \in Slots : h = Hand(step) /\ h = Hand(step)'
        BY <3>1, <3>4
      <4>2. step \in Takeable' <=> step \in ColdSteps' /\ h < resident' /\ h \notin Held'
        BY <4>1 DEF Takeable
      <4>3. step \in ColdFor(slot) <=> h < resident /\ h # slot
        BY <4>1 DEF ColdFor
      <4> QED
        BY <2>6, <3>2, <3>3, <4>1, <4>2, <4>3
    <3> QED
      BY <3>3, <3>5 DEF Takeable, ColdFor
  <2>8. call'.count - call'.offset <= (capacity' - resident') + Cardinality(Takeable')
    BY <1>2, <1>3, <2>2, <2>3, <2>4, <2>5, <2>7
  <2>9. \A k \in 1 .. count - 1 : lookup'[page + k] = None
    <3>1. \A k \in 1 .. count - 1 : page + k # page
      BY <1>3, <2>3 DEF PageIds
    <3> QED
      BY <2>2, <2>4, <3>1
  <2>10. BatchLast'
    BY <2>4, <2>6 DEF BatchLast
  <2>11. lookup'[page] # None /\ lookup'[page] \in referenced'
    BY <2>3, <2>4 DEF Slots, None
  <2>12. BatchInv'
    BY <1>3, <2>1, <2>2, <2>5, <2>8, <2>9, <2>10, <2>11 DEF BatchInv
  <2>13. SizeInv'
    BY <1>1, <1>2, <2>5 DEF CacheInductive, SizeInv
  <2> QED
    BY <1>2, <2>5, <2>12, <2>13 DEF CacheInductive, VacantInv, ReplayKind, RoomInv
<1> QED
  BY <1>3, <1>4, <1>5

\* What remains of a batch once `kept` of it is dealt with.
LEMMA AfterPrefetchType ==
  ASSUME CacheInductive, call.at = "prefetch", NEW kept \in SUBSET PageIds, call' = AfterPrefetch(kept)
  PROVE  \/ call' = Idle
         \/ /\ CallTypeOK' /\ call'.at = "prefetch" /\ call'.page = call.page
            /\ call'.count = call.count /\ call'.offset = call.offset + 1
            /\ call'.todo = call.todo \cup kept /\ call.offset + 1 \in 1 .. call.count - 1
<1>1. /\ CallTypeOK /\ call.offset \in 1 .. call.count - 1 /\ call.count \in Nat /\ call.offset \in Nat
  BY DEF CacheInductive, BatchInv, CallTypeOK
<1>2. CASE call.offset + 1 = call.count
  BY <1>2 DEF AfterPrefetch
<1>3. CASE call.offset + 1 # call.count
  <2>1. call' = [call EXCEPT !.offset = call.offset + 1, !.todo = call.todo \cup kept]
    BY <1>1, <1>3 DEF AfterPrefetch, CallTypeOK
  <2>2. call.offset + 1 \in 1 .. call.count - 1
    BY <1>1, <1>3
  <2>3. PICK todo \in SUBSET PageIds, offset \in Nat :
           todo = call.todo \cup kept /\ offset = call.offset + 1
    <3>1. call.todo \in SUBSET PageIds
      BY <1>1 DEF CallTypeOK
    <3>2. call.todo \cup kept \in SUBSET PageIds /\ call.offset + 1 \in Nat
      BY <1>1, <3>1
    <3> QED
      BY <3>2
  <2>4. call' = [call EXCEPT !.offset = offset, !.todo = todo]
    BY <2>1, <2>3
  <2>5. /\ CallTypeOK' /\ call'.at = call.at /\ call'.page = call.page /\ call'.count = call.count
        /\ call'.offset = offset /\ call'.todo = todo
    BY <1>1, <2>4 DEF CallTypeOK
  <2> QED
    BY <2>2, <2>3, <2>5
<1> QED
  BY <1>2, <1>3

LEMMA PrefetchInvalidKeeps ==
  ASSUME CacheInductive, PrefetchInvalid
  PROVE  CacheInductive'
<1>1. /\ call.at = "prefetch" /\ call' = AfterPrefetch({})
      /\ UNCHANGED <<sizeVars, cacheVars, clockVars, last>>
  BY DEF PrefetchInvalid
<1>2. CacheInv' /\ SearchInv' /\ CursorInv' /\ UNCHANGED capacity
  BY <1>1, CacheUnchanged DEF CacheInductive, CacheInv, TypeOK
<1>3. CASE call' = Idle
  BY <1>1, <1>2, <1>3, CallEnds
<1>4. CASE call' # Idle
  <2>1. /\ CallTypeOK' /\ call'.at = "prefetch" /\ call'.page = call.page
        /\ call'.count = call.count /\ call'.offset = call.offset + 1
        /\ call'.todo = call.todo /\ call.offset + 1 \in 1 .. call.count - 1
    <3>1. PICK kept \in SUBSET PageIds : kept = {}
      OBVIOUS
    <3>2. call' = AfterPrefetch(kept) /\ call.todo \cup kept = call.todo
      BY <1>1, <3>1
    <3> QED
      BY <1>1, <1>4, <3>2, AfterPrefetchType
  <2>2. UNCHANGED <<capacity, slots, resident, lookup, referenced, cursor>>
    BY <1>1, <1>2 DEF cacheVars, clockVars
  <2>3. Held' = Held /\ Takeable' = Takeable /\ BatchLast' = BatchLast
    BY <2>1, <2>2 DEF Held, Takeable, BatchLast, ColdSteps, Cold, Clean, Hand, Slots
  <2>4. call.offset \in Nat /\ call.count \in Nat /\ capacity \in Nat /\ resident \in Nat
        /\ Cardinality(Takeable) \in Nat
    <3>1. Opened
      BY <1>1, CacheOpened
    <3>2. IsFiniteSet(Takeable)
      BY <3>1, ColdFacts, FS_Subset DEF Takeable
    <3> QED
      BY <3>1, <3>2, FS_CardinalityType DEF CacheInductive, CallTypeOK, Opened, TypeOK
  <2>5. BatchInv'
    BY <1>1, <2>1, <2>2, <2>3, <2>4 DEF CacheInductive, BatchInv
  <2>6. SizeInv'
    BY <1>1, <1>2, <2>1 DEF CacheInductive, SizeInv
  <2> QED
    BY <1>2, <2>1, <2>5, <2>6 DEF CacheInductive, VacantInv, ReplayKind, RoomInv
<1> QED
  BY <1>3, <1>4

\* Read-ahead stores a page in an unused slot: the hand is at the first slot and reaches it last.
LEMMA PrefetchUnused ==
  ASSUME CacheInductive, call.at = "prefetch", resident < capacity,
         Install(call.page + call.offset, resident, FALSE, TRUE), UNCHANGED <<capacity, cursor>>,
         Opened', call'.todo = call.todo \cup {call.page + call.offset}
  PROVE  /\ \A p \in call.todo : lookup'[p] = lookup[p]
         /\ Takeable' = Takeable /\ resident' = resident + 1 /\ BatchLast'
<1> DEFINE page == call.page + call.offset
           slot == resident
<1>1. /\ Opened /\ StoreInv /\ cursor = 0 /\ Slots' = Slots
      /\ page \in PageIds /\ lookup[page] = None /\ call.todo \in SUBSET PageIds
      /\ \A p \in call.todo : lookup[p] # None
  BY CacheOpened DEF CacheInductive, CursorInv, BatchInv, CallTypeOK, Slots
<1>2. /\ capacity \in Nat /\ resident \in Nat /\ slot \in Slots
      /\ slots \in [Slots -> [page: PageIds, dirty: BOOLEAN, prefetched: BOOLEAN]]
      /\ \A s \in Slots : s \in Nat
  BY <1>1 DEF Opened, TypeOK, StoreInv, Slots
<1>3. /\ resident' = resident + 1 /\ referenced' = referenced \ {slot}
      /\ lookup'[page] = slot /\ \A p \in PageIds : p # page => lookup'[p] = lookup[p]
      /\ \A s \in Slots \ {slot} : slots'[s] = slots[s]
  BY <1>1, <1>2 DEF Install
<1>4. \A p \in call.todo : p # page /\ lookup'[p] = lookup[p]
  BY <1>1, <1>3
<1>5. Held' = Held \cup {slot}
  BY <1>3, <1>4 DEF Held
<1>6. \A s \in Slots : Hand(s) = s /\ Hand(s)' = s
  <2>1. \A s \in Slots : s \in 0 .. 2 * capacity /\ cursor + s = s /\ s < capacity
    BY <1>1, <1>2 DEF Slots
  <2> QED
    BY <1>1, <2>1, HandAt, HandAtNext
<1>7. Takeable' = Takeable
  <2> DEFINE W == Least(capacity, ColdWindow)
  <2>1. W' = W /\ 0 .. W - 1 \in SUBSET Slots
    BY <1>2, CacheAssumption DEF Least, Slots
  <2>2. ASSUME NEW s \in 0 .. W - 1
        PROVE  s \in Takeable' <=> s \in Takeable
    <3>1. s \in Slots /\ s \in Nat
      BY <1>2, <2>1
    <3>2. s \in Takeable <=> s \notin referenced /\ ~slots[s].dirty /\ s < resident /\ s \notin Held
      BY <1>6, <3>1 DEF Takeable, ColdSteps, Cold, Clean
    <3>3. s \in Takeable' <=> s \notin referenced' /\ ~slots'[s].dirty /\ s < resident' /\ s \notin Held'
      BY <1>6, <2>1, <3>1 DEF Takeable, ColdSteps, Cold, Clean
    <3>4. CASE s = slot
      BY <1>2, <1>5, <3>1, <3>2, <3>3, <3>4
    <3>5. CASE s # slot
      BY <1>2, <1>3, <1>5, <3>1, <3>2, <3>3, <3>5
    <3> QED
      BY <3>4, <3>5
  <2>3. Takeable \in SUBSET (0 .. W - 1) /\ Takeable' \in SUBSET (0 .. W - 1)
    BY <2>1 DEF Takeable, ColdSteps
  <2> HIDE DEF W
  <2> QED
    BY <2>2, <2>3
<1>8. BatchLast'
  <2> SUFFICES ASSUME NEW b \in Slots, NEW j \in Slots, b < j, b \in Held', b \notin referenced',
                      j < resident'
               PROVE  j \in Held' \/ j \in referenced' \/ slots'[j].dirty
    BY <1>1, <1>6 DEF BatchLast
  <2>1. CASE j = slot
    BY <1>5, <2>1
  <2>2. CASE j # slot
    <3>1. j < resident /\ b # slot /\ b \in Held /\ b \notin referenced
      BY <1>2, <1>3, <1>5, <2>2
    <3>2. j \in Held \/ j \in referenced \/ slots[j].dirty
      BY <1>6, <3>1 DEF CacheInductive, BatchInv, BatchLast
    <3> QED
      BY <1>3, <1>5, <2>2, <3>2
  <2> QED
    BY <2>1, <2>2
<1> QED
  BY <1>3, <1>4, <1>7, <1>8

\* Read-ahead stores a page over the first cold slot: that slot is not of the batch, and the hand
\* moves past it, so that the batch's slots come last again.
LEMMA PrefetchEvicts ==
  ASSUME CacheInductive, call.at = "prefetch", resident = capacity,
         NEW m \in ColdSteps, \A other \in ColdSteps : m <= other,
         Install(call.page + call.offset, Hand(m), FALSE, TRUE), cursor' = Hand(m + 1),
         UNCHANGED capacity, Opened', call'.todo = call.todo \cup {call.page + call.offset}
  PROVE  /\ \A p \in call.todo : lookup'[p] = lookup[p]
         /\ Cardinality(Takeable) \in Nat /\ Cardinality(Takeable') \in Nat
         /\ Cardinality(Takeable) <= Cardinality(Takeable') + 1
         /\ resident' = resident /\ BatchLast'
<1> DEFINE page == call.page + call.offset
           slot == Hand(m)
           W == Least(capacity, ColdWindow)
<1>1. /\ Opened /\ StoreInv /\ Slots' = Slots /\ BatchLast /\ LookupExact
      /\ page \in PageIds /\ lookup[page] = None /\ call.todo \in SUBSET PageIds
      /\ \A p \in call.todo : lookup[p] # None
      /\ call.offset \in 1 .. call.count - 1 /\ call.count \in Nat
      /\ call.count - call.offset <= (capacity - resident) + Cardinality(Takeable)
  BY CacheOpened DEF CacheInductive, CacheInv, BatchInv, CallTypeOK, Slots
<1>2. /\ capacity \in Nat \ {0} /\ resident \in Nat /\ cursor \in 0 .. capacity - 1
      /\ slots \in [Slots -> [page: PageIds, dirty: BOOLEAN, prefetched: BOOLEAN]]
      /\ lookup \in [PageIds -> Slots \cup {None}]
      /\ \A s \in Slots : s \in Nat /\ s < capacity /\ s \in 0 .. capacity - 1 /\ s \in 0 .. 2 * capacity
  BY <1>1 DEF Opened, TypeOK, StoreInv, Slots
<1>3. /\ ColdSteps \in SUBSET Slots /\ IsFiniteSet(ColdSteps) /\ m \in Slots
      /\ \A j \in Slots : j < m => Hand(j) \in referenced \/ slots[Hand(j)].dirty
      /\ \A k \in ColdSteps : Hand(k) \notin referenced /\ ~slots[Hand(k)].dirty
  <2>1. \A j \in Slots : j < m => j \notin ColdSteps
    <3>1. \A j \in Slots : j < m => ~(m <= j)
      BY <1>1, <1>2, ColdFacts
    <3> QED
      BY <3>1
  <2> QED
    BY <1>1, <2>1, ColdFacts
<1>4. \A s \in Slots : Hand(s) \in Slots /\ Hand(s) < resident
  BY <1>1, <1>2, HandSlot DEF Slots
<1>5. IsFiniteSet(Takeable) /\ Cardinality(Takeable) \in Nat /\ Takeable # {}
  <2>1. IsFiniteSet(Takeable) /\ Cardinality(Takeable) \in Nat
    BY <1>3, FS_Subset, FS_CardinalityType DEF Takeable
  <2>2. call.offset \in Nat /\ call.count - call.offset >= 1 /\ capacity - resident = 0
    BY <1>1, <1>2
  <2>3. Cardinality(Takeable) # 0
    BY <1>1, <2>1, <2>2
  <2> QED
    BY <2>1, <2>3, FS_EmptySet
<1>6. m \in Takeable /\ slot \notin Held
  <2>1. PICK t \in Takeable : TRUE
    BY <1>5
  <2>2. /\ t \in ColdSteps /\ Hand(t) \notin Held /\ Hand(t) < resident /\ t \in Slots
        /\ Hand(t) \notin referenced /\ ~slots[Hand(t)].dirty /\ m <= t
    BY <1>3, <2>1 DEF Takeable
  <2>3. CASE slot \in Held
    <3>1. m # t
      BY <2>2, <2>3
    <3>2. m \in Nat /\ t \in Nat
      BY <1>2, <1>3, <2>2
    <3>3. m < t
      BY <2>2, <3>1, <3>2
    <3>4. Hand(m) \in Held /\ Hand(m) \notin referenced
      BY <1>3, <2>3
    <3> QED
      BY <1>1, <1>3, <2>2, <3>3, <3>4 DEF BatchLast
  <2> QED
    BY <1>3, <1>4, <2>3 DEF Takeable
<1>7. slot \in Slots /\ slot < resident /\ slot \notin referenced
  BY <1>3, <1>4
<1> HIDE DEF slot
<1>8. /\ resident' = resident /\ referenced' = referenced
      /\ lookup'[page] = slot
      /\ \A p \in PageIds : p # page /\ p # slots[slot].page => lookup'[p] = lookup[p]
      /\ slots'[slot].dirty = FALSE /\ \A s \in Slots \ {slot} : slots'[s] = slots[s]
  <2>1. Install(page, slot, FALSE, TRUE)
    BY DEF slot
  <2> QED
    BY <1>1, <1>2, <1>7, <2>1 DEF Install
<1>9. \A p \in call.todo : p # page /\ lookup'[p] = lookup[p]
  <2>1. lookup[slots[slot].page] = slot
    BY <1>1, <1>7 DEF LookupExact
  <2>2. \A p \in call.todo : lookup[p] \in Held
    BY DEF Held
  <2> QED
    BY <1>1, <1>6, <1>8, <2>1, <2>2
<1>10. Held' = Held \cup {slot}
  BY <1>8, <1>9 DEF Held
<1>11. ASSUME NEW k \in Slots
       PROVE  /\ m + 1 + k < capacity => Hand(k)' = Hand(m + 1 + k)
              /\ m + 1 + k >= capacity => Hand(k)' = Hand(m + 1 + k - capacity)
  BY <1>1, <1>3, HandTurns
<1>12. Cardinality(Takeable') \in Nat /\ Cardinality(Takeable) <= Cardinality(Takeable') + 1
  <2> DEFINE f == [j \in Takeable \ {m} |-> j - m - 1]
  <2>1. W' = W /\ W \in Nat /\ W <= capacity
    BY <1>2, CacheAssumption DEF Least
  <2>2. Takeable \in SUBSET (0 .. W - 1) /\ Takeable' \in SUBSET (0 .. W - 1)
    BY <2>1 DEF Takeable, ColdSteps
  <2>3. ASSUME NEW j \in Takeable \ {m}
        PROVE  j - m - 1 \in Takeable'
    <3> DEFINE k == j - m - 1
    <3>1. /\ j \in ColdSteps /\ m <= j /\ j # m /\ j \in Slots /\ Hand(j) \notin Held
          /\ Hand(j) \notin referenced /\ ~slots[Hand(j)].dirty
      BY <1>3 DEF Takeable
    <3>2. k \in 0 .. W - 1 /\ k \in Slots /\ m + 1 + k = j /\ j < capacity
      BY <1>2, <1>3, <2>1, <2>2, <3>1 DEF Slots
    <3>3. Hand(k)' = Hand(j)
      BY <1>11, <3>2
    <3>4. Hand(j) # slot /\ Hand(j) \in Slots /\ Hand(j) < resident
      BY <1>1, <1>3, <1>4, <3>1, HandInjective DEF slot
    <3>5. /\ Hand(k)' \notin referenced' /\ ~slots'[Hand(k)'].dirty /\ Hand(k)' < resident'
          /\ Hand(k)' \notin Held'
      BY <1>8, <1>10, <3>1, <3>3, <3>4
    <3> HIDE DEF k
    <3>6. k \in Takeable'
      BY <2>1, <3>2, <3>5 DEF Takeable, ColdSteps, Cold, Clean
    <3> QED
      BY <3>6 DEF k
  <2>4. f \in [Takeable \ {m} -> Takeable']
    BY <2>3
  <2>5. \A i, j \in Takeable \ {m} : f[i] = f[j] => i = j
    BY <1>2, <1>3, <2>1, <2>2
  <2>6. f \in Injection(Takeable \ {m}, Takeable')
    <3> HIDE DEF f
    <3> QED
      BY <2>4, <2>5 DEF Injection, IsInjective
  <2>7. IsFiniteSet(Takeable') /\ Cardinality(Takeable') \in Nat
    BY <2>1, <2>2, IntervalSize, FS_Subset, FS_CardinalityType
  <2>8. Cardinality(Takeable \ {m}) <= Cardinality(Takeable')
    BY <2>6, <2>7, FS_Injection
  <2>9. Cardinality(Takeable \ {m}) = Cardinality(Takeable) - 1
    BY <1>5, <1>6, FS_RemoveElement
  <2> QED
    BY <1>5, <2>7, <2>8, <2>9
<1>13. BatchLast'
  <2> SUFFICES ASSUME NEW b \in Slots, NEW j \in Slots, b < j,
                      Hand(b)' \in Held', Hand(b)' \notin referenced', Hand(j)' < resident'
               PROVE  Hand(j)' \in Held' \/ Hand(j)' \in referenced' \/ slots'[Hand(j)'].dirty
    BY <1>1 DEF BatchLast
  <2>1. PICK ob \in Slots : /\ Hand(b)' = Hand(ob)
                            /\ ob = m + 1 + b \/ ob = m + 1 + b - capacity
    BY <1>2, <1>3, <1>11 DEF Slots
  <2>2. PICK oj \in Slots : /\ Hand(j)' = Hand(oj)
                            /\ oj = m + 1 + j \/ oj = m + 1 + j - capacity
    BY <1>2, <1>3, <1>11 DEF Slots
  <2>3. CASE Hand(oj) = slot
    BY <1>10, <2>2, <2>3
  <2>4. CASE Hand(oj) # slot
    <3>1. oj # m /\ Hand(oj) \in Slots /\ Hand(oj) < resident
      BY <1>4, <2>4 DEF slot
    <3>2. ob # m
      BY <1>2, <1>3, <2>1
    <3>3. Hand(ob) # slot
      BY <1>1, <1>3, <3>2, HandInjective DEF slot
    <3>4. Hand(ob) \in Held /\ Hand(ob) \notin referenced
      BY <1>8, <1>10, <2>1, <3>3
    <3>5. ~(ob < m)
      BY <1>1, <1>3, <1>4, <1>6, <3>4 DEF BatchLast, slot
    <3>6. ob < oj \/ oj < m
      <4>1. /\ m \in 0 .. capacity - 1 /\ b \in 0 .. capacity - 1 /\ j \in 0 .. capacity - 1
            /\ ob \in 0 .. capacity - 1 /\ oj \in 0 .. capacity - 1
        BY <1>2, <1>3
      <4>2. ob > m
        BY <1>2, <3>2, <3>5, <4>1
      <4>3. ob = m + 1 + b
        BY <1>2, <2>1, <4>1, <4>2
      <4> QED
        BY <1>2, <2>2, <3>1, <4>1, <4>3
    <3>7. Hand(oj) \in Held \/ Hand(oj) \in referenced \/ slots[Hand(oj)].dirty
      BY <1>1, <1>3, <3>1, <3>4, <3>6 DEF BatchLast
    <3> QED
      BY <1>8, <1>10, <2>2, <2>4, <3>1, <3>7
  <2> QED
    BY <2>3, <2>4
<1> QED
  BY <1>5, <1>8, <1>9, <1>12, <1>13

\* Every page of a batch is stored: in the next unused slot, or over the first cold one.
LEMMA PrefetchStores ==
  ASSUME CacheInductive, Prefetch
  PROVE  /\ call' = AfterPrefetch({call.page + call.offset})
         /\ resident < capacity => /\ Install(call.page + call.offset, resident, FALSE, TRUE)
                                   /\ cursor' = cursor
         /\ ~(resident < capacity) =>
              \E m \in ColdSteps :
                /\ \A other \in ColdSteps : m <= other
                /\ Install(call.page + call.offset, Hand(m), FALSE, TRUE)
                /\ cursor' = Hand(m + 1)
<1> DEFINE page == call.page + call.offset
           Foremost(k) == \A other \in ColdSteps : k <= other
           step == CHOOSE k \in ColdSteps : Foremost(k)
<1>1. call.at = "prefetch" /\ Opened
  BY CacheOpened DEF Prefetch
<1>2. /\ capacity \in Nat /\ resident \in 0 .. capacity /\ call.offset \in 1 .. call.count - 1
      /\ call.count \in Nat /\ call.offset \in Nat /\ lookup[page] = None
      /\ call.count - call.offset <= (capacity - resident) + Cardinality(Takeable)
  BY <1>1 DEF CacheInductive, CacheInv, TypeOK, CallTypeOK, BatchInv
<1>3. ~(resident < capacity) => ColdSteps # {}
  <2> SUFFICES ASSUME ~(resident < capacity), ColdSteps = {}
               PROVE  FALSE
    OBVIOUS
  <2>1. Takeable = {}
    BY DEF Takeable
  <2>2. Cardinality(Takeable) = 0
    BY <2>1, FS_EmptySet
  <2> QED
    BY <1>2, <2>2
<1>4. ~(lookup[page] # None \/ (resident = capacity /\ ColdSteps = {}))
  BY <1>2, <1>3
<1>5. /\ call' = AfterPrefetch({page})
      /\ resident < capacity => Install(page, resident, FALSE, TRUE) /\ cursor' = cursor
      /\ ~(resident < capacity) => Install(page, Hand(step), FALSE, TRUE) /\ cursor' = Hand(step + 1)
  BY <1>4 DEF Prefetch
<1>6. ~(resident < capacity) => step \in ColdSteps /\ Foremost(step)
  <2>1. ColdSteps \in SUBSET Slots /\ IsFiniteSet(ColdSteps) /\ Slots \in SUBSET Nat
    BY <1>1, ColdFacts DEF Slots
  <2>2. ColdSteps # {} => \E k \in ColdSteps : Foremost(k)
    BY <2>1, LeastMember
  <2> HIDE DEF Foremost
  <2> QED
    BY <1>3, <2>2
<1> HIDE DEF step
<1> QED
  BY <1>5, <1>6

\* What storing a page does to the batch, in either slot.
LEMMA PrefetchBatch ==
  ASSUME CacheInductive, Prefetch
  PROVE  /\ CacheInv' /\ SearchInv' /\ CursorInv' /\ UNCHANGED capacity
         /\ lookup'[call.page + call.offset] # None
         /\ \A p \in PageIds : p # call.page + call.offset /\ lookup[p] = None => lookup'[p] = None
         /\ lookup[call.page] \in referenced'
<1> DEFINE page == call.page + call.offset
<1>1. /\ call.at = "prefetch" /\ Opened /\ StoreInv /\ UNCHANGED <<sizeVars, last>>
      /\ UNCHANGED capacity
  BY CacheOpened DEF Prefetch, sizeVars
<1>2. /\ capacity \in Nat /\ resident \in 0 .. capacity /\ page \in PageIds /\ lookup[page] = None
      /\ call.page \in PageIds /\ lookup[call.page] # None /\ lookup[call.page] \in referenced
      /\ lookup[call.page] \in 0 .. resident - 1 /\ last \in PageIds \cup {None} /\ None \notin Slots
  BY <1>1 DEF CacheInductive, CacheInv, TypeOK, LookupExact, CallTypeOK, BatchInv, Slots, None
<1>3. \E slot \in Slots :
        /\ slot <= resident /\ slot # lookup[call.page] /\ Install(page, slot, FALSE, TRUE)
        /\ cursor' = cursor \/ (resident = capacity /\ slot < resident /\ cursor' \in Slots)
  <2>1. CASE resident < capacity
    <3>1. resident \in Slots /\ resident <= resident /\ resident # lookup[call.page]
      BY <1>2, <2>1 DEF Slots
    <3> QED
      BY <2>1, <3>1, PrefetchStores
  <2>2. CASE ~(resident < capacity)
    <3>1. PICK m \in ColdSteps : Install(page, Hand(m), FALSE, TRUE) /\ cursor' = Hand(m + 1)
      BY <2>2, PrefetchStores
    <3>2. m \in Slots /\ Hand(m) \notin referenced
      BY <1>1, ColdFacts
    <3>3. m \in 0 .. 2 * capacity /\ m + 1 \in 0 .. 2 * capacity
      BY <1>2, <3>2 DEF Slots
    <3>4. Hand(m) \in Slots /\ Hand(m + 1) \in Slots
      BY <1>1, <3>3, HandSlot DEF Slots
    <3>5. resident = capacity /\ \A s \in Slots : s <= resident /\ s < resident
      BY <1>2, <2>2 DEF Slots
    <3>6. Hand(m) # lookup[call.page]
      BY <1>2, <3>2
    <3> QED
      BY <3>1, <3>4, <3>5, <3>6
  <2> QED
    BY <2>1, <2>2
<1>4. PICK slot \in Slots :
        /\ slot <= resident /\ slot # lookup[call.page] /\ Install(page, slot, FALSE, TRUE)
        /\ cursor' = cursor \/ (resident = capacity /\ slot < resident /\ cursor' \in Slots)
  BY <1>3
<1>5. StoreInv'
  BY <1>1, <1>2, <1>4, InstallStore
<1>6. CacheInv' /\ SearchInv'
  BY <1>1, <1>2, <1>4, <1>5, CacheFrame
<1>7. resident' = (IF slot < resident THEN resident ELSE resident + 1)
  BY <1>4 DEF Install
<1>8. CursorInv'
  <2>1. CASE cursor' = cursor
    BY <1>1, <1>2, <1>7, <2>1 DEF CacheInductive, CursorInv
  <2>2. CASE resident = capacity /\ slot < resident
    BY <1>1, <1>2, <1>7, <2>2 DEF CursorInv
  <2> QED
    BY <1>4, <2>1, <2>2
<1>9. /\ lookup'[page] = slot /\ slot # None /\ referenced' = referenced \ {slot}
      /\ \A p \in PageIds : p # page /\ lookup[p] = None => lookup'[p] = None
  BY <1>2, <1>4 DEF Install
<1> QED
  BY <1>1, <1>2, <1>4, <1>6, <1>8, <1>9

LEMMA PrefetchKeeps ==
  ASSUME CacheInductive, Prefetch
  PROVE  CacheInductive'
<1> DEFINE page == call.page + call.offset
<1>1. /\ call.at = "prefetch" /\ Opened
      /\ CacheInv' /\ SearchInv' /\ CursorInv' /\ UNCHANGED capacity
      /\ call' = AfterPrefetch({page})
  BY CacheOpened, PrefetchBatch, PrefetchStores DEF Prefetch
<1>2. CASE call' = Idle
  BY <1>1, <1>2, CallEnds
<1>3. CASE call' # Idle
  <2>1. /\ page \in PageIds /\ call.todo \in SUBSET PageIds /\ call.page \in call.todo
        /\ call.offset \in Nat /\ call.count \in Nat /\ capacity \in Nat /\ resident \in 0 .. capacity
        /\ call.page \in Nat /\ call.offset \in 1 .. call.count - 1
        /\ \A p \in call.todo : lookup[p] # None
        /\ \A k \in call.offset .. call.count - 1 :
             call.page + k \in PageIds /\ lookup[call.page + k] = None
        /\ call.count - call.offset <= (capacity - resident) + Cardinality(Takeable)
    BY <1>1 DEF CacheInductive, CacheInv, TypeOK, CallTypeOK, BatchInv, PageIds
  <2>2. /\ CallTypeOK' /\ call'.at = "prefetch" /\ call'.page = call.page
        /\ call'.count = call.count /\ call'.offset = call.offset + 1
        /\ call'.todo = call.todo \cup {page} /\ call.offset + 1 \in 1 .. call.count - 1
    <3>1. {page} \in SUBSET PageIds
      BY <2>1
    <3> QED
      BY <1>1, <1>3, <3>1, AfterPrefetchType
  <2>3. Opened' /\ SizeInv'
    BY <1>1, <2>2 DEF CacheInductive, CacheInv, SizeInv, Opened
  <2>4. /\ \A p \in call.todo : lookup'[p] = lookup[p]
        /\ BatchLast'
        /\ call.count - (call.offset + 1) <= (capacity - resident') + Cardinality(Takeable')
    <3>1. CASE resident < capacity
      <4>1. /\ \A p \in call.todo : lookup'[p] = lookup[p]
            /\ Takeable' = Takeable /\ resident' = resident + 1 /\ BatchLast'
        BY <1>1, <2>2, <2>3, <3>1, PrefetchStores, PrefetchUnused
      <4>2. Cardinality(Takeable) \in Nat
        <5>1. IsFiniteSet(Takeable)
          BY <1>1, ColdFacts, FS_Subset DEF Takeable
        <5> QED
          BY <5>1, FS_CardinalityType
      <4> QED
        BY <2>1, <4>1, <4>2
    <3>2. CASE ~(resident < capacity)
      <4>1. PICK m \in ColdSteps :
              /\ \A other \in ColdSteps : m <= other
              /\ Install(page, Hand(m), FALSE, TRUE) /\ cursor' = Hand(m + 1)
        BY <3>2, PrefetchStores
      <4>2. resident = capacity
        BY <2>1, <3>2
      <4>3. /\ \A p \in call.todo : lookup'[p] = lookup[p]
            /\ Cardinality(Takeable) \in Nat /\ Cardinality(Takeable') \in Nat
            /\ Cardinality(Takeable) <= Cardinality(Takeable') + 1
            /\ resident' = resident /\ BatchLast'
        BY <1>1, <2>2, <2>3, <4>1, <4>2, PrefetchEvicts
      <4> QED
        BY <2>1, <4>3
    <3> QED
      BY <3>1, <3>2
  <2>5. \A k \in call.offset + 1 .. call.count - 1 :
          call.page + k \in PageIds /\ lookup'[call.page + k] = None
    <3>1. \A k \in call.offset + 1 .. call.count - 1 :
            k \in call.offset .. call.count - 1 /\ call.page + k # page
      BY <2>1
    <3> QED
      BY <2>1, <3>1, PrefetchBatch
  <2>6. lookup'[call.page] \in referenced' /\ \A p \in call'.todo : lookup'[p] # None
    BY <2>1, <2>2, <2>4, PrefetchBatch
  <2>7. BatchInv'
    BY <1>1, <2>1, <2>2, <2>4, <2>5, <2>6 DEF BatchInv
  <2> QED
    BY <1>1, <2>2, <2>3, <2>7 DEF CacheInductive, VacantInv, ReplayKind, RoomInv
<1> QED
  BY <1>2, <1>3

-----------------------------------------------------------------------------
(* Sizing *)

LEMMA TableFacts ==
  ASSUME NEW n \in 0 .. 2 * PageTotal
  PROVE  \E buckets \in Nat :
           buckets \in Tables /\ SmallestTable(buckets, n) /\ LookupBytes(n) = 9 * buckets + 16
<1> DEFINE chosen == CHOOSE buckets \in Tables : SmallestTable(buckets, n)
<1>1. chosen \in Tables /\ SmallestTable(chosen, n)
  BY TableAssumption
<1>2. chosen \in Nat /\ LookupBytes(n) = 9 * chosen + 16
  BY <1>1, TableAssumption DEF LookupBytes
<1> HIDE DEF chosen
<1> QED
  BY <1>1, <1>2

\* The parts of a cache never shrink as slots are added, and the slots themselves grow.
LEMMA AllocatedGrows ==
  ASSUME NEW m \in 0 .. PageTotal, NEW n \in 0 .. PageTotal, m < n
  PROVE  /\ AllocatedBytes(m) \in Nat /\ AllocatedBytes(n) \in Nat
         /\ AllocatedBytes(m) < AllocatedBytes(n)
         /\ SlotBytes * n <= AllocatedBytes(n)
<1>1. m \in Nat /\ n \in Nat /\ 2 * m \in 0 .. 2 * PageTotal /\ 2 * n \in 0 .. 2 * PageTotal
  BY CacheAssumption
<1>2. PICK b \in Nat : b \in Tables /\ SmallestTable(b, 2 * m) /\ LookupBytes(2 * m) = 9 * b + 16
  BY <1>1, TableFacts
<1>3. PICK c \in Nat : c \in Tables /\ SmallestTable(c, 2 * n) /\ LookupBytes(2 * n) = 9 * c + 16
  BY <1>1, TableFacts
<1>4. b <= c
  <2>1. Holds(c) \in Int /\ 2 * n <= Holds(c)
    BY <1>3 DEF Holds, SmallestTable
  <2>2. ~(2 * m > Holds(c))
    BY <1>1, <2>1
  <2> QED
    BY <1>2, <1>3, <2>2 DEF SmallestTable
<1>5. CeilDiv(m, 64) \in Nat /\ CeilDiv(n, 64) \in Nat /\ CeilDiv(m, 64) <= CeilDiv(n, 64)
  BY <1>1 DEF CeilDiv
<1>6. /\ SlotBytes * m \in Nat /\ SlotBytes * n \in Nat
      /\ SlotBytes * m < SlotBytes * n
  <2>1. PICK d \in Nat : n = m + d /\ d >= 1
    BY <1>1
  <2>2. SlotBytes * n = SlotBytes * m + SlotBytes * d
    BY <1>1, <2>1, CacheAssumption
  <2>3. SlotBytes * d \in Nat /\ SlotBytes * d >= 1
    BY <2>1, CacheAssumption
  <2>4. SlotBytes * m \in Nat
    BY <1>1, CacheAssumption
  <2> QED
    BY <2>2, <2>3, <2>4
<1>7. AllocatedBytes(m) = SlotBytes * m + (9 * b + 16) + 8 * CeilDiv(m, 64) + 4 * m
  BY <1>2 DEF AllocatedBytes
<1>8. AllocatedBytes(n) = SlotBytes * n + (9 * c + 16) + 8 * CeilDiv(n, 64) + 4 * n
  BY <1>3 DEF AllocatedBytes
<1> QED
  BY <1>1, <1>4, <1>5, <1>6, <1>7, <1>8

LEMMA BudgetType ==
  ASSUME NEW bytes \in Budgets \cup {DefaultBudget}
  PROVE  bytes \in Nat
<1>1. Required \in 0 .. PageTotal
  BY CacheAssumption DEF Required, Least
<1>2. AllocatedBytes(Required) \in Nat
  <2>1. CASE Required = 0
    BY <2>1, CacheAssumption, AllocatedGrows
  <2>2. CASE Required # 0
    <3>1. 0 < Required /\ 0 \in 0 .. PageTotal
      BY <1>1, <2>2, CacheAssumption
    <3> QED
      BY <1>1, <3>1, AllocatedGrows
  <2> QED
    BY <2>1, <2>2
<1>3. DefaultBudget \in Nat
  BY <1>2, CacheAssumption DEF DefaultBudget, Greatest
<1> QED
  BY <1>3, CacheAssumption

-----------------------------------------------------------------------------
(* The theorems *)

LEMMA InitKeeps ==
  ASSUME Init
  PROVE  CacheInductive
<1>1. budget \in Nat
  BY BudgetType DEF Init
<1>2. Upper(budget) \in Nat /\ 1 <= Upper(budget)
  <2> DEFINE q == budget \div SlotBytes
             most == Greatest(q, 1)
  <2>1. q \in Int
    BY <1>1, CacheAssumption
  <2> HIDE DEF q
  <2>2. most \in Nat /\ 1 <= most
    BY <2>1 DEF Greatest
  <2> HIDE DEF most
  <2>3. Upper(budget) = Least(most, PageTotal)
    BY DEF Upper, most, q
  <2> QED
    BY <2>2, <2>3, CacheAssumption DEF Least
<1>3. search \in [low: Nat, high: Nat] /\ SearchInv
  BY <1>2 DEF Init, SearchInv
<1>4. capacity = 0 /\ Slots = {} /\ resident = 0
  BY DEF Init, Slots
<1>5. TypeOK
  BY <1>1, <1>3, <1>4 DEF Init, TypeOK, None
<1>6. LookupExact
  <2>1. {s \in Slots : s < resident /\ slots[s].prefetched} = {}
    BY <1>4
  <2>2. outstanding = Cardinality({s \in Slots : s < resident /\ slots[s].prefetched})
    BY <2>1, FS_EmptySet DEF Init
  <2> QED
    BY <1>4, <2>2 DEF Init, LookupExact
<1>7. CallTypeOK /\ call.at = "sizing"
  BY PageZero DEF Init, Call, CallTypeOK
<1> QED
  BY <1>3, <1>4, <1>5, <1>6, <1>7
     DEF CacheInductive, CacheInv, SizeInv, CursorInv, VacantInv, ReplayKind, RoomInv, BatchInv

LEMMA StutterKeeps ==
  ASSUME CacheInductive, UNCHANGED vars
  PROVE  CacheInductive'
<1>1. /\ UNCHANGED <<budget, search, capacity>> /\ UNCHANGED <<slots, resident, lookup, outstanding>>
      /\ UNCHANGED <<referenced, cursor, last, call>>
  BY DEF vars, sizeVars, cacheVars, clockVars
<1>2. CacheInv' /\ CallTypeOK' /\ SearchInv' /\ SizeInv' /\ CursorInv'
  BY <1>1 DEF CacheInductive, CacheInv, TypeOK, LookupExact, CallTypeOK, SearchInv, SizeInv,
              CursorInv, Slots
<1>3. VacantInv' /\ ReplayKind' /\ RoomInv'
  BY <1>1 DEF CacheInductive, VacantInv, ReplayKind, RoomInv, Needs, Dirty, Clean, Slots
<1>4. Held' = Held /\ Takeable' = Takeable /\ BatchLast' = BatchLast
  BY <1>1 DEF Held, Takeable, BatchLast, ColdSteps, Cold, Clean, Hand, Slots
<1>5. BatchInv'
  BY <1>1, <1>4 DEF CacheInductive, BatchInv
<1> QED
  BY <1>2, <1>3, <1>5 DEF CacheInductive

LEMMA NextKeeps ==
  ASSUME CacheInductive, [Next]_vars
  PROVE  CacheInductive'
<1>1. CASE UNCHANGED vars
  BY <1>1, StutterKeeps
<1>2. CASE \/ SizeStep \/ \E touched \in SUBSET PageIds : Open(touched)
           \/ \E p \in PageIds : Read(p)
           \/ PressureCheckpoint \/ Retry
  BY <1>2, SizeStepKeeps, OpenKeeps, ReadKeeps, PressureCheckpointKeeps, RetryKeeps
<1>3. CASE \/ \E count \in 0 .. ReadAhead : Load(count)
           \/ Prefetch \/ PrefetchInvalid
  BY <1>3, LoadKeeps, PrefetchKeeps, PrefetchInvalidKeeps
<1>4. CASE \/ \E pages \in SUBSET PageIds : Release(pages)
           \/ \E p \in PageIds : ReleasePage(p)
           \/ ReleaseLoad \/ Checkpoint
  BY <1>4, ReleaseKeeps, ReleasePageKeeps, ReleaseLoadKeeps, CheckpointKeeps
<1>5. CASE \/ \E p \in PageIds : Replay(p)
           \/ ReplayLoad
           \/ \E published \in BOOLEAN : WindowDone(published)
           \/ Fail \/ Reopen
  BY <1>5, ReplayKeeps, ReplayLoadKeeps, WindowDoneKeeps, FailKeeps, ReopenKeeps
<1> QED
  BY <1>1, <1>2, <1>3, <1>4, <1>5 DEF Next

(* The inductive invariant of the mapping cache: besides the exact lookup table it says what a
   reserved slot is, that a release or a replay window has room for all its pages, and where the
   hand stands with respect to the pages that read-ahead has just stored. *)
THEOREM MappingInductiveHolds == Spec => []CacheInductive
<1>1. Init => CacheInductive
  BY InitKeeps
<1>2. CacheInductive /\ [Next]_vars => CacheInductive'
  BY NextKeeps
<1> QED
  BY <1>1, <1>2, PTL DEF Spec

(* VacantPage::install, CLOCK's evictions, read-ahead and the replay windows keep the lookup table
   and the slots in agreement, for every number of pages and slots: no page is in two slots, none
   is left behind by an eviction, and the prefetch counters account for every slot marked as
   prefetched. *)
THEOREM LookupStaysExact == Spec => []CacheInv
<1>1. CacheInductive => CacheInv
  BY DEF CacheInductive
<1> QED
  BY <1>1, MappingInductiveHolds, PTL

(* with_page under CheckpointPolicy::Forbid and Recovery::apply never meet a cache without a slot
   to give: the preflight of a release, the window's size and the pressure checkpoint of a read
   always leave an unreferenced or referenced clean slot that two rounds of CLOCK reach. *)
THEOREM NeverStuckHolds == Spec => []NeverStuck
<1>1. CacheInductive => NeverStuck
  BY DEF CacheInductive, CallTypeOK, NeverStuck
<1> QED
  BY <1>1, MappingInductiveHolds, PTL

(* prefetch_limit's promise, for every size of the cache, of the read-ahead and of the window of
   cold candidates: each page it admits is on the volume, is absent, and finds a slot that is
   neither the demand page's nor an earlier page's of the batch. *)
THEOREM BatchStaysIntact == Spec => []BatchIntact
<1>1. CacheInductive => BatchIntact
  <2> SUFFICES ASSUME CacheInductive, call.at = "prefetch"
               PROVE  BatchIntact
    BY DEF BatchIntact
  <2>1. /\ capacity \in Nat /\ resident \in 0 .. capacity /\ call.count \in Nat
        /\ call.offset \in 1 .. call.count - 1
        /\ call.count - call.offset <= (capacity - resident) + Cardinality(Takeable)
    BY DEF CacheInductive, CacheInv, TypeOK, CallTypeOK, BatchInv
  <2>2. call.offset \in call.offset .. call.count - 1 /\ 1 <= call.count - call.offset
    BY <2>1
  <2>3. resident < capacity \/ ColdSteps # {}
    <3> SUFFICES ASSUME ~(resident < capacity), ColdSteps = {}
                 PROVE  FALSE
      OBVIOUS
    <3>1. Takeable = {}
      BY DEF Takeable
    <3>2. Cardinality(Takeable) = 0
      BY <3>1, FS_EmptySet
    <3> QED
      BY <2>1, <2>2, <3>2
  <2> QED
    BY <2>2, <2>3 DEF CacheInductive, BatchInv, BatchIntact
<1> QED
  BY <1>1, MappingInductiveHolds, PTL

-----------------------------------------------------------------------------
(* The capacity *)

\* The search brackets the largest capacity that fits, and an opened cache has that capacity.
SearchExact ==
  /\ search.high <= PageTotal
  /\ search.low > 1 => AllocatedBytes(search.low) <= budget
  /\ \A more \in search.high + 1 .. PageTotal : AllocatedBytes(more) > budget
  /\ call.at # "sizing" => capacity = search.low /\ search.low = search.high

\* A capacity beyond the upper end of the search does not fit: its slots alone exceed the budget.
LEMMA InitSearch ==
  ASSUME Init
  PROVE  SearchExact
<1> DEFINE q == budget \div SlotBytes
<1>1. budget \in Nat /\ PageTotal \in Nat \ {0} /\ SlotBytes \in Nat \ {0}
  BY CacheAssumption, BudgetType DEF Init
<1>2. q \in Nat /\ budget < SlotBytes * (q + 1)
  BY <1>1
<1> HIDE DEF q
<1>3. /\ Upper(budget) \in Nat /\ Upper(budget) <= PageTotal
      /\ \A more \in Upper(budget) + 1 .. PageTotal : q + 1 <= more
  <2>1. Upper(budget) = Least(Greatest(q, 1), PageTotal)
    BY DEF Upper, q
  <2> QED
    BY <1>1, <1>2, <2>1 DEF Least, Greatest
<1>4. ASSUME NEW more \in Upper(budget) + 1 .. PageTotal
      PROVE  AllocatedBytes(more) > budget
  <2>1. more \in 0 .. PageTotal /\ more \in Nat /\ 0 < more /\ 0 \in 0 .. PageTotal /\ q + 1 <= more
    BY <1>1, <1>3
  <2>2. AllocatedBytes(more) \in Nat /\ SlotBytes * more <= AllocatedBytes(more)
    BY <2>1, AllocatedGrows
  <2>3. SlotBytes * (q + 1) <= SlotBytes * more
    <3>1. PICK d \in Nat : more = (q + 1) + d
      BY <1>2, <2>1
    <3>2. SlotBytes * more = SlotBytes * (q + 1) + SlotBytes * d /\ SlotBytes * d \in Nat
      BY <1>1, <1>2, <3>1
    <3>3. SlotBytes * (q + 1) \in Nat
      BY <1>1, <1>2
    <3> QED
      BY <3>2, <3>3
  <2>4. SlotBytes * (q + 1) \in Nat /\ SlotBytes * more \in Nat
    BY <1>1, <1>2, <2>1
  <2> QED
    BY <1>1, <1>2, <2>2, <2>3, <2>4
<1>5. /\ search = [low |-> 1, high |-> Upper(budget)] /\ call.at = "sizing"
  BY DEF Init, Call
<1> QED
  BY <1>3, <1>4, <1>5 DEF SearchExact

LEMMA SizeStepSearch ==
  ASSUME CacheInductive, SearchExact, SizeStep
  PROVE  SearchExact'
<1> DEFINE middle == search.low + CeilDiv(search.high - search.low, 2)
<1>1. /\ search \in [low: Nat, high: Nat] /\ search.low < search.high /\ search.high <= PageTotal
      /\ budget \in Nat /\ PageTotal \in Nat /\ 1 <= search.low
  BY CacheAssumption DEF CacheInductive, CacheInv, TypeOK, SearchInv, SearchExact, SizeStep
<1>2. /\ search' = IF AllocatedBytes(middle) <= budget THEN [search EXCEPT !.low = middle]
                   ELSE [search EXCEPT !.high = middle - 1]
      /\ UNCHANGED budget /\ call'.at = "sizing"
  BY DEF SizeStep
<1>3. middle \in Nat /\ search.low < middle /\ middle <= search.high
  BY <1>1 DEF CeilDiv
<1> HIDE DEF middle
<1>4. CASE AllocatedBytes(middle) <= budget
  <2>1. search'.low = middle /\ search'.high = search.high
    BY <1>1, <1>2, <1>4
  <2> QED
    BY <1>2, <1>4, <2>1 DEF SearchExact
<1>5. CASE ~(AllocatedBytes(middle) <= budget)
  <2>1. search'.low = search.low /\ search'.high = middle - 1
    BY <1>1, <1>2, <1>5
  <2>2. middle \in 0 .. PageTotal /\ middle > 0 /\ 0 \in 0 .. PageTotal
    BY <1>1, <1>3
  <2>3. AllocatedBytes(middle) \in Nat /\ AllocatedBytes(middle) > budget
    BY <1>1, <1>5, <2>2, AllocatedGrows
  <2>4. ASSUME NEW more \in middle .. PageTotal
        PROVE  AllocatedBytes(more) > budget
    <3>1. CASE more = middle
      BY <2>3, <3>1
    <3>2. CASE more # middle
      <4>1. more \in 0 .. PageTotal /\ middle < more
        BY <1>1, <1>3, <3>2
      <4>2. AllocatedBytes(more) \in Nat /\ AllocatedBytes(middle) < AllocatedBytes(more)
        BY <2>2, <4>1, AllocatedGrows
      <4> QED
        BY <1>1, <2>3, <4>2
    <3> QED
      BY <3>1, <3>2
  <2>5. \A more \in search'.high + 1 .. PageTotal : AllocatedBytes(more) > budget'
    <3>1. search'.high + 1 = middle /\ search'.high <= PageTotal
      BY <1>1, <1>3, <2>1
    <3> QED
      BY <1>2, <2>4, <3>1
  <2>6. search'.high <= PageTotal
    BY <1>1, <1>3, <2>1
  <2> QED
    BY <1>2, <2>1, <2>5, <2>6 DEF SearchExact
<1> QED
  BY <1>4, <1>5

LEMMA StepSearch ==
  ASSUME CacheInductive, SearchExact, [Next]_vars
  PROVE  SearchExact'
<1>1. CASE SizeStep
  BY <1>1, SizeStepSearch
<1>2. CASE \E touched \in SUBSET PageIds : Open(touched)
  BY <1>2 DEF Open, SearchExact
<1>3. CASE UNCHANGED vars
  BY <1>3 DEF vars, sizeVars, SearchExact
<1>4. CASE \/ \E p \in PageIds : Read(p) \/ ReleasePage(p) \/ Replay(p)
           \/ PressureCheckpoint \/ Retry
           \/ \E count \in 0 .. ReadAhead : Load(count)
           \/ Prefetch \/ PrefetchInvalid
           \/ \E pages \in SUBSET PageIds : Release(pages)
           \/ ReleaseLoad \/ Checkpoint \/ ReplayLoad
           \/ \E published \in BOOLEAN : WindowDone(published)
           \/ Fail \/ Reopen
  <2>1. Idle.at = "idle" /\ Latched.at = "latched"
    BY DEF Idle, Latched, Call
  <2>2. UNCHANGED <<budget, search, capacity>> /\ call.at # "sizing"
    BY <1>4, <2>1 DEF Read, ReleasePage, Replay, PressureCheckpoint, Retry, Load, Prefetch,
         PrefetchInvalid, Release, ReleaseLoad, Checkpoint, ReplayLoad, WindowDone, Fail, Reopen,
         sizeVars
  <2> QED
    BY <2>2 DEF SearchExact
<1> QED
  BY <1>1, <1>2, <1>3, <1>4 DEF Next

(* Sizing::new's binary search finds the largest capacity that fits, for every budget, slot size
   and number of pages: it brackets that capacity because every part of the allocation grows with
   the slots, whatever the steps it grows in.  A default budget is never refused. *)
THEOREM SizingStaysExact == Spec => []SizingExact
<1>1. CacheInductive /\ SearchExact => SizingExact
  <2> SUFFICES ASSUME CacheInductive, SearchExact, call.at # "sizing"
               PROVE  SizingExact
    BY DEF SizingExact
  <2>1. /\ capacity = search.low /\ capacity = search.high /\ capacity \in Nat
        /\ capacity \in 1 .. PageTotal /\ PageTotal \in Nat /\ Required \in 0 .. PageTotal
        /\ budget \in Nat
    BY CacheAssumption DEF CacheInductive, CacheInv, TypeOK, SearchInv, SearchExact, Required, Least
  <2>2. budget = DefaultBudget => call.at # "refused"
    <3> SUFFICES ASSUME budget = DefaultBudget, call.at = "refused"
                 PROVE  FALSE
      OBVIOUS
    <3>1. capacity < Required
      BY DEF CacheInductive, SizeInv
    <3>2. AllocatedBytes(Required) > budget
      BY <2>1, <3>1 DEF SearchExact
    <3>3. AllocatedBytes(Required) \in Nat
      <4>1. capacity \in 0 .. PageTotal
        BY <2>1
      <4> QED
        BY <2>1, <3>1, <4>1, AllocatedGrows
    <3>4. budget >= AllocatedBytes(Required)
      BY <3>3, CacheAssumption DEF DefaultBudget, Greatest
    <3> QED
      BY <2>1, <3>2, <3>3, <3>4
  <2> QED
    BY <2>1, <2>2 DEF SizingExact, SearchExact
<1>2. Init => SearchExact
  BY InitSearch
<1>3. CacheInductive /\ SearchExact /\ [Next]_vars => SearchExact'
  BY StepSearch
<1> QED
  BY <1>1, <1>2, <1>3, MappingInductiveHolds, PTL DEF Spec

-----------------------------------------------------------------------------
(* Dirty pages *)

\* Every dirty page in use is where it was.
DirtyStay ==
  \A s \in Slots : slots[s].dirty /\ s < resident => slots'[s].dirty /\ slots'[s].page = slots[s].page

LEMMA InstallStay ==
  ASSUME StoreInv, NEW page, NEW slot \in Slots, slot = resident \/ ~slots[slot].dirty,
         NEW makesDirty, NEW asPrefetch, Install(page, slot, makesDirty, asPrefetch)
  PROVE  DirtyStay
<1>1. \A s \in Slots \ {slot} : slots'[s] = slots[s]
  BY DEF StoreInv, Install
<1>2. resident \in Nat /\ ~(resident < resident)
  BY DEF StoreInv
<1> QED
  BY <1>1, <1>2 DEF DirtyStay

LEMMA TouchStay ==
  ASSUME StoreInv, NEW page \in PageIds, lookup[page] # None, Touch(page, TRUE)
  PROVE  DirtyStay
<1> DEFINE slot == lookup[page]
<1>1. slot \in Slots /\ slots \in [Slots -> [page: PageIds, dirty: BOOLEAN, prefetched: BOOLEAN]]
  BY DEF StoreInv
<1>2. slots' = [slots EXCEPT ![slot].prefetched = FALSE, ![slot].dirty = @ \/ TRUE]
  BY DEF Touch
<1> HIDE DEF slot
<1>3. /\ \A s \in Slots \ {slot} : slots'[s] = slots[s]
      /\ slots'[slot].dirty /\ slots'[slot].page = slots[slot].page
  BY <1>1, <1>2
<1> QED
  BY <1>3 DEF DirtyStay

LEMMA StepStay ==
  ASSUME CacheInductive, [Next]_vars, ~Checkpointing
  PROVE  DirtyStay
<1>1. StoreInv /\ (call.at # "sizing" => Opened)
  BY CacheOpened
<1>2. CASE UNCHANGED slots
  BY <1>2 DEF DirtyStay
<1>3. CASE call.at = "vacant" /\ \E makesDirty \in BOOLEAN : Install(call.page, call.slot, makesDirty, FALSE)
  <2>1. call.slot \in Slots /\ (call.slot = resident \/ ~slots[call.slot].dirty)
    BY <1>3 DEF CacheInductive, VacantInv, Clean
  <2> QED
    BY <1>1, <1>3, <2>1, InstallStay
<1>4. CASE Prefetch
  <2>1. CASE resident < capacity
    <3>1. resident \in Slots
      BY <2>1 DEF CacheInductive, CacheInv, TypeOK, Slots
    <3> QED
      BY <1>1, <1>4, <2>1, <3>1, PrefetchStores, InstallStay
  <2>2. CASE ~(resident < capacity)
    <3>1. PICK m \in ColdSteps : Install(call.page + call.offset, Hand(m), FALSE, TRUE)
      BY <1>4, <2>2, PrefetchStores
    <3>2. Opened
      BY <1>1, <1>4 DEF Prefetch
    <3>3. m \in Slots /\ ~slots[Hand(m)].dirty /\ capacity \in Nat
      BY <3>2, ColdFacts DEF Opened, TypeOK
    <3>4. m \in 0 .. 2 * capacity
      BY <3>3 DEF Slots
    <3>5. Hand(m) \in Slots
      BY <3>2, <3>4, HandSlot DEF Slots
    <3> QED
      BY <1>1, <3>1, <3>3, <3>5, InstallStay
  <2> QED
    BY <2>1, <2>2
<1>5. CASE \E p \in PageIds : ReleasePage(p) \/ Replay(p)
  <2>1. PICK p \in PageIds : ReleasePage(p) \/ Replay(p)
    BY <1>5
  <2>2. CASE lookup[p] # None
    BY <1>1, <2>1, <2>2, TouchStay DEF ReleasePage, Replay
  <2>3. CASE lookup[p] = None
    <3>1. UNCHANGED slots
      BY <2>1, <2>3 DEF ReleasePage, Replay, Reserve, cacheVars
    <3> QED
      BY <1>2, <3>1
  <2> QED
    BY <2>2, <2>3
<1>6. CASE \E published \in BOOLEAN : WindowDone(published)
  <2>1. call.at = "replay" /\ Idle.at = "idle" /\ CallTypeOK
    BY <1>6 DEF WindowDone, CacheInductive, Idle, Call
  <2>2. \/ call' = Idle
        \/ \E todo, rest : call' = [call EXCEPT !.todo = todo, !.rest = rest, !.offset = 1]
    BY <1>6, <2>1 DEF WindowDone, CallTypeOK
  <2>3. call'.at \in {"replay", "idle"}
    BY <2>1, <2>2 DEF CallTypeOK
  <2> QED
    BY <2>1, <2>3 DEF Checkpointing
<1>7. CASE \/ SizeStep \/ \E touched \in SUBSET PageIds : Open(touched)
           \/ \E p \in PageIds : Read(p)
           \/ PressureCheckpoint \/ \E pages \in SUBSET PageIds : Release(pages)
           \/ Checkpoint
  BY <1>7 DEF SizeStep, Open, Read, PressureCheckpoint, Release, Checkpoint, Checkpointing
<1>8. CASE \/ \E count \in 0 .. ReadAhead : Load(count)
           \/ ReleaseLoad \/ ReplayLoad
  BY <1>3, <1>8 DEF Load, ReleaseLoad, ReplayLoad
<1>9. CASE Retry \/ PrefetchInvalid \/ Fail \/ Reopen \/ UNCHANGED vars
  BY <1>2, <1>9 DEF Retry, Reserve, PrefetchInvalid, Fail, Reopen, cacheVars, vars
<1> QED
  BY <1>4, <1>5, <1>6, <1>7, <1>8, <1>9 DEF Next

(* An eviction or a prefetch never takes a dirty page: outside a checkpoint, and the new cache of a
   reopen or of a recovery window, every dirty page in use stays in its slot and stays dirty, so
   that the next checkpoint finds it. *)
THEOREM DirtyPagesKept == Spec => DirtyKept
<1> DEFINE Kept == \A s \in Slots :
             slots[s].dirty /\ s < resident /\ ~Checkpointing =>
               slots'[s].dirty /\ slots'[s].page = slots[s].page
<1>1. CacheInductive /\ [Next]_vars => Kept
  BY StepStay DEF DirtyStay
<1>2. CacheInductive /\ [Next]_vars => [Kept]_vars
  BY <1>1
<1>3. Spec => [][Kept]_vars
  BY <1>2, MappingInductiveHolds, PTL DEF Spec
<1> QED
  BY <1>3 DEF DirtyKept
=============================================================================
