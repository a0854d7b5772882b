------------------------- MODULE TripOperationsProofs -------------------------
(***************************************************************************)
(* Theorems about TripOperations, for any trips, orders of creation, plans, *)
(* events and page size: a trip list that is read page by page while trips  *)
(* change is shown in full and makes headway, but for the races its property *)
(* names, and operators are offered what is accepted.  A page is cut by      *)
(* positions, so the proof starts with orders and the positions in them.     *)
(***************************************************************************)
EXTENDS TripOperations, FiniteSetTheorems, TLAPS

-----------------------------------------------------------------------------
(* Lists as linear orders *)

LinearOrder(list) ==
    /\ list \subseteq Trips \X Trips
    /\ \A t, u \in Trips : <<t, u>> \in list => t \in Listed(list) /\ u \in Listed(list)
    /\ \A t, u \in Listed(list) : <<t, u>> \in list \/ <<u, t>> \in list
    /\ \A t, u \in Trips : <<t, u>> \in list /\ <<u, t>> \in list => t = u
    /\ \A t, u, v \in Trips : <<t, u>> \in list /\ <<u, v>> \in list => <<t, v>> \in list

\* LexBefore orders keys of one length.
LEMMA LexOrders ==
    ASSUME NEW n \in 1 .. 7, NEW a \in [1 .. n -> Int], NEW b \in [1 .. n -> Int]
    PROVE  /\ ~ LexBefore(a, a)
           /\ ~ (LexBefore(a, b) /\ LexBefore(b, a))
           /\ \A c \in [1 .. n -> Int] : LexBefore(a, b) /\ LexBefore(b, c) => LexBefore(a, c)
           /\ a[n] # b[n] => LexBefore(a, b) \/ LexBefore(b, a)
<1> USE DEF LexBefore
<1>1. ~ LexBefore(a, a)
  OBVIOUS
<1>2. \A c \in [1 .. n -> Int] : LexBefore(a, b) /\ LexBefore(b, c) => LexBefore(a, c)
  <2> SUFFICES ASSUME NEW c \in [1 .. n -> Int],
                      NEW i \in 1 .. n, a[i] < b[i], \A j \in 1 .. i - 1 : a[j] = b[j],
                      NEW k \in 1 .. n, b[k] < c[k], \A j \in 1 .. k - 1 : b[j] = c[j]
               PROVE  LexBefore(a, c)
    OBVIOUS
  <2>1. a[i] \in Int /\ b[i] \in Int /\ c[i] \in Int
    OBVIOUS
  <2>2. a[k] \in Int /\ b[k] \in Int /\ c[k] \in Int
    OBVIOUS
  <2>3. CASE i = k
    <3>1. a[i] < c[i]
      BY <2>1, <2>3
    <3>2. \A j \in 1 .. i - 1 : a[j] = c[j]
      BY <2>3
    <3> QED
      BY <3>1, <3>2
  <2>4. CASE i < k
    <3>1. i \in 1 .. k - 1
      BY <2>4
    <3>2. b[i] = c[i]
      BY <3>1
    <3>3. a[i] < c[i]
      BY <3>2
    <3>4. \A j \in 1 .. i - 1 : a[j] = c[j]
      BY <2>4
    <3> QED
      BY <3>3, <3>4
  <2>5. CASE k < i
    <3>1. k \in 1 .. i - 1
      BY <2>5
    <3>2. a[k] = b[k]
      BY <3>1
    <3>3. a[k] < c[k]
      BY <3>2
    <3>4. \A j \in 1 .. k - 1 : a[j] = c[j]
      BY <2>5
    <3> QED
      BY <3>3, <3>4
  <2> QED
    BY <2>3, <2>4, <2>5
<1>3. ~ (LexBefore(a, b) /\ LexBefore(b, a))
  BY <1>1, <1>2
<1>4. ASSUME a[n] # b[n]
      PROVE  LexBefore(a, b) \/ LexBefore(b, a)
  <2>1. \E i \in 1 .. n : a[i] # b[i] /\ \A j \in 1 .. i - 1 : a[j] = b[j]
    <3>1. CASE 1 <= n /\ a[1] # b[1]
      BY <3>1
    <3>2. CASE 2 <= n /\ a[1] = b[1] /\ a[2] # b[2]
      BY <3>2
    <3>3. CASE 3 <= n /\ a[1] = b[1] /\ a[2] = b[2] /\ a[3] # b[3]
      BY <3>3
    <3>4. CASE 4 <= n /\ a[1] = b[1] /\ a[2] = b[2] /\ a[3] = b[3] /\ a[4] # b[4]
      BY <3>4
    <3>5. CASE 5 <= n /\ a[1] = b[1] /\ a[2] = b[2] /\ a[3] = b[3] /\ a[4] = b[4] /\ a[5] # b[5]
      BY <3>5
    <3>6. CASE 6 <= n /\ a[1] = b[1] /\ a[2] = b[2] /\ a[3] = b[3] /\ a[4] = b[4] /\ a[5] = b[5]
               /\ a[6] # b[6]
      BY <3>6
    <3>7. CASE 7 <= n /\ a[1] = b[1] /\ a[2] = b[2] /\ a[3] = b[3] /\ a[4] = b[4] /\ a[5] = b[5]
               /\ a[6] = b[6] /\ a[7] # b[7]
      BY <3>7, SMTT(30)
    <3> QED
      BY <1>4, <3>1, <3>2, <3>3, <3>4, <3>5, <3>6, <3>7, SMTT(30)
  <2> QED
    BY <2>1
<1> QED
  BY <1>1, <1>2, <1>3, <1>4

\* Trips that are sorted by keys which end in what tells any two of them apart are in
\* a linear order.
LEMMA SortedIsLinear ==
    ASSUME NEW S \in SUBSET Trips, NEW n \in 1 .. 7,
           NEW key \in [Trips -> [1 .. n -> Int]],
           \A t, u \in Trips : t # u => key[t][n] # key[u][n],
           NEW list,
           list = {p \in S \X S : p[1] = p[2] \/ LexBefore(key[p[1]], key[p[2]])}
    PROVE  LinearOrder(list) /\ Listed(list) = S
<1>1. \A t, u \in Trips :
        <<t, u>> \in list <=> t \in S /\ u \in S /\ (t = u \/ LexBefore(key[t], key[u]))
  OBVIOUS
<1>2. list \subseteq Trips \X Trips
  OBVIOUS
<1>3. Listed(list) = S
  BY <1>1 DEF Listed
<1>5. \A t, u \in Listed(list) : <<t, u>> \in list \/ <<u, t>> \in list
  <2> SUFFICES ASSUME NEW t \in S, NEW u \in S, t # u
               PROVE  <<t, u>> \in list \/ <<u, t>> \in list
    BY <1>1, <1>3
  <2>1. key[t] \in [1 .. n -> Int] /\ key[u] \in [1 .. n -> Int]
    OBVIOUS
  <2>2. key[t][n] # key[u][n]
    OBVIOUS
  <2>3. LexBefore(key[t], key[u]) \/ LexBefore(key[u], key[t])
    BY <2>1, <2>2, LexOrders
  <2> QED
    BY <1>1, <2>3
<1>6. \A t, u \in Trips : <<t, u>> \in list /\ <<u, t>> \in list => t = u
  BY <1>1, LexOrders
<1>7. \A t, u, v \in Trips : <<t, u>> \in list /\ <<u, v>> \in list => <<t, v>> \in list
  <2> SUFFICES ASSUME NEW t \in Trips, NEW u \in Trips, NEW v \in Trips,
                      <<t, u>> \in list, <<u, v>> \in list
               PROVE  <<t, v>> \in list
    OBVIOUS
  <2>1. /\ key[t] \in [1 .. n -> Int]
        /\ key[u] \in [1 .. n -> Int]
        /\ key[v] \in [1 .. n -> Int]
    OBVIOUS
  <2>2. LexBefore(key[t], key[u]) /\ LexBefore(key[u], key[v]) => LexBefore(key[t], key[v])
    BY <2>1, LexOrders
  <2> QED
    BY <1>1, <2>2
<1> QED
  BY <1>1, <1>2, <1>3, <1>5, <1>6, <1>7 DEF LinearOrder

\* The database's order of some trips is one.
LEMMA DatabaseIsLinear ==
    ASSUME OperationsAssumption, NEW S \in SUBSET Trips
    PROVE  /\ LinearOrder(Sorted(S, DatabaseKey))
           /\ Listed(Sorted(S, DatabaseKey)) = S
<1> DEFINE key == [t \in Trips |-> DatabaseKey(t)]
<1>0. \A t, u \in Trips : t # u => -Created[t] # -Created[u]
  BY DEF OperationsAssumption
<1>1. \A t \in Trips : DatabaseKey(t) \in [1 .. 3 -> Int] /\ DatabaseKey(t)[3] = -Created[t]
  BY DEF OperationsAssumption, DatabaseKey, NoTime
<1>2. /\ key \in [Trips -> [1 .. 3 -> Int]]
      /\ \A t, u \in Trips : t # u => key[t][3] # key[u][3]
  BY <1>0, <1>1
<1>3. Sorted(S, DatabaseKey) =
        {p \in S \X S : p[1] = p[2] \/ LexBefore(key[p[1]], key[p[2]])}
  BY DEF Sorted
<1> HIDE DEF key
<1> QED
  BY <1>2, <1>3, SortedIsLinear, 3 \in 1 .. 7

\* And so is the operators'.
Times ==
    /\ clock \in Nat
    /\ status \in [Trips -> TripStatuses]
    /\ since \in [Trips -> Nat]

LEMMA DelaysAreNumbers ==
    ASSUME OperationsAssumption, Times, NEW t \in Trips
    PROVE  /\ ArrivalDelay(t) \in Nat
           /\ PlannedStartDelay(t) \in Nat
           /\ StatusDelay(t) \in Nat
           /\ DelayMinutes(t) \in Nat
<1>1. /\ ArrivalDelay(t) \in Nat
      /\ PlannedStartDelay(t) \in Nat
  BY DEF OperationsAssumption, Times, ArrivalDelay, PlannedStartDelay,
     Elapsed, AtLeastZero, NoTime
<1>2. StatusDelay(t) \in Nat
  BY DEF Times, StatusDelay, Elapsed, AtLeastZero, statusDelayThresholdMinutes, TripStatuses
<1>3. DelayMinutes(t) \in Nat
  BY <1>1, <1>2 DEF DelayMinutes, Max
<1> QED
  BY <1>1, <1>2, <1>3

LEMMA OperationsKeyIsOne ==
    ASSUME OperationsAssumption, Times, NEW t \in Trips
    PROVE  OperationsKey(t) \in [1 .. 7 -> Int] /\ OperationsKey(t)[7] = -Created[t]
<1>1. priorityRank[priority(t)] \in Int
  BY DEF priorityRank, priority
<1>2. /\ PlannedStart[t] \in Int
      /\ since[t] \in Int
      /\ DelayMinutes(t) \in Int
      /\ Created[t] \in Int
  BY DelaysAreNumbers DEF OperationsAssumption, Times, NoTime
<1> QED
  BY <1>1, <1>2 DEF OperationsKey

LEMMA OperationsIsLinear ==
    ASSUME OperationsAssumption, Times, NEW S \in SUBSET Trips
    PROVE  /\ LinearOrder(Sorted(S, OperationsKey))
           /\ Listed(Sorted(S, OperationsKey)) = S
<1> DEFINE key == [t \in Trips |-> OperationsKey(t)]
<1>1. \A t \in Trips : OperationsKey(t) \in [1 .. 7 -> Int] /\ OperationsKey(t)[7] = -Created[t]
  BY OperationsKeyIsOne
<1>2. /\ key \in [Trips -> [1 .. 7 -> Int]]
      /\ \A t, u \in Trips : t # u => key[t][7] # key[u][7]
  BY <1>1 DEF OperationsAssumption
<1>3. Sorted(S, OperationsKey) =
        {p \in S \X S : p[1] = p[2] \/ LexBefore(key[p[1]], key[p[2]])}
  BY DEF Sorted
<1> HIDE DEF key
<1> QED
  BY <1>2, <1>3, SortedIsLinear, 7 \in 1 .. 7

LEMMA ListingIsLinear ==
    ASSUME OperationsAssumption, Times, NEW filter
    PROVE  LinearOrder(Listing(filter))
<1>1. /\ where(filter) \in SUBSET Trips
      /\ {t \in where(filter) : matchesExceptionFilter(t, filter.exception)} \in SUBSET Trips
  BY DEF where
<1> QED
  BY <1>1, DatabaseIsLinear, OperationsIsLinear DEF Listing

-----------------------------------------------------------------------------
(* Positions *)

Below(t, list) == {u \in Trips : <<u, t>> \in list}

LEMMA BelowIsFinite ==
    ASSUME OperationsAssumption, NEW t, NEW list
    PROVE  /\ IsFiniteSet(Below(t, list))
           /\ Position(t, list) = Cardinality(Below(t, list))
           /\ Position(t, list) \in Nat
<1>1. IsFiniteSet(Trips)
  BY DEF OperationsAssumption
<1>2. Below(t, list) \in SUBSET Trips
  BY DEF Below
<1>3. IsFiniteSet(Below(t, list))
  BY <1>1, <1>2, FS_Subset
<1>4. Position(t, list) = Cardinality(Below(t, list))
  BY DEF Position, Below
<1> QED
  BY <1>3, <1>4, FS_CardinalityType

\* The trips of a list have the positions from one on, in its order.
LEMMA PositionsFollowOrder ==
    ASSUME OperationsAssumption, NEW list, LinearOrder(list),
           NEW t \in Listed(list), NEW u \in Listed(list)
    PROVE  <<t, u>> \in list <=> Position(t, list) <= Position(u, list)
<1> USE DEF LinearOrder, Listed
<1>1. ASSUME NEW x \in Listed(list), NEW y \in Listed(list), <<x, y>> \in list
      PROVE  /\ Position(x, list) <= Position(y, list)
             /\ x # y => Position(x, list) # Position(y, list)
  <2>1. Below(x, list) \in SUBSET Below(y, list)
    BY <1>1 DEF Below
  <2>2. x # y => y \in Below(y, list) \ Below(x, list)
    BY <1>1 DEF Below
  <2> QED
    BY <2>1, <2>2, BelowIsFinite, FS_Subset
<1>2. CASE <<t, u>> \in list
  BY <1>1, <1>2
<1>3. CASE <<t, u>> \notin list
  <2>1. <<u, t>> \in list /\ u # t
    BY <1>3
  <2>2. Position(u, list) <= Position(t, list) /\ Position(u, list) # Position(t, list)
    BY <1>1, <2>1
  <2> QED
    BY <1>3, <2>2, BelowIsFinite
<1> QED
  BY <1>2, <1>3

LEMMA PositionsAreDense ==
    ASSUME OperationsAssumption, NEW list, LinearOrder(list)
    PROVE  /\ IsFiniteSet(Listed(list))
           /\ Cardinality(Listed(list)) \in Nat
           /\ \A t \in Listed(list) : Position(t, list) \in 1 .. Cardinality(Listed(list))
           /\ \A t, u \in Listed(list) : Position(t, list) = Position(u, list) => t = u
           /\ \A n \in 1 .. Cardinality(Listed(list)) :
                 \E t \in Listed(list) : Position(t, list) = n
<1> DEFINE S == Listed(list)
           size == Cardinality(S)
           position == [t \in S |-> Position(t, list)]
<1>1. IsFiniteSet(S) /\ size \in Nat
  <2>1. S \in SUBSET Trips /\ IsFiniteSet(Trips)
    BY DEF OperationsAssumption, Listed
  <2> QED
    BY <2>1, FS_Subset, FS_CardinalityType
<1>2. ASSUME NEW t \in S
      PROVE  Position(t, list) \in 1 .. size
  <2>1. Below(t, list) \in SUBSET S
    BY DEF Below, LinearOrder
  <2>2. t \in Below(t, list)
    BY DEF Below, Listed
  <2>3. Position(t, list) <= size
    BY <1>1, <2>1, BelowIsFinite, FS_Subset
  <2>4. Position(t, list) # 0
    BY <2>2, BelowIsFinite, FS_EmptySet
  <2> QED
    BY <1>1, <2>3, <2>4, BelowIsFinite
<1>3. \A t, u \in S : Position(t, list) = Position(u, list) => t = u
  <2> SUFFICES ASSUME NEW t \in S, NEW u \in S, Position(t, list) = Position(u, list)
               PROVE  t = u
    OBVIOUS
  <2>1. <<t, u>> \in list /\ <<u, t>> \in list
    BY PositionsFollowOrder, BelowIsFinite
  <2> QED
    BY <2>1 DEF LinearOrder, Listed
<1>4. position \in Injection(S, 1 .. size)
  BY <1>2, <1>3 DEF Injection, IsInjective
<1>5. IsFiniteSet(1 .. size) /\ Cardinality(1 .. size) = size
  BY <1>1, FS_Interval
<1>6. position \in Surjection(S, 1 .. size)
  BY <1>4, <1>5, FS_Injection
<1>7. \A n \in 1 .. size : \E t \in S : Position(t, list) = n
  BY <1>6 DEF Surjection
<1> QED
  BY <1>1, <1>2, <1>3, <1>7
\* If trips only leave a list and keep their order, none gets further behind another.
LEMMA LeavingBringsCloser ==
    ASSUME OperationsAssumption,
           NEW before, LinearOrder(before), NEW after, LinearOrder(after),
           Listed(after) \subseteq Listed(before),
           \A t, u \in Trips : t # u /\ <<t, u>> \in before => <<u, t>> \notin after,
           NEW t \in Listed(after), NEW c \in Listed(after), NEW n \in Nat, n > 0,
           Position(t, before) < Position(c, before) + n
    PROVE  Position(t, after) < Position(c, after) + n
<1> DEFINE Between(list) == Below(t, list) \ Below(c, list)
<1>1. \A u, v \in Listed(after) : u # v => (<<u, v>> \in after <=> <<u, v>> \in before)
  BY DEF LinearOrder, Listed
<1>2. ASSUME NEW list \in {before, after}, <<c, t>> \in list
      PROVE  Position(t, list) = Position(c, list) + Cardinality(Between(list))
  <2>1. Below(c, list) \subseteq Below(t, list)
    BY <1>2 DEF Below, LinearOrder, Listed
  <2>2. Below(t, list) \intersect Below(c, list) = Below(c, list)
    BY <2>1
  <2>3. /\ IsFiniteSet(Below(t, list))
        /\ Position(t, list) = Cardinality(Below(t, list)) /\ Position(t, list) \in Nat
        /\ Position(c, list) = Cardinality(Below(c, list)) /\ Position(c, list) \in Nat
    BY BelowIsFinite
  <2>4. /\ IsFiniteSet(Between(list))
        /\ Cardinality(Between(list)) =
              Cardinality(Below(t, list)) - Cardinality(Below(t, list) \intersect Below(c, list))
    BY <2>3, FS_Difference
  <2>5. Cardinality(Between(list)) = Position(t, list) - Position(c, list)
    BY <2>2, <2>3, <2>4
  <2> HIDE DEF Between
  <2> QED
    BY <2>3, <2>5
<1>3. CASE <<c, t>> \notin after
  <2>1. Position(t, after) <= Position(c, after)
    BY <1>3, PositionsFollowOrder DEF LinearOrder
  <2> QED
    BY <2>1, BelowIsFinite
<1>4. CASE <<c, t>> \in after
  <2>1. <<c, t>> \in before
    BY <1>1, <1>4 DEF Listed
  <2>2. ASSUME NEW u \in Between(after)
        PROVE  u \in Between(before)
    <3>1. u \in Trips /\ <<u, t>> \in after /\ <<u, c>> \notin after
      BY DEF Below
    <3>2. u \in Listed(after) /\ u # c
      BY <3>1 DEF LinearOrder, Listed
    <3>3. <<u, t>> \in before
      BY <1>1, <3>1, <3>2 DEF Listed
    <3>4. <<u, c>> \notin before
      BY <1>1, <3>1, <3>2
    <3> QED
      BY <3>1, <3>3, <3>4 DEF Below
  <2>3. IsFiniteSet(Between(before))
    BY BelowIsFinite, FS_Difference
  <2>4. /\ IsFiniteSet(Between(after))
        /\ Cardinality(Between(after)) <= Cardinality(Between(before))
    BY <2>2, <2>3, FS_Subset, Between(after) \in SUBSET Between(before)
  <2>5. /\ Cardinality(Between(after)) \in Nat
        /\ Cardinality(Between(before)) \in Nat
    BY <2>3, <2>4, FS_CardinalityType
  <2>6. /\ Position(t, before) = Position(c, before) + Cardinality(Between(before))
        /\ Position(t, after) = Position(c, after) + Cardinality(Between(after))
    BY <1>2, <1>4, <2>1
  <2>7. /\ Position(c, before) \in Nat /\ Position(c, after) \in Nat
    BY BelowIsFinite
  <2> HIDE DEF Between
  <2> QED
    BY <2>4, <2>5, <2>6, <2>7
<1> QED
  BY <1>3, <1>4
-----------------------------------------------------------------------------
(* Pages *)

\* A page holds the trips from its start on: all of them if it is not full, and one
\* at each of its positions if it is.
LEMMA PagesAreCut ==
    ASSUME OperationsAssumption, NEW filter, NEW list, LinearOrder(list), NEW cursor
    PROVE  LET start == StartIndex(filter, list, cursor)
               page == Page(filter, list, cursor)
           IN  /\ start \in Nat
               /\ IsFiniteSet(page) /\ Cardinality(page) \in 0 .. PageSize
               /\ Cardinality(page) < PageSize =>
                    \A t \in Listed(list) : Position(t, list) > start => t \in page
               /\ Cardinality(page) = PageSize =>
                    \A n \in start + 1 .. start + PageSize :
                        \E t \in page : Position(t, list) = n
<1> DEFINE start == StartIndex(filter, list, cursor)
           page == Page(filter, list, cursor)
           numbers == start + 1 .. start + PageSize
           position == [t \in page |-> Position(t, list)]
<1>1. PageSize \in Nat \ {0}
  BY DEF OperationsAssumption
<1>2. start \in Nat
  <2> DEFINE ahead == {t \in Listed(list) : LexBefore(DatabaseKey(t), DatabaseKey(cursor))}
  <2>1. ahead \in SUBSET Trips
    BY DEF Listed
  <2> HIDE DEF ahead
  <2>2. Cardinality(ahead) \in Nat
    BY <2>1, FS_Subset, FS_CardinalityType DEF OperationsAssumption
  <2> QED
    BY <2>2, BelowIsFinite DEF StartIndex, ahead
<1>3. \A t : t \in page <=> t \in Listed(list) /\ Position(t, list) \in numbers
  BY DEF Page
<1> HIDE DEF start, page
<1>4. IsFiniteSet(numbers) /\ Cardinality(numbers) = PageSize
  BY <1>1, <1>2, FS_Interval
<1>5. position \in Injection(page, numbers)
  BY <1>3, PositionsAreDense DEF Injection, IsInjective
<1>6. /\ IsFiniteSet(page)
      /\ Cardinality(page) <= PageSize
      /\ Cardinality(page) = PageSize <=> position \in Surjection(page, numbers)
  BY <1>4, <1>5, FS_Injection
<1>7. Cardinality(page) \in 0 .. PageSize
  BY <1>1, <1>6, FS_CardinalityType
<1>8. ASSUME Cardinality(page) < PageSize,
             NEW t \in Listed(list), Position(t, list) > start
      PROVE  t \in page
  <2> SUFFICES ASSUME t \notin page
               PROVE  FALSE
    OBVIOUS
  <2>1. Position(t, list) > start + PageSize
    BY <1>1, <1>2, <1>3, <1>8, BelowIsFinite
  <2>2. \A n \in numbers : n \in 1 .. Cardinality(Listed(list))
    BY <1>1, <1>2, <2>1, PositionsAreDense
  <2>3. \A n \in numbers : \E u \in page : Position(u, list) = n
    BY <1>3, <2>2, PositionsAreDense
  <2>4. position \in Surjection(page, numbers)
    BY <1>3, <2>3 DEF Surjection
  <2> QED
    BY <1>1, <1>6, <1>7, <1>8, <2>4
<1>9. ASSUME Cardinality(page) = PageSize,
             NEW n \in numbers
      PROVE  \E t \in page : Position(t, list) = n
  BY <1>6, <1>9 DEF Surjection
<1> QED
  BY <1>2, <1>6, <1>7, <1>8, <1>9 DEF start, page

\* The first page starts the list.
LEMMA FirstPageIsCut ==
    ASSUME OperationsAssumption, NEW filter, NEW list, LinearOrder(list)
    PROVE  /\ \A t \in Listed(list) :
                /\ Position(t, list) \in Nat
                /\ t \in Page(filter, list, NoTrip) <=> Position(t, list) <= PageSize
           /\ Page(filter, list, NoTrip) = {} => Listed(list) = {}
<1>1. PageSize \in Nat \ {0} /\ NoTrip \notin Trips
  BY DEF OperationsAssumption
<1>2. StartIndex(filter, list, NoTrip) = 0
  BY <1>1 DEF StartIndex, Listed
<1>3. ASSUME NEW t \in Listed(list)
      PROVE  /\ Position(t, list) \in Nat
             /\ Position(t, list) > 0
             /\ t \in Page(filter, list, NoTrip) <=> Position(t, list) <= PageSize
  <2>1. Position(t, list) \in Nat /\ Position(t, list) > 0
    BY PositionsAreDense
  <2>2. t \in Page(filter, list, NoTrip) <=> Position(t, list) \in 0 + 1 .. 0 + PageSize
    BY <1>2 DEF Page
  <2> QED
    BY <1>1, <2>1, <2>2
<1>4. ASSUME Page(filter, list, NoTrip) = {}
      PROVE  Listed(list) = {}
  <2>1. Cardinality(Page(filter, list, NoTrip)) < PageSize
    BY <1>1, <1>4, FS_EmptySet
  <2>2. \A t \in Listed(list) : Position(t, list) > 0 => t \in Page(filter, list, NoTrip)
    BY <1>2, <2>1, PagesAreCut
  <2> QED
    BY <1>3, <1>4, <2>2
<1> QED
  BY <1>3, <1>4

\* What is shown last comes last of what is shown, in the operators' order.
LEMMA LastComesLast ==
    ASSUME OperationsAssumption, Times, NEW S \in SUBSET Trips, S # {}, NEW otherwise
    PROVE  /\ LastShown(S, otherwise) \in S
           /\ \A t \in S : <<t, LastShown(S, otherwise)>> \in Sorted(S, OperationsKey)
<1> DEFINE order == Sorted(S, OperationsKey)
<1>1. LinearOrder(order) /\ Listed(order) = S
  BY OperationsIsLinear
<1>2. LastShown(S, otherwise) = CHOOSE t \in S : \A u \in S : <<u, t>> \in order
  BY DEF LastShown
<1> HIDE DEF order
<1>3. \E t \in S : \A u \in S : <<u, t>> \in order
  <2>1. Cardinality(S) \in Nat /\ Cardinality(S) # 0
    BY <1>1, PositionsAreDense, FS_EmptySet
  <2>2. PICK t \in S : Position(t, order) = Cardinality(S)
    BY <1>1, <2>1, PositionsAreDense
  <2>3. \A u \in S : Position(u, order) <= Position(t, order)
    BY <1>1, <2>1, <2>2, PositionsAreDense
  <2> QED
    BY <1>1, <2>3, PositionsFollowOrder
<1> QED
  BY <1>2, <1>3 DEF order

LEMMA LastOfExceptions ==
    ASSUME OperationsAssumption, Times, NEW filter, ~ CutByDatabase(filter),
           NEW S \in SUBSET Listed(Listing(filter)), S # {}, NEW otherwise
    PROVE  /\ LastShown(S, otherwise) \in S
           /\ \A t \in S : <<t, LastShown(S, otherwise)>> \in Listing(filter)
<1> DEFINE exceptions == {t \in where(filter) : matchesExceptionFilter(t, filter.exception)}
<1>1. S \in SUBSET Trips /\ exceptions \in SUBSET Trips
  BY DEF Listed, where
<1>2. /\ LastShown(S, otherwise) \in S
      /\ \A t \in S : <<t, LastShown(S, otherwise)>> \in Sorted(S, OperationsKey)
  BY <1>1, LastComesLast
<1>3. Listing(filter) = Sorted(exceptions, OperationsKey)
  BY DEF Listing
<1> HIDE DEF exceptions
<1>4. S \subseteq exceptions
  BY <1>1, <1>3, OperationsIsLinear
<1>5. Sorted(S, OperationsKey) \subseteq Listing(filter)
  BY <1>3, <1>4 DEF Sorted
<1> QED
  BY <1>2, <1>5
-----------------------------------------------------------------------------
(* What a reader is shown *)

ReaderOK ==
    reader \in [filter : Filters \union {NoFilter}, allTrips : SUBSET Trips,
                last : Trips \union {NoTrip}, asked : Trips \union {NoTrip},
                end : {"more", "reached", "failed"}, overtaken : BOOLEAN,
                list : SUBSET (Trips \X Trips), stayed : SUBSET Trips,
                reordered : BOOLEAN, joined : BOOLEAN, lost : BOOLEAN, inVain : BOOLEAN]

\* The list was a linear order when its last page was cut from it.
ListInv ==
    reader.filter # NoFilter =>
        /\ LinearOrder(reader.list)
        /\ reader.last # NoTrip => reader.last \in reader.allTrips

\* None of the races that both halves of ListGoesOn except has happened.
Undisturbed ==
    /\ reader.filter # NoFilter
    /\ ~ reader.reordered /\ ~ reader.overtaken
    /\ ~ (CutByDatabase(reader.filter) /\ reader.lost)

\* Whatever comes up to the last trip shown, of what has been in the list all along, is
\* shown.
StayedInv ==
    Undisturbed =>
        /\ reader.asked \in {NoTrip, reader.last}
        /\ reader.last = NoTrip => reader.stayed = {}
        /\ reader.stayed \subseteq Listed(reader.list)
        /\ \A t \in reader.stayed : <<t, reader.last>> \in reader.list => t \in reader.allTrips
        /\ reader.end = "reached" => reader.stayed \subseteq reader.allTrips

\* What is shown ends with the last trip shown; of rows that the database cuts, and
\* that no trip has joined, it ends before the next page does.
AheadInv ==
    Undisturbed =>
        /\ CutByDatabase(reader.filter) /\ ~ reader.joined /\ reader.last # NoTrip =>
             /\ reader.last \in Listed(reader.list)
             /\ \A t \in reader.allTrips :
                  t \in Listed(reader.list) =>
                    Position(t, reader.list) < Position(reader.last, reader.list) + PageSize
        /\ ~ CutByDatabase(reader.filter) /\ ~ reader.lost /\ reader.last # NoTrip =>
             /\ reader.last \in Listed(reader.list)
             /\ \A t \in reader.allTrips :
                  t \in Listed(reader.list) => <<t, reader.last>> \in reader.list
        /\ reader.inVain => reader.lost \/ (CutByDatabase(reader.filter) /\ reader.joined)

ShownInv == ReaderOK /\ ListInv /\ StayedInv /\ AheadInv

LEMMA FirstPageShows ==
    ASSUME OperationsAssumption, Times, ReaderOK, NEW filter \in Filters, FirstPage(filter)
    PROVE  ShownInv'
<1> DEFINE list == Listing(filter)
           page == Page(filter, list, NoTrip)
<1>0. PageSize \in Nat /\ PageSize > 0
  BY DEF OperationsAssumption
<1>1. NoTrip \notin Trips
  BY DEF OperationsAssumption
<1>2. LinearOrder(list) /\ list \in SUBSET (Trips \X Trips)
  BY ListingIsLinear DEF LinearOrder
<1>3. page \subseteq Listed(list) /\ Listed(list) \subseteq Trips
  BY DEF Page, Listed
<1>5. /\ reader'.filter = filter
      /\ reader'.allTrips = page
      /\ reader'.last = LastShown(page, NoTrip)
      /\ reader'.asked = reader.asked
      /\ reader'.end = "more"
      /\ reader'.overtaken = (reader.asked # NoTrip)
      /\ reader'.list = list
      /\ reader'.stayed = Listed(list)
      /\ ~ reader'.reordered
      /\ ~ reader'.joined
      /\ ~ reader'.lost
      /\ ~ reader'.inVain
  BY DEF FirstPage, NoReader
<1>6. page # {} => reader'.last \in page
  BY <1>3, <1>5, LastComesLast
<1>7. page = {} => reader'.last = NoTrip
  BY <1>5 DEF LastShown
<1>8. ReaderOK'
  <2>1. reader'.last \in Trips \union {NoTrip}
    BY <1>3, <1>6, <1>7
  <2>2. reader' = [filter |-> filter, allTrips |-> page, last |-> LastShown(page, NoTrip),
                   asked |-> reader.asked, end |-> "more", overtaken |-> reader.asked # NoTrip,
                   list |-> list, stayed |-> Listed(list), reordered |-> FALSE,
                   joined |-> FALSE, lost |-> FALSE, inVain |-> FALSE]
    BY DEF FirstPage, NoReader
  <2>3. reader.asked \in Trips \union {NoTrip}
    BY DEF ReaderOK
  <2>4. LastShown(page, NoTrip) \in Trips \union {NoTrip}
    BY <1>5, <2>1
  <2>5. page \in SUBSET Trips /\ Listed(list) \in SUBSET Trips
    BY <1>3
  <2> HIDE DEF page, list
  <2> QED
    BY <1>2, <2>2, <2>3, <2>4, <2>5 DEF ReaderOK
<1> HIDE DEF page, list
<1>10. /\ \A t \in Listed(list) :
            /\ Position(t, list) \in Nat
            /\ t \in page <=> Position(t, list) <= PageSize
       /\ page = {} => Listed(list) = {}
  BY <1>2, FirstPageIsCut DEF page
<1>12. ListInv'
  BY <1>1, <1>2, <1>5, <1>6, <1>7 DEF ListInv
<1>13. StayedInv'
  <2>1. ASSUME NEW t \in Listed(list), NEW u \in page, <<t, u>> \in list
        PROVE  t \in page
    <3>1. Position(t, list) <= Position(u, list)
      BY <1>2, <1>3, <2>1, PositionsFollowOrder
    <3>2. Position(t, list) \in Nat /\ Position(u, list) \in Nat /\ Position(u, list) <= PageSize
      BY <1>3, <1>10
    <3> QED
      BY <1>0, <1>10, <3>1, <3>2
  <2>2. ASSUME NEW t \in Listed(list), <<t, reader'.last>> \in list
        PROVE  t \in page
    BY <1>6, <1>10, <2>1, <2>2
  <2>3. reader'.last = NoTrip => Listed(list) = {}
    BY <1>1, <1>3, <1>6, <1>10
  <2> QED
    BY <1>5, <2>2, <2>3 DEF StayedInv, Undisturbed
<1>14. AheadInv'
  <2>1. ASSUME NEW t \in page, NEW u \in page
        PROVE  Position(t, list) < Position(u, list) + PageSize
    <3>1. /\ Position(t, list) \in Nat /\ Position(t, list) <= PageSize
          /\ Position(u, list) \in Nat /\ Position(u, list) > 0
      BY <1>2, <1>3, <1>10, PositionsAreDense
    <3> QED
      BY <1>0, <3>1
  <2>2. ASSUME ~ CutByDatabase(filter), reader'.last # NoTrip
        PROVE  /\ reader'.last \in Listed(list)
               /\ \A t \in page : <<t, reader'.last>> \in list
    <3>1. page # {}
      BY <1>7, <2>2
    <3> QED
      BY <1>3, <1>5, <2>2, <3>1, LastOfExceptions DEF list
  <2>3. reader'.last # NoTrip => reader'.last \in page /\ page \subseteq Listed(list)
    BY <1>3, <1>6, <1>7
  <2> QED
    BY <1>5, <2>1, <2>2, <2>3 DEF AheadInv, Undisturbed
<1> QED
  BY <1>8, <1>12, <1>13, <1>14 DEF ShownInv

LEMMA MorePagesShow ==
    ASSUME OperationsAssumption, Times, ShownInv, MoreArrives, reader.filter # NoFilter
    PROVE  ShownInv'
<1> DEFINE after == Listing(reader.filter)
           page == Page(reader.filter, after, reader.asked)
           start == StartIndex(reader.filter, after, reader.asked)
           seen == reader.allTrips
           last == LastShown(page \ seen, reader.last)
<1>1. PageSize \in Nat /\ PageSize > 0
  BY DEF OperationsAssumption
<1>2. NoTrip \notin Trips
  BY DEF OperationsAssumption
<1>3. LinearOrder(after) /\ after \in SUBSET (Trips \X Trips)
  BY ListingIsLinear DEF LinearOrder
<1>4. page \subseteq Listed(after) /\ Listed(after) \subseteq Trips
  BY DEF Page, Listed
<1>5. /\ reader.filter \in Filters \union {NoFilter} /\ reader.allTrips \in SUBSET Trips
      /\ reader.last \in Trips \union {NoTrip} /\ reader.asked \in Trips \union {NoTrip}
      /\ reader.end \in {"more", "reached", "failed"} /\ reader.overtaken \in BOOLEAN
      /\ reader.list \in SUBSET (Trips \X Trips) /\ reader.stayed \in SUBSET Trips
      /\ reader.reordered \in BOOLEAN /\ reader.joined \in BOOLEAN
      /\ reader.lost \in BOOLEAN /\ reader.inVain \in BOOLEAN
  BY DEF ShownInv, ReaderOK
<1>6. reader.asked # NoTrip
  BY DEF MoreArrives
<1>7. reader' = [filter |-> reader.filter, allTrips |-> seen \union page, last |-> last,
                 asked |-> NoTrip,
                 end |-> IF Cardinality(page) < PageSize THEN "reached" ELSE reader.end,
                 overtaken |-> reader.overtaken, list |-> after,
                 stayed |-> reader.stayed \intersect Listed(after),
                 reordered |-> reader.reordered \/ Reordered(reader.list, after, seen),
                 joined |-> reader.joined \/ ~ Listed(after) \subseteq Listed(reader.list),
                 lost |-> reader.lost \/ reader.asked \notin Listed(after),
                 inVain |-> Cardinality(page) = PageSize /\ page \subseteq seen]
  BY DEF MoreArrives, ShownInv, ReaderOK
<1>8. page \ seen # {} => last \in page \ seen
  BY <1>4, LastComesLast
<1>9. page \ seen = {} => last = reader.last
  BY DEF LastShown
<1>10. ~ CutByDatabase(reader.filter) /\ page \ seen # {} =>
         \A t \in page \ seen : <<t, last>> \in after
  BY <1>4, LastOfExceptions
<1>12. /\ start \in Nat
       /\ IsFiniteSet(page) /\ Cardinality(page) \in 0 .. PageSize
       /\ Cardinality(page) < PageSize =>
            \A t \in Listed(after) : Position(t, after) > start => t \in page
       /\ Cardinality(page) = PageSize =>
            \A n \in start + 1 .. start + PageSize : \E t \in page : Position(t, after) = n
  BY <1>3, PagesAreCut
<1>13. \A t \in Listed(after) :
         t \in page <=> Position(t, after) \in start + 1 .. start + PageSize
  BY DEF Page
<1>14. /\ reader.asked \in Listed(after) => start = Position(reader.asked, after)
       /\ reader.asked \notin Listed(after) /\ ~ CutByDatabase(reader.filter) => start = 0
  BY <1>6 DEF StartIndex
<1> HIDE DEF after, page, start, last
<1>15. \A t \in Listed(after) : Position(t, after) \in Nat /\ Position(t, after) > 0
  <2>1. /\ Cardinality(Listed(after)) \in Nat
        /\ \A t \in Listed(after) : Position(t, after) \in 1 .. Cardinality(Listed(after))
    BY <1>3, PositionsAreDense
  <2> QED
    BY <2>1
<1>16. last \in Trips \union {NoTrip} /\ (last # NoTrip => last \in seen \union page)
  BY <1>4, <1>5, <1>8, <1>9 DEF ShownInv, ListInv
<1>17. ReaderOK'
  <2>1. /\ seen \union page \in SUBSET Trips
        /\ reader.stayed \intersect Listed(after) \in SUBSET Trips
    BY <1>4, <1>5
  <2> QED
    BY <1>3, <1>5, <1>7, <1>16, <2>1 DEF ReaderOK
<1>18. ListInv'
  BY <1>3, <1>7, <1>16 DEF ListInv
<1>19. ASSUME Undisturbed'
       PROVE  StayedInv' /\ AheadInv'
  <2> DEFINE before == reader.list
             cursor == reader.last
  <2>1. Undisturbed /\ ~ Reordered(before, after, seen)
    BY <1>5, <1>7, <1>19 DEF Undisturbed
  <2>2. /\ \A t, u \in Trips : t # u /\ <<t, u>> \in before => <<u, t>> \notin after
        /\ seen \intersect Listed(after) \subseteq Listed(before)
    BY <2>1 DEF Reordered
  <2>3. /\ reader.asked = cursor
        /\ cursor \in seen
        /\ cursor \in Trips
    BY <1>5, <1>6, <2>1 DEF ShownInv, StayedInv, ListInv, Undisturbed
  <2>4. LinearOrder(before)
    BY <2>1 DEF ShownInv, ListInv, Undisturbed
  <2>5. start = IF cursor \in Listed(after) THEN Position(cursor, after) ELSE 0
    <3>1. CutByDatabase(reader.filter) => cursor \in Listed(after)
      BY <1>7, <1>19, <2>3 DEF Undisturbed
    <3> QED
      BY <1>14, <2>3, <3>1
  \* What keeps its place with respect to the cursor.
  <2>6. ASSUME cursor \in Listed(after), NEW t \in Listed(before), t \in Listed(after)
        PROVE  <<t, cursor>> \in after <=> <<t, cursor>> \in before
    <3>1. cursor \in Listed(before) /\ t \in Trips
      BY <2>2, <2>3, <2>6 DEF Listed
    <3>2. CASE t = cursor
      BY <2>6, <3>1, <3>2 DEF Listed
    <3>3. CASE t # cursor
      <4>1. <<t, cursor>> \in before \/ <<cursor, t>> \in before
        BY <2>4, <3>1 DEF LinearOrder
      <4>2. <<t, cursor>> \in after \/ <<cursor, t>> \in after
        BY <1>3, <2>6 DEF LinearOrder
      <4> QED
        BY <2>2, <2>3, <3>1, <3>3, <4>1, <4>2
    <3> QED
      BY <3>2, <3>3
  <2> HIDE DEF before, cursor
  <2>7. StayedInv'
    <3>1. /\ reader.stayed \subseteq Listed(before)
          /\ \A t \in reader.stayed : <<t, cursor>> \in before => t \in seen
          /\ reader.end = "reached" => reader.stayed \subseteq seen
      BY <2>1 DEF ShownInv, StayedInv, before, cursor
    <3>2. ASSUME NEW t \in reader.stayed \intersect Listed(after),
                 <<t, cursor>> \in after
          PROVE  t \in seen
      <4>1. cursor \in Listed(after) /\ t \in Listed(before)
        BY <1>3, <2>3, <3>1, <3>2 DEF LinearOrder, Listed
      <4> QED
        BY <2>6, <3>1, <3>2, <4>1
    <3>3. ASSUME NEW t \in reader.stayed \intersect Listed(after),
                 Position(t, after) <= start
          PROVE  t \in seen
      <4>1. cursor \in Listed(after)
        BY <1>15, <2>5, <3>3
      <4>2. <<t, cursor>> \in after
        BY <1>3, <2>5, <3>3, <4>1, PositionsFollowOrder
      <4> QED
        BY <3>2, <4>2
    <3>4. ASSUME NEW t \in reader.stayed \intersect Listed(after), <<t, last>> \in after
          PROVE  t \in seen \union page
      <4>1. CASE page \ seen = {}
        BY <1>9, <3>2, <3>4, <4>1 DEF cursor
      <4>2. CASE page \ seen # {}
        <5>1. last \in page /\ last \in Listed(after)
          BY <1>4, <1>8, <4>2
        <5>2. Position(t, after) <= Position(last, after)
          BY <1>3, <3>4, <5>1, PositionsFollowOrder
        <5>3. Position(last, after) <= start + PageSize
          BY <1>1, <1>12, <1>13, <5>1
        <5>4. Position(t, after) \in Nat /\ Position(last, after) \in Nat
          BY <1>15, <5>1
        <5>5. Position(t, after) <= start \/ Position(t, after) \in start + 1 .. start + PageSize
          BY <1>1, <1>12, <5>2, <5>3, <5>4
        <5> QED
          BY <1>13, <3>3, <5>5
      <4> QED
        BY <4>1, <4>2
    <3>5. ASSUME Cardinality(page) < PageSize \/ reader.end = "reached",
                 NEW t \in reader.stayed \intersect Listed(after)
          PROVE  t \in seen \union page
      <4>1. CASE reader.end = "reached"
        BY <3>1, <4>1
      <4>2. CASE Cardinality(page) < PageSize
        <5>1. Position(t, after) <= start \/ Position(t, after) > start
          BY <1>12, <1>15
        <5> QED
          BY <1>12, <3>3, <4>2, <5>1
      <4> QED
        BY <3>5, <4>1, <4>2
    <3>6. last # NoTrip
      BY <1>2, <1>4, <1>8, <1>9, <2>3 DEF cursor
    <3>7. /\ reader'.asked = NoTrip
          /\ reader'.last = last
          /\ reader'.stayed = reader.stayed \intersect Listed(after)
          /\ reader'.list = after
          /\ reader'.allTrips = seen \union page
          /\ reader'.end = IF Cardinality(page) < PageSize THEN "reached" ELSE reader.end
      BY <1>7
    <3> QED
      BY <3>4, <3>5, <3>6, <3>7 DEF StayedInv
  <2>8. AheadInv'
    <3>1. /\ reader'.filter = reader.filter
          /\ reader'.last = last
          /\ reader'.list = after
          /\ reader'.allTrips = seen \union page
          /\ reader'.lost = (reader.lost \/ cursor \notin Listed(after))
          /\ reader'.inVain = (Cardinality(page) = PageSize /\ page \subseteq seen)
      BY <1>7, <2>3
    <3>2. ASSUME CutByDatabase(reader.filter), ~ reader'.joined
          PROVE  /\ last \in Listed(after)
                 /\ \A t \in seen \union page :
                       t \in Listed(after) => Position(t, after) < Position(last, after) + PageSize
                 /\ ~ (Cardinality(page) = PageSize /\ page \subseteq seen)
      <4>1. ~ reader.joined /\ Listed(after) \subseteq Listed(before)
        BY <1>5, <1>7, <3>2 DEF before
      <4>2. cursor \in Listed(after)
        BY <1>7, <1>19, <2>3, <3>2 DEF Undisturbed
      <4>3. start = Position(cursor, after)
        BY <2>5, <4>2
      <4>4. \A t \in seen : t \in Listed(after) => Position(t, after) < start + PageSize
        <5>1. \A t \in seen : t \in Listed(before) =>
                Position(t, before) < Position(cursor, before) + PageSize
          BY <1>2, <2>1, <2>3, <3>2, <4>1 DEF ShownInv, AheadInv, before, cursor
        <5> QED
          BY <1>1, <1>3, <2>2, <2>4, <4>1, <4>2, <4>3, <5>1, LeavingBringsCloser
      <4>5. ASSUME NEW t \in page
            PROVE  start + 1 <= Position(t, after) /\ Position(t, after) <= start + PageSize
        BY <1>4, <1>13
      <4>6. \A t \in seen \union page :
              t \in Listed(after) =>
                /\ Position(t, after) \in Nat
                /\ Position(t, after) <= start + PageSize
        BY <1>1, <1>4, <1>5, <1>12, <1>15, <4>4, <4>5
      <4>7. CASE page \ seen = {}
        <5>1. last = cursor /\ seen \union page = seen
          BY <1>9, <4>7 DEF cursor
        <5>2. ~ Cardinality(page) = PageSize
          <6> SUFFICES ASSUME Cardinality(page) = PageSize
                       PROVE  FALSE
            OBVIOUS
          <6>1. start + PageSize \in start + 1 .. start + PageSize
            BY <1>1, <1>12
          <6>2. PICK t \in page : Position(t, after) = start + PageSize
            BY <1>12, <6>1
          <6>3. t \in seen /\ t \in Listed(after)
            BY <1>4, <4>7
          <6>4. Position(t, after) < start + PageSize
            BY <4>4, <6>3
          <6> QED
            BY <1>1, <1>12, <6>2, <6>4
        <5> QED
          BY <4>2, <4>3, <4>4, <5>1, <5>2
      <4>8. CASE page \ seen # {}
        <5>1. last \in page /\ last \in Listed(after)
          BY <1>4, <1>8, <4>8
        <5>2. start + 1 <= Position(last, after) /\ Position(last, after) \in Nat
          BY <1>15, <4>5, <5>1
        <5>3. \A t \in seen \union page :
                t \in Listed(after) => Position(t, after) < Position(last, after) + PageSize
          BY <1>1, <1>12, <4>6, <5>2
        <5> QED
          BY <4>8, <5>1, <5>3
      <4> QED
        BY <4>7, <4>8
    <3>3. ASSUME ~ CutByDatabase(reader.filter), ~ reader.lost, cursor \in Listed(after)
          PROVE  /\ last \in Listed(after)
                 /\ \A t \in seen \union page : t \in Listed(after) => <<t, last>> \in after
                 /\ ~ (Cardinality(page) = PageSize /\ page \subseteq seen)
      <4>1. \A t \in seen : t \in Listed(before) => <<t, cursor>> \in before
        BY <1>2, <2>1, <2>3, <3>3 DEF ShownInv, AheadInv, before, cursor
      <4>2. \A t \in seen : t \in Listed(after) => <<t, cursor>> \in after
        BY <2>2, <2>6, <3>3, <4>1
      <4>3. start = Position(cursor, after)
        BY <2>5, <3>3
      <4>4. CASE page \ seen = {}
        <5>1. last = cursor /\ seen \union page = seen
          BY <1>9, <4>4 DEF cursor
        <5>2. ~ Cardinality(page) = PageSize
          <6> SUFFICES ASSUME Cardinality(page) = PageSize
                       PROVE  FALSE
            OBVIOUS
          <6>1. start + 1 \in start + 1 .. start + PageSize
            BY <1>1, <1>12
          <6>2. PICK t \in page : Position(t, after) = start + 1
            BY <1>12, <6>1
          <6>3. t \in Listed(after) /\ <<t, cursor>> \in after
            BY <1>4, <4>2, <4>4
          <6>4. Position(t, after) <= start
            BY <1>3, <3>3, <4>3, <6>3, PositionsFollowOrder
          <6> QED
            BY <1>12, <6>2, <6>4
        <5> QED
          BY <3>3, <4>2, <5>1, <5>2
      <4>5. CASE page \ seen # {}
        <5>1. last \in page /\ last \in Listed(after)
          BY <1>4, <1>8, <4>5
        <5>2. start <= Position(last, after)
          BY <1>12, <1>13, <1>15, <5>1
        <5>3. <<cursor, last>> \in after
          BY <1>3, <3>3, <4>3, <5>1, <5>2, PositionsFollowOrder
        <5>4. ASSUME NEW t \in seen, t \in Listed(after)
              PROVE  <<t, last>> \in after
          BY <1>3, <3>3, <4>2, <5>1, <5>3, <5>4 DEF LinearOrder, Listed
        <5>5. \A t \in page \ seen : <<t, last>> \in after
          BY <1>10, <3>3, <4>5
        <5> QED
          BY <4>5, <5>1, <5>4, <5>5
      <4> QED
        BY <4>4, <4>5
    <3>4. reader'.joined \in BOOLEAN /\ reader'.lost \in BOOLEAN
      BY <1>17 DEF ReaderOK
    <3> QED
      BY <3>1, <3>2, <3>3, <3>4 DEF AheadInv
  <2> QED
    BY <2>7, <2>8
<1> QED
  BY <1>17, <1>18, <1>19 DEF ShownInv, StayedInv, AheadInv

-----------------------------------------------------------------------------
(* Types *)

TimesOK ==
    /\ kinds \in Kinds
    /\ clock \in 0 .. MaxTime
    /\ status \in [Trips -> TripStatuses]
    /\ since \in [Trips -> 0 .. MaxTime]
    /\ latest \in [Trips -> [type : EventTypes, at : 0 .. MaxTime]]

ListsInv == TimesOK /\ ShownInv

LEMMA TimesAreNumbers ==
    ASSUME OperationsAssumption
    PROVE  TimesOK => Times
BY DEF OperationsAssumption, TimesOK, Times

LEMMA TypesFollow ==
    ListsInv => TypeOK
BY DEF ListsInv, TimesOK, ShownInv, ReaderOK, TypeOK

\* Nothing is shown, asked for or ended before the list is opened.
OpenedInv ==
    reader.filter = NoFilter => reader.asked = NoTrip /\ reader.end = "more" /\ ~ reader.inVain

LEMMA ListsInit ==
    ASSUME OperationsAssumption
    PROVE  Init => ListsInv /\ OpenedInv
<1> SUFFICES ASSUME Init
             PROVE  ListsInv /\ OpenedInv
  OBVIOUS
<1>1. TimesOK
  <2>1. 0 \in 0 .. MaxTime
    BY DEF OperationsAssumption
  <2>2. "TRIP_CREATED" \in EventTypes /\ "PLANNED" \in TripStatuses
    BY DEF EventTypes, eventStatusProjection, TripStatuses
  <2> QED
    BY <2>1, <2>2 DEF Init, TimesOK
<1>2. ReaderOK
  BY DEF Init, NoReader, ReaderOK
<1>3. ListInv /\ StayedInv /\ AheadInv /\ OpenedInv
  BY DEF Init, NoReader, ListInv, StayedInv, AheadInv, Undisturbed, OpenedInv
<1> QED
  BY <1>1, <1>2, <1>3 DEF ListsInv, ShownInv

LEMMA ReportKeepsTypes ==
    ASSUME OperationsAssumption, TimesOK, Report
    PROVE  TimesOK' /\ UNCHANGED reader
<1>0. PICK t \in Trips : \E type \in kinds[t], at \in {clock, clock - Tick} :
        at >= 0 /\ createEvent(t, type, at)
  BY DEF Report
<1>1. PICK type \in kinds[t], at \in {clock, clock - Tick} :
        at >= 0 /\ createEvent(t, type, at)
  BY <1>0
<1>2. kinds \in [Trips -> SUBSET EventTypes] /\ Tick \in Nat /\ MaxTime \in Nat
  BY DEF OperationsAssumption, TimesOK
<1>3. type \in EventTypes
  BY <1>2
<1>4. at \in 0 .. MaxTime
  BY <1>1, <1>2 DEF TimesOK
<1>5. \A s \in TripStatuses : StatusAfter(s, type) \in TripStatuses
  BY DEF StatusAfter, Projects, eventStatusProjection, TripStatuses
<1>6. status' \in [Trips -> TripStatuses]
  BY <1>1, <1>5 DEF createEvent, TimesOK
<1>7. since' \in [Trips -> 0 .. MaxTime]
  BY <1>1, <1>4 DEF createEvent, TimesOK
<1>8. latest' \in [Trips -> [type : EventTypes, at : 0 .. MaxTime]]
  BY <1>1, <1>3, <1>4 DEF createEvent, TimesOK
<1> QED
  BY <1>1, <1>6, <1>7, <1>8 DEF createEvent, TimesOK

LEMMA ListsStep ==
    ASSUME OperationsAssumption, ListsInv, OpenedInv, [Next]_vars
    PROVE  ListsInv' /\ OpenedInv'
<1>1. Times /\ ReaderOK /\ Tick \in Nat /\ MaxTime \in Nat
  BY TimesAreNumbers DEF OperationsAssumption, ListsInv, ShownInv
<1>2. ASSUME UNCHANGED reader
      PROVE  ShownInv' /\ OpenedInv'
  BY <1>2 DEF ListsInv, ShownInv, ReaderOK, ListInv, StayedInv, AheadInv, Undisturbed, OpenedInv
<1>3. ASSUME UNCHANGED <<kinds, clock, status, since, latest>>
      PROVE  TimesOK'
  BY <1>3 DEF ListsInv, TimesOK
<1>4. CASE TimePasses
  <2>1. TimesOK'
    BY <1>1, <1>4 DEF TimePasses, ListsInv, TimesOK
  <2> QED
    BY <1>2, <1>4, <2>1 DEF TimePasses, ListsInv
<1>5. CASE Report
  BY <1>2, <1>5, ReportKeepsTypes DEF ListsInv
<1>6. CASE OpenList
  <2>1. PICK filter \in Filters : FirstPage(filter)
    BY <1>6 DEF OpenList
  <2>2. ShownInv'
    BY <1>1, <2>1, FirstPageShows
  <2>3. OpenedInv'
    <3>1. filter.status \in TripStatuses \union {"ALL"}
      BY DEF OperationsAssumption
    <3>2. filter # NoFilter
      BY <3>1 DEF NoFilter, TripStatuses
    <3>3. reader'.filter = filter
      BY <2>1 DEF FirstPage, NoReader
    <3> QED
      BY <3>2, <3>3 DEF OpenedInv
  <2> QED
    BY <1>3, <1>6, <2>2, <2>3 DEF OpenList, ListsInv
<1>7. CASE triggerCksSync
  <2>1. reader.filter \in Filters /\ FirstPage(reader.filter)
    BY <1>1, <1>7 DEF triggerCksSync, ReaderOK
  <2>2. ShownInv'
    BY <1>1, <2>1, FirstPageShows
  <2>3. OpenedInv'
    BY <1>7, <2>1 DEF triggerCksSync, FirstPage, NoReader, OpenedInv
  <2> QED
    BY <1>3, <1>7, <2>2, <2>3 DEF triggerCksSync, ListsInv
<1>8. CASE loadMore
  <2>1. CASE reader.last = NoTrip
    <3>1. reader' = [reader EXCEPT !.end = "reached"]
      BY <1>8, <2>1 DEF loadMore
    <3>2. ReaderOK'
      BY <1>1, <3>1 DEF ReaderOK
    <3>3. /\ reader'.filter = reader.filter /\ reader'.allTrips = reader.allTrips
          /\ reader'.last = reader.last /\ reader'.asked = reader.asked
          /\ reader'.overtaken = reader.overtaken /\ reader'.list = reader.list
          /\ reader'.stayed = reader.stayed /\ reader'.reordered = reader.reordered
          /\ reader'.joined = reader.joined
          /\ reader'.lost = reader.lost /\ reader'.inVain = reader.inVain
      BY <1>1, <3>1 DEF ReaderOK
    <3>4. ListInv' /\ AheadInv' /\ OpenedInv'
      BY <1>8, <3>3 DEF loadMore, ListsInv, ShownInv, ListInv, AheadInv, Undisturbed, OpenedInv
    <3>5. StayedInv'
      BY <2>1, <3>3 DEF ListsInv, ShownInv, StayedInv, Undisturbed
    <3> QED
      BY <1>3, <1>8, <3>2, <3>4, <3>5 DEF loadMore, ListsInv, ShownInv
  <2>2. CASE reader.last # NoTrip
    <3>1. reader' = [reader EXCEPT !.asked = reader.last]
      BY <1>8, <2>2 DEF loadMore
    <3>2. ReaderOK'
      BY <1>1, <3>1 DEF ReaderOK
    <3>3. /\ reader'.filter = reader.filter /\ reader'.allTrips = reader.allTrips
          /\ reader'.last = reader.last /\ reader'.asked = reader.last
          /\ reader'.end = reader.end
          /\ reader'.overtaken = reader.overtaken /\ reader'.list = reader.list
          /\ reader'.stayed = reader.stayed /\ reader'.reordered = reader.reordered
          /\ reader'.joined = reader.joined
          /\ reader'.lost = reader.lost /\ reader'.inVain = reader.inVain
      BY <1>1, <3>1 DEF ReaderOK
    <3>4. ListInv' /\ AheadInv'
      BY <3>3 DEF ListsInv, ShownInv, ListInv, AheadInv, Undisturbed
    <3>5. StayedInv' /\ OpenedInv'
      BY <1>8, <3>3 DEF loadMore, ListsInv, ShownInv, StayedInv, Undisturbed, OpenedInv
    <3> QED
      BY <1>3, <1>8, <3>2, <3>4, <3>5 DEF loadMore, ListsInv, ShownInv
  <2> QED
    BY <2>1, <2>2
<1>9. CASE MoreArrives
  <2>1. reader.filter # NoFilter
    BY <1>9 DEF MoreArrives, OpenedInv
  <2>2. ShownInv'
    BY <1>1, <1>9, <2>1, MorePagesShow DEF ListsInv
  <2>3. OpenedInv'
    <3>1. reader'.filter = reader.filter
      BY <1>1, <1>9 DEF MoreArrives, ReaderOK
    <3> QED
      BY <2>1, <3>1 DEF OpenedInv
  <2> QED
    BY <1>3, <1>9, <2>2, <2>3 DEF MoreArrives, ListsInv
<1>10. CASE MoreFails
  <2>1. reader' = [reader EXCEPT !.asked = NoTrip, !.end = "failed"]
    BY <1>10 DEF MoreFails
  <2>2. ReaderOK'
    BY <1>1, <2>1 DEF ReaderOK
  <2>3. /\ reader'.filter = reader.filter /\ reader'.allTrips = reader.allTrips
        /\ reader'.last = reader.last /\ reader'.asked = NoTrip
        /\ reader'.end = "failed"
        /\ reader'.overtaken = reader.overtaken /\ reader'.list = reader.list
        /\ reader'.stayed = reader.stayed /\ reader'.reordered = reader.reordered
        /\ reader'.joined = reader.joined
        /\ reader'.lost = reader.lost /\ reader'.inVain = reader.inVain
    BY <1>1, <2>1 DEF ReaderOK
  <2>4. ListInv' /\ AheadInv' /\ OpenedInv'
    BY <1>10, <2>3 DEF MoreFails, ListsInv, ShownInv, ListInv, AheadInv, Undisturbed, OpenedInv
  <2>5. StayedInv'
    BY <2>3 DEF ListsInv, ShownInv, StayedInv, Undisturbed
  <2> QED
    BY <1>3, <1>10, <2>2, <2>4, <2>5 DEF MoreFails, ListsInv, ShownInv
<1>11. CASE UNCHANGED vars
  BY <1>2, <1>3, <1>11 DEF vars, ListsInv
<1> QED
  BY <1>4, <1>5, <1>6, <1>7, <1>8, <1>9, <1>10, <1>11 DEF Next

THEOREM ListsInvariance ==
    ASSUME OperationsAssumption
    PROVE  Spec => [](TypeOK /\ ShownInv /\ OpenedInv)
<1>1. ListsInv => TypeOK /\ ShownInv
  BY TypesFollow DEF ListsInv
<1> QED
  BY <1>1, ListsInit, ListsStep, PTL DEF Spec

\* A list that is read to its end is shown in full, and a full page brings something
\* new, but for the races that ListGoesOn names (trips.service.ts:255-483,
\* trips-client.tsx:90-99, 224-228, 252-276).
THEOREM GoesOn ==
    ASSUME OperationsAssumption
    PROVE  Spec => []ListGoesOn
<1>1. ShownInv /\ OpenedInv => ListGoesOn
  BY DEF ShownInv, StayedInv, AheadInv, Undisturbed, OpenedInv, ListGoesOn,
     MissedOnlyByRace, StuckOnlyIfCursorLeft
<1> QED
  BY <1>1, ListsInvariance, PTL
-----------------------------------------------------------------------------
(* What operators are offered *)

\* A trip that has ended is not late.
LEMMA EndedIsNotLate ==
    ASSUME NEW t \in Trips, status[t] \in terminalStatuses
    PROVE  ~ Delayed(t)
<1>1. ArrivalDelay(t) = 0 /\ PlannedStartDelay(t) = 0 /\ StatusDelay(t) = 0
  BY DEF ArrivalDelay, PlannedStartDelay, StatusDelay, terminalStatuses, statusDelayThresholdMinutes
<1>2. DelayMinutes(t) = 0
  BY <1>1 DEF DelayMinutes, Max
<1> QED
  BY <1>1, <1>2 DEF Delayed, exceptionCodes, terminalStatuses

LEMMA Suggested ==
    ASSUME NEW t \in Trips, status[t] \in TripStatuses
    PROVE  /\ status[t] = "BLOCKED" =>
                NextAction(t).types = {"DRIVER_NOTE_ADDED", "DECLARATION_APPROVED", "TRIP_CANCELLED"}
           /\ status[t] # "BLOCKED" /\ (Delayed(t) \/ status[t] = "DELAYED") =>
                /\ NextAction(t).code = "CHECK_DELAY"
                /\ NextAction(t).types =
                      {"DRIVER_NOTE_ADDED", "ARRIVED_BORDER_AREA", "YARD_ENTRY_CONFIRMED"}
           /\ status[t] # "BLOCKED" /\ ~ Delayed(t) =>
                /\ status[t] = "PLANNED" => NextAction(t).types = {"DEPARTED"}
                /\ status[t] = "IN_PROGRESS" =>
                      NextAction(t).types = {"ARRIVED_BORDER_AREA", "WAITING_YARD_ENTRY"}
                /\ status[t] = "WAITING_YARD_ENTRY" =>
                      NextAction(t).types = {"YARD_ENTRY_CONFIRMED", "DRIVER_REPORTED_YARD_ENTRY"}
                /\ status[t] = "IN_YARD" => NextAction(t).types = {"YARD_EXIT_CONFIRMED"}
                /\ status[t] = "AT_BORDER_GATE" =>
                      \/ NextAction(t).types = {"DECLARATION_SUBMITTED", "CUSTOMS_PROCESSING"}
                      \/ /\ NextAction(t).code = "REQUEST_YARD_ENTRY"
                         /\ NextAction(t).types =
                               {"WAITING_YARD_ENTRY", "BORDER_GATE_ENTRY_CONFIRMED"}
                /\ status[t] = "CUSTOMS_PROCESSING" =>
                      NextAction(t).types \subseteq
                         {"FEE_PAID", "BORDER_GATE_EXIT_CONFIRMED", "TRIP_COMPLETED",
                          "DECLARATION_APPROVED", "DECLARATION_REJECTED", "INSPECTION_REQUIRED"}
                /\ status[t] = "INSPECTION_REQUIRED" =>
                      NextAction(t).types = {"INSPECTION_COMPLETED", "DECLARATION_APPROVED"}
                /\ status[t] \in terminalStatuses => NextAction(t).types = {}
<1>1. CASE status[t] = "BLOCKED"
  BY <1>1 DEF NextAction
<1>2. CASE status[t] # "BLOCKED" /\ Delayed(t)
  BY <1>2 DEF NextAction
<1>3. CASE status[t] # "BLOCKED" /\ ~ Delayed(t)
  <2>1. CASE status[t] = "PLANNED"
    BY <1>3, <2>1 DEF NextAction, terminalStatuses
  <2>2. CASE status[t] = "IN_PROGRESS"
    BY <1>3, <2>2 DEF NextAction, terminalStatuses
  <2>3. CASE status[t] = "WAITING_YARD_ENTRY"
    BY <1>3, <2>3 DEF NextAction, terminalStatuses
  <2>4. CASE status[t] = "IN_YARD"
    BY <1>3, <2>4 DEF NextAction, terminalStatuses
  <2>5. CASE status[t] = "AT_BORDER_GATE"
    BY <1>3, <2>5 DEF NextAction, terminalStatuses
  <2>6. CASE status[t] = "CUSTOMS_PROCESSING"
    BY <1>3, <2>6 DEF NextAction, terminalStatuses
  <2>7. CASE status[t] = "INSPECTION_REQUIRED"
    BY <1>3, <2>7 DEF NextAction, terminalStatuses
  <2>8. CASE status[t] = "DELAYED"
    BY <1>3, <2>8 DEF NextAction, terminalStatuses
  <2>9. CASE status[t] = "COMPLETED"
    BY <1>3, <2>9 DEF NextAction, terminalStatuses
  <2>10. CASE status[t] = "CANCELLED"
    BY <1>3, <2>10 DEF NextAction, terminalStatuses
  <2> QED
    BY <1>3, <2>1, <2>2, <2>3, <2>4, <2>5, <2>6, <2>7, <2>8, <2>9, <2>10 DEF TripStatuses
<1> QED
  BY <1>1, <1>2, <1>3

LEMMA Accepted ==
    ASSUME NEW t \in Trips, status[t] \in TripStatuses,
           NEW type \in availableManualActions(t)
    PROVE  \/ CanApplyEvent(status[t], type)
           \/ /\ NextAction(t).code = "REQUEST_YARD_ENTRY"
              /\ type = "WAITING_YARD_ENTRY"
           \/ /\ NextAction(t).code = "CHECK_DELAY"
              /\ type = "YARD_ENTRY_CONFIRMED"
              /\ status[t] \in {"IN_PROGRESS", "CUSTOMS_PROCESSING", "INSPECTION_REQUIRED"}
<1> USE Suggested, EndedIsNotLate DEF availableManualActions, manualActionsByStatus,
        CanApplyEvent, Projects, eventStatusProjection, allowedTransitions, terminalStatuses
<1>1. CASE status[t] = "PLANNED"
  BY <1>1
<1>2. CASE status[t] = "IN_PROGRESS"
  BY <1>2
<1>3. CASE status[t] = "WAITING_YARD_ENTRY"
  BY <1>3
<1>4. CASE status[t] = "IN_YARD"
  BY <1>4
<1>5. CASE status[t] = "AT_BORDER_GATE"
  BY <1>5
<1>6. CASE status[t] = "CUSTOMS_PROCESSING"
  BY <1>6
<1>7. CASE status[t] = "INSPECTION_REQUIRED"
  BY <1>7
<1>8. CASE status[t] = "BLOCKED"
  BY <1>8
<1>9. CASE status[t] = "DELAYED"
  BY <1>9
<1>10. CASE status[t] = "COMPLETED"
  BY <1>10
<1>11. CASE status[t] = "CANCELLED"
  BY <1>11
<1> QED
  BY <1>1, <1>2, <1>3, <1>4, <1>5, <1>6, <1>7, <1>8, <1>9, <1>10, <1>11 DEF TripStatuses

\* The events the trip's page offers are accepted, but for the two exceptions
\* (trip-operations.service.ts:113-168, 451-590 against the tables of
\* trip-state-transition.service.ts).
THEOREM OffersAreAccepted ==
    ASSUME OperationsAssumption
    PROVE  Spec => []OfferedIsAccepted
<1>1. TypeOK => OfferedIsAccepted
  <2> SUFFICES ASSUME TypeOK, NEW t \in Trips, NEW type \in availableManualActions(t)
               PROVE  \/ CanApplyEvent(status[t], type)
                      \/ /\ NextAction(t).code = "REQUEST_YARD_ENTRY"
                         /\ type = "WAITING_YARD_ENTRY"
                      \/ /\ NextAction(t).code = "CHECK_DELAY"
                         /\ type = "YARD_ENTRY_CONFIRMED"
                         /\ status[t] \in {"IN_PROGRESS", "CUSTOMS_PROCESSING",
                                            "INSPECTION_REQUIRED"}
    BY DEF OfferedIsAccepted
  <2>1. status[t] \in TripStatuses
    BY DEF TypeOK
  <2> QED
    BY <2>1, Accepted
<1> QED
  BY <1>1, ListsInvariance, PTL
=============================================================================
