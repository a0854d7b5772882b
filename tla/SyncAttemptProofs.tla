------------------------- MODULE SyncAttemptProofs -------------------------
(***************************************************************************)
(* Theorems about SyncAttempt, for every set of keys and feeds, every batch *)
(* size and any number of attempts, crashes and failed transactions: the    *)
(* counters of a run balance, a run that ends without an error has lost     *)
(* nothing, and no event is announced twice.                                *)
(***************************************************************************)
EXTENDS SyncAttempt, FiniteSetTheorems, SequenceTheorems, TLAPS

Working == pc \in {"reading", "applying", "announcing"}

\* The row's status, the open transaction and the events to announce say where
\* execute is.
PlaceInv ==
    /\ Working => status = "RUNNING"
    /\ status = "RETRYING" => pc = "idle"
    /\ status \in Terminal => pc = "over"
    /\ pc # "applying" => batch = << >>
    /\ pc # "announcing" => fresh = {}

\* Every record fetched so far is in a counter, pending, or in the open batch,
\* unless a batch was rolled back; then the attempt is drained.
FetchedInv ==
    Working =>
        /\ pos <= Len(feed) + 1
        /\ phase = "finishing" => pos = Len(feed) + 1
        /\ n.fetched = pos - 1
        /\ Sum(n) + Len(pending) + Len(batch) <= n.fetched
        /\ phase # "draining" => Sum(n) + Len(pending) + Len(batch) = n.fetched

\* Where the key of a record read by the attempt is, and which records were
\* rejected.
ReadInv ==
    Working =>
        /\ phase # "draining" =>
              \A i \in 1..(pos - 1) :
                 feed[i] # Bad => feed[i] \in events \union KeysOf(pending) \union KeysOf(batch)
        /\ n.rejected > 0 <=> \E i \in 1..(pos - 1) : feed[i] = Bad

\* Lookups only find events, and the events a commit creates are new.
EventsInv ==
    /\ seen \subseteq events
    /\ fresh \subseteq events
    /\ \A k \in fresh : announced[k] = 0

\* The inductive invariant.
IndInv ==
    /\ TypeOK
    /\ PlaceInv
    /\ FetchedInv
    /\ ReadInv
    /\ EventsInv
    /\ CountersBalance
    /\ NothingLost
    /\ AnnouncedAtMostOnce

-----------------------------------------------------------------------------
(* The keys of a sequence *)

LEMMA NoKeys == KeysOf(<< >>) = {}
BY DEF KeysOf

LEMMA OneKeyMore ==
    ASSUME NEW S, NEW s \in Seq(S), NEW k \in S
    PROVE  KeysOf(Append(s, k)) = KeysOf(s) \union {k}
<1>1. /\ Len(s) \in Nat /\ Len(Append(s, k)) = Len(s) + 1
      /\ Append(s, k)[Len(s) + 1] = k
      /\ \A i \in 1..Len(s) : Append(s, k)[i] = s[i]
  OBVIOUS
<1>2. \A i \in 1..(Len(s) + 1) : i \in 1..Len(s) \/ i = Len(s) + 1
  BY <1>1
<1>3. Len(s) + 1 \in 1..(Len(s) + 1) /\ 1..Len(s) \subseteq 1..(Len(s) + 1)
  BY <1>1
<1> QED
  BY <1>1, <1>2, <1>3, Zenon DEF KeysOf

\* A batch has no more new keys than it has commands.
LEMMA NewKeysAreFew ==
    ASSUME NEW s \in Seq(Keys), NEW S
    PROVE  /\ KeysOf(s) \subseteq Keys
           /\ Cardinality(KeysOf(s) \ S) \in 0..Len(s)
<1>1. Len(s) \in Nat /\ \A i \in 1..Len(s) : s[i] \in Keys
  OBVIOUS
<1>2. [i \in 1..Len(s) |-> s[i]] \in Surjection(1..Len(s), KeysOf(s))
  BY DEF Surjection, KeysOf
<1>3. IsFiniteSet(1..Len(s)) /\ Cardinality(1..Len(s)) = Len(s)
  BY <1>1, FS_Interval, SMTT(30)
<1>4. IsFiniteSet(KeysOf(s)) /\ Cardinality(KeysOf(s)) <= Len(s)
  BY <1>2, <1>3, FS_Surjection
<1>5. /\ IsFiniteSet(KeysOf(s) \ S)
      /\ Cardinality(KeysOf(s) \ S) <= Cardinality(KeysOf(s))
  BY <1>4, FS_Subset, KeysOf(s) \ S \in SUBSET KeysOf(s)
<1>6. Cardinality(KeysOf(s) \ S) \in Nat /\ Cardinality(KeysOf(s)) \in Nat
  BY <1>4, <1>5, FS_CardinalityType
<1>7. KeysOf(s) \subseteq Keys
  BY <1>1 DEF KeysOf
<1> QED
  BY <1>1, <1>4, <1>5, <1>6, <1>7

-----------------------------------------------------------------------------
(* It holds at the start *)

LEMMA InvInit == Init => IndInv
<1> SUFFICES ASSUME Init PROVE IndInv
  OBVIOUS
<1> USE AttemptAssumption DEF Init
<1>1. TypeOK
  BY DEF TypeOK, Zero, Counters, Records, Pcs, Phases, Errors
<1>2. PlaceInv /\ FetchedInv /\ ReadInv /\ EventsInv
  BY DEF PlaceInv, FetchedInv, ReadInv, EventsInv, Working, Terminal
<1>3. CountersBalance /\ NothingLost /\ AnnouncedAtMostOnce
  BY DEF CountersBalance, NothingLost, AnnouncedAtMostOnce, Terminal
<1> QED
  BY <1>1, <1>2, <1>3 DEF IndInv

-----------------------------------------------------------------------------
(* Every step keeps it *)

\* What a commit adds to the counters.
LEMMA CommitCounts ==
    ASSUME TypeOK, PlaceInv, EventsInv, CommitBatch
    PROVE  /\ fresh' = KeysOf(batch) \ seen
           /\ fresh' \subseteq Keys
           /\ Cardinality(fresh') \in 0..Len(batch)
           /\ Sum(n') = Sum(n) + Len(batch)
           /\ n'.fetched = n.fetched /\ n'.rejected = n.rejected
           /\ n' \in Counters /\ row' \in Counters
<1>1. batch \in Seq(Keys) /\ n \in Counters /\ row \in Counters
  BY DEF TypeOK
<1>2. fresh' = KeysOf(batch) \ seen
  BY DEF CommitBatch
<1>3. fresh' \subseteq Keys /\ Cardinality(fresh') \in 0..Len(batch)
  BY <1>1, <1>2, NewKeysAreFew
<1> DEFINE created == Cardinality(fresh')
           skipped == Len(batch) - Cardinality(fresh')
<1>4. Len(batch) \in Nat /\ created \in Nat /\ skipped \in Nat
      /\ created + skipped = Len(batch)
  BY <1>1, <1>3
<1>5. n' = Count(n, 0, created, skipped, 0) /\ row' = Count(row, 0, created, skipped, 0)
  BY DEF CommitBatch
<1> HIDE DEF created, skipped
<1>6. n' \in Counters /\ row' \in Counters
  BY <1>1, <1>4, <1>5, SMTT(30) DEF Count, Counters
<1>7. /\ n'.fetched = n.fetched /\ n'.rejected = n.rejected
      /\ n'.created = n.created + created /\ n'.skipped = n.skipped + skipped
  BY <1>1, <1>5 DEF Count, Counters
<1>8. n.created \in Nat /\ n.skipped \in Nat /\ n.rejected \in Nat
  BY <1>1 DEF Counters
<1>9. /\ Sum(n) = n.created + n.skipped + n.rejected
      /\ Sum(n') = (n.created + created) + (n.skipped + skipped) + n.rejected
  BY <1>7 DEF Sum
<1>10. Sum(n') = Sum(n) + Len(batch)
  BY <1>4, <1>8, <1>9, SMTT(60)
<1> QED
  BY <1>2, <1>3, <1>6, <1>7, <1>10

LEMMA TypeStep == IndInv /\ [Next]_vars => TypeOK'
<1> SUFFICES ASSUME IndInv, [Next]_vars PROVE TypeOK'
  OBVIOUS
<1> USE AttemptAssumption DEF IndInv, TypeOK, database, fetching, transaction, bounds
<1>1. CASE StartAttempt
  BY <1>1 DEF StartAttempt, Zero, Counters, Records, Pcs, Phases, Errors
<1>2. CASE RejectRecord
  BY <1>2, SMTT(30) DEF RejectRecord, Count, Counters
<1>3. CASE MapRecord
  <2>1. pos \in 1..Len(feed)
    BY <1>3 DEF MapRecord, Receives, FetchedInv, Working, Counters
  <2>2. feed[pos] \in Records /\ feed[pos] # Bad
    BY <1>3, <2>1 DEF MapRecord
  <2>3. feed[pos] \in Keys
    BY <2>2 DEF Records
  <2> QED
    BY <1>3, <2>3, SMTT(30) DEF MapRecord, Count, Counters
<1>4. CASE FeedEnds
  BY <1>4 DEF FeedEnds, Phases
<1>5. ASSUME NEW e \in Errors \ {"none"}, FeedFails(e) PROVE TypeOK'
  BY <1>5 DEF FeedFails, Phases
<1>6. CASE BeginFlush
  BY <1>6 DEF BeginFlush, Pcs
<1>7. CASE CommitBatch
  BY <1>7, CommitCounts DEF CommitBatch, Pcs
<1>8. CASE Announce
  BY <1>8 DEF Announce, Pcs
<1>9. CASE BatchCollides \/ BatchFails
  <2>1. LoseBatch /\ faults' \in 0..MaxFaults
    BY <1>9 DEF BatchCollides, BatchFails
  <2>2. /\ batch' = << >> /\ pc' \in Pcs /\ phase' \in Phases /\ error' \in Errors
        /\ UNCHANGED <<database, attempt, fetching, n, pending, seen, fresh, crashes>>
    BY <2>1 DEF LoseBatch, Pcs, Phases, Errors
  <2> QED
    BY <2>1, <2>2
<1>10. CASE Finish \/ Retry \/ GiveUp
  BY <1>10 DEF Finish, Retry, GiveUp, Settle, Pcs, Terminal
<1>11. CASE Crash
  BY <1>11 DEF Crash, Zero, Counters, Pcs
<1>12. ASSUME NEW k \in Keys, RivalInserts(k) PROVE TypeOK'
  BY <1>12 DEF RivalInserts
<1>13. CASE UNCHANGED vars
  BY <1>13 DEF vars
<1> QED
  BY <1>1, <1>2, <1>3, <1>4, <1>5, <1>6, <1>7, <1>8, <1>9, <1>10, <1>11, <1>12, <1>13
     DEF Next

LEMMA PlaceStep == IndInv /\ [Next]_vars => PlaceInv'
<1> SUFFICES ASSUME IndInv, [Next]_vars PROVE PlaceInv'
  OBVIOUS
<1> USE DEF IndInv, PlaceInv, Working, Terminal, database, fetching, transaction, bounds
<1>1. CASE StartAttempt
  BY <1>1 DEF StartAttempt
<1>2. CASE RejectRecord \/ MapRecord \/ FeedEnds
  BY <1>2 DEF RejectRecord, MapRecord, FeedEnds, Receives
<1>3. ASSUME NEW e \in Errors \ {"none"}, FeedFails(e) PROVE PlaceInv'
  BY <1>3 DEF FeedFails, Receives
<1>4. CASE BeginFlush \/ CommitBatch \/ Announce
  BY <1>4 DEF BeginFlush, CommitBatch, Announce
<1>5. CASE BatchCollides \/ BatchFails
  BY <1>5 DEF BatchCollides, BatchFails, LoseBatch
<1>6. CASE Finish \/ Retry \/ GiveUp
  BY <1>6 DEF Finish, Retry, GiveUp, Settle, AtEnd
<1>7. CASE Crash
  BY <1>7 DEF Crash
<1>8. ASSUME NEW k \in Keys, RivalInserts(k) PROVE PlaceInv'
  BY <1>8 DEF RivalInserts
<1>9. CASE UNCHANGED vars
  BY <1>9 DEF vars
<1> QED
  BY <1>1, <1>2, <1>3, <1>4, <1>5, <1>6, <1>7, <1>8, <1>9 DEF Next

LEMMA FetchedStep == IndInv /\ [Next]_vars => FetchedInv'
<1> SUFFICES ASSUME IndInv, [Next]_vars PROVE FetchedInv'
  OBVIOUS
<1> USE DEF IndInv, FetchedInv, Working, database, fetching, transaction, bounds
<1>0. /\ pos \in Nat /\ n \in Counters /\ Len(feed) \in Nat
      /\ pending \in Seq(Keys) /\ batch \in Seq(Keys)
      /\ Len(pending) \in Nat /\ Len(batch) \in Nat
  BY DEF TypeOK
<1>1. CASE StartAttempt
  <2>1. /\ n' = Zero /\ pos' = 1 /\ pending' = << >> /\ phase' = "fetching"
        /\ batch' = << >> /\ Len(feed') \in Nat
    BY <1>1, AttemptAssumption DEF StartAttempt, PlaceInv
  <2> QED
    BY <2>1 DEF Zero, Sum
<1>2. CASE RejectRecord
  BY <1>0, <1>2 DEF RejectRecord, Receives, Count, Counters, Sum
<1>3. CASE MapRecord
  <2>1. Len(pending') = Len(pending) + 1
    BY <1>0, <1>3 DEF MapRecord
  <2>2. n'.fetched = n.fetched + 1 /\ Sum(n') = Sum(n) /\ Sum(n) \in Nat
    BY <1>0, <1>3 DEF MapRecord, Count, Counters, Sum
  <2>3. /\ Working /\ phase = "fetching" /\ pos <= Len(feed) /\ pos' = pos + 1
        /\ feed' = feed /\ phase' = phase /\ batch' = batch
    BY <1>3 DEF MapRecord, Receives
  <2>4. /\ n.fetched = pos - 1 /\ n.fetched \in Nat
        /\ Sum(n) + Len(pending) + Len(batch) = n.fetched
    BY <1>0, <2>3 DEF Counters
  <2>5. /\ n'.fetched = pos' - 1 /\ pos' <= Len(feed) + 1
        /\ Sum(n') + Len(pending') + Len(batch') = n'.fetched
    BY ONLY <1>0, <2>1, <2>2, <2>3, <2>4
  <2> QED
    BY <1>0, <2>3, <2>5
<1>4. CASE FeedEnds
  BY <1>0, <1>4 DEF FeedEnds, Receives
<1>5. ASSUME NEW e \in Errors \ {"none"}, FeedFails(e) PROVE FetchedInv'
  BY <1>0, <1>5 DEF FeedFails, Receives
<1>6. CASE BeginFlush
  <2>1. batch = << >> /\ Len(batch) = 0 /\ Len(pending') = 0
    BY <1>6 DEF BeginFlush, PlaceInv
  <2>2. Sum(n) \in Nat
    BY <1>0 DEF Sum, Counters
  <2>3. Working /\ batch' = pending /\ UNCHANGED <<pos, feed, n, phase>>
    BY <1>6 DEF BeginFlush
  <2> QED
    BY <1>0, <2>1, <2>2, <2>3
<1>7. CASE CommitBatch
  <2>1. Len(batch') = 0 /\ Working /\ UNCHANGED <<pos, feed, pending, phase>>
    BY <1>7 DEF CommitBatch
  <2>2. Sum(n') = Sum(n) + Len(batch) /\ n'.fetched = n.fetched
    BY <1>7, CommitCounts
  <2>3. Sum(n) \in Nat
    BY <1>0 DEF Sum, Counters
  <2> QED
    BY <1>0, <2>1, <2>2, <2>3
<1>8. CASE Announce
  BY <1>0, <1>8 DEF Announce
<1>9. CASE BatchCollides \/ BatchFails
  <2>1. Len(batch') = 0 /\ phase' = "draining" /\ Working
    BY <1>9 DEF BatchCollides, BatchFails, LoseBatch
  <2>2. UNCHANGED <<pos, feed, n, pending>>
    BY <1>9 DEF BatchCollides, BatchFails, LoseBatch
  <2>3. Sum(n) \in Nat
    BY <1>0 DEF Sum, Counters
  <2> QED
    BY <1>0, <2>1, <2>2, <2>3
<1>10. CASE Finish \/ Retry \/ GiveUp
  BY <1>10 DEF Finish, Retry, GiveUp
<1>11. CASE Crash
  BY <1>11 DEF Crash
<1>12. ASSUME NEW k \in Keys, RivalInserts(k) PROVE FetchedInv'
  BY <1>0, <1>12 DEF RivalInserts
<1>13. CASE UNCHANGED vars
  BY <1>0, <1>13 DEF vars
<1> QED
  BY <1>1, <1>2, <1>3, <1>4, <1>5, <1>6, <1>7, <1>8, <1>9, <1>10, <1>11, <1>12, <1>13
     DEF Next

\* A commit turns every key of the batch into an event.
LEMMA CommitEvents ==
    ASSUME TypeOK, EventsInv, CommitBatch
    PROVE  /\ events \subseteq events' /\ KeysOf(batch) \subseteq events'
           /\ fresh' \subseteq events' /\ fresh' \intersect events = {}
           /\ seen' \subseteq events'
<1>1. ~ \E k \in KeysOf(batch) : k \notin seen /\ k \in events
  BY DEF CommitBatch, Collision
<1>2. fresh' = KeysOf(batch) \ seen /\ events' = events \union fresh' /\ seen' = seen
  BY DEF CommitBatch
<1> QED
  BY <1>1, <1>2 DEF EventsInv

LEMMA ReadStep == IndInv /\ [Next]_vars => ReadInv'
<1> SUFFICES ASSUME IndInv, [Next]_vars PROVE ReadInv'
  OBVIOUS
<1> USE DEF IndInv, ReadInv, Working, database, fetching, transaction, bounds
<1>0. /\ pos \in Nat /\ n \in Counters /\ n.rejected \in Nat
      /\ feed \in Seq(Records) /\ Len(feed) \in Nat
      /\ pending \in Seq(Keys) /\ batch \in Seq(Keys)
  BY DEF TypeOK, Counters
<1> DEFINE Placed(i) == feed[i] # Bad =>
              feed[i] \in events \union KeysOf(pending) \union KeysOf(batch)
           Rejects(p) == \E i \in 1..(p - 1) : feed[i] = Bad
<1>1. CASE StartAttempt
  <2>1. n' = Zero /\ pos' = 1
    BY <1>1 DEF StartAttempt
  <2> QED
    BY <2>1 DEF Zero
<1>2. CASE RejectRecord
  <2>1. /\ Working /\ phase = "fetching" /\ feed[pos] = Bad /\ pos' = pos + 1
        /\ UNCHANGED <<events, feed, pending, batch>>
    BY <1>2 DEF RejectRecord, Receives
  <2>2. pos \in 1..(pos' - 1) /\ \A i \in 1..(pos' - 1) : i \in 1..(pos - 1) \/ i = pos
    BY <1>0, <2>1 DEF FetchedInv, Counters
  <2>3. n'.rejected = n.rejected + 1
    BY <1>0, <1>2 DEF RejectRecord, Count
  <2>4. \A i \in 1..(pos' - 1) : Placed(i)'
    BY <2>1, <2>2
  <2>5. n'.rejected > 0 /\ Rejects(pos)'
    BY <1>0, <2>1, <2>2, <2>3
  <2> QED
    BY <2>1, <2>4, <2>5
<1>3. CASE MapRecord
  <2>1. /\ Working /\ phase = "fetching" /\ feed[pos] # Bad /\ pos' = pos + 1
        /\ pos <= Len(feed)
        /\ UNCHANGED <<events, feed, batch>> /\ pending' = Append(pending, feed[pos])
    BY <1>3 DEF MapRecord, Receives
  <2>2. pos \in 1..(pos' - 1) /\ \A i \in 1..(pos' - 1) : i \in 1..(pos - 1) \/ i = pos
    BY <1>0, <2>1 DEF FetchedInv, Counters
  <2>3. n'.rejected = n.rejected
    BY <1>0, <1>3 DEF MapRecord, Count
  <2>4. feed[pos] \in Keys
    <3>1. feed[pos] \in Records
      BY <1>0, <2>1, <2>2
    <3> QED
      BY <2>1, <3>1 DEF Records
  <2>5. KeysOf(pending') = KeysOf(pending) \union {feed[pos]}
    BY <1>0, <2>1, <2>4, OneKeyMore
  <2>6. \A i \in 1..(pos' - 1) : Placed(i)'
    BY <2>1, <2>2, <2>5
  <2>7. Rejects(pos)' <=> Rejects(pos)
    BY <2>1, <2>2, <1>0
  <2> QED
    BY <2>1, <2>3, <2>6, <2>7
<1>4. CASE FeedEnds
  BY <1>4 DEF FeedEnds, Receives
<1>5. ASSUME NEW e \in Errors \ {"none"}, FeedFails(e) PROVE ReadInv'
  BY <1>5 DEF FeedFails, Receives
<1>6. CASE BeginFlush
  <2>1. KeysOf(batch) = {} /\ KeysOf(pending') = {}
    BY <1>6, NoKeys DEF BeginFlush, PlaceInv
  <2>2. Working /\ UNCHANGED <<events, feed, pos, n, phase>> /\ batch' = pending
    BY <1>6 DEF BeginFlush
  <2> QED
    BY <2>1, <2>2
<1>7. CASE CommitBatch
  <2>1. Working /\ UNCHANGED <<feed, pos, pending, phase>>
    BY <1>7 DEF CommitBatch
  <2>2. events \subseteq events' /\ KeysOf(batch) \subseteq events'
    BY <1>7, CommitEvents
  <2>3. n'.rejected = n.rejected
    BY <1>7, CommitCounts
  <2> QED
    BY <2>1, <2>2, <2>3
<1>8. CASE Announce
  BY <1>8 DEF Announce
<1>9. CASE BatchCollides \/ BatchFails
  BY <1>9 DEF BatchCollides, BatchFails, LoseBatch
<1>10. CASE Finish \/ Retry \/ GiveUp
  BY <1>10 DEF Finish, Retry, GiveUp
<1>11. CASE Crash
  BY <1>11 DEF Crash
<1>12. ASSUME NEW k \in Keys, RivalInserts(k) PROVE ReadInv'
  BY <1>12 DEF RivalInserts
<1>13. CASE UNCHANGED vars
  BY <1>13 DEF vars
<1> QED
  BY <1>1, <1>2, <1>3, <1>4, <1>5, <1>6, <1>7, <1>8, <1>9, <1>10, <1>11, <1>12, <1>13
     DEF Next

LEMMA EventsStep == IndInv /\ [Next]_vars => EventsInv' /\ AnnouncedAtMostOnce'
<1> SUFFICES ASSUME IndInv, [Next]_vars PROVE EventsInv' /\ AnnouncedAtMostOnce'
  OBVIOUS
<1> USE DEF IndInv, EventsInv, AnnouncedAtMostOnce, database, fetching, transaction, bounds
<1>0. announced \in [Keys -> Nat] /\ fresh \subseteq Keys
  BY DEF TypeOK
<1>1. CASE StartAttempt
  BY <1>1 DEF StartAttempt
<1>2. CASE RejectRecord \/ MapRecord \/ FeedEnds
  BY <1>2 DEF RejectRecord, MapRecord, FeedEnds
<1>3. ASSUME NEW e \in Errors \ {"none"}, FeedFails(e)
      PROVE EventsInv' /\ AnnouncedAtMostOnce'
  BY <1>3 DEF FeedFails
<1>4. CASE BeginFlush
  BY <1>4 DEF BeginFlush
<1>5. CASE CommitBatch
  <2>1. announced' = announced /\ fresh' \subseteq Keys
    BY <1>5, CommitCounts DEF CommitBatch
  <2>2. /\ events \subseteq events' /\ fresh' \subseteq events' /\ seen' \subseteq events'
        /\ fresh' \intersect events = {}
    BY <1>5, CommitEvents
  <2>3. \A k \in fresh' : announced[k] = 0
    BY <1>0, <2>1, <2>2
  <2> QED
    BY <2>1, <2>2, <2>3
<1>6. CASE Announce
  <2>1. /\ announced' = [k \in Keys |-> announced[k] + IF k \in fresh \ Corrections THEN 1 ELSE 0]
        /\ fresh' = {} /\ UNCHANGED <<events, seen>>
    BY <1>6 DEF Announce
  <2>2. ASSUME NEW k \in Keys
        PROVE  announced'[k] <= 1 /\ (announced'[k] = 1 => k \in events)
    <3>1. CASE k \in fresh \ Corrections
      BY <1>0, <2>1, <3>1
    <3>2. CASE k \notin fresh \ Corrections
      BY <1>0, <2>1, <3>2
    <3> QED
      BY <3>1, <3>2
  <2> QED
    BY <2>1, <2>2
<1>7. CASE BatchCollides \/ BatchFails
  BY <1>7 DEF BatchCollides, BatchFails, LoseBatch
<1>8. CASE Finish \/ Retry \/ GiveUp
  BY <1>8 DEF Finish, Retry, GiveUp, Settle
<1>9. CASE Crash
  BY <1>9 DEF Crash
<1>10. ASSUME NEW k \in Keys, RivalInserts(k) PROVE EventsInv' /\ AnnouncedAtMostOnce'
  BY <1>10 DEF RivalInserts
<1>11. CASE UNCHANGED vars
  BY <1>11 DEF vars
<1> QED
  BY <1>1, <1>2, <1>3, <1>4, <1>5, <1>6, <1>7, <1>8, <1>9, <1>10, <1>11 DEF Next

\* What an attempt that ends without a throw has found.
LEMMA FinishFacts ==
    ASSUME IndInv, Finish
    PROVE  /\ n.fetched = Sum(n) /\ n.fetched = Len(feed)
           /\ KeysOf(feed) \ {Bad} \subseteq events
           /\ n.fetched > 0 /\ n.rejected > 0 <=> Bad \in KeysOf(feed)
<1> USE DEF IndInv
<1>1. pc = "reading" /\ phase = "finishing" /\ pending = << >>
  BY DEF Finish, AtEnd
<1>2. batch = << >> /\ Len(batch) = 0 /\ Len(pending) = 0
  BY <1>1 DEF PlaceInv
<1>3. n \in Counters /\ Len(feed) \in Nat /\ pos \in Nat
  BY DEF TypeOK
<1>4. n.fetched \in Nat /\ n.rejected \in Nat /\ n.created \in Nat /\ n.skipped \in Nat
  BY <1>3 DEF Counters
<1>5. /\ pos = Len(feed) + 1 /\ n.fetched = pos - 1
      /\ Sum(n) + Len(pending) + Len(batch) = n.fetched
  BY <1>1 DEF FetchedInv, Working
<1>6. Sum(n) = n.created + n.skipped + n.rejected
  BY DEF Sum
<1>7. n.fetched = Sum(n) /\ n.fetched = Len(feed) /\ (n.rejected > 0 => n.fetched > 0)
  BY <1>2, <1>3, <1>4, <1>5, <1>6, SMTT(20)
<1>8. pos - 1 = Len(feed)
  BY <1>3, <1>5
<1>9. /\ \A i \in 1..Len(feed) :
            feed[i] # Bad => feed[i] \in events \union KeysOf(pending) \union KeysOf(batch)
      /\ n.rejected > 0 <=> \E i \in 1..Len(feed) : feed[i] = Bad
  BY <1>1, <1>8 DEF ReadInv, Working
<1>10. KeysOf(pending) = {} /\ KeysOf(batch) = {}
  BY <1>1, <1>2, NoKeys
<1>11. /\ KeysOf(feed) \ {Bad} \subseteq events
       /\ n.rejected > 0 <=> Bad \in KeysOf(feed)
  BY <1>9, <1>10 DEF KeysOf
<1> QED
  BY <1>7, <1>11

LEMMA SettledStep == IndInv /\ [Next]_vars => CountersBalance' /\ NothingLost'
<1> SUFFICES ASSUME IndInv, [Next]_vars PROVE CountersBalance' /\ NothingLost'
  OBVIOUS
<1> USE DEF IndInv, Terminal, database, fetching, transaction, bounds
<1>1. CASE StartAttempt
  BY <1>1 DEF StartAttempt, CountersBalance, NothingLost
<1>2. ASSUME Working, status' = status PROVE CountersBalance' /\ NothingLost'
  BY <1>2 DEF PlaceInv, CountersBalance, NothingLost
<1>3. CASE RejectRecord \/ MapRecord \/ FeedEnds
  BY <1>2, <1>3 DEF RejectRecord, MapRecord, FeedEnds, Receives, Working
<1>4. ASSUME NEW e \in Errors \ {"none"}, FeedFails(e)
      PROVE CountersBalance' /\ NothingLost'
  BY <1>2, <1>4 DEF FeedFails, Receives, Working
<1>5. CASE BeginFlush \/ CommitBatch \/ Announce
  BY <1>2, <1>5 DEF BeginFlush, CommitBatch, Announce, Working
<1>6. CASE BatchCollides \/ BatchFails
  BY <1>2, <1>6 DEF BatchCollides, BatchFails, LoseBatch, Working
<1>7. CASE Finish
  <2>1. /\ status' = IF n.fetched > 0 /\ n.rejected > 0 THEN "PARTIAL" ELSE "SUCCEEDED"
        /\ row' = n /\ UNCHANGED <<events, feed>>
    BY <1>7 DEF Finish, Settle
  <2>2. /\ n.fetched = Sum(n) /\ n.fetched = Len(feed)
        /\ KeysOf(feed) \ {Bad} \subseteq events
        /\ n.fetched > 0 /\ n.rejected > 0 <=> Bad \in KeysOf(feed)
    BY <1>7, FinishFacts
  <2>3. n.fetched \in Nat
    BY DEF TypeOK, Counters
  <2>4. row'.fetched = Sum(row') /\ row'.fetched = Len(feed') /\ Sum(row') <= row'.fetched
    BY <2>1, <2>2, <2>3
  <2>5. CountersBalance'
    BY <2>4 DEF CountersBalance
  <2>6. NothingLost'
    BY <2>1, <2>2 DEF NothingLost
  <2> QED
    BY <2>5, <2>6
<1>8. CASE Retry \/ GiveUp
  <2>1. /\ status' \in {"RETRYING", "TIMEOUT", "FAILED"} /\ row' = n
        /\ pc = "reading"
    BY <1>8 DEF Retry, GiveUp, Settle, AtEnd
  <2>2. Sum(n) <= n.fetched
    <3>1. Sum(n) + Len(pending) + Len(batch) <= n.fetched
      BY <2>1 DEF FetchedInv, Working
    <3>2. Sum(n) \in Nat /\ n.fetched \in Nat /\ Len(pending) \in Nat /\ Len(batch) \in Nat
      BY DEF TypeOK, Counters, Sum
    <3> QED
      BY <3>1, <3>2
  <2> QED
    BY <2>1, <2>2 DEF CountersBalance, NothingLost
<1>9. CASE Crash
  BY <1>2, <1>9 DEF Crash, Working
<1>10. ASSUME NEW k \in Keys, RivalInserts(k) PROVE CountersBalance' /\ NothingLost'
  BY <1>10 DEF RivalInserts, CountersBalance, NothingLost
<1>11. CASE UNCHANGED vars
  BY <1>11 DEF vars, CountersBalance, NothingLost
<1> QED
  BY <1>1, <1>3, <1>4, <1>5, <1>6, <1>7, <1>8, <1>9, <1>10, <1>11 DEF Next

LEMMA InvStep == IndInv /\ [Next]_vars => IndInv'
BY TypeStep, PlaceStep, FetchedStep, ReadStep, EventsStep, SettledStep DEF IndInv

-----------------------------------------------------------------------------
(* The theorems *)

\* The inductive invariant holds in every state of a run.
THEOREM Invariance == Spec => []IndInv
BY InvInit, InvStep, PTL DEF Spec

\* The counters, batches and events keep their types: no counter goes negative,
\* however many keys a batch repeats.
THEOREM TypeCorrect == Spec => []TypeOK
<1>1. IndInv => TypeOK
  BY DEF IndInv
<1> QED
  BY <1>1, Invariance, PTL

\* A run that ends without an error has accounted for every record of its last
\* fetch, and no status write claims more outcomes than records were fetched.
THEOREM Balances == Spec => []CountersBalance
<1>1. IndInv => CountersBalance
  BY DEF IndInv
<1> QED
  BY <1>1, Invariance, PTL

\* A run that ends without an error has an event for every record it could map,
\* whatever failed before, and says PARTIAL exactly if it rejected one.
THEOREM LosesNothing == Spec => []NothingLost
<1>1. IndInv => NothingLost
  BY DEF IndInv
<1> QED
  BY <1>1, Invariance, PTL

\* Neither repeated attempts nor crashes nor rivals make an event announced twice,
\* or before it is persisted.
THEOREM AnnouncesOnce == Spec => []AnnouncedAtMostOnce
<1>1. IndInv => AnnouncedAtMostOnce
  BY DEF IndInv
<1> QED
  BY <1>1, Invariance, PTL
=============================================================================
