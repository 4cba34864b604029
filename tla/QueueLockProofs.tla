---------------------------- MODULE QueueLockProofs ----------------------------
(***************************************************************************)
(* Proofs about the queue lock of trainer/queue.go, for any number of      *)
(* replicas and goroutines and any timing constants.                       *)
(***************************************************************************)
EXTENDS QueueLock, TLAPS

(* Every action keeps the variables of Lock and Unlock in their types. *)
LEMMA TypeStep == TypeOK /\ [Next]_vars => TypeOK'
<1> USE ConstantsAssumption DEF TypeOK, Location, Document
<1>1. ASSUME TypeOK, NEW p \in Goroutine
      PROVE LockEntry(p) \in Document
  BY <1>1 DEF LockEntry, Clock
<1>2. ASSUME TypeOK, NEW p \in Goroutine, CallLock(p) PROVE TypeOK'
  BY <1>2 DEF CallLock
<1>3. ASSUME TypeOK, NEW p \in Goroutine, RemoveExpired(p) PROVE TypeOK'
  BY <1>3 DEF RemoveExpired
<1>4. ASSUME TypeOK, NEW p \in Goroutine, StampExpiry(p) PROVE TypeOK'
  BY <1>4 DEF StampExpiry
<1>5. ASSUME TypeOK, NEW p \in Goroutine, Insert(p) PROVE TypeOK'
  <2>1. locks' \subseteq Document /\ beaten' \in [Goroutine -> BOOLEAN]
    BY <1>1, <1>5 DEF Insert, AddDocument
  <2> HIDE DEF Document
  <2>2. /\ now' \in 0 .. MaxTime
        /\ pc' \in [Goroutine -> Location]
        /\ attempt' \in [Goroutine -> 0 .. LockRetries - 1]
        /\ mark' \in [Goroutine -> Nat]
    BY <1>5 DEF Insert
  <2> QED
    BY <2>1, <2>2
<1>6. ASSUME TypeOK, NEW p \in Goroutine, InsertFails(p) PROVE TypeOK'
  <2>1. locks' \subseteq Document /\ beaten' \in [Goroutine -> BOOLEAN]
    BY <1>1, <1>6 DEF InsertFails, AddDocument
  <2> HIDE DEF Document
  <2>2. /\ now' \in 0 .. MaxTime
        /\ pc' \in [Goroutine -> Location]
        /\ attempt' \in [Goroutine -> 0 .. LockRetries - 1]
        /\ mark' \in [Goroutine -> Nat]
    BY <1>6 DEF InsertFails
  <2> QED
    BY <2>1, <2>2
<1>7. ASSUME TypeOK, NEW p \in Goroutine, Retry(p) PROVE TypeOK'
  BY <1>7 DEF Retry, MoreAttempts
<1>8. ASSUME TypeOK, NEW p \in Goroutine, GiveUp(p) PROVE TypeOK'
  BY <1>8 DEF GiveUp, LockReturns
<1>9. ASSUME TypeOK, NEW p \in Goroutine, Unlock(p) PROVE TypeOK'
  BY <1>9 DEF Unlock, LockReturns
<1>10. ASSUME TypeOK, NEW o \in Owner, Crash(o) PROVE TypeOK'
  BY <1>10 DEF Crash
<1>11. ASSUME TypeOK, Tick PROVE TypeOK'
  BY <1>11 DEF Tick
<1>12. ASSUME TypeOK, UNCHANGED vars PROVE TypeOK'
  BY <1>12 DEF vars
<1> QED
  BY <1>2, <1>3, <1>4, <1>5, <1>6, <1>7, <1>8, <1>9, <1>10, <1>11, <1>12 DEF Next

(* Type correctness of the lock: documents, loop counters and times stay in *)
(* range; in particular Lock makes at most LockRetries attempts.            *)
THEOREM TypeCorrect == Spec => []TypeOK
<1>1. Init => TypeOK
  BY ConstantsAssumption DEF Init, TypeOK, Location
<1> QED
  BY <1>1, TypeStep, PTL DEF Spec

--------------------------------------------------------------------------------
(***************************************************************************)
(* Mutual exclusion.  The argument: a holder's document is in the          *)
(* collection as long as it holds the lock, because nobody's clock can     *)
(* pass its expiry before HoldBound seconds are over, and while it is      *)
(* there nobody else's insert succeeds.                                    *)
(***************************************************************************)

(* A clock value that a goroutine carries was read in the past. *)
MarksPast ==
    \A p \in Goroutine : pc[p] \in {"purge", "stamp", "insert", "held"} => mark[p] <= now

(* Tick has kept every holder within its time. *)
HoldsInTime ==
    \A p \in Goroutine : pc[p] \in {"insert", "held"} => now <= mark[p] + HoldBound

OneDocument == \A d, e \in locks : d = e

HolderHasDocument == \A p \in Goroutine : pc[p] = "held" => LockEntry(p) \in locks

MutexInv ==
    /\ TypeOK
    /\ MarksPast
    /\ HoldsInTime
    /\ OneDocument
    /\ HolderHasDocument
    /\ Mutex

(* No step of any goroutine, clock or crash breaks the mutual exclusion *)
(* invariant when the leases are long enough.                           *)
LEMMA MutexStep ==
    ASSUME LeaseCoversHold, MutexInv, [Next]_vars
    PROVE  MutexInv'
<1> USE ConstantsAssumption
<1>0. TypeOK'
  BY TypeStep DEF MutexInv
<1> SUFFICES (MarksPast /\ HoldsInTime /\ OneDocument /\ HolderHasDocument /\ Mutex)'
  BY <1>0 DEF MutexInv
<1> USE <1>0 DEF MutexInv, TypeOK, MarksPast, HoldsInTime, OneDocument,
                 HolderHasDocument, Mutex, LockEntry, Clock
<1>1. ASSUME NEW p \in Goroutine, CallLock(p)
      PROVE (MarksPast /\ HoldsInTime /\ OneDocument /\ HolderHasDocument /\ Mutex)'
  BY <1>1 DEF CallLock
<1>2. ASSUME NEW p \in Goroutine, RemoveExpired(p)
      PROVE (MarksPast /\ HoldsInTime /\ OneDocument /\ HolderHasDocument /\ Mutex)'
  <2>1. ASSUME NEW q \in Goroutine, pc[q] = "held" PROVE LockEntry(q) \in locks'
    <3>1. /\ mark[p] <= now /\ now <= mark[q] + HoldBound
          /\ Skew[QueueID[p]] \in 0 .. MaxSkew /\ Skew[QueueID[q]] \in 0 .. MaxSkew
          /\ mark[p] \in Nat /\ mark[q] \in Nat /\ now \in Nat
      BY <1>2, <2>1 DEF RemoveExpired
    <3>2. LockEntry(q).expires >= Clock(p, mark[p])
      BY <3>1 DEF LeaseCoversHold
    <3> QED
      BY <1>2, <2>1, <3>2 DEF RemoveExpired
  <2> QED
    BY <1>2, <2>1 DEF RemoveExpired
<1>3. ASSUME NEW p \in Goroutine, StampExpiry(p)
      PROVE (MarksPast /\ HoldsInTime /\ OneDocument /\ HolderHasDocument /\ Mutex)'
  BY <1>3 DEF StampExpiry
<1>4. ASSUME NEW p \in Goroutine, Insert(p)
      PROVE (MarksPast /\ HoldsInTime /\ OneDocument /\ HolderHasDocument /\ Mutex)'
  <2>1. locks = {}
    BY <1>4 DEF Insert, InsertAllowed, LeaseCoversHold
  <2> QED
    BY <1>4, <2>1 DEF Insert, AddDocument
<1>5. ASSUME NEW p \in Goroutine, InsertFails(p)
      PROVE (MarksPast /\ HoldsInTime /\ OneDocument /\ HolderHasDocument /\ Mutex)'
  <2>1. locks' = locks \/ (locks = {} /\ locks' = {LockEntry(p)})
    BY <1>5 DEF InsertFails, InsertAllowed, AddDocument, LeaseCoversHold
  <2> QED
    BY <1>5, <2>1 DEF InsertFails
<1>6. ASSUME NEW p \in Goroutine, Retry(p)
      PROVE (MarksPast /\ HoldsInTime /\ OneDocument /\ HolderHasDocument /\ Mutex)'
  BY <1>6 DEF Retry
<1>7. ASSUME NEW p \in Goroutine, GiveUp(p)
      PROVE (MarksPast /\ HoldsInTime /\ OneDocument /\ HolderHasDocument /\ Mutex)'
  BY <1>7 DEF GiveUp, LockReturns
<1>8. ASSUME NEW p \in Goroutine, Unlock(p)
      PROVE (MarksPast /\ HoldsInTime /\ OneDocument /\ HolderHasDocument /\ Mutex)'
  <2>1. \A q \in Goroutine : pc'[q] # "held"
    BY <1>8 DEF Unlock
  <2> QED
    BY <1>8, <2>1 DEF Unlock, LockReturns
<1>9. ASSUME NEW o \in Owner, Crash(o)
      PROVE (MarksPast /\ HoldsInTime /\ OneDocument /\ HolderHasDocument /\ Mutex)'
  BY <1>9 DEF Crash
<1>10. ASSUME Tick
       PROVE (MarksPast /\ HoldsInTime /\ OneDocument /\ HolderHasDocument /\ Mutex)'
  BY <1>10 DEF Tick, InTime
<1>11. ASSUME UNCHANGED vars
       PROVE (MarksPast /\ HoldsInTime /\ OneDocument /\ HolderHasDocument /\ Mutex)'
  BY <1>11 DEF vars
<1> QED
  BY <1>1, <1>2, <1>3, <1>4, <1>5, <1>6, <1>7, <1>8, <1>9, <1>10, <1>11 DEF Next

(* The invariant behind mutual exclusion holds of every reachable state. *)
LEMMA MutexInvariant == ASSUME LeaseCoversHold PROVE Spec => []MutexInv
<1>1. Init => MutexInv
  BY ConstantsAssumption DEF Init, MutexInv, TypeOK, Location, MarksPast, HoldsInTime,
     OneDocument, HolderHasDocument, Mutex
<1>2. MutexInv /\ [Next]_vars => MutexInv'
  BY MutexStep
<1> QED
  BY <1>1, <1>2, PTL DEF Spec

(* At most one goroutine holds the queue: the promise of the comment on Lock *)
(* (queue.go:233), provided that the unique index exists and that the time a *)
(* goroutine holds the lock plus the clock skew fits into lockExpiration.    *)
THEOREM MutualExclusion == ASSUME LeaseCoversHold PROVE Spec => []Mutex
<1>1. MutexInv => Mutex
  BY DEF MutexInv
<1> QED
  BY <1>1, MutexInvariant, PTL

--------------------------------------------------------------------------------
(***************************************************************************)
(* Giving up.  The argument: as long as nobody has inserted a document     *)
(* since the call began, every document in the collection is as old as the *)
(* call, and each failed attempt makes it LockRetryDelay older still.  By  *)
(* the last attempt all of them have expired, so the insert succeeds.      *)
(***************************************************************************)

(* The loop counter is a local variable of Lock. *)
CounterReset == \A p \in Goroutine : pc[p] \in {"idle", "held"} => attempt[p] = 0

ExpiryBound == \A d \in locks : d.expires <= now + MaxSkew + LockExpiration

Trying == {"purge", "stamp", "insert"}

(* Documents older than p's call expire by the time that call began. *)
OldDocuments ==
    \A p \in Goroutine : ~beaten[p] =>
        /\ pc[p] \in Trying => \A d \in locks :
             d.expires + attempt[p] * LockRetryDelay <= mark[p] + MaxSkew + LockExpiration
        /\ pc[p] = "asleep" => \A d \in locks :
             d.expires + attempt[p] * LockRetryDelay + LockRetryDelay
                 <= mark[p] + MaxSkew + LockExpiration

LastAttempt(p) == attempt[p] = LockRetries - 1

LastAttemptWins ==
    \A p \in Goroutine : LastAttempt(p) /\ ~beaten[p] =>
        /\ pc[p] \in {"stamp", "insert"} => locks = {}
        /\ pc[p] # "asleep"

GiveUpInv ==
    /\ TypeOK
    /\ MarksPast
    /\ CounterReset
    /\ ExpiryBound
    /\ OldDocuments
    /\ LastAttemptWins

(* No step breaks the invariant on the ages of lock documents when the retries *)
(* take longer than a lease.                                                   *)
LEMMA GiveUpStep ==
    ASSUME RetriesOutlastLease, GiveUpInv, [Next]_vars
    PROVE  GiveUpInv'
<1> USE ConstantsAssumption
<1>0. TypeOK'
  BY TypeStep DEF GiveUpInv
<1> DEFINE Rest == MarksPast /\ CounterReset /\ ExpiryBound /\ OldDocuments /\ LastAttemptWins
<1> SUFFICES Rest'
  BY <1>0 DEF GiveUpInv
<1>a. \A p \in Goroutine : /\ attempt[p] * LockRetryDelay \in Nat
                           /\ (attempt[p] + 1) * LockRetryDelay
                                = attempt[p] * LockRetryDelay + LockRetryDelay
  BY DEF GiveUpInv, TypeOK
<1>b. \A d \in locks : d.expires \in Int
  BY DEF GiveUpInv, TypeOK, Document
<1> USE DEF GiveUpInv, TypeOK, MarksPast, CounterReset, ExpiryBound, OldDocuments,
            LastAttemptWins, LastAttempt, Trying
<1>1. ASSUME NEW p \in Goroutine, CallLock(p) PROVE Rest'
  BY <1>1, <1>b DEF CallLock
<1>2. ASSUME NEW p \in Goroutine, RemoveExpired(p) PROVE Rest'
  BY <1>2, <1>a, <1>b DEF RemoveExpired, Clock, RetriesOutlastLease
<1>3. ASSUME NEW p \in Goroutine, StampExpiry(p) PROVE Rest'
  BY <1>3, <1>a, <1>b DEF StampExpiry
<1>4. ASSUME NEW p \in Goroutine, Insert(p) PROVE Rest'
  BY <1>4, <1>a, <1>b DEF Insert, AddDocument, LockEntry, Clock
<1>5. ASSUME NEW p \in Goroutine, InsertFails(p) PROVE Rest'
  BY <1>5, <1>a, <1>b DEF InsertFails, InsertAllowed, RetriesOutlastLease
<1>6. ASSUME NEW p \in Goroutine, Retry(p) PROVE Rest'
  BY <1>6, <1>a, <1>b DEF Retry, MoreAttempts
<1>7. ASSUME NEW p \in Goroutine, GiveUp(p) PROVE Rest'
  BY <1>7, <1>a, <1>b DEF GiveUp, LockReturns
<1>8. ASSUME NEW p \in Goroutine, Unlock(p) PROVE Rest'
  BY <1>8, <1>a, <1>b DEF Unlock, LockReturns
<1>9. ASSUME NEW o \in Owner, Crash(o) PROVE Rest'
  BY <1>9, <1>a, <1>b DEF Crash
<1>10. ASSUME Tick PROVE Rest'
  BY <1>10, <1>a, <1>b DEF Tick
<1>11. ASSUME UNCHANGED vars PROVE Rest'
  BY <1>11 DEF vars
<1> QED
  BY <1>1, <1>2, <1>3, <1>4, <1>5, <1>6, <1>7, <1>8, <1>9, <1>10, <1>11 DEF Next

(* Lock returns an error only if some other caller took the lock meanwhile: *)
(* with lockRetries = 15, lockRetryDelay = 5 and lockExpiration = 60, a     *)
(* trainer that crashed while holding the lock never makes a call fail.     *)
THEOREM NeverGivesUpOnAStaleLock ==
    ASSUME RetriesOutlastLease PROVE Spec => GiveUpOnlyIfContended
<1>1. Init => GiveUpInv
  BY ConstantsAssumption DEF Init, GiveUpInv, TypeOK, Location, MarksPast, CounterReset,
     ExpiryBound, OldDocuments, LastAttemptWins, Trying
<1>2. GiveUpInv /\ [Next]_vars => GiveUpInv'
  BY GiveUpStep
<1>3. GiveUpInv => [\A p \in Goroutine : GiveUp(p) => beaten[p]]_vars
  BY ConstantsAssumption DEF GiveUpInv, TypeOK, LastAttemptWins, LastAttempt, GiveUp, MoreAttempts
<1> QED
  BY <1>1, <1>2, <1>3, PTL DEF Spec, GiveUpOnlyIfContended

--------------------------------------------------------------------------------
(***************************************************************************)
(* Refinement.  With at most one document in the collection, its owner and *)
(* the set of holders behave as LeaseLock says.  Expire is possible only   *)
(* for a document without a holder: HolderHasDocument and the timing.      *)
(***************************************************************************)

(* Each step of the lock with clocks is a step of the abstract lock or leaves *)
(* it unchanged.                                                             *)
LEMMA LeaseStep ==
    ASSUME LeaseCoversHold, MutexInv, MutexInv', [Next]_vars
    PROVE  [Lease!Next]_(Lease!vars)
<1> USE ConstantsAssumption
<1> DEFINE stutter == UNCHANGED <<DocumentOwner, Holders>>
<1>a. stutter => [Lease!Next]_(Lease!vars)
  BY DEF Lease!vars
<1>b. ASSUME NEW p \in Goroutine,
             Lease!Acquire(p) \/ Lease!AcquireLost(p) \/ Lease!Release(p)
      PROVE [Lease!Next]_(Lease!vars)
  BY <1>b DEF Lease!Next
<1>1. ASSUME NEW p \in Goroutine, CallLock(p) PROVE stutter
  BY <1>1 DEF CallLock, DocumentOwner, Holders, MutexInv, TypeOK
<1>2. ASSUME NEW p \in Goroutine, RemoveExpired(p) PROVE [Lease!Next]_(Lease!vars)
  <2>1. Holders' = Holders
    BY <1>2 DEF RemoveExpired, Holders, MutexInv, TypeOK
  <2>2. CASE locks' = locks
    BY <1>a, <2>1, <2>2 DEF DocumentOwner
  <2>3. CASE locks' # locks
    <3>1. PICK d \in locks : locks = {d}
      BY <1>2, <2>3 DEF RemoveExpired, MutexInv, OneDocument
    <3>2. locks' = {}
      BY <1>2, <2>3, <3>1 DEF RemoveExpired
    <3>3. \A q \in Holders : FALSE
      BY <2>1, <3>2 DEF Holders, MutexInv, HolderHasDocument
    <3>4. DocumentOwner = d.owner /\ d.owner \in Owner /\ DocumentOwner' = NoOwner
      BY <3>1, <3>2 DEF DocumentOwner, MutexInv, TypeOK, Document
    <3>5. Lease!Expire
      BY <2>1, <3>3, <3>4 DEF Lease!Expire
    <3> QED
      BY <3>5 DEF Lease!Next
  <2> QED
    BY <2>2, <2>3
<1>3. ASSUME NEW p \in Goroutine, StampExpiry(p) PROVE stutter
  BY <1>3 DEF StampExpiry, DocumentOwner, Holders, MutexInv, TypeOK
<1>4. ASSUME NEW p \in Goroutine, Insert(p) PROVE [Lease!Next]_(Lease!vars)
  <2>1. locks = {} /\ locks' = {LockEntry(p)}
    BY <1>4 DEF Insert, InsertAllowed, AddDocument, LeaseCoversHold
  <2>2. DocumentOwner = NoOwner /\ DocumentOwner' = QueueID[p]
    <3>1. LockEntry(p).owner = QueueID[p]
      BY DEF LockEntry
    <3> QED
      BY <2>1, <3>1 DEF DocumentOwner
  <2>3. p \notin Holders /\ Holders' = Holders \cup {p}
    BY <1>4 DEF Insert, Holders, MutexInv, TypeOK
  <2>4. Lease!Acquire(p)
    BY <2>2, <2>3 DEF Lease!Acquire
  <2> QED
    BY <1>b, <2>4
<1>5. ASSUME NEW p \in Goroutine, InsertFails(p) PROVE [Lease!Next]_(Lease!vars)
  <2>1. Holders' = Holders
    BY <1>5 DEF InsertFails, Holders, MutexInv, TypeOK
  <2>2. CASE locks' = locks
    BY <1>a, <2>1, <2>2 DEF DocumentOwner
  <2>3. CASE locks' # locks
    <3>1. locks = {} /\ locks' = {LockEntry(p)}
      BY <1>5, <2>3 DEF InsertFails, InsertAllowed, AddDocument, LeaseCoversHold
    <3>2. DocumentOwner = NoOwner /\ DocumentOwner' = QueueID[p]
      <4>1. LockEntry(p).owner = QueueID[p]
        BY DEF LockEntry
      <4> QED
        BY <3>1, <4>1 DEF DocumentOwner
    <3>3. Lease!AcquireLost(p)
      BY <2>1, <3>2 DEF Lease!AcquireLost
    <3> QED
      BY <1>b, <3>3
  <2> QED
    BY <2>2, <2>3
<1>6. ASSUME NEW p \in Goroutine, Retry(p) PROVE stutter
  BY <1>6 DEF Retry, DocumentOwner, Holders, MutexInv, TypeOK
<1>7. ASSUME NEW p \in Goroutine, GiveUp(p) PROVE stutter
  BY <1>7 DEF GiveUp, DocumentOwner, Holders, MutexInv, TypeOK
<1>8. ASSUME NEW p \in Goroutine, Unlock(p) PROVE [Lease!Next]_(Lease!vars)
  <2>1. p \in Holders /\ Holders' = Holders \ {p}
    BY <1>8 DEF Unlock, Holders, MutexInv, TypeOK
  <2>2. CASE locks' = locks
    BY <1>b, <2>1, <2>2 DEF DocumentOwner, Lease!Release
  <2>3. CASE locks' # locks
    <3>1. PICK d \in locks : d.owner = QueueID[p] /\ locks' = locks \ {d}
      BY <1>8, <2>3 DEF Unlock
    <3>2. locks = {d} /\ locks' = {}
      BY <3>1 DEF MutexInv, OneDocument
    <3>3. DocumentOwner = QueueID[p] /\ DocumentOwner' = NoOwner
      BY <3>1, <3>2 DEF DocumentOwner
    <3> QED
      BY <1>b, <2>1, <3>3 DEF Lease!Release
  <2> QED
    BY <2>2, <2>3
<1>9. ASSUME NEW o \in Owner, Crash(o) PROVE [Lease!Next]_(Lease!vars)
  <2>1. DocumentOwner' = DocumentOwner
    BY <1>9 DEF Crash, DocumentOwner
  <2>2. Holders' = {p \in Holders : QueueID[p] # o}
    BY <1>9 DEF Crash, Holders, MutexInv, TypeOK
  <2>3. Lease!Crash(o)
    BY <2>1, <2>2 DEF Lease!Crash
  <2> QED
    BY <2>3 DEF Lease!Next
<1>10. ASSUME Tick PROVE stutter
  BY <1>10 DEF Tick, DocumentOwner, Holders
<1>11. ASSUME UNCHANGED vars PROVE stutter
  BY <1>11 DEF vars, DocumentOwner, Holders
<1> HIDE DEF stutter
<1> QED
  BY <1>a, <1>1, <1>2, <1>3, <1>4, <1>5, <1>6, <1>7, <1>8, <1>9, <1>10, <1>11 DEF Next

(* Lock and Unlock, with their clocks, retries, failed calls and crashes, *)
(* implement the abstract lease lock that never loses a live holder's     *)
(* document.                                                              *)
THEOREM ImplementsLeaseLock == ASSUME LeaseCoversHold PROVE Spec => LeaseSpec
<1>1. Init => Lease!Init
  BY DEF Init, Lease!Init, DocumentOwner, Holders
<1>2. MutexInv /\ MutexInv' /\ [Next]_vars => [Lease!Next]_(Lease!vars)
  BY LeaseStep
<1> QED
  BY <1>1, <1>2, MutexInvariant, PTL DEF Spec, LeaseSpec, Lease!Spec
================================================================================
