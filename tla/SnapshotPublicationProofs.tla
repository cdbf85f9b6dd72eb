----------------------- MODULE SnapshotPublicationProofs -----------------------
(***************************************************************************)
(* What TLAPS proves of SnapshotPublication for every set of datasets and  *)
(* every number of attempts and restarts: outside a commit the registry    *)
(* holds the last good domain snapshot, and no scrape pairs a new snapshot *)
(* with old health.                                                        *)
(***************************************************************************)
EXTENDS SnapshotPublication, TLAPS

Committing == {"write", "check", "undo", "reattach"}

\* The lock is held by a lane exactly while it is inside its commit, and by the
\* scraper while it has read the domain and not yet the health families.
Locked ==
  /\ \A d \in Dataset : pc[d] \in Committing <=> lock = d
  /\ lock = Scraper => seen \in [of : Dataset, data : 0..Partial]
  /\ detached => \E d \in Dataset : pc[d] = "reattach"

\* During a commit the backup names the last good snapshot, a checked commit has
\* rebuilt the domain, and an attempt is never published before it began.
Kept ==
  \A d \in Dataset :
    /\ lock = d => backup[d].data = committed[d]
    /\ pc[d] = "check" => data[d] = n[d]
    /\ committed[d] <= n[d] /\ stored[d].attempt <= n[d]

\* The timestamp is no older than the domain snapshot; during a commit, no older
\* than the snapshot a rollback returns to.
Timed ==
  \A d \in Dataset :
    /\ committed[d] <= success[d]
    /\ pc[d] = "check" => success[d] = n[d]
    /\ lock = d /\ backup[d].time = 0 => committed[d] = 0

\* What a scrape has read of the domain is still in the registry.
Steady == lock = Scraper => seen.data = data[seen.of]

IInv == TypeOK /\ Locked /\ DataIsLastGood /\ Kept /\ Timed /\ Steady

\* The initial state of a process without persisted snapshots.
LEMMA InvInit == Init => IInv
<1> SUFFICES ASSUME Init PROVE IInv
  OBVIOUS
<1> USE PublicationConstants DEF Init, Empty, Never, NoBackup, Old, Partial
<1>1. TypeOK
  <2>1. backup \in [Dataset -> [data : Attempt, time : Attempt]]
    BY DEF Attempt
  <2>2. stored \in [Dataset -> [attempt : Attempt, age : 0..Old]]
    BY DEF Attempt
  <2>3. up \in [Dataset -> BOOLEAN] /\ fresh \in [Dataset -> BOOLEAN]
    OBVIOUS
  <2>4. detached \in BOOLEAN
    OBVIOUS
  <2>5. /\ lock \in Dataset \cup {Scraper, None}
        /\ pc \in [Dataset -> {"idle", "collect", "write", "check", "undo", "reattach",
                               "failed", "succeeded", "unsuccessful"}]
    OBVIOUS
  <2>6. /\ n \in [Dataset -> Attempt] /\ data \in [Dataset -> 0..Partial]
        /\ success \in [Dataset -> Attempt] /\ committed \in [Dataset -> Attempt]
    BY DEF Attempt
  <2>7. /\ age \in [Dataset -> 0..Old] /\ fallow \subseteq Persisted /\ restarts \in 0..MaxRestarts
        /\ freshing \in {None} \cup [of : Dataset, value : BOOLEAN]
        /\ seen \in {None} \cup [of : Dataset, data : 0..Partial]
    OBVIOUS
  <2> HIDE DEF Init, Empty, Never, NoBackup, Old, Partial
  <2> QED  BY <2>1, <2>2, <2>3, <2>4, <2>5, <2>6, <2>7 DEF TypeOK
<1>2. Locked
  BY DEF Locked, Committing
<1>3. DataIsLastGood /\ Kept /\ Timed /\ Steady
  BY DEF DataIsLastGood, Kept, Timed, Steady
<1> QED  BY <1>1, <1>2, <1>3 DEF IInv

\* Types are preserved: only a commit could back up a half-built domain.
LEMMA TypeStep == IInv /\ [Next]_vars => TypeOK'
<1> SUFFICES ASSUME IInv, [Next]_vars PROVE TypeOK'
  OBVIOUS
<1> USE PublicationConstants DEF IInv, Goto, Set, health, Old, Partial, NoBackup,
        Empty, Never
<1>1. ASSUME NEW d \in Dataset, Begin(d) PROVE TypeOK'
  BY <1>1 DEF Begin, TypeOK, Attempt
<1>2. ASSUME NEW d \in Dataset, CollectFails(d) \/ WriterFails(d) \/ CommitRejected(d)
      PROVE TypeOK'
  <2>1. CASE CollectFails(d)
    BY <2>1 DEF CollectFails, TypeOK, Attempt
  <2>2. CASE WriterFails(d)
    BY <2>2 DEF WriterFails, TypeOK, Attempt
  <2>3. CASE CommitRejected(d)
    BY <2>3 DEF CommitRejected, TypeOK, Attempt
  <2> QED  BY <1>2, <2>1, <2>2, <2>3
<1>3. ASSUME NEW d \in Dataset, CommitBegin(d) PROVE TypeOK'
  <2>1. data[d] \in Attempt
    BY <1>3 DEF CommitBegin, DataIsLastGood, TypeOK
  <2>2. [data |-> data[d], time |-> success[d]]
          \in [data : Attempt, time : Attempt]
    BY <2>1 DEF TypeOK
  <2>3. backup' \in [Dataset -> [data : Attempt, time : Attempt]]
    BY <1>3, <2>2 DEF CommitBegin, TypeOK
  <2> QED  BY <1>3, <2>3 DEF CommitBegin, TypeOK, Attempt
<1>4. ASSUME NEW d \in Dataset, WriteAll(d) PROVE TypeOK'
  <2>1. up' \in [Dataset -> BOOLEAN] /\ fresh' \in [Dataset -> BOOLEAN]
    BY <1>4 DEF WriteAll, TypeOK
  <2> QED  BY <1>4, <2>1 DEF WriteAll, TypeOK, Attempt
<1>5. ASSUME NEW d \in Dataset, CommitDone(d) \/ UndoUpdate(d) PROVE TypeOK'
  <2>1. [data |-> 0, time |-> 0] \in [data : Attempt, time : Attempt]
    BY DEF Attempt
  <2>2. backup' = [backup EXCEPT ![d] = [data |-> 0, time |-> 0]]
    BY <1>5 DEF CommitDone, UndoUpdate
  <2>3. backup' \in [Dataset -> [data : Attempt, time : Attempt]]
    BY <2>1, <2>2 DEF TypeOK
  <2>4. CASE CommitDone(d)
    BY <2>3, <2>4 DEF CommitDone, TypeOK, Attempt
  <2>5. CASE UndoUpdate(d)
    <3>1. detached' \in BOOLEAN
      BY <2>5 DEF UndoUpdate
    <3>2. data' \in [Dataset -> 0..Partial] /\ success' \in [Dataset -> Attempt]
      BY <2>5 DEF UndoUpdate, TypeOK, Attempt
    <3> QED  BY <2>3, <2>5, <3>1, <3>2 DEF UndoUpdate, TypeOK
  <2> QED  BY <1>5, <2>4, <2>5
<1>6. ASSUME NEW d \in Dataset, UndoClear(d) PROVE TypeOK'
  BY <1>6 DEF UndoClear, TypeOK, Attempt
<1>7. ASSUME NEW d \in Dataset, RecordFailure(d) PROVE TypeOK'
  BY <1>7 DEF RecordFailure, TypeOK, Attempt
<1>8. ASSUME NEW d \in Dataset, BookSuccess(d) PROVE TypeOK'
  <2>1. data[d] \in Attempt
    BY <1>8 DEF BookSuccess, DataIsLastGood, TypeOK, Locked, Committing
  <2>2. [attempt |-> data[d], age |-> 0] \in [attempt : Attempt, age : 0..Old]
    BY <2>1
  <2>3. stored' \in [Dataset -> [attempt : Attempt, age : 0..Old]]
    <3>1. stored' = stored \/ stored' = [stored EXCEPT ![d] = [attempt |-> data[d], age |-> 0]]
      BY <1>8 DEF BookSuccess, Set
    <3>2. stored \in [Dataset -> [attempt : Attempt, age : 0..Old]]
      BY DEF TypeOK
    <3> QED  BY <2>2, <3>1, <3>2
  <2>4. fresh' \in [Dataset -> BOOLEAN]
    BY <1>8 DEF BookSuccess, Publish, TypeOK
  <2>5. age' \in [Dataset -> 0..Old]
    BY <1>8 DEF BookSuccess, TypeOK
  <2> QED  BY <1>8, <2>3, <2>4, <2>5 DEF BookSuccess, TypeOK
<1>9. ASSUME NEW d \in Dataset, BookFailure(d) PROVE TypeOK'
  <2>1. fresh' \in [Dataset -> BOOLEAN]
    BY <1>9 DEF BookFailure, Publish, Fresh, TypeOK
  <2> QED  BY <1>9, <2>1 DEF BookFailure, TypeOK
<1>10. ASSUME NEW d \in Dataset, FreshRead(d) PROVE TypeOK'
  BY <1>10 DEF FreshRead, Fresh, TypeOK
<1>11. CASE FreshSet
  <2>1. fresh' \in [Dataset -> BOOLEAN]
    BY <1>11 DEF FreshSet, Publish, TypeOK
  <2> QED  BY <1>11, <2>1 DEF FreshSet, TypeOK
<1>12. ASSUME NEW d \in Dataset, ScrapeData(d) PROVE TypeOK'
  BY <1>12 DEF ScrapeData, TypeOK
<1>13. CASE ScrapeHealth
  BY <1>13 DEF ScrapeHealth, TypeOK
<1>14. CASE Restart
  <2>1. backup' \in [Dataset -> [data : Attempt, time : Attempt]]
    BY <1>14 DEF Restart, Attempt
  <2>2. up' \in [Dataset -> BOOLEAN] /\ fresh' \in [Dataset -> BOOLEAN]
    BY <1>14 DEF Restart
  <2>3. detached' \in BOOLEAN
    BY <1>14 DEF Restart
  <2> QED  BY <1>14, <2>1, <2>2, <2>3 DEF Restart, TypeOK, Attempt
<1>15. ASSUME NEW d \in Dataset, Restore(d) PROVE TypeOK'
  <2>1. up' \in [Dataset -> BOOLEAN] /\ fresh' \in [Dataset -> BOOLEAN]
    BY <1>15 DEF Restore, TypeOK
  <2> QED  BY <1>15, <2>1 DEF Restore, TypeOK, Attempt
<1>16. CASE Tick
  <2>1. \A a \in 0..Old : Older(a) \in 0..Old
    BY DEF Older
  <2> QED  BY <1>16, <2>1 DEF Tick, TypeOK
<1>17. CASE UNCHANGED vars
  BY <1>17 DEF vars, TypeOK
<1> QED
  BY <1>1, <1>2, <1>3, <1>4, <1>5, <1>6, <1>7, <1>8, <1>9, <1>10, <1>11, <1>12,
     <1>13, <1>14, <1>15, <1>16, <1>17 DEF Next, Lane

\* A step of a dataset outside a commit leaves the lock as it was.
LEMMA LockElsewhere ==
  ASSUME Locked, NEW d \in Dataset, UNCHANGED <<lock, seen, detached>>,
         (pc[d] \notin Committing /\ pc'[d] \notin Committing) \/ pc'[d] = pc[d],
         \A e \in Dataset \ {d} : pc'[e] = pc[e]
  PROVE  Locked'
<1>1. ASSUME NEW e \in Dataset
      PROVE  /\ pc'[e] \in Committing <=> pc[e] \in Committing
             /\ pc[e] = "reattach" => pc'[e] = "reattach"
  <2>1. CASE e = d
    BY <2>1 DEF Committing
  <2>2. CASE e # d
    BY <2>2
  <2> QED  BY <2>1, <2>2
<1>2. \A e \in Dataset : pc'[e] \in Committing <=> lock' = e
  BY <1>1 DEF Locked
<1>3. detached' => \E e \in Dataset : pc'[e] = "reattach"
  BY <1>1 DEF Locked
<1> QED  BY <1>2, <1>3 DEF Locked

\* Every step keeps the lock discipline.
LEMMA LockStep == IInv /\ [Next]_vars => Locked'
<1> SUFFICES ASSUME IInv, [Next]_vars PROVE Locked'
  OBVIOUS
<1> USE PublicationConstants DEF IInv, Goto, Set, health, Committing, TypeOK
<1>1. ASSUME NEW d \in Dataset,
             \/ Begin(d) \/ CollectFails(d) \/ RecordFailure(d) \/ BookSuccess(d)
             \/ BookFailure(d) \/ FreshRead(d) \/ Restore(d)
      PROVE  Locked'
  <2>1. UNCHANGED <<lock, seen, detached>>
    BY <1>1 DEF Begin, CollectFails, RecordFailure, BookSuccess, BookFailure,
                FreshRead, Restore
  <2>2. /\ (pc[d] \notin Committing /\ pc'[d] \notin Committing) \/ pc'[d] = pc[d]
        /\ \A e \in Dataset \ {d} : pc'[e] = pc[e]
    <3>1. CASE FreshRead(d) \/ Restore(d)
      BY <3>1 DEF FreshRead, Restore
    <3>2. CASE Begin(d) \/ CollectFails(d)
      BY <3>2 DEF Begin, CollectFails
    <3>3. CASE RecordFailure(d) \/ BookSuccess(d) \/ BookFailure(d)
      BY <3>3 DEF RecordFailure, BookSuccess, BookFailure
    <3> QED  BY <1>1, <3>1, <3>2, <3>3
  <2>3. Locked
    OBVIOUS
  <2> QED  BY <2>1, <2>2, <2>3, LockElsewhere
<1>2. ASSUME NEW d \in Dataset,
             \/ CommitBegin(d) \/ WriterFails(d) \/ WriteAll(d) \/ CommitRejected(d)
      PROVE  Locked'
  BY <1>2 DEF CommitBegin, WriterFails, WriteAll, CommitRejected, Locked
<1>3. ASSUME NEW d \in Dataset, CommitDone(d) PROVE Locked'
  BY <1>3 DEF CommitDone, Locked
<1>4. ASSUME NEW d \in Dataset, UndoClear(d) PROVE Locked'
  BY <1>4 DEF UndoClear, Locked
<1>5. ASSUME NEW d \in Dataset, UndoUpdate(d) PROVE Locked'
  BY <1>5 DEF UndoUpdate, Locked
<1>6. ASSUME NEW d \in Dataset, ScrapeData(d) PROVE Locked'
  <2>1. seen' \in [of : Dataset, data : 0..Partial]
    BY <1>6 DEF ScrapeData
  <2> QED  BY <1>6, <2>1 DEF ScrapeData, Locked
<1>7. CASE FreshSet \/ ScrapeHealth \/ Tick
  BY <1>7 DEF FreshSet, ScrapeHealth, Tick, Locked
<1>8. CASE Restart
  BY <1>8 DEF Restart, Locked
<1>9. CASE UNCHANGED vars
  BY <1>9 DEF vars, Locked
<1> QED
  BY <1>1, <1>2, <1>3, <1>4, <1>5, <1>6, <1>7, <1>8, <1>9 DEF Next, Lane

\* Every step keeps the registry on the last good snapshot, and the timestamp no
\* older than it.
LEMMA BooksStep ==
  IInv /\ [Next]_vars => DataIsLastGood' /\ Kept' /\ Timed' /\ Steady'
<1> SUFFICES ASSUME IInv, [Next]_vars
             PROVE  DataIsLastGood' /\ Kept' /\ Timed' /\ Steady'
  OBVIOUS
<1> DEFINE Books == DataIsLastGood /\ Kept /\ Timed /\ Steady
<1> USE PublicationConstants DEF Goto, Set, health
<1>0. TypeOK /\ Locked /\ Books
  BY DEF IInv
<1> USE <1>0
<1>1. ASSUME NEW d \in Dataset, Begin(d) PROVE Books'
  BY <1>1 DEF Begin, TypeOK, Attempt, Locked, Committing, DataIsLastGood, Kept, Timed,
              Steady
<1>2. ASSUME NEW d \in Dataset, CollectFails(d) \/ RecordFailure(d) \/ BookFailure(d)
      PROVE  Books'
  BY <1>2 DEF CollectFails, RecordFailure, BookFailure, TypeOK, DataIsLastGood, Kept,
              Timed, Steady
<1>3. ASSUME NEW d \in Dataset, CommitBegin(d) PROVE Books'
  <2>1. data[d] = committed[d] /\ committed[d] \in Nat /\ success[d] \in Nat
    BY <1>3 DEF CommitBegin, TypeOK, Attempt, DataIsLastGood
  <2>2. /\ backup'[d].data = committed[d]
        /\ backup'[d].time = 0 => committed[d] = 0
    BY <1>3, <2>1 DEF CommitBegin, TypeOK, Timed
  <2>3. lock' = d /\ pc'[d] = "write" /\ UNCHANGED <<n, success, stored, committed>>
    BY <1>3 DEF CommitBegin, TypeOK
  <2>4. \A e \in Dataset \ {d} : pc'[e] = pc[e] /\ data'[e] = data[e]
    BY <1>3 DEF CommitBegin, TypeOK
  <2>5. lock = None
    BY <1>3 DEF CommitBegin
  <2> QED
    BY <2>2, <2>3, <2>4, <2>5 DEF DataIsLastGood, Kept, Timed, Steady
<1>4. ASSUME NEW d \in Dataset, WriterFails(d) \/ CommitRejected(d) PROVE Books'
  BY <1>4 DEF WriterFails, CommitRejected, TypeOK, DataIsLastGood, Kept, Timed, Steady
<1>5. ASSUME NEW d \in Dataset, WriteAll(d) PROVE Books'
  BY <1>5 DEF WriteAll, TypeOK, Attempt, Locked, Committing, DataIsLastGood, Kept,
              Timed, Steady
<1>6. ASSUME NEW d \in Dataset, CommitDone(d) PROVE Books'
  BY <1>6 DEF CommitDone, TypeOK, Attempt, Locked, Committing, DataIsLastGood, Kept,
              Timed, Steady
<1>7. ASSUME NEW d \in Dataset, UndoClear(d) PROVE Books'
  BY <1>7 DEF UndoClear, TypeOK, Attempt, Locked, Committing, DataIsLastGood, Kept,
              Timed, Steady
<1>8. ASSUME NEW d \in Dataset, UndoUpdate(d) PROVE Books'
  BY <1>8 DEF UndoUpdate, TypeOK, Attempt, Locked, Committing, DataIsLastGood, Kept,
              Timed, Steady
<1>9. ASSUME NEW d \in Dataset, BookSuccess(d) PROVE Books'
  BY <1>9 DEF BookSuccess, TypeOK, Attempt, Locked, Committing, DataIsLastGood, Kept,
              Timed, Steady
<1>10. ASSUME NEW d \in Dataset, FreshRead(d) PROVE Books'
  BY <1>10 DEF FreshRead, DataIsLastGood, Kept, Timed, Steady
<1>11. ASSUME NEW d \in Dataset, ScrapeData(d) PROVE Books'
  BY <1>11 DEF ScrapeData, DataIsLastGood, Kept, Timed, Steady
<1>12. ASSUME NEW d \in Dataset, Restore(d) PROVE Books'
  BY <1>12 DEF Restore, TypeOK, Attempt, Locked, Committing, DataIsLastGood, Kept,
               Timed, Steady
<1>13. CASE FreshSet \/ ScrapeHealth
  BY <1>13 DEF FreshSet, ScrapeHealth, DataIsLastGood, Kept, Timed, Steady
<1>14. CASE Restart
  BY <1>14 DEF Restart, Empty, TypeOK, Attempt, DataIsLastGood, Kept, Timed, Steady
<1>15. CASE Tick
  BY <1>15 DEF Tick, TypeOK, DataIsLastGood, Kept, Timed, Steady
<1>16. CASE UNCHANGED vars
  BY <1>16 DEF vars, DataIsLastGood, Kept, Timed, Steady
<1>17. Books'
  BY <1>1, <1>2, <1>3, <1>4, <1>5, <1>6, <1>7, <1>8, <1>9, <1>10, <1>11, <1>12,
     <1>13, <1>14, <1>15, <1>16 DEF Next, Lane
<1> QED  BY <1>17

\* The inductive invariant of the publication boundary.
THEOREM Invariance == Spec => []IInv
<1>1. IInv /\ [Next]_vars => IInv'
  BY TypeStep, LockStep, BooksStep DEF IInv
<1> QED  BY InvInit, <1>1, PTL DEF Spec

\* The domain metrics outside a commit are those of the last attempt that
\* committed, or of the restored row, whatever failed, was rejected or died.
THEOREM LastGoodKept == Spec => []DataIsLastGood
<1>1. IInv => DataIsLastGood
  BY DEF IInv
<1> QED  BY Invariance, <1>1, PTL

\* No scrape reads a half-built domain or pairs a new one with old health.
THEOREM ScrapesWhole == Spec => ScrapeWhole
<1> DEFINE Read == ScrapeHealth => /\ seen.data # Partial
                                   /\ success[seen.of] >= seen.data
<1>1. IInv => Read
  <2> SUFFICES ASSUME IInv, ScrapeHealth
               PROVE  seen.data # Partial /\ success[seen.of] >= seen.data
    OBVIOUS
  <2>1. lock = Scraper /\ seen.of \in Dataset
    BY PublicationConstants DEF IInv, TypeOK, Locked, ScrapeHealth
  <2>2. lock # seen.of
    BY <2>1, PublicationConstants
  <2>3. /\ seen.data = committed[seen.of] /\ committed[seen.of] \in Attempt
        /\ success[seen.of] \in Attempt /\ committed[seen.of] <= success[seen.of]
    BY <2>1, <2>2 DEF IInv, TypeOK, Steady, DataIsLastGood, Timed
  <2> QED  BY <2>3, PublicationConstants DEF Attempt, Partial
<1>2. IInv /\ [Next]_vars => [Read]_vars
  BY <1>1
<1>3. IInv /\ [Next]_vars => IInv'
  BY TypeStep, LockStep, BooksStep DEF IInv
<1> QED  BY InvInit, <1>2, <1>3, PTL DEF Spec, ScrapeWhole

--------------------------------------------------------------------------------
(* What the boundary promises the readers of the registry *)

\* An attempt under way is newer than everything published or persisted, and a
\* dataset that may still be restored has published nothing.
Newer ==
  \A d \in Dataset :
    /\ pc[d] \in {"collect", "succeeded"} \cup Committing => stored[d].attempt < n[d]
    /\ pc[d] \in {"collect"} \cup Committing => committed[d] < n[d]
    /\ pc[d] = "succeeded" => committed[d] = n[d]
    /\ d \in fallow => committed[d] = 0 /\ pc[d] = "idle"

\* What an observer is shown is the last good snapshot, during a commit as well.
LEMMA ShownIsGood ==
  ASSUME IInv
  PROVE  Shown = committed
<1>1. \A d \in Dataset : (IF lock = d THEN backup[d].data ELSE data[d]) = committed[d]
  BY DEF IInv, DataIsLastGood, Kept
<1>2. committed \in [Dataset -> Attempt]
  BY DEF IInv, TypeOK
<1> QED  BY <1>1, <1>2 DEF Shown

\* Every step keeps the order of attempts.
LEMMA NewerStep == IInv /\ Newer /\ [Next]_vars => Newer'
<1> SUFFICES ASSUME IInv, Newer, [Next]_vars PROVE Newer'
  OBVIOUS
<1>0. TypeOK /\ Locked /\ DataIsLastGood /\ Kept
  BY DEF IInv
<1> USE <1>0, PublicationConstants DEF Goto, Set, Committing
<1>1. ASSUME NEW d \in Dataset, Begin(d) PROVE Newer'
  BY <1>1 DEF Begin, TypeOK, Attempt, Kept, Newer
<1>2. ASSUME NEW d \in Dataset,
             \/ CollectFails(d) \/ CommitBegin(d) \/ WriterFails(d) \/ WriteAll(d)
             \/ CommitRejected(d) \/ UndoClear(d) \/ UndoUpdate(d) \/ RecordFailure(d)
             \/ BookFailure(d)
      PROVE  Newer'
  <2>1. /\ UNCHANGED <<n, stored, committed, fallow>>
        /\ \A e \in Dataset \ {d} : pc'[e] = pc[e]
        /\ pc[d] # "idle" /\ pc'[d] \notin {"collect", "succeeded"}
        /\ pc'[d] \in Committing => pc[d] \in {"collect"} \cup Committing
    BY <1>2 DEF CollectFails, CommitBegin, WriterFails, WriteAll, CommitRejected, UndoClear,
                UndoUpdate, RecordFailure, BookFailure, TypeOK
  <2> QED  BY <2>1 DEF Newer
<1>3. ASSUME NEW d \in Dataset, CommitDone(d) PROVE Newer'
  BY <1>3 DEF CommitDone, TypeOK, Attempt, Newer
<1>4. ASSUME NEW d \in Dataset, BookSuccess(d) PROVE Newer'
  <2>1. /\ UNCHANGED <<n, committed, fallow>> /\ pc[d] = "succeeded" /\ pc'[d] = "idle"
        /\ \A e \in Dataset \ {d} : pc'[e] = pc[e] /\ stored'[e] = stored[e]
    BY <1>4 DEF BookSuccess, TypeOK
  <2> QED  BY <2>1 DEF Newer
<1>5. ASSUME NEW d \in Dataset, FreshRead(d) \/ ScrapeData(d) PROVE Newer'
  BY <1>5 DEF FreshRead, ScrapeData, Newer
<1>6. CASE FreshSet \/ ScrapeHealth
  BY <1>6 DEF FreshSet, ScrapeHealth, Newer
<1>7. ASSUME NEW d \in Dataset, Restore(d) PROVE Newer'
  BY <1>7 DEF Restore, TypeOK, Newer
<1>8. CASE Restart
  BY <1>8 DEF Restart, Empty, TypeOK, Newer
<1>9. CASE Tick
  BY <1>9 DEF Tick, TypeOK, Newer
<1>10. CASE UNCHANGED vars
  BY <1>10 DEF vars, Newer
<1> QED
  BY <1>1, <1>2, <1>3, <1>4, <1>5, <1>6, <1>7, <1>8, <1>9, <1>10 DEF Next, Lane

\* Whoever has read the domain families still holds the lock.
Looking == seen # None => lock = Scraper

LEMMA LookingStep == IInv /\ Looking /\ [Next]_vars => Looking'
<1> SUFFICES ASSUME IInv, Looking, [Next]_vars PROVE Looking'
  OBVIOUS
<1>0. TypeOK /\ Locked
  BY DEF IInv
<1> USE <1>0, PublicationConstants DEF Looking
<1>1. ASSUME NEW d \in Dataset, CommitBegin(d) \/ ScrapeData(d) PROVE Looking'
  BY <1>1 DEF CommitBegin, ScrapeData
<1>2. ASSUME NEW d \in Dataset, CommitDone(d) \/ UndoUpdate(d) PROVE Looking'
  BY <1>2 DEF CommitDone, UndoUpdate, Locked, Committing
<1>3. ASSUME NEW d \in Dataset,
             \/ Begin(d) \/ CollectFails(d) \/ WriterFails(d) \/ WriteAll(d) \/ CommitRejected(d)
             \/ UndoClear(d) \/ RecordFailure(d) \/ BookSuccess(d) \/ BookFailure(d)
             \/ FreshRead(d) \/ Restore(d)
      PROVE  Looking'
  BY <1>3 DEF Begin, CollectFails, WriterFails, WriteAll, CommitRejected, UndoClear,
              RecordFailure, BookSuccess, BookFailure, FreshRead, Restore
<1>4. CASE FreshSet \/ ScrapeHealth \/ Restart \/ Tick \/ UNCHANGED vars
  BY <1>4 DEF FreshSet, ScrapeHealth, Restart, Tick, vars
<1> QED  BY <1>1, <1>2, <1>3, <1>4 DEF Next, Lane

\* Every step is one of the registry's, or unseen by its readers.
LEMMA RegistryStep ==
  ASSUME IInv, IInv', Newer, Looking, [Next]_vars
  PROVE  Registry!Next \/ UNCHANGED <<Shown, Durable, seen>>
<1>0. TypeOK /\ Locked /\ DataIsLastGood /\ Kept /\ None # Scraper
      /\ None \notin Dataset /\ Scraper \notin Dataset
  BY PublicationConstants DEF IInv
<1>1. Shown = committed /\ committed \in [Dataset -> Nat]
  BY ShownIsGood, PublicationConstants DEF IInv, TypeOK, Attempt
<1>2. Shown' = committed'
  <2>1. \A d \in Dataset : (IF lock' = d THEN backup'[d].data ELSE data'[d]) = committed'[d]
    BY DEF IInv, DataIsLastGood, Kept
  <2>2. committed' \in [Dataset -> Attempt]
    BY DEF IInv, TypeOK
  <2> QED  BY <2>1, <2>2 DEF Shown
<1>3. stored' = stored => Durable' = Durable
  BY DEF Durable
<1>4. \A d \in Dataset : Durable[d] = stored[d].attempt /\ Durable[d] \in Nat
  BY <1>0, PublicationConstants DEF Durable, TypeOK, Attempt
<1> USE DEF Set
<1>5. ASSUME NEW d \in Dataset, CommitDone(d) PROVE Registry!Next
  <2>1. seen = None /\ seen' = seen /\ Durable' = Durable
    BY <1>0, <1>3, <1>5 DEF CommitDone, Locked, Committing, Looking
  <2>2. committed' = [committed EXCEPT ![d] = n[d]] /\ committed[d] < n[d] /\ stored[d].attempt < n[d]
    BY <1>5 DEF CommitDone, Newer, Committing
  <2>3. Shown'[d] = n[d] /\ n[d] \in Nat
    BY <1>0, <1>1, <1>2, <2>2, PublicationConstants DEF TypeOK, Attempt
  <2>4. Registry!Replace(d)
    BY <1>1, <1>2, <1>4, <2>1, <2>2, <2>3 DEF Registry!Replace
  <2> QED  BY <2>4 DEF Registry!Next
<1>6. ASSUME NEW d \in Dataset, BookSuccess(d)
      PROVE  Registry!Next \/ UNCHANGED <<Shown, Durable, seen>>
  <2>1. seen' = seen /\ committed' = committed /\ pc[d] = "succeeded"
    BY <1>6 DEF BookSuccess
  <2>2. CASE stored' = stored
    BY <1>1, <1>2, <1>3, <2>1, <2>2
  <2>3. CASE stored' = [stored EXCEPT ![d] = [attempt |-> data[d], age |-> 0]]
    <3>1. data[d] = committed[d]
      BY <1>0, <2>1 DEF DataIsLastGood, Locked, Committing
    <3>2. Durable' = [Durable EXCEPT ![d] = committed[d]]
      BY <1>0, <2>3, <3>1 DEF Durable, TypeOK
    <3>3. committed[d] > stored[d].attempt
      BY <1>0, <2>1, PublicationConstants DEF Newer, TypeOK, Attempt
    <3>4. Registry!Keep(d)
      BY <1>1, <1>2, <1>4, <2>1, <3>2, <3>3 DEF Registry!Keep
    <3> QED  BY <3>4 DEF Registry!Next
  <2> QED  BY <1>6, <2>2, <2>3 DEF BookSuccess
<1>7. ASSUME NEW d \in Dataset, Restore(d) PROVE Registry!Next
  <2>1. seen = None /\ seen' = seen /\ Durable' = Durable
    BY <1>0, <1>3, <1>7 DEF Restore, Looking
  <2>2. /\ committed' = [committed EXCEPT ![d] = stored[d].attempt]
        /\ committed[d] = 0 /\ stored[d].attempt > 0
    BY <1>7 DEF Restore, Newer
  <2>3. Registry!Recall(d)
    BY <1>1, <1>2, <1>4, <2>1, <2>2 DEF Registry!Recall
  <2> QED  BY <2>3 DEF Registry!Next
<1>8. ASSUME NEW d \in Dataset, ScrapeData(d) PROVE Registry!Next
  <2>1. lock = None /\ committed' = committed /\ Durable' = Durable /\ seen' = [of |-> d, data |-> data[d]]
    BY <1>3, <1>8 DEF ScrapeData
  <2>2. seen = None /\ data[d] = committed[d]
    BY <1>0, <2>1 DEF Looking, DataIsLastGood
  <2>3. Registry!Look(d)
    BY <1>1, <1>2, <2>1, <2>2 DEF Registry!Look
  <2> QED  BY <2>3 DEF Registry!Next
<1>9. CASE ScrapeHealth
  <2>1. seen' = None /\ committed' = committed /\ Durable' = Durable
    BY <1>3, <1>9 DEF ScrapeHealth
  <2>2. Registry!Leave
    BY <1>1, <1>2, <2>1 DEF Registry!Leave
  <2> QED  BY <2>2 DEF Registry!Next
<1>10. CASE Restart
  <2>1. committed' = Empty /\ seen' = None /\ Durable' = Durable
    BY <1>3, <1>10 DEF Restart
  <2>2. Registry!Forget
    BY <1>2, <2>1 DEF Registry!Forget, Registry!Empty, Empty
  <2> QED  BY <2>2 DEF Registry!Next
<1>11. CASE Tick
  <2>1. Durable' = Durable
    BY <1>11 DEF Tick, Durable
  <2> QED  BY <1>1, <1>2, <1>11, <2>1 DEF Tick
<1>12. ASSUME NEW d \in Dataset,
              \/ Begin(d) \/ CollectFails(d) \/ CommitBegin(d) \/ WriterFails(d) \/ WriteAll(d)
              \/ CommitRejected(d) \/ UndoClear(d) \/ UndoUpdate(d) \/ RecordFailure(d)
              \/ BookFailure(d) \/ FreshRead(d)
       PROVE  UNCHANGED <<Shown, Durable, seen>>
  <2>1. UNCHANGED <<committed, stored, seen>>
    BY <1>12 DEF Begin, CollectFails, CommitBegin, WriterFails, WriteAll, CommitRejected, UndoClear,
                 UndoUpdate, RecordFailure, BookFailure, FreshRead
  <2> QED  BY <1>1, <1>2, <1>3, <2>1
<1>13. CASE FreshSet \/ UNCHANGED vars
  BY <1>1, <1>2, <1>3, <1>13 DEF FreshSet, vars
<1> QED
  BY <1>5, <1>6, <1>7, <1>8, <1>9, <1>10, <1>11, <1>12, <1>13 DEF Next, Lane

\* For every set of datasets, and any number of attempts and restarts, the boundary
\* implements LastGoodRegistry: staging, backup, clearing and rollback are unseen,
\* a commit takes effect in the step that gives the lock back, and neither a
\* rollback nor a restore ever brings back an older snapshot.
THEOREM RegistryRefined == Spec => ImplementsRegistry
<1> DEFINE RegistryInv == IInv /\ Newer /\ Looking
<1>1. Init => RegistryInv /\ Registry!Init
  <2>1. Init => Newer /\ Looking
    BY DEF Init, Newer, Looking, Empty, Committing
  <2>2. Init => Shown = Registry!Empty /\ Durable = Registry!Empty /\ seen = None
    BY PublicationConstants DEF Init, Shown, Durable, Registry!Empty, Empty
  <2> QED  BY <2>1, <2>2, InvInit DEF Registry!Init
<1>2. RegistryInv /\ [Next]_vars => RegistryInv'
  BY TypeStep, LockStep, BooksStep, NewerStep, LookingStep DEF IInv
<1>3. RegistryInv /\ RegistryInv' /\ [Next]_vars => [Registry!Next]_(Registry!vars)
  BY RegistryStep DEF Registry!vars
<1> QED  BY <1>1, <1>2, <1>3, PTL DEF Spec, ImplementsRegistry, Registry!Spec
================================================================================
