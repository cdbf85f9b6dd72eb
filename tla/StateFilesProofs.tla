-------------------------- MODULE StateFilesProofs --------------------------
(***************************************************************************)
(* Proofs about StateFiles, for every number of threads, users, damaged    *)
(* databases, resets and faults: the types, what a recovery may rename     *)
(* and what a reset may remove.                                            *)
(***************************************************************************)
EXTENDS StateFiles, FiniteSetTheorems, SequenceTheorems, TLAPS

----------------------------------------------------------------------------
(* The inductive invariant                                                 *)

\* The runtime lock belongs to the process that is up or to the reset.
Owner ==
  /\ proc = "up" => runtime = Exporter
  /\ rpc # "off" <=> runtime = Reset

\* Whoever is between the retry and the end of a recovery owns its lock.
Recovering == {"retry", "main", "wal", "prepare", "rebuilt", "prune"}
RecoveryOwner ==
  /\ \A t \in Threads : pc[t] \in Recovering <=> recovery = t
  /\ \A t \in Threads : pc[t] = "wal" => evidence # <<>>
  /\ proc = "down" => \A t \in Threads : pc[t] = "idle"

\* Seen corrupt under the recovery lock is still there while the lock is held.
SeenCorrupt ==
  proc = "up" => \A t \in Threads : pc[t] = "main" => path["db"] \in corrupt

\* Each database is accounted for: the first, one for each damaged one, one
\* for each reset.  What is about to free the path is counted in advance.
Free == IF path["db"] = NoFile THEN 1 ELSE 0
Armed == IF path["db"] \in corrupt \/ \E t \in Threads : pc[t] = "main" THEN 1 ELSE 0
Pending == IF rpc \in {"lock", "recheck", "unlink"} /\ "db" \notin removed THEN 1 ELSE 0
Databases ==
  /\ IsFiniteSet(corrupt) /\ Cardinality(corrupt) <= MaxCorrupt
  /\ made + Free + Armed + Pending <= 1 + Cardinality(corrupt) + resets
  /\ path["db"] <= made /\ path["wal"] <= made /\ \A t \in Threads : conn[t] <= made

\* Guard inodes: descriptors and paths name created ones, and a flock is held
\* by the user it names.
Guards ==
  /\ path["guard"] <= guards /\ held["guard"] <= guards
  /\ \A u \in Users : fd[u] <= guards
  /\ \A u \in Users : upc[u] # "idle" => fd[u] # NoFile
  /\ \A u \in Users : upc[u] = "holding" => flock[fd[u]] = u
  /\ rpc # "off" /\ held["guard"] # NoFile => flock[held["guard"]] = Reset

\* A reset removes only after it has locked all of its targets; from its second
\* look on, and unless a stray thread interferes, a path holds the file that is
\* locked until that is removed and never again afterwards.
Removal ==
  /\ rpc = "off" => existing = {}
  /\ rpc \in {"lock", "recheck"} => removed = {}
  /\ rpc \in {"recheck", "unlink", "done"} => \A p \in existing : held[p] # NoFile
  /\ removed # {} => \A p \in existing : held[p] # NoFile
  /\ rpc = "unlink" /\ ~ strays => \A p \in existing \ removed : path[p] = held[p]
  /\ rpc \in {"unlink", "done"} /\ ~ strays => \A p \in removed : path[p] # held[p]
  /\ rpc = "done" => removed = existing

IInv == /\ TypeOK /\ Owner /\ RecoveryOwner /\ SeenCorrupt /\ Databases
        /\ Guards /\ Removal

----------------------------------------------------------------------------
(* Facts about constants, types and operators                              *)

LEMMA Constants ==
  /\ MaxCorrupt \in Nat /\ MaxResets \in Nat /\ MaxFaults \in Nat
  /\ MaxCorruptStateGenerations \in Nat \ {0}
  /\ Nobody \notin Threads /\ Nobody \notin Users /\ Reset \notin Users
  /\ Nobody # Reset /\ Nobody # Exporter /\ Exporter # Reset
BY StoreAssumption DEF Nobody, Reset, Exporter

LEMMA Types ==
  ASSUME TypeOK
  PROVE  /\ path \in [Paths -> Nat] /\ made \in Nat /\ guards \in Nat /\ resets \in Nat
         /\ path["db"] \in Nat /\ path["wal"] \in Nat /\ path["guard"] \in Nat
         /\ held \in [Paths -> Nat] /\ held["guard"] \in Nat
         /\ "db" \in Paths /\ "wal" \in Paths /\ "guard" \in Paths
         /\ existing \subseteq Paths /\ removed \subseteq existing
         /\ \A t \in Threads : conn[t] \in Nat
         /\ \A u \in Users : fd[u] \in Nat
         /\ NoFile = 0 /\ NoFile \notin corrupt
BY Constants DEF TypeOK, Paths, Inodes, NoFile

\* The order of the candidates picks one of them.
LEMMA FirstIn == ASSUME NEW S, S \subseteq Paths, S # {} PROVE First(S) \in S
<1>1. \E p \in S : \A i, j \in 1..3 : Order[i] = p /\ Order[j] \in S => i <= j
  <2>0. Order[1] = "db" /\ Order[2] = "wal" /\ Order[3] = "guard" /\ 1..3 = {1, 2, 3}
    BY DEF Order
  <2>1. CASE "db" \in S
    BY <2>0, <2>1
  <2>2. CASE "db" \notin S /\ "wal" \in S
    BY <2>0, <2>2
  <2>3. CASE S = {"guard"}
    BY <2>0, <2>3
  <2> QED  BY <2>1, <2>2, <2>3 DEF Paths
<1> QED  BY <1>1, Zenon DEF First

\* What a step of a thread, of a user of the guard and of a running reset
\* leaves alone.
ThreadStep(t) == Prepare(t) \/ OpenStep(t) \/ Close(t)
UserStep(u) == OpenGuard(u) \/ LockGuard(u) \/ CloseGuard(u)

LEMMA ThreadFrame ==
  ASSUME NEW t \in Threads, ThreadStep(t)
  PROVE  /\ UNCHANGED <<proc, runtime, corrupt, guardVars, reset>>
         /\ proc # "down" /\ strays' = (strays \/ runtime = Reset)
BY DEF ThreadStep, OpenStep, Prepare, OpenGood, OpenCorrupt, OpenRefused, LockRecovery,
       QuarantineMain, QuarantineSidecars, NothingToQuarantine, PruneEvidence, Close, Raise, Go

LEMMA UserFrame ==
  ASSUME NEW u \in Users, UserStep(u)
  PROVE  UNCHANGED <<proc, runtime, store, reset, faults, strays>>
BY DEF UserStep, OpenGuard, LockGuard, CloseGuard, reset

LEMMA ResetFrame ==
  ASSUME ResetStep
  PROVE  /\ UNCHANGED <<proc, store, upc, fd, guards, resets>>
         /\ faults' = faults \/ (faults < MaxFaults /\ faults' = faults + 1)
BY DEF ResetStep, LockTarget, LockFails, AllLocked, Recheck, Unlink, UnlinkFails, AllRemoved,
       EndReset, KillReset, LeaveReset, ResetGoes

----------------------------------------------------------------------------
(* Locks                                                                   *)

LEMMA OwnerStep == ASSUME IInv, Next PROVE Owner'
<1> USE Constants DEF IInv, Owner, acquire_runtime_lock, release_runtime_lock
<1>1. CASE StartExporter \/ LeaveExporter
  BY <1>1 DEF StartExporter, LeaveExporter, reset
<1>2. CASE Exit \/ Kill \/ Damage
  BY <1>2 DEF Exit, Kill, Damage, EndThreads, reset
<1>3. CASE \E t \in Threads : ThreadStep(t)
  BY <1>3, ThreadFrame DEF reset
<1>4. CASE \E u \in Users : UserStep(u)
  BY <1>4, UserFrame DEF reset
<1>5. CASE BeginReset
  BY <1>5 DEF BeginReset
<1>6. CASE ResetStep
  BY <1>6 DEF ResetStep, LockTarget, LockFails, AllLocked, Recheck, Unlink, UnlinkFails,
              AllRemoved, EndReset, KillReset, LeaveReset, ResetGoes
<1> QED  BY <1>1, <1>2, <1>3, <1>4, <1>5, <1>6 DEF Next, ThreadStep, UserStep

LEMMA RecoveryOwnerStep == ASSUME IInv, Next PROVE RecoveryOwner'
<1> USE Constants DEF IInv, RecoveryOwner, Recovering
<1>1. CASE StartExporter \/ LeaveExporter \/ Damage
  BY <1>1 DEF StartExporter, LeaveExporter, Damage, store
<1>2. CASE Exit \/ Kill
  BY <1>2 DEF Exit, Kill, EndThreads
<1>3. ASSUME NEW t \in Threads, ThreadStep(t) PROVE RecoveryOwner'
  <2> USE <1>3 DEF Go
  <2>0. DOMAIN pc = Threads
    BY DEF TypeOK
  <2>1. CASE Prepare(t)
    BY <2>0, <2>1 DEF Prepare
  <2>2. CASE OpenGood(t)
    BY <2>0, <2>2 DEF OpenGood, Opening
  <2>3. CASE OpenCorrupt(t)
    BY <2>0, <2>3 DEF OpenCorrupt, AfterCorrupt, Raise
  <2>4. CASE OpenRefused(t)
    BY <2>0, <2>4 DEF OpenRefused, Opening, Raise
  <2>5. CASE LockRecovery(t)
    BY <2>0, <2>5 DEF LockRecovery
  <2>6. CASE QuarantineMain(t)
    <3>1. evidence' # <<>>
      BY <2>6, AppendProperties DEF QuarantineMain, TypeOK
    <3> QED  BY <2>0, <2>6, <3>1 DEF QuarantineMain
  <2>7. CASE QuarantineSidecars(t)
    BY <2>0, <2>7 DEF QuarantineSidecars
  <2>8. CASE NothingToQuarantine(t)
    BY <2>0, <2>8 DEF NothingToQuarantine, Raise
  <2>9. CASE PruneEvidence(t)
    BY <2>0, <2>9 DEF PruneEvidence
  <2>10. CASE Close(t)
    BY <2>0, <2>10 DEF Close
  <2> QED  BY <2>1, <2>2, <2>3, <2>4, <2>5, <2>6, <2>7, <2>8, <2>9, <2>10
           DEF ThreadStep, OpenStep
<1>4. CASE \E u \in Users : UserStep(u)
  BY <1>4, UserFrame DEF store
<1>5. CASE BeginReset \/ ResetStep
  BY <1>5, ResetFrame DEF BeginReset, store
<1> QED  BY <1>1, <1>2, <1>3, <1>4, <1>5 DEF Next, ThreadStep, UserStep

\* While the process is up no reset runs, so only the owner of the recovery
\* lock can take the corrupt database away.
LEMMA SeenCorruptStep == ASSUME IInv, Next PROVE SeenCorrupt'
<1> USE Constants DEF IInv, SeenCorrupt
<1>1. CASE StartExporter \/ LeaveExporter \/ Damage
  BY <1>1 DEF StartExporter, LeaveExporter, Damage, store, RecoveryOwner
<1>2. CASE Exit \/ Kill
  BY <1>2 DEF Exit, Kill, EndThreads
<1>3. ASSUME NEW t \in Threads, ThreadStep(t) PROVE SeenCorrupt'
  <2> USE <1>3 DEF Go
  <2>0. DOMAIN pc = Threads
    BY DEF TypeOK
  <2>1. CASE Prepare(t)
    BY <2>0, <2>1, Types DEF Prepare, Create
  <2>2. CASE OpenGood(t)
    BY <2>0, <2>2 DEF OpenGood, Opening
  <2>3. CASE OpenCorrupt(t)
    BY <2>0, <2>3 DEF OpenCorrupt, AfterCorrupt, Raise
  <2>4. CASE OpenRefused(t)
    BY <2>0, <2>4 DEF OpenRefused, Opening, Raise
  <2>5. CASE LockRecovery(t)
    BY <2>0, <2>5 DEF LockRecovery
  <2>6. CASE QuarantineMain(t)
    <3>1. \A o \in Threads \ {t} : pc[o] # "main"
      BY <2>6 DEF QuarantineMain, RecoveryOwner, Recovering
    <3> QED  BY <2>0, <2>6, <3>1 DEF QuarantineMain
  <2>7. CASE QuarantineSidecars(t)
    BY <2>0, <2>7, Types DEF QuarantineSidecars
  <2>8. CASE NothingToQuarantine(t)
    BY <2>0, <2>8 DEF NothingToQuarantine, Raise
  <2>9. CASE PruneEvidence(t)
    BY <2>0, <2>9 DEF PruneEvidence
  <2>10. CASE Close(t)
    BY <2>0, <2>10, Types DEF Close
  <2> QED  BY <2>1, <2>2, <2>3, <2>4, <2>5, <2>6, <2>7, <2>8, <2>9, <2>10
           DEF ThreadStep, OpenStep
<1>4. CASE \E u \in Users : UserStep(u)
  <2>1. path["db"]' = path["db"]
    BY <1>4, Types DEF UserStep, OpenGuard, LockGuard, CloseGuard
  <2> QED  BY <1>4, <2>1, UserFrame DEF store
<1>5. CASE BeginReset
  BY <1>5 DEF BeginReset, store
<1>6. CASE ResetStep
  BY <1>6, ResetFrame DEF ResetStep, Owner, LockTarget, LockFails, AllLocked, Recheck, Unlink,
                          UnlinkFails, AllRemoved, EndReset, KillReset, LeaveReset
<1> QED  BY <1>1, <1>2, <1>3, <1>4, <1>5, <1>6 DEF Next, ThreadStep, UserStep

----------------------------------------------------------------------------
(* Databases                                                               *)

LEMMA Balance ==
  ASSUME NEW m \in Int, NEW r \in Int, NEW f \in Int, NEW g \in Int, NEW a \in Int,
         NEW b \in Int, NEW p \in Int, NEW q \in Int, g + q <= f + p, b <= a
  PROVE  m + g + b + q - r <= m + f + a + p - r
OBVIOUS

\* A free path leaves room for one more.
LEMMA NewInode ==
  ASSUME IInv, path["db"] = NoFile
  PROVE  made + 1 \in Inodes
<1>1. Cardinality(corrupt) \in Nat /\ Cardinality(corrupt) <= MaxCorrupt /\ resets <= MaxResets
  BY FS_CardinalityType DEF IInv, Databases, TypeOK
<1>2. Free = 1 /\ Armed \in Nat /\ Pending \in Nat
  BY DEF Free, Armed, Pending
<1>3. made + 1 + Armed + Pending <= 1 + Cardinality(corrupt) + resets
  BY <1>2 DEF IInv, Databases
<1> QED  BY <1>1, <1>2, <1>3, Types, Constants DEF IInv, Inodes

\* A step that damages nothing keeps the count, if what it creates was free,
\* what it frees was armed or pending, and nothing becomes armed.
LEMMA SameDamage ==
  ASSUME IInv, corrupt' = corrupt, made' \in Nat, resets' \in Nat,
         made' + Free' + Armed' + Pending' - resets' <= made + Free + Armed + Pending - resets,
         path["db"]' <= made', path["wal"]' <= made', \A t \in Threads : conn[t]' <= made'
  PROVE  Databases'
<1>1. Cardinality(corrupt) \in Nat
  BY FS_CardinalityType DEF IInv, Databases
<1>2. /\ Free \in Nat /\ Armed \in Nat /\ Pending \in Nat
      /\ Free' \in Nat /\ Armed' \in Nat /\ Pending' \in Nat
  BY DEF Free, Armed, Pending
<1> QED  BY <1>1, <1>2, Types DEF IInv, Databases

LEMMA DatabasesStep == ASSUME IInv, Next PROVE Databases'
<1> USE Types, Constants DEF IInv
<1>0. /\ path["db"] <= made /\ path["wal"] <= made /\ \A t \in Threads : conn[t] <= made
      /\ made + 1 \notin corrupt /\ Pending \in {0, 1} /\ Free \in {0, 1} /\ Armed \in {0, 1}
  BY DEF Databases, TypeOK, Free, Armed, Pending
<1>1. CASE StartExporter \/ LeaveExporter
  BY <1>0, <1>1, SameDamage DEF StartExporter, LeaveExporter, store, reset, Free, Armed, Pending
<1>2. CASE Exit \/ Kill
  <2>1. Free' = Free /\ Pending' = Pending /\ Armed' <= Armed /\ Armed' \in {0, 1}
    BY <1>2 DEF Exit, Kill, EndThreads, reset, Free, Armed, Pending
  <2>2. corrupt' = corrupt /\ made' = made /\ resets' = resets /\ path' = path
    BY <1>2 DEF Exit, Kill, reset
  <2>3. \A t \in Threads : conn[t]' <= made'
    BY <1>2, <2>2 DEF Exit, Kill, EndThreads
  <2> QED  BY <1>0, <2>1, <2>2, <2>3, SameDamage
<1>3. CASE Damage
  <2>1. /\ IsFiniteSet(corrupt') /\ Cardinality(corrupt') = Cardinality(corrupt) + 1
        /\ Cardinality(corrupt) \in Nat /\ Cardinality(corrupt) < MaxCorrupt
    BY <1>3, FS_AddElement, FS_CardinalityType DEF Damage, Databases
  <2>2. UNCHANGED <<path, made, conn, resets>>
    BY <1>3 DEF Damage, reset
  <2>3. Free' = Free /\ Pending' = Pending /\ Armed' \in {0, 1}
    BY <1>3 DEF Damage, reset, Free, Armed, Pending
  <2> QED  BY <1>0, <2>1, <2>2, <2>3 DEF Databases
<1>4. ASSUME NEW t \in Threads, ThreadStep(t) PROVE Databases'
  <2> USE <1>4 DEF Go
  <2>0. DOMAIN pc = Threads /\ DOMAIN conn = Threads
    BY DEF TypeOK
  <2>1. corrupt' = corrupt /\ Pending' = Pending /\ resets' = resets
    BY ThreadFrame DEF reset, Pending
  <2>2. CASE Prepare(t)
    <3>1. made' + Free' <= made + Free /\ made' \in Nat /\ Free' \in {0, 1}
      BY <2>2 DEF Prepare, Create, Free
    <3>2. Armed' = Armed
      BY <1>0, <2>0, <2>1, <2>2 DEF Prepare, Create, Armed
    <3>3. path["db"]' <= made' /\ path["wal"]' <= made' /\ \A o \in Threads : conn[o]' <= made'
      BY <1>0, <2>2 DEF Prepare, Create
    <3> QED  BY <1>0, <2>1, <3>1, <3>2, <3>3, SameDamage
  <2>3. CASE OpenGood(t)
    <3>1. made' + Free' <= made + Free /\ made' \in Nat /\ Free' \in {0, 1}
      BY <2>3 DEF OpenGood, Free
    <3>2. Armed' = Armed
      BY <1>0, <2>0, <2>1, <2>3 DEF OpenGood, Opening, Armed
    <3>3. path["db"]' <= made' /\ path["wal"]' <= made' /\ \A o \in Threads : conn[o]' <= made'
      BY <1>0, <2>0, <2>3 DEF OpenGood
    <3> QED  BY <1>0, <2>1, <3>1, <3>2, <3>3, SameDamage
  <2>4. CASE OpenCorrupt(t) \/ OpenRefused(t) \/ LockRecovery(t)
    <3>1. UNCHANGED <<path, made, conn>>
      BY <2>4 DEF OpenCorrupt, OpenRefused, LockRecovery
    <3>2. Armed' = Armed
      BY <2>0, <2>1, <2>4, <3>1
         DEF OpenCorrupt, AfterCorrupt, OpenRefused, Opening, LockRecovery, Raise, Armed
    <3>3. Free' = Free
      BY <3>1 DEF Free
    <3> QED  BY <1>0, <2>1, <3>1, <3>2, <3>3, SameDamage
  <2>5. CASE QuarantineMain(t)
    <3>1. \A o \in Threads \ {t} : pc[o] # "main"
      BY <2>5 DEF QuarantineMain, RecoveryOwner, Recovering
    <3>2. path["db"]' = NoFile /\ path["wal"]' = path["wal"] /\ UNCHANGED <<made, conn>>
      BY <2>5 DEF QuarantineMain
    <3>3. Armed = 1 /\ Armed' = 0 /\ Free' = 1
      BY <2>0, <2>1, <2>5, <3>1, <3>2 DEF QuarantineMain, Armed, Free
    <3> QED  BY <1>0, <2>1, <3>2, <3>3, SameDamage
  <2>6. CASE QuarantineSidecars(t) \/ NothingToQuarantine(t) \/ PruneEvidence(t) \/ Close(t)
    <3>1. path["db"]' = path["db"] /\ made' = made /\ path["wal"]' \in {path["wal"], NoFile}
      BY <2>6 DEF QuarantineSidecars, NothingToQuarantine, PruneEvidence, Close
    <3>2. \A o \in Threads : conn[o]' \in {conn[o], NoFile}
      BY <2>0, <2>6 DEF QuarantineSidecars, NothingToQuarantine, PruneEvidence, Close
    <3>3. Armed' = Armed /\ Free' = Free
      BY <2>0, <2>1, <2>6, <3>1
         DEF QuarantineSidecars, NothingToQuarantine, PruneEvidence, Close, Raise, Armed, Free
    <3> QED  BY <1>0, <2>1, <3>1, <3>2, <3>3, SameDamage
  <2> QED  BY <2>2, <2>3, <2>4, <2>5, <2>6 DEF ThreadStep, OpenStep
<1>5. CASE \E u \in Users : UserStep(u)
  <2>1. path["db"]' = path["db"] /\ path["wal"]' = path["wal"]
    BY <1>5 DEF UserStep, OpenGuard, LockGuard, CloseGuard
  <2>2. UNCHANGED <<corrupt, made, conn, pc, resets, rpc, removed>>
    BY <1>5, UserFrame DEF store, reset
  <2> QED  BY <1>0, <2>1, <2>2, SameDamage DEF Free, Armed, Pending
<1>6. CASE BeginReset
  <2>1. UNCHANGED <<path, corrupt, made, conn, pc>> /\ resets' = resets + 1
    BY <1>6 DEF BeginReset, store
  <2>2. Free' = Free /\ Armed' = Armed /\ Pending' \in {0, 1}
    BY <2>1 DEF Free, Armed, Pending
  <2> QED  BY <1>0, <2>1, <2>2, SameDamage DEF Pending
<1>7. CASE ResetStep
  <2>1. UNCHANGED <<corrupt, made, conn, pc, resets>>
    BY <1>7, ResetFrame DEF store
  <2>2. CASE Unlink
    <3> DEFINE p == First(existing \ removed)
    <3>0. existing \ removed \subseteq Paths /\ existing \ removed # {}
      BY <2>2 DEF Unlink
    <3>1. p \in Paths /\ p \notin removed
      BY <3>0, FirstIn
    <3>2. /\ path' = [path EXCEPT ![p] = NoFile] /\ path[p] # NoFile
          /\ removed' = removed \cup {p} /\ rpc = "unlink" /\ rpc' = "unlink"
      BY <2>2 DEF Unlink, ResetGoes
    <3> HIDE DEF p
    <3>3. Free' + Pending' <= Free + Pending /\ Free' \in {0, 1} /\ Pending' \in {0, 1}
      BY <3>1, <3>2 DEF Free, Pending
    <3>4. Armed' <= Armed /\ Armed' \in {0, 1}
      BY <2>1, <3>1, <3>2 DEF Armed
    <3>5. path["db"]' <= made' /\ path["wal"]' <= made'
      BY <1>0, <2>1, <3>1, <3>2
    <3>6. \A t \in Threads : conn[t]' <= made'
      BY <1>0, <2>1
    <3>7. made' + Free' + Armed' + Pending' - resets' <= made + Free + Armed + Pending - resets
      <4>1. made' = made /\ resets' = resets /\ made \in Int /\ resets \in Int
        BY <2>1
      <4>2. /\ Free \in Int /\ Free' \in Int /\ Pending \in Int /\ Pending' \in Int
            /\ Armed \in Int /\ Armed' \in Int
        BY <1>0, <3>3, <3>4
      <4>3. Free' + Pending' <= Free + Pending /\ Armed' <= Armed
        BY <3>3, <3>4
      <4> QED  BY <4>1, <4>2, <4>3, Balance
    <3> QED  BY <2>1, <3>5, <3>6, <3>7, SameDamage
  <2>3. CASE ~ Unlink
    <3>1. path' = path
      BY <1>7, <2>3 DEF ResetStep, LockTarget, LockFails, AllLocked, Recheck, UnlinkFails,
                        AllRemoved, EndReset, KillReset, LeaveReset
    <3>2. Pending' <= Pending /\ Pending' \in {0, 1}
      BY <1>7, <2>3 DEF ResetStep, LockTarget, LockFails, AllLocked, Recheck, UnlinkFails,
                        AllRemoved, EndReset, KillReset, LeaveReset, ResetGoes, Pending
    <3> QED  BY <1>0, <2>1, <3>1, <3>2, SameDamage DEF Free, Armed
  <2> QED  BY <2>2, <2>3
<1> QED  BY <1>1, <1>2, <1>3, <1>4, <1>5, <1>6, <1>7 DEF Next, ThreadStep, UserStep

----------------------------------------------------------------------------
(* Guard files                                                             *)

\* flock is one entry for each guard file created.
LEMMA Flocks ==
  ASSUME TypeOK
  PROVE  /\ flock \in [1..guards -> Users \cup {Nobody, Reset}]
         /\ flock \in Seq(Users \cup {Nobody, Reset}) /\ Len(flock) = guards
         /\ DOMAIN flock = 1..guards
         /\ fd \in [Users -> Nat] /\ DOMAIN upc = Users
<1>1. flock \in [1..guards -> Users \cup {Nobody, Reset}] /\ guards \in Nat
  BY DEF TypeOK
<1>2. flock \in Seq(Users \cup {Nobody, Reset})
  BY <1>1, SeqDef
<1>3. Len(flock) = guards
  BY <1>1, <1>2, LenProperties
<1> QED  BY <1>1, <1>2, <1>3 DEF TypeOK

LEMMA NewFlock ==
  ASSUME TypeOK
  PROVE  /\ Append(flock, Nobody) \in [1..(guards + 1) -> Users \cup {Nobody, Reset}]
         /\ \A g \in 1..guards : Append(flock, Nobody)[g] = flock[g]
<1> DEFINE S == Users \cup {Nobody, Reset}
<1>1. flock \in Seq(S) /\ Nobody \in S /\ Len(flock) = guards
  BY Flocks
<1> HIDE DEF S
<1>2. /\ Append(flock, Nobody) \in Seq(S) /\ Len(Append(flock, Nobody)) = guards + 1
      /\ \A g \in 1..guards : Append(flock, Nobody)[g] = flock[g]
  BY <1>1, AppendProperties
<1>3. Append(flock, Nobody) \in [1..(guards + 1) -> S]
  BY <1>2, LenProperties
<1> QED  BY <1>2, <1>3 DEF S

\* The target that is locked next is a path.
LEMMA LockedPath == ASSUME TypeOK, LockTarget PROVE First(ToLock) \in Paths
<1>1. ToLock \subseteq Paths
  BY Types DEF ToLock
<1>2. ToLock # {}
  BY DEF LockTarget
<1>3. First(ToLock) \in ToLock
  BY <1>1, <1>2, FirstIn
<1> QED  BY <1>1, <1>3

LEMMA GuardsStep == ASSUME IInv, Next PROVE Guards'
<1> USE Types, Constants, Flocks DEF IInv
<1>1. CASE StartExporter \/ LeaveExporter \/ Exit \/ Kill \/ Damage
  BY <1>1 DEF StartExporter, LeaveExporter, Exit, Kill, Damage, guardVars, reset, Guards
<1>2. ASSUME NEW t \in Threads, ThreadStep(t) PROVE Guards'
  <2>1. path["guard"]' = path["guard"]
    BY <1>2 DEF ThreadStep, OpenStep, Prepare, Create, OpenGood, OpenCorrupt, OpenRefused,
                LockRecovery, QuarantineMain, QuarantineSidecars, NothingToQuarantine,
                PruneEvidence, Close
  <2> QED  BY <1>2, <2>1, ThreadFrame DEF guardVars, reset, Guards
<1>3. ASSUME NEW u \in Users, UserStep(u) PROVE Guards'
  <2>1. UNCHANGED <<rpc, held>>
    BY <1>3, UserFrame DEF reset
  <2>2. CASE OpenGuard(u)
    <3>1. CASE path["guard"] = NoFile
      <4>1. guards' = guards + 1 /\ path["guard"]' = guards + 1 /\ fd' = [fd EXCEPT ![u] = guards + 1]
        BY <2>2, <3>1 DEF OpenGuard
      <4>2. \A g \in 1..guards : flock'[g] = flock[g]
        <5>1. flock' = Append(flock, Nobody)
          BY <2>2, <3>1 DEF OpenGuard
        <5> QED  BY <5>1, NewFlock
      <4>3. upc' = [upc EXCEPT ![u] = "opened"]
        BY <2>2 DEF OpenGuard
      <4>4. \A v \in Users : upc'[v] = "holding" => v # u /\ flock'[fd'[v]] = v
        BY <4>1, <4>2, <4>3 DEF Guards, NoFile
      <4>5. rpc' # "off" /\ held'["guard"] # NoFile => flock'[held'["guard"]] = Reset
        BY <2>1, <4>2 DEF Guards, NoFile
      <4>6. /\ \A v \in Users : fd'[v] <= guards' /\ (upc'[v] # "idle" => fd'[v] # NoFile)
            /\ path'["guard"] <= guards' /\ held'["guard"] <= guards'
        BY <2>1, <4>1, <4>3 DEF Guards, NoFile
      <4> QED  BY <4>4, <4>5, <4>6 DEF Guards
    <3>2. CASE path["guard"] # NoFile
      <4>1. /\ UNCHANGED <<guards, flock, path>> /\ fd' = [fd EXCEPT ![u] = path["guard"]]
            /\ upc' = [upc EXCEPT ![u] = "opened"]
        BY <2>2, <3>2 DEF OpenGuard
      <4> QED  BY <2>1, <3>2, <4>1 DEF Guards
    <3> QED  BY <3>1, <3>2
  <2>3. CASE LockGuard(u)
    BY <2>1, <2>3 DEF LockGuard, Guards
  <2>4. CASE CloseGuard(u)
    <3>1. UNCHANGED <<path, guards>>
      BY <2>4 DEF CloseGuard
    <3> QED  BY <2>1, <2>4, <3>1 DEF CloseGuard, Guards
  <2> QED  BY <1>3, <2>2, <2>3, <2>4 DEF UserStep
<1>4. CASE BeginReset
  BY <1>4 DEF BeginReset, guardVars, Guards
<1>5. CASE ResetStep
  <2>1. CASE LockTarget
    <3> DEFINE p == First(ToLock)
    <3>1. p \in Paths
      BY Zenon, <2>1, LockedPath DEF IInv
    <3>2. /\ held' = [held EXCEPT ![p] = path[p]] /\ UNCHANGED <<path, upc, fd, guards>>
          /\ flock' = IF p = "guard" THEN [flock EXCEPT ![path[p]] = Reset] ELSE flock
          /\ path[p] # NoFile /\ (p = "guard" => flock[path[p]] = Nobody)
      BY <2>1 DEF LockTarget, ResetGoes, TryLock, LockedByOther
    <3> HIDE DEF p
    <3>3. CASE p = "guard"
      BY <3>2, <3>3 DEF Guards
    <3>4. CASE p # "guard"
      <4>1. held["guard"]' = held["guard"] /\ flock' = flock /\ rpc # "off"
        BY <2>1, <3>1, <3>2, <3>4 DEF LockTarget
      <4> QED  BY <3>2, <4>1 DEF Guards
    <3> QED  BY <3>3, <3>4
  <2>2. CASE LockFails \/ AllLocked \/ Recheck \/ UnlinkFails \/ AllRemoved
    BY <2>2 DEF LockFails, AllLocked, Recheck, UnlinkFails, AllRemoved, ResetGoes, Guards
  <2>3. CASE Unlink
    BY <2>3 DEF Unlink, ResetGoes, Guards
  <2>4. CASE EndReset \/ KillReset
    BY <2>4 DEF EndReset, KillReset, LeaveReset, Guards
  <2> QED  BY <1>5, <2>1, <2>2, <2>3, <2>4 DEF ResetStep
<1> QED  BY <1>1, <1>2, <1>3, <1>4, <1>5 DEF Next, ThreadStep, UserStep

----------------------------------------------------------------------------
(* What a reset removes                                                    *)

LEMMA RemovalStep == ASSUME IInv, Next PROVE Removal'
<1> USE Types, Constants DEF IInv
<1>1. CASE StartExporter \/ LeaveExporter \/ Exit \/ Kill \/ Damage
  BY <1>1 DEF StartExporter, LeaveExporter, Exit, Kill, Damage, reset, Removal
<1>2. ASSUME NEW t \in Threads, ThreadStep(t) PROVE Removal'
  <2>1. UNCHANGED <<rpc, existing, held, removed>> /\ (strays' = (strays \/ runtime = Reset))
    BY <1>2, ThreadFrame DEF reset
  <2>2. rpc # "off" => strays'
    BY <2>1 DEF Owner
  <2> QED  BY <2>1, <2>2 DEF Removal
<1>3. ASSUME NEW u \in Users, UserStep(u) PROVE Removal'
  <2>1. UNCHANGED <<rpc, existing, held, removed, strays>>
    BY <1>3, UserFrame DEF reset
  <2>2. \A p \in Paths : path[p]' = path[p]
                            \/ (p = "guard" /\ path[p] = NoFile /\ path[p]' = guards + 1)
    BY <1>3 DEF UserStep, OpenGuard, LockGuard, CloseGuard
  <2>3. held["guard"] <= guards
    BY DEF Guards
  <2>4. \A p \in existing : held[p] # NoFile /\ path[p] = held[p] => path[p]' = held[p]
    BY <2>2
  <2>5. \A p \in removed : path[p] # held[p] => path[p]' # held[p]
    BY <2>2, <2>3
  <2> QED  BY <2>1, <2>4, <2>5 DEF Removal
<1>4. CASE BeginReset
  BY <1>4 DEF BeginReset, Removal
<1>5. CASE ResetStep
  <2>1. CASE LockTarget
    BY <2>1 DEF LockTarget, ResetGoes, Removal
  <2>2. CASE LockFails
    BY <2>2 DEF LockFails, ResetGoes, Removal
  <2>3. CASE AllLocked
    BY <2>3 DEF AllLocked, ToLock, ResetGoes, Removal
  <2>4. CASE Recheck
    BY <2>4 DEF Recheck, SameFiles, ResetGoes, Removal
  <2>5. CASE Unlink \/ UnlinkFails
    <3> DEFINE p == First(existing \ removed)
    <3>1. existing \ removed \subseteq Paths /\ existing \ removed # {}
      BY <2>5 DEF Unlink, UnlinkFails
    <3>2. p \in existing /\ p \notin removed
      BY <3>1, FirstIn
    <3> HIDE DEF p
    <3>3. CASE Unlink
      <4>1. /\ path' = [path EXCEPT ![p] = NoFile] /\ removed' = removed \cup {p}
            /\ rpc = "unlink" /\ rpc' = "unlink" /\ UNCHANGED <<held, existing, strays>>
        BY <3>3 DEF Unlink, ResetGoes, p
      <4> QED  BY <3>2, <4>1 DEF Removal
    <3>4. CASE UnlinkFails
      <4>1. /\ rpc = "unlink" /\ rpc' = "aborted"
            /\ UNCHANGED <<path, held, removed, existing, strays>>
        BY <3>4 DEF UnlinkFails, ResetGoes
      <4> QED  BY <3>2, <4>1 DEF Removal
    <3> QED  BY <2>5, <3>3, <3>4
  <2>6. CASE AllRemoved
    BY <2>6 DEF AllRemoved, ResetGoes, Removal
  <2>7. CASE EndReset \/ KillReset
    BY <2>7 DEF EndReset, KillReset, LeaveReset, Removal
  <2> QED  BY <1>5, <2>1, <2>2, <2>3, <2>4, <2>5, <2>6, <2>7 DEF ResetStep
<1> QED  BY <1>1, <1>2, <1>3, <1>4, <1>5 DEF Next, ThreadStep, UserStep

----------------------------------------------------------------------------
(* Types                                                                   *)

Where == {"idle", "prepared", "failed", "retry", "main", "wal", "prepare", "rebuilt",
          "prune", "open"}

\* TypeOK by what changes together.
ProcTypes ==
  /\ proc \in {"down", "up", "leaving"} /\ runtime \in {Nobody, Exporter, Reset}
  /\ faults \in 0..MaxFaults /\ strays \in BOOLEAN
PathTypes ==
  /\ path \in [Paths -> Nat]
  /\ path["db"] \in Inodes \cup {NoFile} /\ path["wal"] \in Inodes \cup {NoFile}
InodeTypes == corrupt \subseteq 1..made /\ made \in {NoFile} \cup Inodes
ThreadTypes ==
  /\ pc \in [Threads -> Where] /\ conn \in [Threads -> Inodes \cup {NoFile}]
  /\ recovery \in Threads \cup {Nobody}
EvidenceTypes == evidence \in Seq(Inodes \cup {NoFile})
UserTypes ==
  /\ upc \in [Users -> {"idle", "opened", "holding"}] /\ fd \in [Users -> Nat]
  /\ guards \in Nat /\ flock \in [1..guards -> Users \cup {Nobody, Reset}]
ResetTypes ==
  /\ rpc \in {"off", "lock", "recheck", "unlink", "done", "aborted"}
  /\ existing \subseteq Paths /\ removed \subseteq existing
  /\ held \in [Paths -> Nat] /\ resets \in 0..MaxResets

LEMMA TypeParts ==
  /\ TypeOK => /\ ProcTypes /\ PathTypes /\ InodeTypes /\ ThreadTypes /\ EvidenceTypes
               /\ UserTypes /\ ResetTypes
  /\ /\ ProcTypes' /\ PathTypes' /\ InodeTypes' /\ ThreadTypes' /\ EvidenceTypes'
     /\ UserTypes' /\ ResetTypes'
     => TypeOK'
<1>1. TypeOK <=> /\ ProcTypes /\ PathTypes /\ InodeTypes /\ ThreadTypes /\ EvidenceTypes
                 /\ UserTypes /\ ResetTypes
  BY Zenon DEF TypeOK, Where, ProcTypes, PathTypes, InodeTypes, ThreadTypes, EvidenceTypes,
               UserTypes, ResetTypes
<1>2. TypeOK' <=> /\ ProcTypes' /\ PathTypes' /\ InodeTypes' /\ ThreadTypes' /\ EvidenceTypes'
                  /\ UserTypes' /\ ResetTypes'
  BY Zenon DEF TypeOK, Where, ProcTypes, PathTypes, InodeTypes, ThreadTypes, EvidenceTypes,
               UserTypes, ResetTypes
<1> QED  BY <1>1, <1>2

\* A part of which nothing changes keeps its types.
LEMMA PartsKept ==
  ASSUME TypeOK
  PROVE  /\ UNCHANGED <<proc, runtime, faults, strays>> => ProcTypes'
         /\ UNCHANGED path => PathTypes'
         /\ UNCHANGED <<corrupt, made>> => InodeTypes'
         /\ UNCHANGED <<pc, conn, recovery>> => ThreadTypes'
         /\ UNCHANGED evidence => EvidenceTypes'
         /\ UNCHANGED guardVars => UserTypes'
         /\ UNCHANGED reset => ResetTypes'
         /\ UNCHANGED store => InodeTypes' /\ ThreadTypes' /\ EvidenceTypes'
<1> USE TypeParts
<1>1. UNCHANGED <<proc, runtime, faults, strays>> => ProcTypes'
  BY DEF ProcTypes
<1>2. UNCHANGED path => PathTypes'
  BY DEF PathTypes
<1>3. UNCHANGED <<corrupt, made>> => InodeTypes'
  BY DEF InodeTypes
<1>4. UNCHANGED <<pc, conn, recovery>> => ThreadTypes'
  BY DEF ThreadTypes
<1>5. UNCHANGED evidence => EvidenceTypes'
  BY DEF EvidenceTypes
<1>6. UNCHANGED guardVars => UserTypes'
  BY DEF UserTypes, guardVars
<1>7. UNCHANGED reset => ResetTypes'
  BY DEF ResetTypes, reset
<1> QED  BY <1>1, <1>2, <1>3, <1>4, <1>5, <1>6, <1>7 DEF store

\* The process and its lock.
LEMMA ProcessTypes ==
  ASSUME IInv, StartExporter \/ LeaveExporter \/ Exit \/ Kill \/ Damage
  PROVE  TypeOK'
<1>0. TypeOK /\ ProcTypes
  BY TypeParts DEF IInv
<1>1. /\ UNCHANGED <<path, evidence, made>> /\ UNCHANGED guardVars /\ UNCHANGED reset
      /\ strays' = strays
  BY DEF StartExporter, LeaveExporter, Exit, Kill, Damage, store
<1>2. PathTypes' /\ EvidenceTypes' /\ UserTypes' /\ ResetTypes'
  BY <1>0, <1>1, PartsKept
<1>3. ProcTypes'
  <2>1. /\ proc' \in {proc, "down", "up", "leaving"}
        /\ runtime' \in {runtime, Nobody, Exporter}
        /\ faults' = faults \/ (faults < MaxFaults /\ faults' = faults + 1)
    BY DEF StartExporter, LeaveExporter, Exit, Kill, Damage, EndThreads,
           acquire_runtime_lock, release_runtime_lock
  <2> QED  BY <1>0, <1>1, <2>1, Constants DEF ProcTypes
<1>4. InodeTypes'
  <2>1. CASE Damage
    <3>1. path["db"] \in 1..made /\ corrupt' = corrupt \cup {path["db"]}
      BY <1>0, <2>1, Types DEF Damage, Databases, IInv
    <3> QED  BY <1>0, <1>1, <3>1, TypeParts DEF InodeTypes
  <2>2. CASE ~Damage
    <3>1. UNCHANGED <<corrupt, made>>
      BY <2>2 DEF StartExporter, LeaveExporter, Exit, Kill, store
    <3> QED  BY <1>0, <3>1, PartsKept
  <2> QED  BY <2>1, <2>2
<1>5. ThreadTypes'
  <2>1. CASE EndThreads
    BY <2>1 DEF EndThreads, ThreadTypes, Where
  <2>2. CASE ~EndThreads
    <3>1. UNCHANGED <<pc, conn, recovery>>
      BY <2>2 DEF StartExporter, LeaveExporter, Exit, Kill, Damage, store
    <3> QED  BY <1>0, <3>1, PartsKept
  <2> QED  BY <2>1, <2>2
<1> QED  BY <1>2, <1>3, <1>4, <1>5, TypeParts

\* A thread moves from one place of the constructor to another.
LEMMA ThreadMoves ==
  ASSUME TypeOK, NEW t \in Threads, ThreadStep(t)
  PROVE  /\ pc' \in [Threads -> Where]
         /\ recovery' \in Threads \cup {Nobody}
<1>0. pc \in [Threads -> Where] /\ recovery \in Threads \cup {Nobody}
  BY TypeParts DEF ThreadTypes
<1>1. \E to \in Where : pc' = [pc EXCEPT ![t] = to]
  BY DEF ThreadStep, OpenStep, Prepare, OpenGood, OpenCorrupt, AfterCorrupt, OpenRefused,
         LockRecovery, QuarantineMain, QuarantineSidecars, NothingToQuarantine,
         PruneEvidence, Close, Raise, Go, Where
<1>2. recovery' \in {recovery, Nobody, t}
  BY DEF ThreadStep, OpenStep, Prepare, OpenGood, OpenCorrupt, OpenRefused,
         LockRecovery, QuarantineMain, QuarantineSidecars, NothingToQuarantine,
         PruneEvidence, Close, Raise
<1> QED  BY <1>0, <1>1, <1>2

\* The steps of a thread that write no file.
LEMMA MovesTypes ==
  ASSUME IInv, NEW t \in Threads,
         OpenCorrupt(t) \/ OpenRefused(t) \/ LockRecovery(t)
  PROVE  PathTypes' /\ InodeTypes' /\ EvidenceTypes' /\ conn' = conn
<1>1. UNCHANGED <<path, corrupt, made, evidence, conn>>
  BY DEF OpenCorrupt, OpenRefused, LockRecovery
<1> QED  BY <1>1, PartsKept DEF IInv

\* The steps of a thread that create, rename or remove files.
LEMMA FilesTypes ==
  ASSUME IInv, NEW t \in Threads,
         \/ Prepare(t) \/ OpenGood(t) \/ QuarantineMain(t) \/ QuarantineSidecars(t)
         \/ NothingToQuarantine(t) \/ PruneEvidence(t) \/ Close(t)
  PROVE  PathTypes' /\ InodeTypes' /\ EvidenceTypes' /\ conn' \in [Threads -> Inodes \cup {NoFile}]
<1>0. /\ TypeOK /\ PathTypes /\ InodeTypes /\ evidence \in Seq(Inodes \cup {NoFile})
      /\ conn \in [Threads -> Inodes \cup {NoFile}]
  BY TypeParts DEF IInv, ThreadTypes, EvidenceTypes
<1>1. /\ path \in [Paths -> Nat] /\ "db" \in Paths /\ "wal" \in Paths /\ NoFile = 0
      /\ path["db"] \in Inodes \cup {NoFile} /\ path["wal"] \in Inodes \cup {NoFile}
      /\ made \in Nat /\ corrupt \subseteq 1..made
  BY <1>0, Types DEF PathTypes, InodeTypes
<1>2. corrupt' = corrupt
  BY ThreadFrame DEF ThreadStep, OpenStep
<1>3. ASSUME made' = made, evidence' = evidence, conn' = conn PROVE InodeTypes' /\ EvidenceTypes'
  BY <1>0, <1>2, <1>3, PartsKept
<1>4. ASSUME path["db"] = NoFile, made' = made + 1 PROVE made + 1 \in Inodes /\ InodeTypes'
  <2>1. made + 1 \in Inodes
    BY <1>0, <1>4, NewInode DEF IInv
  <2> QED  BY <1>1, <1>2, <1>4, <2>1 DEF InodeTypes
<1>5. CASE Prepare(t)
  <2>1. UNCHANGED <<evidence, conn>>
    BY <1>5 DEF Prepare
  <2>2. CASE path["db"] = NoFile
    <3>1. made' = made + 1 /\ path' = [path EXCEPT !["db"] = made + 1]
      BY <1>5, <2>2 DEF Prepare, Create
    <3>2. PathTypes'
      BY <1>1, <1>4, <2>2, <3>1 DEF PathTypes
    <3> QED  BY <1>0, <1>4, <2>1, <2>2, <3>1, <3>2, PartsKept
  <2>3. CASE path["db"] # NoFile
    <3>1. UNCHANGED <<made, path>>
      BY <1>5, <2>3 DEF Prepare, Create
    <3> QED  BY <1>0, <1>2, <2>1, <3>1, PartsKept
  <2> QED  BY <2>2, <2>3
<1>6. CASE OpenGood(t)
  <2> DEFINE db == IF path["db"] = NoFile THEN made + 1 ELSE path["db"]
  <2>1. /\ made' = IF path["db"] = NoFile THEN made + 1 ELSE made
        /\ path' = [path EXCEPT !["db"] = db, !["wal"] = db]
        /\ conn' = [conn EXCEPT ![t] = db] /\ evidence' = evidence
    BY <1>6 DEF OpenGood
  <2>2. db \in Inodes /\ db \in Nat /\ InodeTypes'
    <3>1. CASE path["db"] = NoFile
      BY <1>1, <1>4, <2>1, <3>1
    <3>2. CASE path["db"] # NoFile
      BY <1>0, <1>1, <1>2, <2>1, <3>2, PartsKept
    <3> QED  BY <3>1, <3>2
  <2> HIDE DEF db
  <2>3. PathTypes'
    BY <1>1, <2>1, <2>2 DEF PathTypes
  <2>4. EvidenceTypes'
    BY <1>0, <2>1, PartsKept
  <2> QED  BY <1>0, <2>1, <2>2, <2>3, <2>4
<1>7. CASE QuarantineMain(t)
  <2>1. /\ evidence' = Append(evidence, path["db"]) /\ path' = [path EXCEPT !["db"] = NoFile]
        /\ UNCHANGED <<made, conn>>
    BY <1>7 DEF QuarantineMain
  <2>2. EvidenceTypes'
    BY <1>0, <1>1, <2>1, AppendProperties DEF EvidenceTypes
  <2>3. PathTypes'
    BY <1>1, <2>1 DEF PathTypes
  <2> QED  BY <1>0, <1>2, <2>1, <2>2, <2>3, PartsKept
<1>8. CASE QuarantineSidecars(t)
  <2>1. path' = [path EXCEPT !["wal"] = NoFile] /\ UNCHANGED <<made, conn, evidence>>
    BY <1>8 DEF QuarantineSidecars
  <2>2. PathTypes'
    BY <1>1, <2>1 DEF PathTypes
  <2> QED  BY <1>0, <1>3, <2>1, <2>2
<1>9. CASE NothingToQuarantine(t) \/ PruneEvidence(t)
  <2>1. UNCHANGED <<path, made, conn>>
    BY <1>9 DEF NothingToQuarantine, PruneEvidence
  <2>2. Len(evidence) \in Nat /\ \A i \in 1..Len(evidence) : evidence[i] \in Inodes \cup {NoFile}
    BY <1>0, LenProperties, ElementOfSeq
  <2>3. EvidenceTypes'
    <3>1. CASE NothingToQuarantine(t)
      <4>1. evidence' = SubSeq(evidence, 1, Len(evidence) - 1)
        BY <3>1 DEF NothingToQuarantine
      <4>2. evidence # <<>>
        BY <3>1 DEF NothingToQuarantine, Raise, Go, RecoveryOwner, IInv
      <4> QED  BY <1>0, <2>2, <4>1, <4>2, SubSeqProperties DEF EvidenceTypes
    <3>2. CASE PruneEvidence(t)
      <4>1. evidence' = Newest(evidence, MaxCorruptStateGenerations)
        BY <3>2 DEF PruneEvidence
      <4> QED  BY <1>0, <2>2, <4>1, SubSeqProperties, Constants DEF EvidenceTypes, Newest
    <3> QED  BY <1>9, <3>1, <3>2
  <2> QED  BY <1>0, <1>2, <2>1, <2>3, PartsKept
<1>10. CASE Close(t)
  <2>1. /\ conn' = [conn EXCEPT ![t] = NoFile] /\ UNCHANGED <<made, evidence>>
        /\ path' = path \/ path' = [path EXCEPT !["wal"] = NoFile]
    BY <1>10 DEF Close
  <2>2. PathTypes'
    BY <1>1, <2>1 DEF PathTypes
  <2> QED  BY <1>0, <1>2, <2>1, <2>2, PartsKept
<1> QED  BY <1>5, <1>6, <1>7, <1>8, <1>9, <1>10

\* The steps of the users of the guard.
LEMMA UsersTypes ==
  ASSUME IInv, NEW u \in Users, UserStep(u)
  PROVE  UserTypes' /\ PathTypes'
<1>0. /\ TypeOK /\ PathTypes /\ UserTypes /\ path \in [Paths -> Nat]
      /\ "guard" \in Paths /\ path["guard"] \in Nat
  BY TypeParts, Types DEF IInv
<1>1. upc' \in [Users -> {"idle", "opened", "holding"}]
  BY <1>0 DEF UserStep, OpenGuard, LockGuard, CloseGuard, UserTypes
<1>2. CASE OpenGuard(u) /\ path["guard"] = NoFile
  <2>1. /\ guards' = guards + 1 /\ path' = [path EXCEPT !["guard"] = guards + 1]
        /\ flock' = Append(flock, Nobody) /\ fd' = [fd EXCEPT ![u] = path'["guard"]]
    BY <1>2 DEF OpenGuard
  <2>2. flock' \in [1..guards' -> Users \cup {Nobody, Reset}]
    BY <1>0, <2>1, NewFlock
  <2>3. guards + 1 \in Nat /\ path'["guard"] = guards + 1
    BY <1>0, <2>1 DEF UserTypes
  <2>4. fd' \in [Users -> Nat]
    BY <1>0, <2>1, <2>3 DEF UserTypes
  <2>5. PathTypes'
    BY <1>0, <2>1, <2>3 DEF PathTypes
  <2> QED  BY <1>1, <2>1, <2>2, <2>3, <2>4, <2>5 DEF UserTypes
<1>3. CASE OpenGuard(u) /\ path["guard"] # NoFile
  <2>1. UNCHANGED <<guards, flock, path>> /\ fd' = [fd EXCEPT ![u] = path["guard"]]
    BY <1>3 DEF OpenGuard
  <2>2. PathTypes'
    BY <1>0, <2>1, PartsKept
  <2> QED  BY <1>0, <1>1, <2>1, <2>2 DEF UserTypes
<1>4. CASE LockGuard(u) \/ CloseGuard(u)
  <2>1. UNCHANGED <<path, guards>> /\ fd' \in {fd, [fd EXCEPT ![u] = NoFile]}
    BY <1>4 DEF LockGuard, CloseGuard
  <2>2. \E x \in {Nobody, u} : flock' = [flock EXCEPT ![fd[u]] = x]
    BY <1>4 DEF LockGuard, CloseGuard
  <2>3. flock' \in [1..guards -> Users \cup {Nobody, Reset}]
    <3>1. PICK x \in {Nobody, u} : flock' = [flock EXCEPT ![fd[u]] = x]
      BY <2>2
    <3>2. flock \in [1..guards -> Users \cup {Nobody, Reset}] /\ x \in Users \cup {Nobody, Reset}
      BY <1>0 DEF UserTypes
    <3> QED  BY <3>1, <3>2
  <2>4. fd' \in [Users -> Nat]
    BY <1>0, <2>1 DEF UserTypes, NoFile
  <2>5. PathTypes'
    BY <1>0, <2>1, PartsKept
  <2> QED  BY <1>0, <1>1, <2>1, <2>3, <2>4, <2>5 DEF UserTypes
<1> QED  BY <1>2, <1>3, <1>4 DEF UserStep

\* The steps of a reset.
LEMMA ResetsTypes ==
  ASSUME IInv, BeginReset \/ ResetStep
  PROVE  ProcTypes' /\ PathTypes' /\ UserTypes' /\ ResetTypes'
<1>0. /\ TypeOK /\ ProcTypes /\ PathTypes /\ UserTypes /\ ResetTypes
      /\ path \in [Paths -> Nat] /\ NoFile = 0
  BY TypeParts, Types DEF IInv
<1>1. CASE BeginReset
  <2>1. /\ resets < MaxResets /\ resets' = resets + 1 /\ held' = [p \in Paths |-> NoFile]
        /\ existing' \subseteq Paths /\ removed' = {} /\ rpc' = "lock"
        /\ runtime' = Reset /\ strays' = FALSE /\ UNCHANGED <<proc, path, faults>>
        /\ UNCHANGED guardVars
    BY <1>1 DEF BeginReset, acquire_runtime_lock
  <2>2. ResetTypes'
    BY <1>0, <2>1, Constants DEF ResetTypes
  <2>3. ProcTypes'
    BY <1>0, <2>1 DEF ProcTypes
  <2> QED  BY <1>0, <2>1, <2>2, <2>3, PartsKept
<1>2. CASE ResetStep
  <2>0. UNCHANGED <<proc, upc, fd, guards, resets>> /\ faults' \in 0..MaxFaults
    BY <1>0, <1>2, ResetFrame, Constants DEF ProcTypes
  <2>1. CASE LockTarget
    <3> DEFINE p == First(ToLock)
    <3>1. p \in Paths
      BY Zenon, <1>0, <2>1, LockedPath
    <3>2. /\ held' = [held EXCEPT ![p] = path[p]]
          /\ flock' = IF p = "guard" THEN [flock EXCEPT ![path[p]] = Reset] ELSE flock
          /\ rpc' = "lock" /\ UNCHANGED <<path, removed, runtime, existing, strays>>
      BY <2>1 DEF LockTarget, ResetGoes
    <3> HIDE DEF p
    <3>3. UserTypes'
      BY <1>0, <2>0, <3>2 DEF UserTypes
    <3>4. ResetTypes'
      BY <1>0, <2>0, <3>1, <3>2 DEF ResetTypes
    <3>5. ProcTypes'
      BY <1>0, <2>0, <3>2 DEF ProcTypes
    <3> QED  BY <1>0, <3>2, <3>3, <3>4, <3>5, PartsKept
  <2>2. CASE LockFails \/ AllLocked \/ Recheck \/ UnlinkFails \/ AllRemoved
    <3>1. /\ UNCHANGED <<path, held, removed, flock, runtime, existing>>
          /\ rpc' \in {"aborted", "recheck", "unlink", "done"} /\ strays' \in {strays, FALSE}
      BY <2>2 DEF LockFails, AllLocked, Recheck, UnlinkFails, AllRemoved, ResetGoes
    <3>2. ResetTypes'
      BY <1>0, <2>0, <3>1 DEF ResetTypes
    <3>3. UNCHANGED guardVars
      BY <2>0, <3>1 DEF guardVars
    <3>4. ProcTypes'
      BY <1>0, <2>0, <3>1 DEF ProcTypes
    <3> QED  BY <1>0, <3>1, <3>2, <3>3, <3>4, PartsKept
  <2>3. CASE Unlink
    <3> DEFINE p == First(existing \ removed)
    <3>1. existing \ removed \subseteq Paths /\ existing \ removed # {}
      BY <1>0, <2>3 DEF Unlink, ResetTypes
    <3>2. p \in existing
      BY <3>1, FirstIn
    <3>3. /\ path' = [path EXCEPT ![p] = NoFile] /\ removed' = removed \cup {p} /\ rpc' = "unlink"
          /\ UNCHANGED <<held, flock, runtime, existing, strays>>
      BY <2>3 DEF Unlink, ResetGoes
    <3> HIDE DEF p
    <3>4. PathTypes'
      <4>1. "db" \in Paths /\ "wal" \in Paths
        BY DEF Paths
      <4>2. path' \in [Paths -> Nat]
        BY <1>0, <3>3
      <4>3. path'["db"] \in {path["db"], NoFile} /\ path'["wal"] \in {path["wal"], NoFile}
        BY <1>0, <3>3, <4>1
      <4> QED  BY <1>0, <4>2, <4>3 DEF PathTypes
    <3>5. ResetTypes'
      BY <1>0, <2>0, <3>2, <3>3 DEF ResetTypes
    <3>6. UNCHANGED guardVars
      BY <2>0, <3>3 DEF guardVars
    <3>7. ProcTypes'
      BY <1>0, <2>0, <3>3 DEF ProcTypes
    <3> QED  BY <1>0, <3>4, <3>5, <3>6, <3>7, PartsKept
  <2>4. CASE EndReset \/ KillReset
    <3>1. /\ flock' = [g \in DOMAIN flock |-> IF flock[g] = Reset THEN Nobody ELSE flock[g]]
          /\ held' = [p \in Paths |-> NoFile]
          /\ rpc' = "off" /\ runtime' = Nobody /\ existing' = {} /\ removed' = {}
          /\ strays' = FALSE /\ path' = path
      BY <2>4 DEF EndReset, KillReset, LeaveReset, release_runtime_lock
    <3>2. UserTypes'
      <4>1. flock \in [1..guards -> Users \cup {Nobody, Reset}]
        BY <1>0 DEF UserTypes
      <4>2. flock' \in [1..guards -> Users \cup {Nobody, Reset}]
        BY <3>1, <4>1
      <4> QED  BY <1>0, <2>0, <4>2 DEF UserTypes
    <3>3. ResetTypes'
      BY <1>0, <2>0, <3>1 DEF ResetTypes
    <3>4. ProcTypes'
      BY <1>0, <2>0, <3>1 DEF ProcTypes
    <3> QED  BY <1>0, <3>1, <3>2, <3>3, <3>4, PartsKept
  <2> QED  BY <1>2, <2>1, <2>2, <2>3, <2>4 DEF ResetStep
<1> QED  BY <1>1, <1>2

LEMMA TypeStep == ASSUME IInv, Next PROVE TypeOK'
<1>0. TypeOK
  BY DEF IInv
<1>1. CASE StartExporter \/ LeaveExporter \/ Exit \/ Kill \/ Damage
  BY <1>1, ProcessTypes
<1>2. ASSUME NEW t \in Threads, ThreadStep(t) PROVE TypeOK'
  <2>1. /\ UNCHANGED <<proc, runtime>> /\ UNCHANGED guardVars /\ UNCHANGED reset
        /\ strays' = (strays \/ runtime = Reset)
    BY <1>2, ThreadFrame
  <2>2. UserTypes' /\ ResetTypes'
    BY <1>0, <2>1, PartsKept
  <2>3. ProcTypes'
    <3>1. faults' = faults \/ (faults < MaxFaults /\ faults' = faults + 1)
      BY <1>2 DEF ThreadStep, OpenStep, Prepare, OpenGood, OpenCorrupt, OpenRefused,
         LockRecovery, QuarantineMain, QuarantineSidecars, NothingToQuarantine,
         PruneEvidence, Close
    <3> QED  BY <1>0, <2>1, <3>1, TypeParts, Constants DEF ProcTypes
  <2>4. PathTypes' /\ InodeTypes' /\ EvidenceTypes' /\ conn' \in [Threads -> Inodes \cup {NoFile}]
    BY <1>0, <1>2, MovesTypes, FilesTypes, TypeParts DEF ThreadStep, OpenStep, ThreadTypes
  <2>5. ThreadTypes'
    BY <1>0, <1>2, <2>4, ThreadMoves DEF ThreadTypes
  <2> QED  BY <2>2, <2>3, <2>4, <2>5, TypeParts
<1>3. ASSUME NEW u \in Users, UserStep(u) PROVE TypeOK'
  <2>1. /\ UNCHANGED <<proc, runtime, faults, strays>> /\ UNCHANGED store /\ UNCHANGED reset
    BY <1>3, UserFrame
  <2>2. ProcTypes' /\ InodeTypes' /\ ThreadTypes' /\ EvidenceTypes' /\ ResetTypes'
    BY <1>0, <2>1, PartsKept
  <2> QED  BY <1>3, <2>2, UsersTypes, TypeParts
<1>4. CASE BeginReset \/ ResetStep
  <2>1. UNCHANGED store
    BY <1>4, ResetFrame DEF BeginReset
  <2>2. InodeTypes' /\ ThreadTypes' /\ EvidenceTypes'
    BY <1>0, <2>1, PartsKept
  <2> QED  BY <1>4, <2>2, ResetsTypes, TypeParts
<1> QED  BY <1>1, <1>2, <1>3, <1>4 DEF Next, ThreadStep, UserStep

----------------------------------------------------------------------------
(* The invariant and what follows from it                                  *)

LEMMA InitInv == Init => IInv
<1> SUFFICES ASSUME Init PROVE IInv
  OBVIOUS
<1> USE Constants
<1>1. TypeOK
  <2>1. evidence \in Seq(Inodes \cup {NoFile})
    BY EmptySeq DEF Init
  <2>2. flock \in [1..guards -> Users \cup {Nobody, Reset}]
    <3>1. flock \in Seq(Users \cup {Nobody, Reset}) /\ Len(flock) = 0 /\ guards = 0
      BY EmptySeq DEF Init
    <3> QED  BY <3>1, LenProperties
  <2>3. corrupt \subseteq 1..made
    BY DEF Init
  <2>4. /\ path \in [Paths -> Nat] /\ held \in [Paths -> Nat] /\ path["db"] = NoFile
        /\ path["wal"] = NoFile /\ fd \in [Users -> Nat] /\ guards \in Nat
        /\ conn \in [Threads -> Inodes \cup {NoFile}]
    BY DEF Init, Paths, NoFile
  <2>5. /\ pc \in [Threads -> Where] /\ upc \in [Users -> {"idle", "opened", "holding"}]
        /\ recovery \in Threads \cup {Nobody} /\ made \in {NoFile} \cup Inodes
    BY DEF Init, Where, NoFile
  <2>6. /\ proc \in {"down", "up", "leaving"} /\ runtime \in {Nobody, Exporter, Reset}
        /\ rpc \in {"off", "lock", "recheck", "unlink", "done", "aborted"}
        /\ existing \subseteq Paths /\ removed \subseteq existing /\ strays \in BOOLEAN
    BY Zenon DEF Init
  <2>7. resets \in 0..MaxResets /\ faults \in 0..MaxFaults
    BY DEF Init
  <2> QED  BY <2>1, <2>2, <2>3, <2>4, <2>5, <2>6, <2>7 DEF Where, TypeOK
<1>2. Owner /\ RecoveryOwner /\ SeenCorrupt
  BY DEF Init, Owner, RecoveryOwner, Recovering, SeenCorrupt
<1>3. Databases
  <2>1. IsFiniteSet({}) /\ Cardinality({}) = 0
    BY FS_EmptySet
  <2>2. Free = 1 /\ Armed = 0 /\ Pending = 0
    BY DEF Init, Free, Armed, Pending, Paths, NoFile
  <2>3. corrupt = {} /\ made = 0 /\ resets = 0 /\ path["db"] = 0 /\ path["wal"] = 0
    BY DEF Init, Paths, NoFile
  <2>4. \A t \in Threads : conn[t] <= made
    BY <2>3 DEF Init, NoFile
  <2> QED  BY <2>1, <2>2, <2>3, <2>4 DEF Databases
<1>4. Guards
  BY DEF Init, Guards, Paths, NoFile
<1>5. Removal
  BY DEF Init, Removal
<1> QED  BY <1>1, <1>2, <1>3, <1>4, <1>5 DEF IInv

LEMMA StepInv == IInv /\ [Next]_vars => IInv'
<1> SUFFICES ASSUME IInv, [Next]_vars PROVE IInv'
  OBVIOUS
<1>1. CASE Next
  BY <1>1, TypeStep, OwnerStep, RecoveryOwnerStep, SeenCorruptStep, DatabasesStep, GuardsStep,
     RemovalStep DEF IInv
<1>2. CASE UNCHANGED vars
  <2>1. /\ UNCHANGED <<proc, runtime, path, corrupt, made, pc, conn, recovery, evidence, faults,
                       strays>>
        /\ UNCHANGED guardVars /\ UNCHANGED reset
    BY <1>2 DEF vars, store
  <2>2. TypeOK'
    BY <2>1, TypeParts, PartsKept DEF IInv
  <2>3. Owner' /\ RecoveryOwner' /\ SeenCorrupt'
    BY <2>1 DEF reset, IInv, Owner, RecoveryOwner, SeenCorrupt
  <2>4. Databases'
    <3>1. Free' = Free /\ Armed' = Armed /\ Pending' = Pending
      BY <2>1 DEF reset, Free, Armed, Pending
    <3> QED  BY <2>1, <3>1 DEF reset, IInv, Databases
  <2>5. Guards'
    BY <2>1 DEF guardVars, reset, IInv, Guards
  <2>6. Removal'
    BY <2>1 DEF reset, IInv, Removal
  <2> QED  BY <2>2, <2>3, <2>4, <2>5, <2>6 DEF IInv
<1> QED  BY <1>1, <1>2

(* Every state the open, recovery and reset paths of state.py can reach   *)
(* has the locks, the inode counts and the reset's file lists in order.    *)
THEOREM Invariance == Spec => []IInv
BY InitInv, StepInv, PTL DEF Spec

(* The types of the store's files, threads, users and reset; with them,    *)
(* that recoveries and resets create no more databases than were damaged   *)
(* or removed, plus one.                                                   *)
THEOREM TypeCorrect == Spec => []TypeOK
<1>1. IInv => TypeOK
  BY DEF IInv
<1> QED  BY <1>1, Invariance, PTL

(* However reset_exporter_state ends, by itself, by an error or by the     *)
(* death of its process, it has removed nothing before it held every       *)
(* target, only what it held, and never a guard file whose flock somebody  *)
(* else holds, for any number of users of the guard and any interleaving   *)
(* with the exporter's threads up to the second look.                      *)
THEOREM ResetIsChecked == Spec => []ResetChecked
<1>1. ASSUME IInv PROVE ResetChecked
  <2>1. ASSUME NEW u \in Users, upc[u] = "holding", "guard" \in removed
        PROVE  fd[u] # held["guard"]
    <3>1. rpc # "off" /\ held["guard"] # NoFile
      BY <1>1, <2>1, Types DEF IInv, Removal
    <3>2. flock[held["guard"]] = Reset /\ flock[fd[u]] = u
      BY <1>1, <2>1, <3>1 DEF IInv, Guards
    <3> QED  BY <3>2, Constants
  <2> QED  BY <1>1, <2>1 DEF IInv, Removal, ResetChecked
<1> QED  BY <1>1, Invariance, PTL

(* While the exporter owns the runtime lock, _quarantine_corrupt_files     *)
(* renames only a database that is damaged, however many threads fail to   *)
(* open it at once.                                                        *)
THEOREM HealthyIsKept == Spec => HealthyKept
<1>1. ASSUME IInv, [Next]_vars
      PROVE  [\A t \in Threads :
                 QuarantineMain(t) /\ proc = "up" => path["db"] \in corrupt]_vars
  BY <1>1 DEF IInv, SeenCorrupt, QuarantineMain, Go
<1> QED  BY <1>1, Invariance, PTL DEF Spec, HealthyKept
=============================================================================
