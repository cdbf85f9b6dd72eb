----------------------------- MODULE StateFiles -----------------------------
(***************************************************************************)
(* The files of the restart-persistent state (state.py): the runtime lock  *)
(* that admits one exporter or one reset, StateStore's open with recovery  *)
(* from a corrupt database, and the one-shot reset of database, sidecars   *)
(* and guard files.  The exporter's collector threads open the store       *)
(* independently of one another; a CLI process uses the guard file.  A     *)
(* path holds an inode number or NoFile; "-wal" stands for both sidecars.  *)
(* SQLite, flock and the disk are external.                                *)
(***************************************************************************)
EXTENDS Integers, Sequences, FiniteSets

CONSTANTS Threads,       \* exporter threads that open the store
          Users,         \* users of the guard file outside the exporter
          MaxCorruptStateGenerations,
          MaxCorrupt, MaxResets, MaxFaults       \* bounds

ASSUME StoreAssumption ==
  /\ {MaxCorrupt, MaxResets, MaxFaults} \subseteq Nat
  /\ MaxCorruptStateGenerations \in Nat \ {0}
  /\ Threads \cap Users = {}
  /\ {"nobody", "exporter", "reset"} \cap (Threads \cup Users) = {}

NoFile == 0
Nobody == "nobody"
Exporter == "exporter"
Reset == "reset"
Inodes == 1..(1 + MaxCorrupt + MaxResets)
Order == <<"db", "wal", "guard">>       \* the order of reset's candidates
Paths == {"db", "wal", "guard"}

VARIABLES
  proc,        \* the exporter: "down", "up", or "leaving" without its lock
  runtime,     \* owner of the runtime lock
  path,        \* the inode at each path; the wal's is its database's
  corrupt,     \* damaged database inodes
  made, guards,  \* database and guard inodes created so far
  pc, conn,    \* per thread: where it is, and the inode it has open
  recovery,    \* owner of the recovery lock
  evidence,    \* quarantined generations, oldest first: the main file's inode
  upc, fd, flock,  \* per user: where it is, its descriptor; guard flock owners
  rpc, existing, held, removed,  \* reset: where it is, and its file lists
  resets, faults,
  strays       \* a thread acted since the reset looked at the files (ghost)

store == <<pc, conn, recovery, evidence, corrupt, made>>
guardVars == <<upc, fd, flock, guards>>
reset == <<rpc, existing, held, removed, resets>>
vars == <<proc, runtime, path, store, guardVars, reset, faults, strays>>

TypeOK ==
  /\ proc \in {"down", "up", "leaving"}
  /\ runtime \in {Nobody, Exporter, Reset}
  /\ path \in [Paths -> Nat]
  /\ path["db"] \in Inodes \cup {NoFile} /\ path["wal"] \in Inodes \cup {NoFile}
  /\ corrupt \subseteq 1..made /\ made \in {NoFile} \cup Inodes /\ guards \in Nat
  /\ pc \in [Threads -> {"idle", "prepared", "failed", "retry", "main", "wal",
                         "prepare", "rebuilt", "prune", "open"}]
  /\ conn \in [Threads -> Inodes \cup {NoFile}]
  /\ recovery \in Threads \cup {Nobody}
  /\ evidence \in Seq(Inodes \cup {NoFile})
  /\ upc \in [Users -> {"idle", "opened", "holding"}]
  /\ fd \in [Users -> Nat]
  /\ flock \in [1..guards -> Users \cup {Nobody, Reset}]
  /\ rpc \in {"off", "lock", "recheck", "unlink", "done", "aborted"}
  /\ existing \subseteq Paths /\ removed \subseteq existing
  /\ held \in [Paths -> Nat]
  /\ resets \in 0..MaxResets /\ faults \in 0..MaxFaults /\ strays \in BOOLEAN

Init ==
  /\ proc = "down" /\ runtime = Nobody
  /\ path = [p \in Paths |-> NoFile]
  /\ corrupt = {} /\ made = 0 /\ guards = 0
  /\ pc = [t \in Threads |-> "idle"] /\ conn = [t \in Threads |-> NoFile]
  /\ recovery = Nobody /\ evidence = <<>>
  /\ upc = [u \in Users |-> "idle"] /\ fd = [u \in Users |-> NoFile]
  /\ flock = <<>>
  /\ rpc = "off" /\ existing = {} /\ removed = {}
  /\ held = [p \in Paths |-> NoFile]
  /\ resets = 0 /\ faults = 0 /\ strays = FALSE

----------------------------------------------------------------------------
(* The exporter process and its runtime lock.                              *)

acquire_runtime_lock(owner) == runtime = Nobody /\ runtime' = owner
release_runtime_lock == runtime' = Nobody

StartExporter ==
  /\ proc = "down"
  /\ acquire_runtime_lock(Exporter)
  /\ proc' = "up"
  /\ UNCHANGED <<path, store, guardVars, reset, faults, strays>>

\* main() releases the lock; threads whose join timed out are still there.
LeaveExporter ==
  /\ proc = "up"
  /\ release_runtime_lock
  /\ proc' = "leaving"
  /\ UNCHANGED <<path, store, guardVars, reset, faults, strays>>

\* The process ends: its threads, connections and locks are gone, the WAL of
\* a connection that was not closed is not.
EndThreads ==
  /\ proc' = "down"
  /\ pc' = [t \in Threads |-> "idle"] /\ conn' = [t \in Threads |-> NoFile]
  /\ recovery' = Nobody

Exit ==
  /\ proc = "leaving"
  /\ EndThreads
  /\ UNCHANGED <<runtime, path, evidence, corrupt, made, guardVars, reset, faults, strays>>

Kill ==
  /\ proc = "up" /\ faults < MaxFaults
  /\ faults' = faults + 1
  /\ EndThreads /\ release_runtime_lock
  /\ UNCHANGED <<path, evidence, corrupt, made, guardVars, reset, strays>>

----------------------------------------------------------------------------
(* StateStore: open, recover, close.                                       *)

Go(t, from, to) ==
  /\ proc # "down"
  /\ pc[t] = from /\ pc' = [pc EXCEPT ![t] = to]
  /\ strays' = (strays \/ runtime = Reset)

\* Mutant: the recovery lock is kept.
RaiseLeaky(t, from) == Go(t, from, "idle") /\ UNCHANGED recovery

\* The constructor raises; the recovery lock is released on every way out.
Raise(t, from) ==
  /\ Go(t, from, "idle")
  /\ recovery' = IF recovery = t THEN Nobody ELSE recovery

\* Mutant: the file is created anew whether it exists or not.
CreateAnyway == made' = made + 1 /\ path' = [path EXCEPT !["db"] = made + 1]

\* _prepare_state_file creates the database file when the path is free.
Create ==
  IF path["db"] = NoFile
    THEN made' = made + 1 /\ path' = [path EXCEPT !["db"] = made + 1]
    ELSE UNCHANGED <<made, path>>

Prepare(t) ==
  /\ Go(t, "idle", "prepared") \/ Go(t, "prepare", "rebuilt")
  /\ Create
  /\ UNCHANGED <<proc, runtime, conn, recovery, evidence, corrupt, guardVars, reset, faults>>

Opening == {"prepared", "retry", "rebuilt"}

\* SQLite opens the database, or creates it when the path has become free;
\* a WAL that is not this database's is dropped.
OpenGood(t) ==
  /\ path["db"] \notin corrupt
  /\ \E from \in Opening :
        Go(t, from, IF from = "prepared" THEN "open" ELSE "prune")
  /\ made' = IF path["db"] = NoFile THEN made + 1 ELSE made
  /\ LET db == IF path["db"] = NoFile THEN made + 1 ELSE path["db"]
     IN  /\ path' = [path EXCEPT !["db"] = db, !["wal"] = db]
         /\ conn' = [conn EXCEPT ![t] = db]
  /\ UNCHANGED <<proc, runtime, recovery, evidence, corrupt, guardVars, reset, faults>>

\* Mutant: quarantine without a second look under the lock.
AfterCorruptNoRetry(from) == "main"

\* The first failure is looked at again under the recovery lock.
AfterCorrupt(from) == IF from = "prepared" THEN "failed" ELSE "main"

OpenCorrupt(t) ==
  /\ path["db"] \in corrupt
  /\ \/ \E from \in {"prepared", "retry"} :
           Go(t, from, AfterCorrupt(from)) /\ UNCHANGED recovery
     \/ Raise(t, "rebuilt")
  /\ UNCHANGED <<proc, runtime, path, conn, evidence, corrupt, made, guardVars, reset, faults>>

\* The database stays locked beyond the retries, or the file has a newer or
\* foreign schema: an error recovery does not touch.
OpenRefused(t) ==
  /\ faults < MaxFaults /\ faults' = faults + 1
  /\ \E from \in Opening : Raise(t, from)
  /\ UNCHANGED <<proc, runtime, path, conn, evidence, corrupt, made, guardVars, reset>>

LockRecovery(t) ==
  /\ Go(t, "failed", "retry")
  /\ recovery = Nobody /\ recovery' = t
  /\ UNCHANGED <<proc, runtime, path, conn, evidence, corrupt, made, guardVars, reset, faults>>

\* _quarantine_corrupt_files renames whatever the pathnames now name, one
\* after the other.
QuarantineMain(t) ==
  /\ Go(t, "main", "wal")
  /\ evidence' = Append(evidence, path["db"])
  /\ path' = [path EXCEPT !["db"] = NoFile]
  /\ UNCHANGED <<proc, runtime, conn, recovery, corrupt, made, guardVars, reset, faults>>

QuarantineSidecars(t) ==
  /\ Go(t, "wal", "prepare")
  /\ evidence[Len(evidence)] # NoFile \/ path["wal"] # NoFile
  /\ path' = [path EXCEPT !["wal"] = NoFile]
  /\ UNCHANGED <<proc, runtime, conn, recovery, evidence, corrupt, made, guardVars, reset, faults>>

NothingToQuarantine(t) ==
  /\ Raise(t, "wal")
  /\ evidence[Len(evidence)] = NoFile /\ path["wal"] = NoFile
  /\ evidence' = SubSeq(evidence, 1, Len(evidence) - 1)
  /\ UNCHANGED <<proc, runtime, path, conn, corrupt, made, guardVars, reset, faults>>

Newest(s, n) == SubSeq(s, IF Len(s) > n THEN Len(s) - n + 1 ELSE 1, Len(s))

\* The last step of a recovery; the lock is released after it.
PruneEvidence(t) ==
  /\ Go(t, "prune", "open")
  /\ recovery' = Nobody
  /\ evidence' = Newest(evidence, MaxCorruptStateGenerations)
  /\ UNCHANGED <<proc, runtime, path, conn, corrupt, made, guardVars, reset, faults>>

\* The last connection to a database removes its WAL.
Close(t) ==
  /\ Go(t, "open", "idle")
  /\ conn' = [conn EXCEPT ![t] = NoFile]
  /\ path' = IF path["wal"] = conn[t] /\ \A o \in Threads \ {t} : conn[o] # conn[t]
               THEN [path EXCEPT !["wal"] = NoFile] ELSE path
  /\ UNCHANGED <<proc, runtime, recovery, evidence, corrupt, made, guardVars, reset, faults>>

OpenStep(t) ==
  \/ OpenGood(t) \/ OpenCorrupt(t) \/ OpenRefused(t) \/ LockRecovery(t)
  \/ QuarantineMain(t) \/ QuarantineSidecars(t) \/ NothingToQuarantine(t)
  \/ PruneEvidence(t)

\* Disk damage.
Damage ==
  /\ path["db"] # NoFile /\ path["db"] \notin corrupt
  /\ Cardinality(corrupt) < MaxCorrupt
  /\ corrupt' = corrupt \cup {path["db"]}
  /\ UNCHANGED <<proc, runtime, path, pc, conn, recovery, evidence, made,
                 guardVars, reset, faults, strays>>

----------------------------------------------------------------------------
(* A guard file's user: open or create, wait for the flock, work, release. *)

OpenGuard(u) ==
  /\ upc[u] = "idle" /\ upc' = [upc EXCEPT ![u] = "opened"]
  /\ IF path["guard"] = NoFile
       THEN /\ guards' = guards + 1
            /\ flock' = Append(flock, Nobody)
            /\ path' = [path EXCEPT !["guard"] = guards + 1]
       ELSE UNCHANGED <<guards, flock, path>>
  /\ fd' = [fd EXCEPT ![u] = path'["guard"]]
  /\ UNCHANGED <<proc, runtime, store, reset, faults, strays>>

LockGuard(u) ==
  /\ upc[u] = "opened" /\ flock[fd[u]] = Nobody
  /\ upc' = [upc EXCEPT ![u] = "holding"]
  /\ flock' = [flock EXCEPT ![fd[u]] = u]
  /\ UNCHANGED <<proc, runtime, path, store, fd, guards, reset, faults, strays>>

CloseGuard(u) ==
  /\ upc[u] = "holding" /\ upc' = [upc EXCEPT ![u] = "idle"]
  /\ flock' = [flock EXCEPT ![fd[u]] = Nobody]
  /\ fd' = [fd EXCEPT ![u] = NoFile]
  /\ UNCHANGED <<proc, runtime, path, store, guards, reset, faults, strays>>

----------------------------------------------------------------------------
(* reset_exporter_state.                                                   *)

First(S) == CHOOSE p \in S : \A i, j \in 1..3 :
                Order[i] = p /\ Order[j] \in S => i <= j

\* Take the runtime lock and validate the whole set before anything else.
BeginReset ==
  /\ rpc = "off" /\ resets < MaxResets
  /\ acquire_runtime_lock(Reset)
  /\ resets' = resets + 1
  /\ rpc' = "lock"
  /\ existing' = {p \in Paths : path[p] # NoFile}
  /\ held' = [p \in Paths |-> NoFile] /\ removed' = {}
  /\ strays' = FALSE
  /\ UNCHANGED <<proc, path, store, guardVars, faults>>

ResetGoes(to) ==
  /\ rpc' = to
  /\ UNCHANGED <<proc, runtime, existing, resets, store, upc, fd, guards, faults>>

ToLock == {p \in existing : held[p] = NoFile}
LockedByOther(p) == p = "guard" /\ flock[path[p]] # Nobody

\* Mutant: a file in use counts as locked.
LockUnasked(p) == TRUE

TryLock(p) == ~ LockedByOther(p)

\* Open and flock the targets one by one.
LockTarget ==
  /\ rpc = "lock" /\ ToLock # {}
  /\ LET p == First(ToLock)
     IN  /\ path[p] # NoFile /\ TryLock(p)
         /\ held' = [held EXCEPT ![p] = path[p]]
         /\ flock' = IF p = "guard" THEN [flock EXCEPT ![path[p]] = Reset] ELSE flock
  /\ UNCHANGED <<path, removed, strays>>
  /\ ResetGoes("lock")

\* A target is not a regular file, is gone, or is in use.
LockFails ==
  /\ rpc = "lock" /\ ToLock # {}
  /\ UNCHANGED <<path, held, removed, flock, strays>>
  /\ ResetGoes("aborted")

AllLocked ==
  /\ rpc = "lock" /\ ToLock = {}
  /\ UNCHANGED <<path, held, removed, flock, strays>>
  /\ ResetGoes("recheck")

\* Mutant: the second look asks whether the files are there, not which they are.
FilesThere == \A p \in existing : path[p] # NoFile

\* Path identity after all locks are held.
SameFiles == \A p \in existing : path[p] = held[p]

Recheck ==
  /\ rpc = "recheck"
  /\ strays' = FALSE
  /\ UNCHANGED <<path, held, removed, flock>>
  /\ ResetGoes(IF SameFiles THEN "unlink" ELSE "aborted")

Unlink ==
  /\ rpc = "unlink" /\ removed # existing
  /\ LET p == First(existing \ removed)
     IN  /\ path[p] # NoFile
         /\ path' = [path EXCEPT ![p] = NoFile]
         /\ removed' = removed \cup {p}
  /\ UNCHANGED <<held, flock, strays>>
  /\ ResetGoes("unlink")

\* unlink raises: the path has become free, or its directory or file system
\* refuses.  What went before stays removed.
UnlinkFails ==
  /\ rpc = "unlink" /\ removed # existing
  /\ UNCHANGED <<path, held, removed, flock, strays>>
  /\ ResetGoes("aborted")

AllRemoved ==
  /\ rpc = "unlink" /\ removed = existing
  /\ UNCHANGED <<path, held, removed, flock, strays>>
  /\ ResetGoes("done")

\* Every flock is given back, and the runtime lock.
LeaveReset ==
  /\ rpc' = "off"
  /\ flock' = [g \in DOMAIN flock |-> IF flock[g] = Reset THEN Nobody ELSE flock[g]]
  /\ release_runtime_lock
  /\ existing' = {} /\ removed' = {} /\ held' = [p \in Paths |-> NoFile]
  /\ strays' = FALSE
  /\ UNCHANGED <<proc, path, store, upc, fd, guards, resets>>

\* finally.
EndReset ==
  /\ rpc \in {"done", "aborted"}
  /\ LeaveReset
  /\ UNCHANGED faults

\* The process of the reset dies anywhere; the kernel drops its locks.
KillReset ==
  /\ rpc # "off" /\ faults < MaxFaults
  /\ faults' = faults + 1
  /\ LeaveReset

ResetStep ==
  \/ LockTarget \/ LockFails \/ AllLocked \/ Recheck
  \/ Unlink \/ UnlinkFails \/ AllRemoved \/ EndReset \/ KillReset

Next ==
  \/ StartExporter \/ LeaveExporter \/ Exit \/ Kill \/ Damage
  \/ \E t \in Threads : Prepare(t) \/ OpenStep(t) \/ Close(t)
  \/ \E u \in Users : OpenGuard(u) \/ LockGuard(u) \/ CloseGuard(u)
  \/ BeginReset \/ ResetStep

Spec == Init /\ [][Next]_vars

\* A thread that has begun to open keeps running; nothing has to begin.
Fairness == \A t \in Threads :
              WF_vars(OpenStep(t) \/ (pc[t] = "prepare" /\ Prepare(t)))
FairSpec == Spec /\ Fairness

----------------------------------------------------------------------------
(* Properties.                                                             *)

(* A rebuilt or never damaged database is not quarantined: a thread whose  *)
(* open failed on the old inode retries under the recovery lock before it  *)
(* renames the pathname (224-235).  This is what the process is entitled   *)
(* to while it owns the runtime lock; a thread that outlives its release   *)
(* may meet a reset.                                                       *)
HealthyKept ==
  [][\A t \in Threads :
        QuarantineMain(t) /\ proc = "up" => path["db"] \in corrupt]_vars

(* A reset stopped by an error or killed may leave some of its targets     *)
(* removed, but it removes nothing before it has locked all of them        *)
(* (168-170), goes on only with the files it has locked (190-195), and     *)
(* when it is done none of those is left.  Threads of an exporter that has *)
(* just released the runtime lock may interfere after the second look.     *)
(* Nobody works under a guard file that was removed.                       *)
ResetChecked ==
  /\ removed # {} => \A p \in existing : held[p] # NoFile
  /\ rpc = "unlink" /\ ~ strays => \A p \in existing \ removed : path[p] = held[p]
  /\ rpc = "done" /\ ~ strays => \A p \in existing : path[p] # held[p]
  /\ \A u \in Users :
        upc[u] = "holding" /\ "guard" \in removed => fd[u] # held["guard"]

(* Opening the store always ends, in a connection or an error: whoever     *)
(* recovers gives the recovery lock back on every path (224-238, 365-383). *)
OpenEnds ==
  \A t \in Threads : (pc[t] \notin {"idle", "open"}) ~> (pc[t] \in {"idle", "open"})
=============================================================================
