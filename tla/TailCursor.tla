---------------------------- MODULE TailCursor ----------------------------
(***************************************************************************)
(* The incremental id-tail of one Data Connect view                        *)
(* (collectors/dataconnect_tail.py) with the cursor it keeps in the state  *)
(* store (state.py).  A cycle reads the cursor, runs the MIN, MAX and tail *)
(* statements one after the other, commits the new cursor and only then    *)
(* adds the rows to the Prometheus counter.  The source (MnT, external)    *)
(* hands out ids on insert, makes rows readable a little later and not in  *)
(* id order, purges old rows, and may rebuild its id space.                *)
(***************************************************************************)
EXTENDS Integers, FiniteSetsExt

CONSTANTS
    Settle,        \* dataconnect_tail_settle_seconds
    Floor,         \* dataconnect_tail_max_backfill_hours
    HasIdColumn,   \* the discovered schema has the view's ID column
    Delay,         \* an event is readable at most this long after its timestamp
    Span,          \* longest time between a batch's MIN and its tail statement
    MaxTime, MaxId, MaxGen, MaxFaults      \* bounds of the model

\* The settle window must cover twice the source's delay, because timestamps
\* are assigned before ids and may run against them, and a batch as well.
ASSUME TailAssumption ==
    /\ {Settle, Floor, Delay, Span} \subseteq Nat
    /\ {MaxTime, MaxId, MaxGen, MaxFaults} \subseteq Nat
    /\ HasIdColumn \in BOOLEAN
    /\ 2 * Delay + Span <= Settle

Ids == 1..MaxId
Events == (0..MaxGen) \X Ids
NoId == 0                                  \* MIN or MAX of an empty view
NoCursor == [value |-> -1, anchor |-> 0]

VARIABLES
    now,
    gen, ts, st, last,          \* source: id generation, rows, newest id
    cursor,                     \* persisted row of dataconnect_tail_cursor
    pc, cur, minId, maxId, found, dropped, qgen, began,   \* the cycle
    tally, arrived, excused, cgen, faults                  \* history

source == <<gen, ts, st, last>>
cycle  == <<cur, minId, maxId, found, dropped, qgen, began>>
vars   == <<now, source, cursor, pc, cycle, tally, arrived, excused, cgen, faults>>

TypeOK ==
    /\ now \in 0..MaxTime
    /\ gen \in 0..MaxGen
    /\ ts \in [Ids -> 0..MaxTime]
    /\ st \in [Ids -> {"none", "open", "visible", "gone"}]
    /\ last \in 0..MaxId
    /\ {cursor, cur} \subseteq
          {NoCursor} \cup [value : 0..MaxId, anchor : 0..MaxId]
    /\ pc \in {"idle", "max", "tail", "save", "count"}
    /\ minId \in 0..MaxId /\ maxId \in 0..MaxId
    /\ found \in SUBSET Ids /\ dropped \in SUBSET Ids
    /\ qgen \in 0..MaxGen /\ cgen \in 0..MaxGen /\ began \in 0..MaxTime
    /\ tally \in [Events -> Nat]
    /\ arrived \in SUBSET Events
    /\ excused \in SUBSET Ids
    /\ faults \in 0..MaxFaults

Init ==
    /\ now = 0
    /\ gen = 0 /\ last = 0
    /\ ts = [i \in Ids |-> 0] /\ st = [i \in Ids |-> "none"]
    /\ cursor = NoCursor /\ cur = NoCursor
    /\ pc = "idle" /\ minId = NoId /\ maxId = NoId
    /\ found = {} /\ dropped = {} /\ qgen = 0 /\ began = 0
    /\ tally = [e \in Events |-> 0] /\ arrived = {}
    /\ excused = {} /\ cgen = 0 /\ faults = 0

----------------------------------------------------------------------------
(* The source.                                                             *)

Visible == {i \in Ids : st[i] = "visible"}

\* An id is assigned on insert; the event's own timestamp is up to Delay old.
Insert ==
    /\ last < MaxId
    /\ last' = last + 1
    /\ \E t \in 0..now :
          /\ t + Delay >= now
          /\ ts' = [ts EXCEPT ![last + 1] = t]
    /\ st' = [st EXCEPT ![last + 1] = "open"]
    /\ UNCHANGED <<now, gen, cursor, pc, cycle, tally, arrived, excused, cgen, faults>>

\* Inserts of different sessions become readable in any order.
Publish(i) ==
    /\ st[i] = "open"
    /\ st' = [st EXCEPT ![i] = "visible"]
    /\ arrived' = arrived \cup {<<gen, i>>}
    /\ UNCHANGED <<now, gen, ts, last, cursor, pc, cycle, tally, excused, cgen, faults>>

\* Retention removes the oldest rows.
Purge(i) ==
    /\ i \in Visible
    /\ st' = [j \in Ids |-> IF j \in Visible /\ j <= i THEN "gone" ELSE st[j]]
    /\ UNCHANGED <<now, gen, ts, last, cursor, pc, cycle, tally, arrived, excused, cgen, faults>>

\* The monitoring node is rebuilt: ids start again at 1.
Rebuild ==
    /\ gen < MaxGen
    /\ gen' = gen + 1
    /\ last' = 0
    /\ ts' = [i \in Ids |-> 0] /\ st' = [i \in Ids |-> "none"]
    /\ excused' = {}
    /\ UNCHANGED <<now, cursor, pc, cycle, tally, arrived, cgen, faults>>

Tick ==
    /\ now < MaxTime
    /\ \A i \in Ids : st[i] = "open" => ts[i] + Delay > now
    /\ pc \in {"max", "tail"} => now < began + Span
    /\ now' = now + 1
    /\ UNCHANGED <<source, cursor, pc, cycle, tally, arrived, excused, cgen, faults>>

----------------------------------------------------------------------------
(* One cycle of tail_counters.                                             *)

tail_cursor == cursor

\* A cycle's results do not outlive it.
EndCycle ==
    /\ pc' = "idle"
    /\ cur' = NoCursor /\ minId' = NoId /\ maxId' = NoId
    /\ found' = {} /\ dropped' = {} /\ qgen' = 0 /\ began' = 0

\* Rows of the current id space that the cursor passes without counting them.
Excuse(S) == excused' = IF qgen = gen THEN excused \cup S ELSE excused

meta_min_query == IF Visible = {} THEN NoId ELSE Min(Visible)
meta_max_query == IF Visible = {} THEN NoId ELSE Max(Visible)

\* A cycle opens the store, reads the cursor and runs the MIN statement; only
\* the cycle itself writes the cursor, so both are one step.
Begin ==
    /\ pc = "idle"
    /\ HasIdColumn
    /\ pc' = "max"
    /\ cur' = tail_cursor
    /\ minId' = meta_min_query
    /\ qgen' = gen /\ began' = now
    /\ UNCHANGED <<now, source, cursor, maxId, found, dropped,
                   tally, arrived, excused, cgen, faults>>

ReadMax ==
    /\ pc = "max"
    /\ pc' = IF cur = NoCursor THEN "save" ELSE "tail"
    /\ maxId' = meta_max_query
    /\ qgen' = gen
    /\ UNCHANGED <<now, source, cursor, cur, minId, found, dropped, began,
                   tally, arrived, excused, cgen, faults>>

IsSettled(i) == ts[i] + Settle < now
AboveFloor(i) == ts[i] + Floor >= now

\* Mutant: the row at the cursor is read again.
NewRowsInclusive == {i \in Visible : i >= cur.value /\ AboveFloor(i)}

NewRows == {i \in Visible : i > cur.value /\ AboveFloor(i)}

\* Mutant: settled rows above one that has not settled.
SettledRows == {i \in NewRows : IsSettled(i)}

\* Rows below the first row that has not settled.
SettledPrefix == {i \in NewRows : \A j \in NewRows : j <= i => IsSettled(j)}

tail_query ==
    /\ pc = "tail"
    /\ pc' = "save"
    /\ found' = SettledPrefix
    /\ dropped' = {i \in Visible : /\ i > cur.value
                                   /\ ~ AboveFloor(i)
                                   /\ \E j \in SettledPrefix : i < j}
    /\ qgen' = gen
    /\ UNCHANGED <<now, source, cursor, cur, minId, maxId, began,
                   tally, arrived, excused, cgen, faults>>

set_tail_cursor(value, anchor) ==
    cursor' = [value |-> value, anchor |-> anchor]

\* Mutant: the seed is one too high.
SaveColdPastTip ==
    /\ pc = "save" /\ cur = NoCursor
    /\ EndCycle
    /\ set_tail_cursor(maxId + 1, minId)
    /\ cgen' = qgen
    /\ Excuse(1..maxId)
    /\ UNCHANGED <<now, source, tally, arrived, faults>>

\* Cold start: seed at the tip and count strictly forward.
SaveCold ==
    /\ pc = "save" /\ cur = NoCursor
    /\ EndCycle
    /\ set_tail_cursor(maxId, minId)
    /\ cgen' = qgen
    /\ Excuse(1..maxId)
    /\ UNCHANGED <<now, source, tally, arrived, faults>>

\* Mutant: the maximum is not looked at.
AnchorDropOnly == minId # NoId /\ cur.anchor > 0 /\ minId < cur.anchor

SequenceReset ==
    \/ minId # NoId /\ cur.anchor > 0 /\ minId < cur.anchor
    \/ found = {} /\ maxId # NoId /\ maxId < cur.value

SaveReset ==
    /\ pc = "save" /\ cur # NoCursor /\ SequenceReset
    /\ EndCycle
    /\ set_tail_cursor(IF minId = NoId THEN 0 ELSE minId - 1, minId)
    /\ cgen' = qgen
    /\ UNCHANGED <<now, source, tally, arrived, excused, faults>>

\* Nothing settled: keep the cursor and refresh the anchor.
SaveQuiet ==
    /\ pc = "save" /\ cur # NoCursor /\ ~ SequenceReset
    /\ found = {}
    /\ EndCycle
    /\ IF minId # NoId THEN set_tail_cursor(cur.value, minId) ELSE UNCHANGED cursor
    /\ UNCHANGED <<now, source, tally, arrived, excused, cgen, faults>>

\* Advance to the last found row.  A cursor of an earlier id space whose
\* rebuild went unnoticed passes the rows it stood above.
SaveAdvance ==
    /\ pc = "save" /\ cur # NoCursor /\ ~ SequenceReset
    /\ found # {}
    /\ pc' = "count"
    /\ set_tail_cursor(Max(found), IF minId # NoId THEN minId ELSE cur.anchor)
    /\ cgen' = qgen
    /\ Excuse(dropped \cup (IF cgen = qgen THEN {} ELSE 1..cur.value))
    /\ UNCHANGED <<now, source, cycle, tally, arrived, faults>>

InFlight(e) == pc = "count" /\ e[1] = qgen /\ e[2] \in found

Increment ==
    /\ pc = "count"
    /\ EndCycle
    /\ tally' = [e \in Events |-> tally[e] + (IF InFlight(e) THEN 1 ELSE 0)]
    /\ UNCHANGED <<now, source, cursor, arrived, excused, cgen, faults>>

\* A statement or the save fails: the cycle raises before the cursor moves.
Fail ==
    /\ pc \in {"max", "tail", "save"}
    /\ faults < MaxFaults
    /\ faults' = faults + 1
    /\ EndCycle
    /\ UNCHANGED <<now, source, cursor, tally, arrived, excused, cgen>>

\* The process dies after the commit: the rows it was to count are lost.
Crash ==
    /\ pc = "count"
    /\ faults < MaxFaults
    /\ faults' = faults + 1
    /\ EndCycle
    /\ Excuse(found)
    /\ UNCHANGED <<now, source, cursor, tally, arrived, cgen>>

\* Between cycles the state database is quarantined as corrupt, or reset.
StateLost ==
    /\ pc = "idle" /\ cursor # NoCursor
    /\ faults < MaxFaults
    /\ faults' = faults + 1
    /\ cursor' = NoCursor
    /\ UNCHANGED <<now, source, pc, cycle, tally, arrived, excused, cgen>>

Source == Insert \/ Rebuild \/ \E i \in Ids : Publish(i) \/ Purge(i)

Cycle == \/ Begin \/ ReadMax \/ tail_query
         \/ SaveCold \/ SaveReset \/ SaveQuiet \/ SaveAdvance \/ Increment

Next == Source \/ Tick \/ Cycle \/ Fail \/ Crash \/ StateLost

Spec == Init /\ [][Next]_vars

\* The lane keeps starting cycles and a cycle keeps running; the source and
\* the clock owe nothing.
FairSpec == Spec /\ WF_vars(Cycle)

----------------------------------------------------------------------------
(* Properties.                                                             *)

(* Every readable row at or below the saved cursor has been counted, is    *)
(* about to be, or is one of the losses the design accepts: older than the *)
(* cold-start seed, older than the backfill floor, lost with a process     *)
(* that died between the commit and the increment (253-265), or overtaken  *)
(* by a rebuilt id space whose minimum never fell below the anchor.  A row *)
(* below the anchor is still found: the next cycle re-scans (211).         *)
Accounted ==
    cursor # NoCursor /\ cgen = gen =>
        \A i \in Visible :
            i <= cursor.value =>
                \/ tally[<<gen, i>>] = 1
                \/ InFlight(<<gen, i>>)
                \/ i \in excused
                \/ i < cursor.anchor

(* No event is added to the counter twice, whatever faults, purges, late   *)
(* rows, rebuilds and lost cursors a behaviour contains (249-252): the     *)
(* tail implements the abstract counting specification.                    *)
Counting == INSTANCE EventCounting WITH Events <- Events, arrived <- arrived, tally <- tally
ImplementsCounting == Counting!Spec

(* Once a readable row and the readable rows below it have settled, it     *)
(* does not wait for ever: the cursor reaches it, unless it outlives the   *)
(* floor or leaves the source first (122-130, 228-235).  A cursor left     *)
(* over from an earlier id space does not hide it either, except where the *)
(* rebuilt ids are indistinguishable: they have caught up with the cursor  *)
(* and none of them is below the anchor (211-213).                         *)
RowReached ==
    \A i \in Ids :
        (/\ HasIdColumn /\ i \in Visible /\ AboveFloor(i)
         /\ \A j \in Visible : j <= i => IsSettled(j))
            ~> (\/ i \notin Visible
                \/ ~ AboveFloor(i)
                \/ /\ cursor # NoCursor /\ cursor.value >= i
                   /\ \/ cgen = gen
                      \/ cursor.value <= Max(Visible) /\ cursor.anchor <= Min(Visible))
============================================================================
