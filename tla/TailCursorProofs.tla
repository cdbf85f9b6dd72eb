-------------------------- MODULE TailCursorProofs --------------------------
(***************************************************************************)
(* Proofs about TailCursor: the cursor accounts for every row below it,    *)
(* and the tail implements EventCounting, for every settle window that     *)
(* covers twice the source's delay and one batch.                          *)
(***************************************************************************)
EXTENDS TailCursor, WellFoundedInduction, TLAPS

\* Rows of the current id space that are in the counter, or about to be.
Counted(i) == tally[<<gen, i>>] # 0
Done(i) == Counted(i) \/ (pc = "count" /\ qgen = gen /\ i \in found)
AllGone == \A i \in Ids : Counted(i) => st[i] = "gone"

\* No row that is done lies above m, unless it has been purged; and m itself
\* is still readable.
TopAt(m) == \A i \in Ids : Done(i) =>
                \/ st[i] = "gone"
                \/ i <= m /\ m \in Ids /\ st[m] = "visible"

\* The source: ids in order, timestamps against it by at most Delay.
Rows ==
    /\ \A i \in Ids : st[i] = "none" <=> i > last
    /\ \A i \in Ids : i <= last => ts[i] <= now
    /\ \A i \in Ids : st[i] = "open" => ts[i] + Delay >= now
    /\ \A i, j \in Ids : i < j /\ j <= last => ts[i] <= ts[j] + Delay

\* What is counted has arrived, once, in an id space the cursor has reached.
Arrivals ==
    /\ \A i \in Ids : <<gen, i>> \in arrived <=> st[i] \in {"visible", "gone"}
    /\ \A e \in arrived : e[1] <= gen
    /\ \A e \in Events : tally[e] # 0 => tally[e] = 1 /\ e \in arrived /\ e[1] <= cgen

Spaces ==
    /\ cgen <= gen /\ qgen <= gen
    /\ pc # "idle" => cgen <= qgen
    /\ pc = "count" => cgen = qgen

\* A cycle works on the cursor that is stored, and its batch is short.
Batch ==
    /\ pc \in {"max", "tail", "save"} => cur = cursor
    /\ pc \in {"tail", "count"} => cur # NoCursor
    /\ pc = "count" => cursor # NoCursor
    /\ pc \in {"idle", "max", "tail"} => found = {}
    /\ pc = "save" /\ cur = NoCursor => found = {}
    /\ pc = "save" /\ minId = NoId => found = {}
    /\ pc # "idle" => began <= now
    /\ pc \in {"max", "tail"} => now <= began + Span

\* Rows below the minimum the cycle has read became readable after it.
MinOld ==
    pc \in {"max", "tail", "save"} =>
        \A j \in Ids : j <= last /\ (minId = NoId \/ j < minId) =>
            st[j] = "gone" \/ ts[j] + Delay >= began

\* What is done had settled, and what is counted had before the cycle began.
Settled == \A i \in Ids : Done(i) => ts[i] + Settle < now
BatchOld ==
    pc \in {"max", "tail", "save"} =>
        \A i \in Ids : Counted(i) => ts[i] + Settle < began

\* The rows a cycle has found are new, settled, and all there are.
FoundNew ==
    pc \in {"save", "count"} =>
        \A i \in found : <<qgen, i>> \in arrived /\ tally[<<qgen, i>>] = 0

FoundSettled ==
    pc \in {"save", "count"} /\ qgen = gen =>
        \A i \in found : ts[i] + Settle < now /\ ts[i] + Settle < began + Span

FoundPrefix ==
    pc = "save" /\ qgen = gen =>
        \A j \in found, i \in Ids : i <= j =>
            /\ st[i] \in {"visible", "gone"}
            /\ cur.value < i /\ st[i] = "visible" => i \in found \cup dropped

FoundTop ==
    pc = "save" /\ qgen = gen =>
        \A m \in found : (\A k \in found : k <= m) =>
            \A i \in Ids : Counted(i) \/ i \in found =>
                \/ st[i] = "gone"
                \/ i <= m /\ st[m] = "visible"

\* The cursor covers what is done, and so does the seed of a cold start.
CursorTop == cursor # NoCursor /\ cgen = gen => TopAt(cursor.value)
SeedTop == pc = "save" /\ cur = NoCursor /\ qgen = gen => TopAt(maxId)

\* A sequence reset of the same id space has nothing left to count again.
ResetLow ==
    /\ pc \in {"max", "tail", "save"} /\ cgen = gen /\ cur # NoCursor
    /\ minId # NoId /\ minId < cur.anchor
    => AllGone
ResetHigh ==
    /\ pc \in {"tail", "save"} /\ cgen = gen /\ cur # NoCursor
    /\ maxId # NoId /\ maxId < cur.value
    => AllGone

\* A row below the anchor that may still appear lies above all that is done.
AnchorLow ==
    cursor # NoCursor /\ cgen = gen =>
        \A j \in Ids : j <= last /\ j < cursor.anchor =>
            st[j] = "gone" \/ \A i \in Ids : Done(i) => i < j

\* Accounted, for rows that are not readable yet as well.
Covered ==
    cursor # NoCursor /\ cgen = gen =>
        \A i \in Ids : i <= cursor.value =>
            Done(i) \/ i \in excused \/ i < cursor.anchor \/ st[i] = "gone"

SourceInv == TypeOK /\ Rows /\ Arrivals /\ Spaces /\ Batch /\ Settled
CycleInv == /\ MinOld /\ BatchOld
            /\ FoundNew /\ FoundSettled /\ FoundPrefix /\ FoundTop
            /\ SeedTop /\ ResetLow /\ ResetHigh
CursorInv == CursorTop /\ AnchorLow /\ Covered

IInv == SourceInv /\ CycleInv /\ CursorInv

----------------------------------------------------------------------------
(* Operators                                                               *)

\* The constants are naturals, and the settle window is long enough.
LEMMA Constants ==
    /\ Settle \in Nat /\ Floor \in Nat /\ Delay \in Nat /\ Span \in Nat
    /\ MaxTime \in Nat /\ MaxId \in Nat /\ MaxGen \in Nat /\ MaxFaults \in Nat
    /\ HasIdColumn \in BOOLEAN /\ Delay + Delay + Span <= Settle
BY TailAssumption

\* A set of naturals that is not empty has a least member.
LEMMA LeastExists ==
    ASSUME NEW S, S \subseteq Nat, S # {}
    PROVE  \E x \in S : \A y \in S : x <= y
<1>1. PICK x \in S : \A y \in S : ~ (<<y, x>> \in OpToRel(<, Nat))
  BY NatLessThanWellFounded, WFMin
<1>2. \A y \in S : ~ (y < x)
  BY <1>1 DEF OpToRel
<1> QED  BY <1>2

\* So a set of ids has a minimum and a maximum.
LEMMA MinMax ==
    ASSUME NEW S, S \subseteq Ids, S # {}
    PROVE  /\ Min(S) \in S /\ \A y \in S : Min(S) <= y
           /\ Max(S) \in S /\ \A y \in S : y <= Max(S)
<1>1. S \subseteq Nat /\ \A y \in S : y <= MaxId
  BY Constants DEF Ids
<1>2. \E x \in S : \A y \in S : x =< y
  BY <1>1, LeastExists
<1>3. Min(S) \in S /\ \A y \in S : Min(S) =< y
  BY <1>2, Zenon DEF Min
<1>4. \E x \in S : \A y \in S : x >= y
  <2> DEFINE T == {MaxId - y : y \in S}
  <2>1. \A y \in S : MaxId - y \in Nat
    BY <1>1, Constants
  <2>2. T \subseteq Nat /\ T # {}
    BY <2>1
  <2>3. PICK t \in T : \A u \in T : t <= u
    BY <2>2, LeastExists
  <2>4. PICK x \in S : t = MaxId - x
    BY <2>3
  <2>5. \A y \in S : MaxId - x <= MaxId - y
    BY <2>3, <2>4
  <2> QED  BY <2>5, <1>1, Constants
<1>5. Max(S) \in S /\ \A y \in S : Max(S) >= y
  BY <1>4, Zenon DEF Max
<1> QED  BY <1>1, <1>3, <1>5

\* Facts of TypeOK in the form the proofs below use.
LEMMA Types ==
    ASSUME TypeOK
    PROVE  /\ now \in Nat /\ gen \in Nat /\ qgen \in Nat /\ cgen \in Nat /\ began \in Nat
           /\ last \in Nat /\ last <= MaxId /\ minId \in Nat /\ maxId \in Nat
           /\ found \subseteq Ids /\ dropped \subseteq Ids /\ excused \subseteq Ids
           /\ \A i \in Ids : i \in Nat /\ 1 <= i /\ i <= MaxId /\ ts[i] \in Nat
           /\ \A i \in Ids : st[i] \in {"none", "open", "visible", "gone"}
           /\ cursor # NoCursor => cursor.value \in Nat /\ cursor.anchor \in Nat
           /\ cur # NoCursor => cur.value \in Nat /\ cur.anchor \in Nat
           /\ \A i \in Ids : <<gen, i>> \in Events /\ <<qgen, i>> \in Events
           /\ \A e \in Events : tally[e] \in Nat
<1> USE Constants
<1>1. /\ now \in Nat /\ gen \in Nat /\ qgen \in Nat /\ cgen \in Nat /\ began \in Nat
      /\ last \in Nat /\ last <= MaxId /\ minId \in Nat /\ maxId \in Nat
  BY DEF TypeOK
<1>2. found \subseteq Ids /\ dropped \subseteq Ids /\ excused \subseteq Ids
  BY DEF TypeOK
<1>3. \A i \in Ids : i \in Nat /\ 1 <= i /\ i <= MaxId /\ ts[i] \in Nat
  BY DEF TypeOK, Ids
<1>4. \A i \in Ids : st[i] \in {"none", "open", "visible", "gone"}
  BY DEF TypeOK
<1>5. /\ cursor # NoCursor => cursor.value \in Nat /\ cursor.anchor \in Nat
      /\ cur # NoCursor => cur.value \in Nat /\ cur.anchor \in Nat
  BY DEF TypeOK
<1>6. \A i \in Ids : <<gen, i>> \in Events /\ <<qgen, i>> \in Events
  BY DEF TypeOK, Events
<1>7. \A e \in Events : tally[e] \in Nat
  BY DEF TypeOK
<1> QED  BY <1>1, <1>2, <1>3, <1>4, <1>5, <1>6, <1>7

\* A row that is done, or found in the current id space, is or was readable.
LEMMA DoneRows ==
    ASSUME IInv
    PROVE  /\ \A i \in Ids : Done(i) => st[i] \in {"visible", "gone"} /\ i <= last
           /\ pc \in {"save", "count"} /\ qgen = gen =>
                 \A i \in found : st[i] \in {"visible", "gone"} /\ i <= last
           /\ cgen < gen => \A i \in Ids : ~ Done(i)
<1> USE DEF IInv, SourceInv
<1>1. \A i \in Ids : Counted(i) => <<gen, i>> \in arrived /\ gen <= cgen
  BY Types DEF Arrivals, Counted
<1>2. pc \in {"save", "count"} /\ qgen = gen => \A i \in found : <<gen, i>> \in arrived
  BY DEF CycleInv, FoundNew
<1>3. \A i \in Ids : <<gen, i>> \in arrived => st[i] \in {"visible", "gone"} /\ i <= last
  BY Types DEF Arrivals, Rows
<1>4. pc \in {"save", "count"} /\ qgen = gen =>
         \A i \in found : st[i] \in {"visible", "gone"} /\ i <= last
  BY <1>2, <1>3, Types
<1>5. \A i \in Ids : Done(i) => st[i] \in {"visible", "gone"} /\ i <= last
  BY <1>1, <1>3, <1>4 DEF Done
<1>6. cgen < gen => \A i \in Ids : ~ Done(i)
  <2>1. cgen < gen => ~ (gen <= cgen) /\ ~ (pc = "count" /\ qgen = gen)
    BY Types DEF Spaces
  <2> QED  BY <1>1, <2>1 DEF Done
<1> QED  BY <1>4, <1>5, <1>6

\* Timestamps against the order of ids: an earlier id is at most Delay later.
LEMMA Order ==
    ASSUME IInv, NEW i \in Ids, NEW j \in Ids, i <= j, j <= last
    PROVE  ts[i] <= ts[j] + Delay
BY Types, Constants DEF IInv, SourceInv, Rows

\* Where no cycle runs nothing is claimed of one.
LEMMA NoCycle == pc' = "idle" => CycleInv'
BY DEF CycleInv, MinOld, BatchOld, FoundNew, FoundSettled, FoundPrefix, FoundTop,
       SeedTop, ResetLow, ResetHigh

\* The cursor's part depends on the source, the cursor and what is done.
LEMMA SameCursor ==
    ASSUME IInv, UNCHANGED <<source, cursor, cgen, excused>>,
           \A i \in Ids : Done(i)' <=> Done(i)
    PROVE  CursorInv'
BY DEF IInv, CursorInv, CursorTop, TopAt, AnchorLow, Covered, source

----------------------------------------------------------------------------
(* Steps of the source                                                     *)

LEMMA InsertStep == ASSUME IInv, Insert PROVE IInv'
<1> USE Types, Constants DEF IInv, SourceInv
<1>1. PICK t \in 0..now : t + Delay >= now /\ ts' = [ts EXCEPT ![last + 1] = t]
  BY DEF Insert
<1>2. /\ last' = last + 1 /\ last + 1 \in Ids
      /\ \A i \in Ids : i # last + 1 => st'[i] = st[i] /\ ts'[i] = ts[i]
      /\ st'[last + 1] = "open" /\ ts'[last + 1] = t
      /\ UNCHANGED <<now, gen, cursor, pc, cycle, tally, arrived, excused, cgen, faults>>
  BY <1>1 DEF Insert, TypeOK, Ids
<1>3. \A i \in Ids :
         /\ Done(i)' <=> Done(i)
         /\ Counted(i)' <=> Counted(i)
         /\ Done(i) => i <= last
  BY <1>2, DoneRows DEF Done, Counted, cycle
<1>4. pc \in {"save", "count"} /\ qgen = gen => \A i \in found : i <= last
  BY DoneRows
<1>5. TypeOK' /\ Rows' /\ Spaces' /\ Batch'
  <2>1. TypeOK'
    BY <1>1, <1>2 DEF Insert, TypeOK, Ids, cycle
  <2>2. Rows'
    BY <1>1, <1>2 DEF Rows
  <2> QED  BY <1>2, <2>1, <2>2 DEF Spaces, Batch, cycle
<1>6. Arrivals' /\ Settled'
  <2>1. Arrivals'
    BY <1>2 DEF Arrivals, Rows
  <2>2. Settled'
    BY <1>2, <1>3 DEF Settled
  <2> QED  BY <2>1, <2>2
<1>7. CycleInv'
  <2> USE <1>2, <1>3, <1>4 DEF CycleInv, cycle
  <2>1. MinOld'
    BY <1>1 DEF MinOld, Batch
  <2>2. BatchOld'
    BY DEF BatchOld, Done
  <2>3. FoundNew' /\ FoundSettled'
    BY DEF FoundNew, FoundSettled
  <2>4. FoundPrefix'
    BY DEF FoundPrefix
  <2>5. FoundTop'
    BY DEF FoundTop, Done
  <2>6. SeedTop'
    BY DEF SeedTop, TopAt, Rows
  <2>7. ResetLow' /\ ResetHigh'
    BY DEF ResetLow, ResetHigh, AllGone, Done
  <2> QED  BY <2>1, <2>2, <2>3, <2>4, <2>5, <2>6, <2>7
<1>8. CursorInv'
  <2> USE <1>2, <1>3 DEF CursorInv
  <2>1. CursorTop'
    BY DEF CursorTop, TopAt, Rows
  <2>2. AnchorLow'
    BY DEF AnchorLow
  <2>3. Covered'
    BY DEF Covered, Rows
  <2> QED  BY <2>1, <2>2, <2>3
<1> QED  BY <1>5, <1>6, <1>7, <1>8


LEMMA PublishStep == ASSUME IInv, NEW p \in Ids, Publish(p) PROVE IInv'
<1> USE Types, Constants DEF IInv, SourceInv
<1>1. /\ st[p] = "open" /\ st'[p] = "visible"
      /\ \A i \in Ids : i # p => st'[i] = st[i]
      /\ arrived' = arrived \cup {<<gen, p>>}
      /\ UNCHANGED <<now, gen, ts, last, cursor, pc, cycle, tally, excused, cgen, faults>>
  BY DEF Publish, TypeOK
<1>2. \A i \in Ids :
         /\ Done(i)' <=> Done(i)
         /\ Counted(i)' <=> Counted(i)
         /\ Done(i) => i # p
  BY <1>1, DoneRows DEF Done, Counted, cycle
<1>3. pc \in {"save", "count"} /\ qgen = gen => p \notin found
  BY <1>1, DoneRows
<1>4. TypeOK' /\ Rows' /\ Spaces' /\ Batch'
  <2>1. TypeOK'
    BY <1>1 DEF Publish, TypeOK, Events, cycle
  <2>2. Rows'
    BY <1>1 DEF Rows
  <2> QED  BY <1>1, <2>1, <2>2 DEF Spaces, Batch, cycle
<1>5. Arrivals' /\ Settled'
  <2>1. Arrivals'
    BY <1>1 DEF Arrivals
  <2>2. Settled'
    BY <1>1, <1>2 DEF Settled
  <2> QED  BY <2>1, <2>2
<1>6. CycleInv'
  <2> USE <1>1, <1>2, <1>3 DEF CycleInv, cycle
  <2>1. MinOld'
    BY DEF MinOld
  <2>2. BatchOld'
    BY DEF BatchOld
  <2>3. FoundNew' /\ FoundSettled'
    BY DEF FoundNew, FoundSettled
  <2>4. FoundPrefix'
    BY DEF FoundPrefix
  <2>5. FoundTop'
    BY DEF FoundTop, Done
  <2>6. SeedTop'
    BY DEF SeedTop, TopAt
  <2>7. ResetLow' /\ ResetHigh'
    BY DEF ResetLow, ResetHigh, AllGone, Done
  <2> QED  BY <2>1, <2>2, <2>3, <2>4, <2>5, <2>6, <2>7
<1>7. CursorInv'
  <2> USE <1>1, <1>2 DEF CursorInv
  <2>1. CursorTop'
    BY DEF CursorTop, TopAt
  <2>2. AnchorLow'
    BY DEF AnchorLow
  <2>3. Covered'
    BY DEF Covered
  <2> QED  BY <2>1, <2>2, <2>3
<1> QED  BY <1>4, <1>5, <1>6, <1>7

LEMMA PurgeStep == ASSUME IInv, NEW p \in Ids, Purge(p) PROVE IInv'
<1> USE Types, Constants DEF IInv, SourceInv
<1>1. /\ \A i \in Ids : st'[i] = IF st[i] = "visible" /\ i <= p THEN "gone" ELSE st[i]
      /\ UNCHANGED <<now, gen, ts, last, cursor, pc, cycle, tally, arrived, excused, cgen,
                     faults>>
  BY DEF Purge, Visible
<1>2. \A i \in Ids : (Done(i)' <=> Done(i)) /\ (Counted(i)' <=> Counted(i))
  BY <1>1 DEF Done, Counted, cycle
<1>3. \A i \in Ids : Done(i) => st[i] \in {"visible", "gone"}
  BY DoneRows
<1>4. TypeOK' /\ Rows' /\ Spaces' /\ Batch'
  <2>1. TypeOK'
    BY <1>1 DEF Purge, TypeOK, cycle
  <2>2. Rows'
    BY <1>1 DEF Rows
  <2> QED  BY <1>1, <2>1, <2>2 DEF Spaces, Batch, cycle
<1>5. Arrivals' /\ Settled'
  <2>1. Arrivals'
    BY <1>1 DEF Arrivals
  <2>2. Settled'
    BY <1>1, <1>2 DEF Settled
  <2> QED  BY <2>1, <2>2
<1>6. CycleInv'
  <2> USE <1>1, <1>2, <1>3 DEF CycleInv, cycle
  <2>1. MinOld'
    BY DEF MinOld
  <2>2. BatchOld'
    BY DEF BatchOld
  <2>3. FoundNew' /\ FoundSettled'
    BY DEF FoundNew, FoundSettled
  <2>4. FoundPrefix'
    BY DEF FoundPrefix
  <2>5. FoundTop'
    BY DoneRows DEF FoundTop, Done
  <2>6. SeedTop'
    BY DEF SeedTop, TopAt
  <2>7. ResetLow' /\ ResetHigh'
    BY DEF ResetLow, ResetHigh, AllGone
  <2> QED  BY <2>1, <2>2, <2>3, <2>4, <2>5, <2>6, <2>7
<1>7. CursorInv'
  <2> USE <1>1, <1>2, <1>3 DEF CursorInv
  <2>1. CursorTop'
    BY DEF CursorTop, TopAt
  <2>2. AnchorLow'
    BY DEF AnchorLow
  <2>3. Covered'
    BY DEF Covered
  <2> QED  BY <2>1, <2>2, <2>3
<1> QED  BY <1>4, <1>5, <1>6, <1>7

\* After a rebuild nothing of the new id space has been counted.
LEMMA RebuildStep == ASSUME IInv, Rebuild PROVE IInv'
<1> USE Types, Constants DEF IInv, SourceInv
<1>1. /\ gen' = gen + 1 /\ last' = 0
      /\ \A i \in Ids : st'[i] = "none" /\ ts'[i] = 0
      /\ UNCHANGED <<now, cursor, pc, cycle, tally, arrived, cgen, faults>>
  BY DEF Rebuild
<1>2. cgen < gen' /\ qgen < gen'
  BY <1>1 DEF Spaces
<1>3. TypeOK'
  BY <1>1 DEF Rebuild, TypeOK, cycle
<1>4. \A i \in Ids : <<gen', i>> \in Events /\ <<gen', i>> \notin arrived
  BY <1>1, <1>3 DEF Arrivals, TypeOK, Events
<1>5. \A i \in Ids : ~ Done(i)' /\ ~ Counted(i)'
  BY <1>1, <1>2, <1>4 DEF Arrivals, Done, Counted, cycle
<1>6. Rows' /\ Spaces' /\ Batch' /\ Settled'
  <2>1. Rows' /\ Settled'
    BY <1>1, <1>5 DEF Rows, Settled
  <2> QED  BY <1>1, <1>2, <2>1 DEF Spaces, Batch, cycle
<1>7. Arrivals'
  <2>1. \A e \in arrived : e[1] \in Nat
    BY DEF TypeOK, Events
  <2>2. \A e \in arrived : e[1] <= gen + 1
    BY <2>1 DEF Arrivals
  <2> QED  BY <1>1, <1>4, <2>2 DEF Arrivals
<1>8. CycleInv'
  <2> USE <1>1, <1>2, <1>5 DEF CycleInv, cycle
  <2>1. MinOld' /\ BatchOld' /\ FoundNew'
    BY DEF MinOld, BatchOld, FoundNew
  <2>2. FoundSettled' /\ FoundPrefix' /\ FoundTop' /\ SeedTop'
    BY DEF FoundSettled, FoundPrefix, FoundTop, SeedTop
  <2>3. ResetLow' /\ ResetHigh'
    BY DEF ResetLow, ResetHigh
  <2> QED  BY <2>1, <2>2, <2>3
<1>9. CursorInv'
  BY <1>1, <1>2 DEF CursorInv, CursorTop, AnchorLow, Covered
<1> QED  BY <1>3, <1>6, <1>7, <1>8, <1>9

LEMMA TickStep == ASSUME IInv, Tick PROVE IInv'
<1> USE Types, Constants DEF IInv, SourceInv
<1>1. /\ now' = now + 1 /\ now + 1 <= MaxTime
      /\ \A i \in Ids : st[i] = "open" => ts[i] + Delay > now
      /\ pc \in {"max", "tail"} => now < began + Span
      /\ UNCHANGED <<gen, ts, st, last, cursor, pc, cycle, tally, arrived, excused, cgen, faults>>
  BY DEF Tick, source, TypeOK
<1>2. \A i \in Ids : (Done(i)' <=> Done(i)) /\ (Counted(i)' <=> Counted(i))
  BY <1>1 DEF Done, Counted, cycle
<1>3. TypeOK' /\ Rows' /\ Spaces' /\ Batch'
  <2>1. TypeOK'
    BY <1>1 DEF TypeOK, cycle
  <2>2. Rows'
    BY <1>1 DEF Rows
  <2>3. Batch'
    BY <1>1 DEF Batch, cycle
  <2> QED  BY <1>1, <2>1, <2>2, <2>3 DEF Spaces, cycle
<1>4. Arrivals' /\ Settled'
  BY <1>1, <1>2 DEF Arrivals, Settled
<1>5. CycleInv'
  <2> USE <1>1, <1>2 DEF CycleInv, cycle
  <2>1. MinOld' /\ BatchOld'
    BY DEF MinOld, BatchOld
  <2>2. FoundNew' /\ FoundSettled' /\ FoundPrefix'
    BY DEF FoundNew, FoundSettled, FoundPrefix
  <2>3. FoundTop' /\ SeedTop'
    BY DEF FoundTop, SeedTop, TopAt
  <2>4. ResetLow' /\ ResetHigh'
    BY DEF ResetLow, ResetHigh, AllGone
  <2> QED  BY <2>1, <2>2, <2>3, <2>4
<1>6. CursorInv'
  BY <1>1, <1>2, SameCursor DEF source
<1> QED  BY <1>3, <1>4, <1>5, <1>6

----------------------------------------------------------------------------
(* Steps of a cycle                                                        *)

\* MIN: a row below it that is not gone is open, so it appears after this.
LEMMA BeginStep == ASSUME IInv, Begin PROVE IInv'
<1> USE Types, Constants DEF IInv, SourceInv
<1>1. /\ pc = "idle" /\ pc' = "max" /\ cur' = cursor /\ minId' = meta_min_query
      /\ qgen' = gen /\ began' = now
      /\ UNCHANGED <<now, gen, ts, st, last, cursor, maxId, found, dropped, tally, arrived,
                     excused, cgen, faults>>
  BY DEF Begin, tail_cursor, source
<1>2. \A i \in Ids : (Done(i)' <=> Done(i)) /\ (Counted(i)' <=> Counted(i))
  BY <1>1 DEF Done, Counted
<1>3. /\ minId' = NoId => \A j \in Ids : st[j] # "visible"
      /\ minId' # NoId => /\ minId' \in Ids /\ st[minId'] = "visible"
                          /\ \A j \in Ids : st[j] = "visible" => minId' <= j
  BY <1>1, MinMax DEF meta_min_query, Visible, NoId
<1>4. TypeOK'
  BY <1>1, <1>3 DEF TypeOK, Ids, NoId
<1>5. Rows' /\ Arrivals' /\ Spaces' /\ Batch' /\ Settled'
  <2>1. Rows' /\ Arrivals' /\ Settled'
    BY <1>1, <1>2 DEF Rows, Arrivals, Settled
  <2> QED  BY <1>1, <2>1 DEF Spaces, Batch
<1>6. CycleInv'
  <2>1. MinOld'
    BY <1>1, <1>3 DEF MinOld, Rows
  <2>2. BatchOld'
    BY <1>1, <1>2 DEF BatchOld, Settled, Done
  <2>3. FoundNew' /\ FoundSettled' /\ FoundPrefix' /\ FoundTop' /\ SeedTop' /\ ResetHigh'
    BY <1>1 DEF FoundNew, FoundSettled, FoundPrefix, FoundTop, SeedTop, ResetHigh
  <2>4. ResetLow'
    <3> SUFFICES ASSUME cgen = gen, cursor # NoCursor, minId' # NoId, minId' < cursor.anchor,
                        NEW i \in Ids, Counted(i)
                 PROVE  st[i] = "gone"
      BY <1>1, <1>2 DEF ResetLow, AllGone
    <3>1. Done(i)
      BY DEF Done
    <3>2. minId' \in Ids /\ minId' <= last /\ st[minId'] # "gone"
      BY <1>3 DEF Rows
    <3>3. i < minId'
      BY <3>1, <3>2 DEF CursorInv, AnchorLow
    <3> QED  BY <1>3, <3>1, <3>2, <3>3, DoneRows
  <2> QED  BY <2>1, <2>2, <2>3, <2>4 DEF CycleInv
<1>7. CursorInv'
  BY <1>1, <1>2, SameCursor DEF source
<1> QED  BY <1>4, <1>5, <1>6, <1>7

\* MAX: a counted row that is readable lies below it.
LEMMA ReadMaxStep == ASSUME IInv, ReadMax PROVE IInv'
<1> USE Types, Constants DEF IInv, SourceInv
<1>1. /\ pc = "max" /\ pc' = IF cur = NoCursor THEN "save" ELSE "tail"
      /\ maxId' = meta_max_query /\ qgen' = gen
      /\ UNCHANGED <<now, gen, ts, st, last, cursor, cur, minId, found, dropped, began, tally,
                     arrived, excused, cgen, faults>>
  BY DEF ReadMax, source
<1>2. \A i \in Ids : (Done(i)' <=> Done(i)) /\ (Counted(i)' <=> Counted(i))
  BY <1>1 DEF Done, Counted
<1>3. /\ maxId' = NoId => \A j \in Ids : st[j] # "visible"
      /\ maxId' # NoId => /\ maxId' \in Ids /\ st[maxId'] = "visible"
                          /\ \A j \in Ids : st[j] = "visible" => j <= maxId'
  BY <1>1, MinMax DEF meta_max_query, Visible, NoId
<1>4. TypeOK'
  BY <1>1, <1>3 DEF TypeOK, Ids, NoId
<1>5. Rows' /\ Arrivals' /\ Spaces' /\ Batch' /\ Settled'
  <2>1. Rows' /\ Arrivals' /\ Settled'
    BY <1>1, <1>2 DEF Rows, Arrivals, Settled
  <2> QED  BY <1>1, <2>1 DEF Spaces, Batch
<1>6. CycleInv'
  <2> USE DEF CycleInv
  <2>1. MinOld' /\ BatchOld' /\ ResetLow'
    BY <1>1, <1>2 DEF MinOld, BatchOld, ResetLow, AllGone
  <2>2. FoundNew' /\ FoundSettled' /\ FoundPrefix' /\ FoundTop'
    <3>1. found' = {}
      BY <1>1 DEF Batch
    <3>2. FoundNew' /\ FoundSettled'
      BY <3>1 DEF FoundNew, FoundSettled
    <3>3. FoundPrefix'
      BY <3>1 DEF FoundPrefix
    <3> QED  BY <3>1, <3>2, <3>3 DEF FoundTop
  <2>3. SeedTop'
    <3>1. \A i \in Ids : Done(i) => st[i] \in {"visible", "gone"}
      BY DoneRows
    <3>2. \A i \in Ids : Done(i) => st[i] = "gone" \/ (i <= maxId' /\ maxId' \in Ids /\ st[maxId'] = "visible")
      BY <1>3, <3>1
    <3> QED  BY <1>1, <1>2, <3>2 DEF SeedTop, TopAt
  <2>4. ResetHigh'
    <3> SUFFICES ASSUME cgen = gen, cursor # NoCursor, maxId' # NoId, maxId' < cursor.value,
                        NEW i \in Ids, Counted(i)
                 PROVE  st[i] = "gone"
      BY <1>1, <1>2 DEF ResetHigh, AllGone, Batch
    <3>1. st[i] = "gone" \/ (cursor.value \in Ids /\ st[cursor.value] = "visible")
      BY DEF CursorInv, CursorTop, TopAt, Done
    <3> QED  BY <1>3, <3>1
  <2> QED  BY <2>1, <2>2, <2>3, <2>4
<1>7. CursorInv'
  BY <1>1, <1>2, SameCursor DEF source
<1> QED  BY <1>4, <1>5, <1>6, <1>7

\* The tail statement: below a settled row everything has appeared, and what
\* is counted in this id space is at or below the cursor.
LEMMA TailStep == ASSUME IInv, tail_query PROVE IInv'
<1> USE Types, Constants DEF IInv, SourceInv
<1>1. /\ pc = "tail" /\ pc' = "save" /\ found' = SettledPrefix /\ qgen' = gen
      /\ dropped' = {i \in Visible : /\ i > cur.value
                                     /\ ~ AboveFloor(i)
                                     /\ \E j \in SettledPrefix : i < j}
      /\ UNCHANGED <<now, gen, ts, st, last, cursor, cur, minId, maxId, began, tally, arrived,
                     excused, cgen, faults>>
  BY DEF tail_query, source
<1>2. \A i \in Ids : (Done(i)' <=> Done(i)) /\ (Counted(i)' <=> Counted(i))
  BY <1>1 DEF Done, Counted
<1>3. cur = cursor /\ cursor # NoCursor /\ now <= began + Span
  BY <1>1 DEF Batch
<1>4. \A i \in found' : /\ i \in Ids /\ st[i] = "visible" /\ cur.value < i /\ i <= last
                        /\ ts[i] + Settle < now
  <2>1. \A i \in SettledPrefix : i \in Ids /\ st[i] = "visible" /\ i > cur.value /\ IsSettled(i)
    BY DEF SettledPrefix, NewRows, Visible
  <2> QED  BY <1>1, <1>3, <2>1 DEF IsSettled, Rows
<1>5. \A i \in Ids : Counted(i) => st[i] = "gone" \/ i <= cur.value
  BY <1>3, DoneRows DEF CursorInv, CursorTop, TopAt, Done, Spaces
<1>6. TypeOK'
  <2>1. found' \in SUBSET Ids /\ dropped' \in SUBSET Ids
    BY <1>1, <1>4 DEF Visible
  <2> QED  BY <1>1, <2>1 DEF TypeOK
<1>7. Rows' /\ Arrivals' /\ Spaces' /\ Batch' /\ Settled'
  <2>1. Rows' /\ Arrivals' /\ Settled'
    BY <1>1, <1>2 DEF Rows, Arrivals, Settled
  <2>2. minId = NoId => found' = {}
    BY <1>1, <1>3, <1>4 DEF CycleInv, MinOld
  <2> QED  BY <1>1, <1>3, <2>1, <2>2 DEF Spaces, Batch
<1>8. CycleInv'
  <2> USE DEF CycleInv
  <2>1. MinOld' /\ BatchOld' /\ ResetLow' /\ ResetHigh' /\ SeedTop'
    <3>1. MinOld' /\ BatchOld'
      BY <1>1, <1>2 DEF MinOld, BatchOld
    <3>2. ResetLow' /\ ResetHigh'
      BY <1>1, <1>2 DEF ResetLow, ResetHigh, AllGone
    <3> QED  BY <1>1, <1>3, <3>1, <3>2 DEF SeedTop
  <2>2. FoundNew'
    <3> SUFFICES ASSUME NEW i \in found'
                 PROVE  <<gen, i>> \in arrived /\ tally[<<gen, i>>] = 0
      BY <1>1 DEF FoundNew
    <3>1. i \in Ids /\ st[i] = "visible" /\ cur.value < i
      BY <1>4
    <3>2. ~ Counted(i)
      BY <1>3, <1>5, <3>1
    <3> QED  BY <3>1, <3>2 DEF Arrivals, Counted
  <2>3. FoundSettled'
    BY <1>1, <1>3, <1>4 DEF FoundSettled
  <2>4. FoundPrefix'
    <3> SUFFICES ASSUME NEW j \in found', NEW i \in Ids, i <= j
                 PROVE  /\ st[i] \in {"visible", "gone"}
                        /\ cur.value < i /\ st[i] = "visible" => i \in found' \cup dropped'
      BY <1>1 DEF FoundPrefix
    <3>1. j \in Ids /\ j <= last /\ ts[j] + Settle < now /\ ts[i] <= ts[j] + Delay
      BY <1>4, Order
    <3>2. st[i] \in {"visible", "gone"}
      BY <3>1 DEF Rows
    <3>3. ASSUME cur.value < i, st[i] = "visible", ~ AboveFloor(i)
          PROVE  i \in dropped'
      <4>1. AboveFloor(j)
        BY <1>1 DEF SettledPrefix, NewRows
      <4>2. i < j
        BY <3>1, <3>3, <4>1
      <4> QED  BY <1>1, <1>3, <3>3, <4>2 DEF Visible
    <3>4. ASSUME cur.value < i, st[i] = "visible", AboveFloor(i)
          PROVE  i \in found'
      <4>1. i \in NewRows
        BY <1>3, <3>4 DEF NewRows, Visible
      <4>2. \A k \in NewRows : k \in Ids /\ (k <= j => IsSettled(k))
        BY <1>1 DEF SettledPrefix, NewRows, Visible
      <4>3. \A k \in NewRows : k <= i => IsSettled(k)
        BY <3>1, <4>2
      <4> QED  BY <1>1, <4>1, <4>3 DEF SettledPrefix
    <3> QED  BY <3>2, <3>3, <3>4
  <2>5. FoundTop'
    BY <1>1, <1>2, <1>3, <1>4, <1>5 DEF FoundTop
  <2> QED  BY <2>1, <2>2, <2>3, <2>4, <2>5
<1>9. CursorInv'
  BY <1>1, <1>2, SameCursor DEF source
<1> QED  BY <1>6, <1>7, <1>8, <1>9

\* A row below the minimum appears too late for one that has settled.
LEMMA BelowMin ==
    ASSUME IInv, pc = "save", NEW i \in Ids, NEW j \in Ids, i <= last, j <= last,
           j < minId, ts[i] + Settle < began + Span
    PROVE  st[j] = "gone" \/ i < j
<1> USE Types, Constants DEF IInv, SourceInv
<1>1. st[j] = "gone" \/ ts[j] + Delay >= began
  BY DEF CycleInv, MinOld
<1>2. j <= i => ts[j] <= ts[i] + Delay
  BY Order
<1> QED  BY <1>1, <1>2

\* So the minimum is an anchor for everything counted so far.
LEMMA MinIsAnchor ==
    ASSUME IInv, pc = "save"
    PROVE  \A j \in Ids : j <= last /\ j < minId =>
               st[j] = "gone" \/ \A i \in Ids : Counted(i) => i < j
<1> USE Types, Constants DEF IInv, SourceInv
<1>1. \A i \in Ids : Counted(i) => i <= last /\ ts[i] + Settle < began + Span
  BY DoneRows DEF CycleInv, BatchOld, Done
<1> QED  BY <1>1, BelowMin

\* A cycle that saves without counting keeps the source's part.
LEMMA QuietSource ==
    ASSUME IInv, pc = "save", EndCycle,
           UNCHANGED <<now, source, tally, arrived, faults>>,
           cgen' = qgen \/ cgen' = cgen
    PROVE  /\ Rows' /\ Arrivals' /\ Spaces' /\ Batch' /\ Settled'
           /\ \A i \in Ids : (Done(i)' <=> Counted(i)) /\ (Done(i) <=> Counted(i))
<1> USE Types, Constants DEF IInv, SourceInv, source, EndCycle
<1>1. \A i \in Ids : (Done(i)' <=> Counted(i)) /\ (Done(i) <=> Counted(i))
  BY DEF Done, Counted
<1>2. Rows' /\ Spaces' /\ Batch'
  BY DEF Rows, Spaces, Batch
<1>3. Settled'
  BY <1>1 DEF Settled
<1>4. Arrivals'
  <2>1. cgen <= cgen' /\ cgen' \in Nat
    BY DEF Spaces
  <2>2. \A e \in Events : e[1] \in Nat
    BY DEF Events
  <2>3. \A e \in Events : e[1] <= cgen => e[1] <= cgen'
    BY <2>1, <2>2
  <2> QED  BY <2>3 DEF Arrivals
<1> QED  BY <1>1, <1>2, <1>3, <1>4

LEMMA SaveColdStep == ASSUME IInv, SaveCold PROVE IInv'
<1> USE Types, Constants DEF IInv, SourceInv
<1>1. /\ pc = "save" /\ cur = NoCursor /\ EndCycle /\ cgen' = qgen
      /\ cursor' = [value |-> maxId, anchor |-> minId]
      /\ excused' = IF qgen = gen THEN excused \cup (1..maxId) ELSE excused
      /\ UNCHANGED <<now, source, tally, arrived, faults>>
  BY DEF SaveCold, set_tail_cursor, Excuse
<1>2. gen' = gen /\ st' = st /\ last' = last /\ pc' = "idle"
  BY <1>1 DEF source, EndCycle
<1>3. /\ Rows' /\ Arrivals' /\ Spaces' /\ Batch' /\ Settled'
      /\ \A i \in Ids : (Done(i)' <=> Counted(i)) /\ (Done(i) <=> Counted(i))
  BY <1>1, QuietSource
<1>4. TypeOK'
  BY <1>1 DEF TypeOK, source, EndCycle, Ids, NoId, Excuse
<1>5. CycleInv'
  BY <1>2, NoCycle
<1>6. CursorInv'
  <2>1. CursorTop'
    BY <1>1, <1>2, <1>3 DEF CursorTop, CycleInv, SeedTop, TopAt
  <2>2. AnchorLow'
    BY <1>1, <1>2, <1>3, MinIsAnchor DEF AnchorLow
  <2>3. Covered'
    BY <1>1, <1>2 DEF Covered
  <2> QED  BY <2>1, <2>2, <2>3 DEF CursorInv
<1> QED  BY <1>3, <1>4, <1>5, <1>6

\* A reset is taken in a new id space, or when everything counted is gone.
LEMMA SaveResetStep == ASSUME IInv, SaveReset PROVE IInv'
<1> USE Types, Constants DEF IInv, SourceInv
<1>1. /\ pc = "save" /\ cur # NoCursor /\ SequenceReset /\ EndCycle /\ cgen' = qgen
      /\ cursor' = [value |-> IF minId = NoId THEN 0 ELSE minId - 1, anchor |-> minId]
      /\ UNCHANGED <<now, source, tally, arrived, excused, faults>>
  BY DEF SaveReset, set_tail_cursor
<1>2. gen' = gen /\ st' = st /\ last' = last /\ pc' = "idle"
  BY <1>1 DEF source, EndCycle
<1>3. /\ Rows' /\ Arrivals' /\ Spaces' /\ Batch' /\ Settled'
      /\ \A i \in Ids : (Done(i)' <=> Counted(i)) /\ (Done(i) <=> Counted(i))
  BY <1>1, QuietSource
<1>4. TypeOK'
  BY <1>1 DEF TypeOK, source, EndCycle, NoId
<1>5. CycleInv'
  BY <1>2, NoCycle
<1>6. AllGone
  <2>1. CASE cgen < gen
    BY <1>3, <2>1, DoneRows DEF AllGone
  <2>2. CASE cgen = gen
    BY <1>1, <2>2 DEF SequenceReset, CycleInv, ResetLow, ResetHigh
  <2> QED  BY <2>1, <2>2 DEF Spaces
<1>7. CursorInv'
  <2>1. CursorTop'
    BY <1>1, <1>2, <1>3, <1>6 DEF CursorTop, TopAt, AllGone
  <2>2. AnchorLow'
    BY <1>1, <1>2, <1>3, MinIsAnchor DEF AnchorLow
  <2>3. Covered'
    BY <1>1, <1>2 DEF Covered, NoId
  <2> QED  BY <2>1, <2>2, <2>3 DEF CursorInv
<1> QED  BY <1>3, <1>4, <1>5, <1>7

LEMMA SaveQuietStep == ASSUME IInv, SaveQuiet PROVE IInv'
<1> USE Types, Constants DEF IInv, SourceInv
<1>1. /\ pc = "save" /\ cur = cursor /\ cursor # NoCursor /\ ~ SequenceReset /\ EndCycle
      /\ cursor' = IF minId # NoId THEN [value |-> cursor.value, anchor |-> minId] ELSE cursor
      /\ UNCHANGED <<now, source, tally, arrived, excused, cgen, faults>>
  BY DEF SaveQuiet, set_tail_cursor, Batch
<1>2. gen' = gen /\ st' = st /\ last' = last /\ pc' = "idle"
  BY <1>1 DEF source, EndCycle
<1>3. /\ Rows' /\ Arrivals' /\ Spaces' /\ Batch' /\ Settled'
      /\ \A i \in Ids : (Done(i)' <=> Counted(i)) /\ (Done(i) <=> Counted(i))
  BY <1>1, QuietSource
<1>4. TypeOK'
  BY <1>1 DEF TypeOK, source, EndCycle, NoId
<1>5. CycleInv'
  BY <1>2, NoCycle
<1>6. /\ cursor'.value = cursor.value
      /\ cursor'.anchor = IF minId # NoId THEN minId ELSE cursor.anchor
      /\ cursor.anchor <= cursor'.anchor \/ cursor.anchor = 0
  BY <1>1 DEF SequenceReset
<1>7. CursorInv'
  <2> USE DEF CursorInv
  <2>1. CursorTop'
    BY <1>1, <1>2, <1>3, <1>6 DEF CursorTop, TopAt
  <2>2. AnchorLow'
    BY <1>1, <1>2, <1>3, <1>6, MinIsAnchor DEF AnchorLow
  <2>3. Covered'
    BY <1>1, <1>2, <1>3, <1>6 DEF Covered
  <2> QED  BY <2>1, <2>2, <2>3
<1> QED  BY <1>3, <1>4, <1>5, <1>7

\* The commit: the found rows are done from here on, and what lies between the
\* old cursor and the new one is found, dropped or gone.
LEMMA SaveAdvanceStep == ASSUME IInv, SaveAdvance PROVE IInv'
<1> USE Types, Constants DEF IInv, SourceInv
<1> DEFINE top == Max(found)
<1>1. /\ pc = "save" /\ cur = cursor /\ cursor # NoCursor /\ ~ SequenceReset /\ found # {}
      /\ pc' = "count" /\ cgen' = qgen /\ minId # NoId
      /\ cursor' = [value |-> top, anchor |-> minId]
      /\ excused' = IF qgen = gen
                      THEN excused \cup dropped \cup (IF cgen = qgen THEN {} ELSE 1..cur.value)
                      ELSE excused
      /\ UNCHANGED <<now, source, cycle, tally, arrived, faults>>
  BY DEF SaveAdvance, set_tail_cursor, Excuse, Batch
<1>2. gen' = gen /\ st' = st /\ ts' = ts /\ last' = last /\ found' = found /\ qgen' = qgen
  BY <1>1 DEF source, cycle
<1>3. top \in found /\ top \in Ids /\ \A i \in found : i <= top
  BY <1>1, MinMax
<1> HIDE DEF top
<1>4. \A i \in Ids : Done(i)' <=> Counted(i) \/ (qgen = gen /\ i \in found)
  BY <1>1, <1>2 DEF Done, Counted
<1>5. TypeOK'
  <2>1. cursor' \in [value : 0..MaxId, anchor : 0..MaxId]
    BY <1>1, <1>3 DEF TypeOK, Ids
  <2>2. excused' \in SUBSET Ids
    <3>1. cur.value \in 0..MaxId
      BY <1>1 DEF TypeOK
    <3> QED  BY <1>1, <3>1 DEF Ids
  <2> QED  BY <1>1, <2>1, <2>2 DEF TypeOK, source, cycle
<1>6. Rows' /\ Spaces' /\ Batch' /\ Settled'
  <2>1. Rows'
    BY <1>1, <1>2 DEF Rows
  <2>2. Spaces'
    BY <1>1, <1>2 DEF Spaces
  <2>3. Batch'
    <3>1. cursor' # NoCursor
      BY <1>1, <1>3 DEF NoCursor, Ids
    <3> QED  BY <1>1, <3>1 DEF Batch, cycle
  <2>4. Settled'
    <3>1. \A i \in Ids : Counted(i) => ts[i] + Settle < now
      BY DEF Settled, Done
    <3>2. qgen = gen => \A i \in found : ts[i] + Settle < now
      BY <1>1 DEF CycleInv, FoundSettled
    <3> QED  BY <1>1, <1>2, <1>4, <3>1, <3>2 DEF Settled
  <2> QED  BY <2>1, <2>2, <2>3, <2>4
<1>7. Arrivals'
  <2>1. \A e \in Events : e[1] \in Nat
    BY DEF Events
  <2>2. \A e \in Events : e[1] <= cgen => e[1] <= qgen
    BY <1>1, <2>1 DEF Spaces
  <2> QED  BY <1>1, <1>2, <2>2 DEF Arrivals
<1>8. CycleInv'
  <2> USE DEF CycleInv
  <2>1. FoundNew' /\ FoundSettled'
    BY <1>1, <1>2 DEF FoundNew, FoundSettled, cycle
  <2> QED  BY <1>1, <2>1 DEF MinOld, BatchOld, FoundPrefix, FoundTop, SeedTop, ResetLow, ResetHigh
<1>9. CursorInv'
  <2> USE DEF CycleInv
  <2>1. CursorTop'
    <3>1. qgen = gen => \A i \in Ids : Counted(i) \/ i \in found =>
                           st[i] = "gone" \/ (i <= top /\ st[top] = "visible")
      BY <1>1, <1>3 DEF FoundTop
    <3> QED  BY <1>1, <1>2, <1>3, <1>4, <3>1 DEF CursorTop, TopAt
  <2>2. AnchorLow'
    <3>1. ASSUME qgen = gen, NEW i \in found, NEW j \in Ids, j <= last, j < minId
          PROVE  st[j] = "gone" \/ i < j
      <4>1. i \in Ids /\ i <= last /\ ts[i] + Settle < began + Span
        BY <1>1, <3>1, DoneRows DEF FoundSettled
      <4> QED  BY <1>1, <3>1, <4>1, BelowMin
    <3> QED  BY <1>1, <1>2, <1>4, <3>1, MinIsAnchor DEF AnchorLow
  <2>3. Covered'
    <3> SUFFICES ASSUME qgen = gen, NEW i \in Ids, i <= top
                 PROVE  Done(i)' \/ i \in excused' \/ i < minId \/ st[i] = "gone"
      BY <1>1, <1>2 DEF Covered
    <3>1. CASE i <= cur.value /\ cgen = qgen
      <4>1. Done(i) \/ i \in excused \/ i < cursor.anchor \/ st[i] = "gone"
        BY <1>1, <3>1 DEF CursorInv, Covered
      <4>2. cursor.anchor <= minId \/ cursor.anchor = 0
        BY <1>1 DEF SequenceReset
      <4>3. Done(i) => Done(i)'
        BY <1>1, <1>4 DEF Done
      <4> QED  BY <1>1, <4>1, <4>2, <4>3
    <3>2. CASE i <= cur.value /\ cgen # qgen
      BY <1>1, <3>2
    <3>3. CASE cur.value < i
      <4>1. st[i] = "gone" \/ i \in found \cup dropped
        BY <1>1, <1>3, <3>3 DEF FoundPrefix
      <4> QED  BY <1>1, <1>4, <4>1
    <3> QED  BY <1>1, <3>1, <3>2, <3>3
  <2> QED  BY <2>1, <2>2, <2>3 DEF CursorInv
<1> QED  BY <1>5, <1>6, <1>7, <1>8, <1>9

\* The increment turns what was in flight into counted events.
LEMMA IncrementStep == ASSUME IInv, Increment PROVE IInv'
<1> USE Types, Constants DEF IInv, SourceInv
<1>1. /\ pc = "count" /\ EndCycle
      /\ \A e \in Events : tally'[e] = tally[e] + (IF InFlight(e) THEN 1 ELSE 0)
      /\ UNCHANGED <<now, source, cursor, arrived, excused, cgen, faults>>
  BY DEF Increment
<1>2. gen' = gen /\ st' = st /\ ts' = ts /\ last' = last /\ pc' = "idle"
  BY <1>1 DEF source, EndCycle
<1>3. \A e \in Events : InFlight(e) => tally[e] = 0 /\ e \in arrived /\ e[1] = cgen
  <2>1. \A e \in Events : e = <<e[1], e[2]>>
    BY DEF Events
  <2>2. \A i \in found : <<qgen, i>> \in arrived /\ tally[<<qgen, i>>] = 0
    BY <1>1 DEF CycleInv, FoundNew
  <2> QED  BY <1>1, <2>1, <2>2 DEF InFlight, Spaces
<1>4. \A i \in Ids : Done(i)' <=> Done(i)
  <2>1. \A i \in Ids : InFlight(<<gen, i>>) <=> qgen = gen /\ i \in found
    BY <1>1 DEF InFlight
  <2>2. \A i \in Ids : Done(i) <=> tally[<<gen, i>>] # 0 \/ InFlight(<<gen, i>>)
    BY <1>1, <2>1 DEF Done, Counted
  <2>3. \A i \in Ids : Done(i)' <=> tally'[<<gen, i>>] # 0
    BY <1>2 DEF Done, Counted
  <2>4. \A e \in Events : tally'[e] # 0 <=> tally[e] # 0 \/ InFlight(e)
    BY <1>1
  <2> QED  BY <2>2, <2>3, <2>4
<1>5. TypeOK'
  <2>1. tally' \in [Events -> Nat]
    <3>1. \A e \in Events : tally[e] + (IF InFlight(e) THEN 1 ELSE 0) \in Nat
      OBVIOUS
    <3> QED  BY <3>1 DEF Increment
  <2> QED  BY <1>1, <2>1 DEF TypeOK, source, EndCycle, NoId
<1>6. Rows' /\ Spaces' /\ Batch' /\ Settled'
  BY <1>1, <1>2, <1>4 DEF Rows, Spaces, Batch, Settled, EndCycle
<1>7. Arrivals'
  <2>1. \A e \in Events : e[1] \in Nat
    BY DEF Events
  <2>2. ASSUME NEW e \in Events, tally'[e] # 0
        PROVE  tally'[e] = 1 /\ e \in arrived /\ e[1] <= cgen
    BY <1>1, <1>3, <2>1, <2>2 DEF Arrivals
  <2> QED  BY <1>1, <1>2, <2>2 DEF Arrivals
<1>8. CycleInv' /\ CursorInv'
  BY <1>1, <1>2, <1>4, NoCycle, SameCursor
<1> QED  BY <1>5, <1>6, <1>7, <1>8

----------------------------------------------------------------------------
(* Faults                                                                  *)

LEMMA FailStep == ASSUME IInv, Fail PROVE IInv'
<1> USE Types, Constants DEF IInv, SourceInv
<1>1. /\ pc # "count" /\ pc' = "idle" /\ EndCycle /\ faults' \in 0..MaxFaults
      /\ UNCHANGED <<now, source, cursor, tally, arrived, excused, cgen>>
  BY DEF Fail, EndCycle, TypeOK
<1>2. \A i \in Ids : Done(i)' <=> Done(i)
  BY <1>1 DEF Done, Counted, source
<1>3. TypeOK'
  BY <1>1 DEF TypeOK, source, EndCycle, NoId
<1>4. Rows' /\ Arrivals' /\ Spaces' /\ Batch' /\ Settled'
  BY <1>1, <1>2 DEF Rows, Arrivals, Spaces, Batch, Settled, EndCycle, source
<1>5. CycleInv' /\ CursorInv'
  BY <1>1, <1>2, NoCycle, SameCursor
<1> QED  BY <1>3, <1>4, <1>5

\* Rows in flight when the process dies are excused, not done.
LEMMA CrashStep == ASSUME IInv, Crash PROVE IInv'
<1> USE Types, Constants DEF IInv, SourceInv
<1>1. /\ pc = "count" /\ pc' = "idle" /\ EndCycle /\ faults' \in 0..MaxFaults
      /\ excused' = IF qgen = gen THEN excused \cup found ELSE excused
      /\ UNCHANGED <<now, source, cursor, tally, arrived, cgen>>
  BY DEF Crash, EndCycle, Excuse, TypeOK
<1>2. \A i \in Ids : /\ Done(i)' => Done(i)
                     /\ Done(i) => Done(i)' \/ i \in excused'
  BY <1>1 DEF Done, Counted, source
<1>3. TypeOK'
  BY <1>1 DEF TypeOK, source, EndCycle, NoId
<1>4. Rows' /\ Arrivals' /\ Spaces' /\ Batch' /\ Settled'
  BY <1>1, <1>2 DEF Rows, Arrivals, Spaces, Batch, Settled, EndCycle, source
<1>5. CycleInv'
  BY <1>1, NoCycle
<1>6. CursorInv'
  BY <1>1, <1>2 DEF CursorInv, CursorTop, TopAt, AnchorLow, Covered, source
<1> QED  BY <1>3, <1>4, <1>5, <1>6

LEMMA StateLostStep == ASSUME IInv, StateLost PROVE IInv'
<1> USE Types, Constants DEF IInv, SourceInv
<1>1. /\ pc = "idle" /\ pc' = "idle" /\ cursor' = NoCursor /\ faults' \in 0..MaxFaults
      /\ UNCHANGED <<now, source, cycle, tally, arrived, excused, cgen>>
  BY DEF StateLost, TypeOK
<1>2. \A i \in Ids : Done(i)' <=> Done(i)
  BY <1>1 DEF Done, Counted, source
<1>3. TypeOK'
  BY <1>1 DEF TypeOK, source, cycle
<1>4. Rows' /\ Arrivals' /\ Spaces' /\ Batch' /\ Settled'
  BY <1>1, <1>2 DEF Rows, Arrivals, Spaces, Batch, Settled, cycle, source
<1>5. CycleInv' /\ CursorInv'
  BY <1>1, NoCycle DEF CursorInv, CursorTop, AnchorLow, Covered
<1> QED  BY <1>3, <1>4, <1>5

----------------------------------------------------------------------------
(* Theorems                                                                *)

LEMMA InitInv == Init => IInv
<1> SUFFICES ASSUME Init PROVE IInv
  OBVIOUS
<1> USE Constants DEF Init
<1>1. TypeOK
  BY DEF TypeOK, NoId, Ids, Events
<1>2. \A i \in Ids : ~ Done(i) /\ ~ Counted(i)
  BY DEF Done, Counted, Events
<1>3. Rows /\ Arrivals /\ Spaces /\ Batch /\ Settled
  BY <1>2 DEF Rows, Arrivals, Spaces, Batch, Settled, Ids
<1>4. CycleInv
  BY DEF CycleInv, MinOld, BatchOld, FoundNew, FoundSettled, FoundPrefix, FoundTop,
         SeedTop, ResetLow, ResetHigh
<1>5. CursorInv
  BY DEF CursorInv, CursorTop, AnchorLow, Covered
<1> QED  BY <1>1, <1>3, <1>4, <1>5 DEF IInv, SourceInv

LEMMA StutterStep == ASSUME IInv, UNCHANGED vars PROVE IInv'
<1> USE DEF IInv, SourceInv, vars, source, cycle
<1>1. \A i \in Ids : (Done(i)' <=> Done(i)) /\ (Counted(i)' <=> Counted(i))
  BY DEF Done, Counted
<1>2. TypeOK' /\ Rows' /\ Arrivals' /\ Spaces' /\ Batch' /\ Settled'
  BY <1>1 DEF TypeOK, Rows, Arrivals, Spaces, Batch, Settled
<1>3. CycleInv'
  BY <1>1 DEF CycleInv, MinOld, BatchOld, FoundNew, FoundSettled, FoundPrefix, FoundTop,
              SeedTop, TopAt, ResetLow, ResetHigh, AllGone
<1>4. CursorInv'
  BY <1>1, SameCursor
<1> QED  BY <1>2, <1>3, <1>4

LEMMA StepInv == IInv /\ [Next]_vars => IInv'
<1> SUFFICES ASSUME IInv, [Next]_vars PROVE IInv'
  OBVIOUS
<1>1. CASE Source
  BY <1>1, InsertStep, RebuildStep, PublishStep, PurgeStep DEF Source
<1>2. CASE Cycle
  BY <1>2, BeginStep, ReadMaxStep, TailStep, SaveColdStep, SaveResetStep, SaveQuietStep,
     SaveAdvanceStep, IncrementStep DEF Cycle
<1>3. CASE Tick \/ Fail \/ Crash \/ StateLost
  BY <1>3, TickStep, FailStep, CrashStep, StateLostStep
<1>4. CASE UNCHANGED vars
  BY <1>4, StutterStep
<1> QED  BY <1>1, <1>2, <1>3, <1>4 DEF Next

(* The inductive invariant holds in every behaviour of the tail.           *)
THEOREM Invariance == Spec => []IInv
<1> QED  BY InitInv, StepInv, PTL DEF Spec

(* The cursor, the statements' results and the counter stay in their       *)
(* types: in particular a saved cursor never leaves the id space.          *)
THEOREM TypeCorrect == Spec => []TypeOK
<1>1. IInv => TypeOK
  BY DEF IInv, SourceInv
<1> QED  BY <1>1, Invariance, PTL

(* Every readable row at or below the saved cursor is counted, about to    *)
(* be, one of the accepted losses, or below the anchor and found again, as *)
(* long as the settle window covers twice the source's delay and a batch.  *)
THEOREM RowsAccounted == Spec => []Accounted
<1>1. IInv => Accounted
  <2> SUFFICES ASSUME IInv, cursor # NoCursor, cgen = gen, NEW i \in Ids, st[i] = "visible",
                      i <= cursor.value
               PROVE  \/ tally[<<gen, i>>] = 1 \/ InFlight(<<gen, i>>)
                      \/ i \in excused \/ i < cursor.anchor
    BY DEF Accounted, Visible
  <2> USE DEF IInv, SourceInv
  <2>1. Done(i) \/ i \in excused \/ i < cursor.anchor
    BY DEF CursorInv, Covered
  <2>2. Counted(i) => tally[<<gen, i>>] = 1
    BY Types DEF Counted, Arrivals
  <2> QED  BY <2>1, <2>2 DEF Done, InFlight
<1> QED  BY <1>1, Invariance, PTL

\* A row that becomes readable arrives; an increment counts what was in flight.
LEMMA StepRefines ==
    ASSUME IInv, [Next]_vars
    PROVE  [Counting!Next]_<<arrived, tally>>
<1> USE DEF IInv, SourceInv
<1>1. ASSUME NEW p \in Ids, Publish(p) PROVE Counting!Next
  <2>1. <<gen, p>> \in Events /\ <<gen, p>> \notin arrived
    BY <1>1, Types DEF Publish, Arrivals
  <2> QED  BY <1>1, <2>1 DEF Publish, Counting!Next, Counting!Arrive
<1>2. ASSUME Increment PROVE Counting!Next
  <2> DEFINE S == {e \in Events : InFlight(e)}
  <2>1. \A e \in S : tally[e] = 0 /\ e \in arrived
    <3>1. \A e \in Events : e = <<e[1], e[2]>>
      BY DEF Events
    <3>2. \A i \in found : <<qgen, i>> \in arrived /\ tally[<<qgen, i>>] = 0
      BY <1>2 DEF Increment, CycleInv, FoundNew
    <3> QED  BY <3>1, <3>2 DEF InFlight
  <2>2. tally' = [e \in Events |-> IF e \in S THEN 1 ELSE tally[e]]
    BY <1>2, <2>1, Types DEF Increment
  <2>3. S \in SUBSET arrived
    BY <2>1
  <2> QED  BY <1>2, <2>1, <2>2, <2>3 DEF Increment, Counting!Next, Counting!Count
<1>3. ASSUME ~ \E p \in Ids : Publish(p), ~ Increment PROVE UNCHANGED <<arrived, tally>>
  BY <1>3 DEF Next, Source, Cycle, Insert, Purge, Rebuild, Tick, Begin, ReadMax, tail_query,
              SaveCold, SaveReset, SaveQuiet, SaveAdvance, Fail, Crash, StateLost, vars
<1> QED  BY <1>1, <1>2, <1>3

(* The tail implements the abstract counting specification: an event is    *)
(* added to the counter only after it has been readable, and never twice,  *)
(* whatever faults, purges, rebuilds and lost cursors a behaviour has.     *)
THEOREM CountingRefined == Spec => ImplementsCounting
<1>1. Init => Counting!Init
  BY DEF Init, Counting!Init
<1>2. IInv /\ [Next]_vars => [Counting!Next]_(Counting!vars)
  BY StepRefines DEF Counting!vars
<1> QED  BY <1>1, <1>2, Invariance, PTL DEF Spec, ImplementsCounting, Counting!Spec
=============================================================================
