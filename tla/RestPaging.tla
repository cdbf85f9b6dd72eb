----------------------------- MODULE RestPaging -----------------------------
(***************************************************************************)
(* The complete enumerations of clients/rest.py: get_ers(get_all=True),    *)
(* which follows nextPage.href and compares what it got with the total the *)
(* first page declared, and get_pan_api_all, whose source declares no      *)
(* total.  ISE changes while the pages are read, and a reply may be wrong: *)
(* rows missing from a page, a link missing or leading back.               *)
(*                                                                         *)
(* Objects are numbers so that the order of the list is the order of the   *)
(* ids; an object of ISE carries a version, which changes when the object  *)
(* is edited or, for a session, replaced by a new one.                     *)
(***************************************************************************)
EXTENDS Naturals, Sequences, FiniteSets, SequencesExt

CONSTANTS Objects,      \* the ids ISE may hold
          PageSize,     \* rows of one page
          MaxPages,     \* ERS_MAX_PAGES, max_pages of get_pan_api_all
          MaxRows,      \* ERS_MAX_ROWS, max_rows of get_pan_api_all
          MaxChanges,   \* bound: changes of ISE in a behaviour
          MaxFaults     \* bound: failed calls and wrong replies

ASSUME PagingAssumption ==
  /\ Objects \subseteq Nat /\ IsFiniteSet(Objects)
  /\ PageSize \in Nat \ {0} /\ MaxPages \in Nat \ {0} /\ MaxRows \in Nat
  /\ MaxChanges \in Nat /\ MaxFaults \in Nat

VARIABLES ise,       \* ISE: [Objects -> version], 0 for an absent object
          changes,   \* changes of ISE so far
          faults,    \* failed calls and wrong replies so far
          list,      \* the enumeration under way
          opened,    \* history: what ISE held when the enumeration began
          moved,     \* history: ISE changed during the enumeration
          lied       \* history: a reply of the enumeration was wrong

pagingVars == <<ise, changes, faults, list, opened, moved, lied>>

Versions == 1..(MaxChanges + 1)
Rows == [id : Objects, ver : Versions]

Present == {o \in Objects : ise[o] # 0}

(* The elements of S in an order: at place i stands the one that i - 1     *)
(* others precede.                                                         *)
Ordered(S, Precedes(_, _)) ==
  [i \in 1..Cardinality(S) |->
     CHOOSE o \in S : Cardinality({p \in S : Precedes(p, o)}) = i - 1]
ById(S) == Ordered(S, <)

(* The rows ISE lists, in the order of their ids. *)
Listing ==
  LET ids == ById(Present)
  IN  [i \in 1..Len(ids) |-> [id |-> ids[i], ver |-> ise[ids[i]]]]

(* No enumeration is under way. *)
NoList == [st |-> "off", rows |-> <<>>, total |-> 0, next |-> 0, pages |-> 0,
           visited |-> {}]

Least(a, b) == IF a < b THEN a ELSE b

(* Page p as ISE should serve it; page p + 1 is linked when rows remain. *)
TrueReply(p) ==
  [rows |-> SubSeq(Listing, (p - 1) * PageSize + 1,
                   Least(p * PageSize, Len(Listing))),
   next |-> IF Len(Listing) > p * PageSize THEN p + 1 ELSE 0]

(* The replies to a request for page p: the right one, or, as long as      *)
(* faults remain, one whose last row is missing, whose link is missing or  *)
(* leads back to the first page.                                           *)
Replies(p) ==
  LET r == TrueReply(p) IN
  {r} \cup IF faults = MaxFaults THEN {}
           ELSE {[r EXCEPT !.next = 0], [r EXCEPT !.next = 1],
                 [r EXCEPT !.rows = IF @ = <<>> THEN @ ELSE Front(@)]}

(* What a wrong reply to the request for page p costs. *)
Cost(p, r) == IF r = TrueReply(p) THEN 0 ELSE 1

ListFailed == [NoList EXCEPT !.st = "failed"]

(* A request without a usable answer: _get_json returned None. *)
Unanswered ==
  /\ faults < MaxFaults
  /\ faults' = faults + 1
  /\ list' = ListFailed

(* The first request: its rows, and the total the enumeration must reach. *)
OpenList ==
  /\ list.st = "off"
  /\ opened' = Present
  /\ moved' = FALSE
  /\ \/ Unanswered /\ lied' = FALSE
     \/ \E r \in Replies(1) :
          /\ faults' = faults + Cost(1, r)
          /\ lied' = (r # TrueReply(1))
          /\ list' = IF Len(r.rows) > MaxRows \/ Len(Listing) > MaxRows
                     THEN ListFailed
                     ELSE [st |-> "paging", rows |-> r.rows,
                           total |-> Len(Listing), next |-> r.next,
                           pages |-> 1, visited |-> {}]
  /\ UNCHANGED <<ise, changes>>

(* A link that may not be followed: too many pages, or a page visited. *)
BadLink == list.pages >= MaxPages \/ list.next \in list.visited

RefuseLink ==
  /\ list.st = "paging" /\ list.next # 0
  /\ BadLink
  /\ list' = ListFailed
  /\ UNCHANGED <<ise, changes, faults, opened, moved, lied>>

(* The next page; more than MaxRows rows invalidate the enumeration. *)
FollowLink ==
  /\ list.st = "paging" /\ list.next # 0
  /\ ~BadLink
  /\ \/ Unanswered /\ UNCHANGED lied
     \/ \E r \in Replies(list.next) :
          /\ faults' = faults + Cost(list.next, r)
          /\ lied' = (lied \/ r # TrueReply(list.next))
          /\ list' = IF Len(list.rows) + Len(r.rows) > MaxRows THEN ListFailed
                     ELSE [list EXCEPT !.rows = list.rows \o r.rows,
                                       !.next = r.next,
                                       !.pages = list.pages + 1,
                                       !.visited = list.visited \cup {list.next}]
  /\ UNCHANGED <<ise, changes, opened, moved>>

(* Mutant: the rows are not compared with the declared total. *)
CloseUncounted(counted) ==
  /\ list.st = "paging" /\ list.next = 0
  /\ list' = [list EXCEPT !.st = "ok"]
  /\ UNCHANGED <<ise, changes, faults, opened, moved, lied>>

(* No further link: an ERS enumeration must have the declared number of    *)
(* rows; a PAN enumeration has nothing to be compared with.                *)
CloseList(counted) ==
  /\ list.st = "paging" /\ list.next = 0
  /\ list' = IF counted /\ Len(list.rows) # list.total
             THEN ListFailed ELSE [list EXCEPT !.st = "ok"]
  /\ UNCHANGED <<ise, changes, faults, opened, moved, lied>>

(* ISE itself: an object is created, edited or replaced, or deleted. *)
Change ==
  /\ changes < MaxChanges
  /\ changes' = changes + 1
  /\ \E o \in Objects :
       \/ ise' = [ise EXCEPT ![o] = changes + 2]
       \/ ise[o] # 0 /\ ise' = [ise EXCEPT ![o] = 0]
  /\ moved' = (moved \/ list.st = "paging")
  /\ UNCHANGED <<faults, list, opened, lied>>

(* Types and bounds. *)
PagingTypeOK ==
  /\ ise \in [Objects -> Versions \cup {0}]
  /\ changes \in 0..MaxChanges
  /\ faults \in 0..MaxFaults
  /\ list.st \in {"off", "paging", "ok", "failed"}
  /\ list.rows \in Seq(Rows) /\ Len(list.rows) <= MaxRows
  /\ list.total \in 0..Cardinality(Objects)
  /\ list.next \in 0..(Cardinality(Objects) + 1)
  /\ list.pages \in 0..MaxPages
  /\ list.visited \subseteq 1..(Cardinality(Objects) + 1)
  /\ opened \subseteq Objects
  /\ moved \in BOOLEAN /\ lied \in BOOLEAN
=============================================================================
