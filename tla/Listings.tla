------------------------------ MODULE Listings ------------------------------
(***************************************************************************)
(* The long lists of Radarr's that the tools page and take rows off:       *)
(* history, log, blocklist, exclusions and queue.  Radarr hands a list out *)
(* by page number, newest first, and it changes between two pages.  A      *)
(* client walks a list with limit and offset, one call for each page it is *)
(* shown; queue_remove, exclusion_remove and blocklist_remove take rows    *)
(* off one request at a time.                                              *)
(***************************************************************************)
EXTENDS Integers, SequencesExt

CONSTANTS
    Call,
    Request,        \* Request[c]: what the calls of c may ask
    DefaultLimit,   \* of rows shown, 100 in the code
    MaxLimit,       \* 1000
    PageSize,       \* of a list read whole, 500, or 250 of history
    Rows,           \* bound: how many rows there ever are
    Losses,         \* bound: rows go by themselves while fewer are gone
    None

ASSUME ListingsAssumption ==
    /\ {DefaultLimit, MaxLimit, PageSize} \subseteq Nat \ {0}
    /\ {Rows, Losses} \subseteq Nat
    /\ \A c \in Call : \A rq \in Request[c] :
          /\ rq # None
          /\ rq.tool \in {"window", "whole", "recent", "remove"}
          /\ rq.tool # "remove" => {rq.limit, rq.offset, rq.since} \subseteq Int
          /\ rq.tool = "remove" => rq.ids \in Seq(Int) \ {<<>>} /\ rq.checked \in BOOLEAN

VARIABLES
    list,   \* the rows, newest first: a row is the number it was made as
    newest, \* the last row made
    pc,     \* where each call is
    asks,   \* what was asked first
    offset, \* where the page asked for begins
    page,   \* the page of Radarr's to read next, of a list read whole
    got,    \* the rows read for this answer
    total,  \* how many Radarr said there are
    seen,   \* the rows shown so far in a walk
    told,   \* the rows taken off so far
    began,  \* history: the list as the walk or the removal began
    came,   \* history: calls during which a row was made
    torn,   \* history: walks with a row made between the two halves of an answer
    left    \* history: calls during which a row went

reading == <<pc, asks, offset, page, got, total, seen, told, began>>
vars == <<list, newest, reading, came, torn, left>>

Walks == {"window", "whole", "recent"}
Row == 1 .. Rows

TypeOK == /\ list \in Seq(Row)
          /\ newest \in 0 .. Rows
          /\ pc \in [Call -> {"new", "read", "second", "shown", "check", "remove", "done", "failed", "missing"}]
          /\ DOMAIN asks = Call /\ \A c \in Call : asks[c] \in Request[c] \cup {None}
          /\ offset \in [Call -> Nat]
          /\ page \in [Call -> Nat]
          /\ \A f \in {got, seen, began} : f \in [Call -> Seq(Row)]
          /\ told \in [Call -> Seq(Int)]
          /\ total \in [Call -> Nat]
          /\ {came, torn, left} \subseteq SUBSET Call

Init == /\ newest \in 0 .. Rows
        /\ list = [i \in 1 .. newest |-> newest + 1 - i]
        /\ pc = [c \in Call |-> "new"]
        /\ asks = [c \in Call |-> None]
        /\ offset = [c \in Call |-> 0]
        /\ page = [c \in Call |-> 1]
        /\ got = [c \in Call |-> <<>>]
        /\ total = [c \in Call |-> 0]
        /\ seen = [c \in Call |-> <<>>]
        /\ told = [c \in Call |-> <<>>]
        /\ began = [c \in Call |-> <<>>]
        /\ came = {}
        /\ torn = {}
        /\ left = {}

-----------------------------------------------------------------------------
(* limit and offset as every list takes them (pageIn.args).                 *)
Limit(rq) == Min({IF rq.limit <= 0 THEN DefaultLimit ELSE rq.limit, MaxLimit})
FromAnywhere(rq) == rq.offset       \* a slip, caught by TypeOK: before the start
From(rq) == Max({rq.offset, 0})

NextOffset(from, n, all) == IF n = 0 \/ from + n >= all THEN 0 ELSE from + n

(* Radarr's answer: a page of its list, counted from 1.  History, log and   *)
(* blocklist are asked for newest first; queue and exclusions in no order   *)
(* at all, and Radarr's own is taken to stand still as that one does.       *)
Fetch(number, size) ==
    SubSeq(list, (number - 1) * size + 1, Min({number * size, Len(list)}))

Cut(rows, from, limit) == SubSeq(rows, from + 1, Min({from + limit, Len(rows)}))

Begun == {c \in Call : pc[c] # "new"}
Goes(c, to) == pc' = [pc EXCEPT ![c] = to]

(* An answer: rows shown, and where the next page begins, if there is one.  *)
Show(c, rows, all) ==
    LET next == NextOffset(offset[c], Len(rows), all)
    IN  /\ seen' = [seen EXCEPT ![c] = @ \o rows]
        /\ IF next = 0 THEN Goes(c, "done") /\ UNCHANGED offset
           ELSE Goes(c, "shown") /\ offset' = [offset EXCEPT ![c] = next]

(* What history_list keeps of what it reads, when it is given an age: what   *)
(* comes before the first that is older.  Each call reckons the age from    *)
(* its own now; that a row grows too old between two calls of a walk is     *)
(* left out.                                                                *)
Older(rq, rows) == {i \in DOMAIN rows : rq.tool = "recent" /\ rows[i] < rq.since}
Newer(rq, rows) == SubSeq(rows, 1, Min(Older(rq, rows) \cup {Len(rows) + 1}) - 1)

-----------------------------------------------------------------------------
(* Slips these tools could have made, each caught by a property below.      *)
LastPageEarly(rq, rows, number) ==      \* the page after this one taken for the last
    \/ Len(rows) < PageSize
    \/ Older(rq, rows) # {}
    \/ rq.tool # "recent" /\ (number + 1) * PageSize >= Len(list)

ReadRounded(c) ==               \* the page an offset falls in, from its first row
    /\ pc[c] = "read"
    /\ asks[c].tool = "window"
    /\ Show(c, Fetch(offset[c] \div Limit(asks[c]) + 1, Limit(asks[c])), Len(list))
    /\ UNCHANGED <<list, newest, asks, page, got, total, told, began, came, torn, left>>

CheckAny(c) ==                  \* one row found, the rest taken to be there
    /\ pc[c] = "check"
    /\ Goes(c, IF ToSet(asks[c].ids) \cap ToSet(got[c]) # {} THEN "remove" ELSE "missing")
    /\ UNCHANGED <<list, newest, asks, offset, page, got, total, seen, told, began, came, torn, left>>

-----------------------------------------------------------------------------
(* The page of a list read whole that is its last: one of history is short  *)
(* or reaches the cutoff, any other is short or reaches the total.          *)
LastPage(rq, rows, number) ==
    \/ Len(rows) < PageSize
    \/ Older(rq, rows) # {}
    \/ rq.tool # "recent" /\ number * PageSize >= Len(list)

(* A walk or a removal begins.  blocklist_remove takes its rows off at once;*)
(* the others read the list first.                                          *)
Begin(c, rq) ==
    /\ pc[c] = "new"
    /\ asks' = [asks EXCEPT ![c] = rq]
    /\ began' = [began EXCEPT ![c] = list]
    /\ IF rq.tool \in Walks
       THEN Goes(c, "read") /\ offset' = [offset EXCEPT ![c] = From(rq)]
       ELSE Goes(c, IF rq.checked THEN "read" ELSE "remove") /\ UNCHANGED offset
    /\ UNCHANGED <<list, newest, page, got, total, seen, told, came, torn, left>>

(* window: the page of Radarr's that the offset falls in, and the next one  *)
(* when it falls inside it and there is one.                                *)
ReadWindow(c) ==
    LET limit == Limit(asks[c])
        first == offset[c] \div limit
        skip == offset[c] % limit
        rows == Fetch(first + 1, limit)
    IN  /\ pc[c] = "read"
        /\ asks[c].tool = "window"
        /\ got' = [got EXCEPT ![c] = rows]
        /\ total' = [total EXCEPT ![c] = Len(list)]
        /\ IF skip > 0 /\ (first + 1) * limit < Len(list)
           THEN Goes(c, "second") /\ UNCHANGED <<offset, seen>>
           ELSE Show(c, Cut(rows, skip, limit), Len(list))
        /\ UNCHANGED <<list, newest, asks, page, told, began, came, torn, left>>

ReadSecond(c) ==
    LET limit == Limit(asks[c])
        rows == got[c] \o Fetch(offset[c] \div limit + 2, limit)
    IN  /\ pc[c] = "second"
        /\ Show(c, Cut(rows, offset[c] % limit, limit), total[c])
        /\ UNCHANGED <<list, newest, asks, page, got, total, told, began, came, torn, left>>

(* A list read whole, page by page, and then a page of it shown, or the ids *)
(* to remove looked for in it.                                              *)
ReadPage(c) ==
    LET rows == Fetch(page[c], PageSize)
        all == got[c] \o Newer(asks[c], rows)
    IN  /\ pc[c] = "read"
        /\ asks[c].tool # "window"
        /\ got' = [got EXCEPT ![c] = all]
        /\ page' = [page EXCEPT ![c] = @ + 1]
        /\ CASE ~LastPage(asks[c], rows, page[c]) -> UNCHANGED <<pc, offset, seen>>
             [] LastPage(asks[c], rows, page[c]) /\ asks[c].tool = "remove" ->
                  Goes(c, "check") /\ UNCHANGED <<offset, seen>>
             [] LastPage(asks[c], rows, page[c]) /\ asks[c].tool \in Walks ->
                  Show(c, Cut(all, offset[c], Limit(asks[c])), Len(all))
        /\ UNCHANGED <<list, newest, asks, total, told, began, came, torn, left>>

(* The client asks for the next page, and the list is read anew.            *)
GoOn(c) ==
    /\ pc[c] = "shown"
    /\ Goes(c, "read")
    /\ page' = [page EXCEPT ![c] = 1]
    /\ got' = [got EXCEPT ![c] = <<>>]
    /\ UNCHANGED <<list, newest, asks, offset, total, seen, told, began, came, torn, left>>

(* Every id is looked for before any is removed.                            *)
Check(c) ==
    /\ pc[c] = "check"
    /\ Goes(c, IF ToSet(asks[c].ids) \subseteq ToSet(got[c]) THEN "remove" ELSE "missing")
    /\ UNCHANGED <<list, newest, asks, offset, page, got, total, seen, told, began, came, torn, left>>

(* One by one, to the first that fails.  A row that is not there is an      *)
(* error of the queue's, and removed all the same of the exclusions.        *)
RemoveNext(c, answered) ==
    LET id == asks[c].ids[Len(told[c]) + 1]
    IN  /\ pc[c] = "remove"
        /\ id \in ToSet(list) => answered
        /\ list' = RemoveFirst(list, id)
        /\ left' = IF id \in ToSet(list) THEN left \cup Begun ELSE left
        /\ told' = IF answered THEN [told EXCEPT ![c] = Append(@, id)] ELSE told
        /\ pc' = [pc EXCEPT ![c] = IF ~answered THEN "failed"
                                   ELSE IF Len(told'[c]) = Len(asks[c].ids) THEN "done" ELSE @]
        /\ UNCHANGED <<newest, asks, offset, page, got, total, seen, began, came, torn>>

(* A request fails: the call ends there, with what it has done.             *)
Fail(c) ==
    /\ pc[c] \in {"read", "second", "remove"}
    /\ Goes(c, "failed")
    /\ UNCHANGED <<list, newest, asks, offset, page, got, total, seen, told, began, came, torn, left>>

-----------------------------------------------------------------------------
(* Radarr: a row is made, or goes by itself.                                *)
Come ==
    /\ newest < Rows
    /\ newest' = newest + 1
    /\ list' = <<newest'>> \o list
    /\ came' = came \cup Begun
    /\ torn' = torn \cup {c \in Call : pc[c] = "second"}
    /\ UNCHANGED <<reading, left>>

Go(row) ==
    /\ row \in ToSet(list)
    /\ newest - Len(list) < Losses
    /\ list' = RemoveFirst(list, row)
    /\ left' = left \cup Begun
    /\ UNCHANGED <<newest, reading, came, torn>>

-----------------------------------------------------------------------------
Next == \/ \E c \in Call : \/ \E rq \in Request[c] : Begin(c, rq)
                           \/ ReadWindow(c) \/ ReadSecond(c) \/ ReadPage(c) \/ GoOn(c)
                           \/ Check(c) \/ Fail(c)
                           \/ \E answered \in BOOLEAN : RemoveNext(c, answered)
        \/ Come
        \/ \E row \in Row : Go(row)

Spec == Init /\ [][Next]_vars

-----------------------------------------------------------------------------
(* What a walk is to show: the list as it began, from where it began.       *)
Asked(c) == LET rows == Newer(asks[c], began[c])
            IN  SubSeq(rows, From(asks[c]) + 1, Len(rows))

WalkedOut(c) == pc[c] = "done" /\ asks[c].tool \in Walks

(* A list that stands still is shown as it is: each row once, in order,     *)
(* whatever the limit and wherever in Radarr's pages the offset falls:      *)
(* "dividing it by the limit would round it down and answer rows before it" *)
(* (radarr.go:671).                                                         *)
StillShownAsIs ==
    \A c \in Call : WalkedOut(c) /\ c \notin came \cup left => seen[c] = Asked(c)

(* Rows that come while a list is read or walked may show a row twice, and  *)
(* hide none; so a removal is refused only of a row that was not there, or  *)
(* when another went while the list was read.  A window read in two halves  *)
(* is the exception: a row made between them can hide the last.             *)
NothingMissed ==
    \A c \in Call \ left :
       /\ WalkedOut(c) /\ c \notin torn => ToSet(Asked(c)) \subseteq ToSet(seen[c])
       /\ pc[c] = "missing" => ~(ToSet(asks[c].ids) \subseteq ToSet(began[c]))

(* "Radarr answers 200 to deleting an exclusion that is not there, so the   *)
(* ids are checked first rather than reported removed" (exclusions.go:111): *)
(* what is told as removed was there and is not, in the order asked, and    *)
(* nothing is removed when one of them was missing.                         *)
RemovedWereThere ==
    \A c \in Call : asks[c] # None /\ asks[c].tool = "remove" =>
       /\ IsPrefix(told[c], asks[c].ids)
       /\ pc[c] = "done" => told[c] = asks[c].ids
       /\ pc[c] = "missing" => told[c] = <<>>
       /\ asks[c].checked => /\ ToSet(told[c]) \subseteq ToSet(got[c])
                            /\ ToSet(told[c]) \cap ToSet(list) = {}
=============================================================================
