------------------------------ MODULE Paginate ------------------------------
(***************************************************************************)
(* `paginate` of lifecycle.ts: reading a page-numbered list API to its     *)
(* end.  Every list, every lookup by name and the account-wide teardown    *)
(* rest on it.  The listing is read one page at a time, and the account    *)
(* may change between two pages.                                           *)
(*                                                                         *)
(* A page request names a number and a size; the API may serve smaller     *)
(* pages than asked for (`served`), and may or may not report how many     *)
(* items there are (`reports`).  An API that does neither cannot be read   *)
(* to its end by this loop, and ReadInit leaves that pair out.             *)
(***************************************************************************)
EXTENDS Naturals, FiniteSets, Sequences, SequencesExt

CONSTANTS
    Item,
    PageSize, MaxPages,
    MaxChanges       \* bound on the changes of the account during the read

ASSUME ItemAssumption == IsFiniteSet(Item)
ASSUME BoundsAssumption ==
    /\ PageSize \in Nat \ {0}
    /\ MaxPages \in Nat \ {0}
    /\ MaxChanges \in Nat

VARIABLES
    listing,        \* what the API would list now, in its order
    reports, served,
    pageNumber, items,
    reportedTotal,  \* the last total the API reported, as a set: none or one
    verdict,        \* "reading", "drained", "limit" or "failed"
    lasting,        \* items listed ever since the read began
    changes,        \* changes of the account during the read
    removals        \* those of them that removed an item

server == <<reports, served>>
loop == <<pageNumber, items, reportedTotal, verdict>>
meanwhile == <<lasting, changes, removals>>
readVars == <<listing, server, loop, meanwhile>>

ReadInit ==
    /\ \E S \in SUBSET Item : listing \in SetToSeqs(S)
    /\ reports \in BOOLEAN
    /\ served \in 1 .. PageSize
    /\ reports \/ served = PageSize
    /\ pageNumber = 1
    /\ items = <<>>
    /\ reportedTotal = {}
    /\ verdict = "reading"
    /\ lasting = ToSet(listing)
    /\ changes = 0
    /\ removals = 0

Lesser(m, n) == IF m < n THEN m ELSE n

(* The page the API answers with. *)
Page == SubSeq(listing, (pageNumber - 1) * served + 1,
               Lesser(pageNumber * served, Len(listing)))

Total == IF reports THEN {Len(listing)} ELSE reportedTotal

ReachedReportedTotal(read, total) == \E t \in total : Len(read) >= t

ReachedShortPage(page, total) == total = {} /\ Len(page) < PageSize

(* Faulty: the first page is the inventory. *)
ReadFirstPage ==
    /\ verdict = "reading"
    /\ items' = items \o Page
    /\ reportedTotal' = Total
    /\ verdict' = "drained"
    /\ UNCHANGED <<listing, server, pageNumber, meanwhile>>

(* Faulty: an empty page is asked for again. *)
ReadPageUnlessEmpty ==
    /\ verdict = "reading"
    /\ items' = items \o Page
    /\ reportedTotal' = Total
    /\ IF Page = <<>>
       THEN UNCHANGED <<pageNumber, verdict>>
       ELSE IF ReachedReportedTotal(items', Total) \/ ReachedShortPage(Page, Total)
       THEN verdict' = "drained" /\ UNCHANGED pageNumber
       ELSE /\ pageNumber' = pageNumber + 1
            /\ verdict' = IF pageNumber = MaxPages THEN "limit" ELSE "reading"
    /\ UNCHANGED <<listing, server, meanwhile>>

ReadPage ==
    /\ verdict = "reading"
    /\ items' = items \o Page
    /\ reportedTotal' = Total
    /\ IF ReachedReportedTotal(items', Total) \/ ReachedShortPage(Page, Total)
       THEN verdict' = "drained" /\ UNCHANGED pageNumber
       ELSE /\ pageNumber' = pageNumber + 1
            /\ verdict' = IF pageNumber = MaxPages THEN "limit" ELSE "reading"
    /\ UNCHANGED <<listing, server, meanwhile>>

(* The page request fails for good; the whole inventory does. *)
PageFails ==
    /\ verdict = "reading"
    /\ verdict' = "failed"
    /\ UNCHANGED <<listing, server, pageNumber, items, reportedTotal,
                   meanwhile>>

(* Somebody creates an item; the API lists it wherever its order puts it. *)
Appear(i, n) ==
    /\ verdict = "reading"
    /\ changes < MaxChanges
    /\ i \notin ToSet(listing)
    /\ listing' = InsertAt(listing, n, i)
    /\ changes' = changes + 1
    /\ UNCHANGED <<server, loop, lasting, removals>>

Disappear(n) ==
    /\ verdict = "reading"
    /\ changes < MaxChanges
    /\ listing' = RemoveAt(listing, n)
    /\ lasting' = lasting \ {listing[n]}
    /\ changes' = changes + 1
    /\ removals' = removals + 1
    /\ UNCHANGED <<server, loop>>

Read == ReadPage \/ PageFails

ReadNext ==
    \/ Read
    \/ \E i \in Item, n \in 1 .. Len(listing) + 1 : Appear(i, n)
    \/ \E n \in 1 .. Len(listing) : Disappear(n)

ReadSpec == ReadInit /\ [][ReadNext]_readVars

-----------------------------------------------------------------------------

ReadTypeOK ==
    /\ listing \in Seq(Item) /\ items \in Seq(Item)
    /\ reports \in BOOLEAN /\ served \in 1 .. PageSize
    /\ pageNumber \in 1 .. MaxPages + 1
    /\ reportedTotal \in SUBSET (0 .. Cardinality(Item))
    /\ verdict \in {"reading", "drained", "limit", "failed"}
    /\ lasting \in SUBSET Item
    /\ changes \in 0 .. MaxChanges /\ removals \in 0 .. changes

(* An item that an inventory silently lacks would be reported absent, and  *)
(* recreated by a reconcile or forgotten by a teardown.  What the loop can *)
(* lose is bounded by the deletions between two pages, each of which       *)
(* shifts the rest of the listing by one place; additions lose nothing     *)
(* (lifecycle.ts `paginate`).                                              *)
LossIsBounded ==
    verdict = "drained" => Cardinality(lasting \ ToSet(items)) <= removals

=============================================================================
