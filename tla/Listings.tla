------------------------------ MODULE Listings ------------------------------
(***************************************************************************)
(* The lists that are read page by page: page number and limit become an   *)
(* offset into rows in descending order, while rows come, leave and move.  *)
(***************************************************************************)
EXTENDS Integers, Sequences, FiniteSets

CONSTANTS
    MaxRows,    \* rows that can ever come, in this order
    MaxLeft,    \* bound on the rows that leave
    Limit       \* limit

ASSUME ListingsAssumption == MaxRows \in Nat /\ MaxLeft \in Nat /\ Limit \in Nat \ {0}

\* Rows leave a list from anywhere, because they are deleted or the filter does
\* not fit them any longer; or they are deleted by age, the oldest first; or they
\* stay.  They keep their places in the list, unless it is sorted by what changes.
Leaving == {"any", "oldest", "none"}
List(leave, moves) == [leave |-> leave, moves |-> moves]

NotificationList == List("any", FALSE)
ProductList == List("any", FALSE)
OrderList == List("any", FALSE)
UserList == List("any", FALSE)
CustomerList == List("any", FALSE)
CustomerOrderList == List("any", FALSE)
DriverList == List("any", FALSE)
TicketList == List("any", FALSE)
CoinHistory == List("none", FALSE)
VendorReviews == List("none", FALSE)
DriverReviews == List("none", FALSE)
AuditLogList == List("oldest", FALSE)
VendorWalletList == List("oldest", FALSE)
VendorTransactions == List("oldest", FALSE)
DriverWalletList == List("oldest", FALSE)
ConversationList == List("any", TRUE)
VendorList == List("any", TRUE)
AdminVendorList == List("any", TRUE)

Lists == {NotificationList, ProductList, OrderList, UserList, CustomerList, CustomerOrderList,
          DriverList, TicketList, CoinHistory, VendorReviews, DriverReviews, AuditLogList,
          VendorWalletList, VendorTransactions, DriverWalletList, ConversationList, VendorList,
          AdminVendorList}

VARIABLES
    list,       \* which one is read
    rows,       \* its rows as the query returns them
    came,       \* how many have ever come
    reader      \* somebody who reads page by page

listingsVars == <<list, rows, came, reader>>

RowIds == 1..MaxRows
RowsOf(s) == {s[i] : i \in DOMAIN s}

\* stayed: rows that were there in the beginning and have not left or moved.
\* left: rows that have left from before others.
ReaderRecords == {[op |-> "idle"]}
    \cup [op : {"read", "end"}, page : 1..(MaxRows + 1), seen : SUBSET RowIds,
          stayed : SUBSET RowIds, left : 0..MaxLeft]

ListingsTypeOK ==
    /\ list \in Lists
    /\ came \in 0..MaxRows
    /\ RowsOf(rows) \subseteq 1..came
    /\ Cardinality(RowsOf(rows)) = Len(rows)
    /\ reader \in ReaderRecords

ListingsInit ==
    /\ list \in Lists
    /\ rows = << >>
    /\ came = 0
    /\ reader = [op |-> "idle"]

Without(s, i) == SubSeq(s, 1, i - 1) \o SubSeq(s, i + 1, Len(s))

\* What the reader cannot count on any longer.
Lose(r, left) ==
    reader' = IF reader.op = "idle" THEN reader
              ELSE [reader EXCEPT !.stayed = @ \ {r}, !.left = @ + left]

RowComes ==
    /\ came < MaxRows \* bound
    /\ came' = came + 1
    /\ rows' = <<came'>> \o rows
    /\ UNCHANGED <<list, reader>>

RowLeaves(i) ==
    /\ list.leave = "any"
    /\ reader.op = "read" => reader.left < MaxLeft \* bound
    /\ reader.op # "end"
    /\ rows' = Without(rows, i)
    /\ Lose(rows[i], IF i < Len(rows) THEN 1 ELSE 0)
    /\ UNCHANGED <<list, came>>

\* handleAuditLogsCleanup, handleWalletTransactionsCleanup: all before a cutoff.
CleanUpRows(keep) ==
    /\ list.leave = "oldest"
    /\ reader.op # "end"
    /\ rows' = SubSeq(rows, 1, keep)
    /\ reader' = IF reader.op = "idle" THEN reader
                 ELSE [reader EXCEPT !.stayed = @ \cap RowsOf(rows')]
    /\ UNCHANGED <<list, came>>

RowMoves(i) ==
    /\ list.moves
    /\ rows' = <<rows[i]>> \o Without(rows, i)
    /\ Lose(rows[i], 0)
    /\ UNCHANGED <<list, came>>

StartReading ==
    /\ reader.op = "idle"
    /\ reader' = [op |-> "read", page |-> 1, seen |-> {}, stayed |-> RowsOf(rows), left |-> 0]
    /\ UNCHANGED <<list, rows, came>>

\* Mistake: pages count from 0.
SkipOneMore(page) == page * Limit

Skip(page) == (page - 1) * Limit

\* A short page is the last one.
ReadRows ==
    /\ reader.op = "read"
    /\ LET page == {i \in DOMAIN rows : Skip(reader.page) < i /\ i <= Skip(reader.page) + Limit}
           full == Cardinality(page) = Limit IN
          reader' = [reader EXCEPT !.seen = @ \cup {rows[i] : i \in page},
                                   !.page = IF full THEN @ + 1 ELSE @,
                                   !.op = IF full THEN "read" ELSE "end"]
    /\ UNCHANGED <<list, rows, came>>

ListingsNext ==
    \/ RowComes \/ StartReading \/ ReadRows
    \/ \E i \in DOMAIN rows : RowLeaves(i) \/ RowMoves(i) \/ CleanUpRows(i - 1)

ListingsSpec == ListingsInit /\ [][ListingsNext]_listingsVars

-----------------------------------------------------------------------------
(* Properties *)

\* Whoever reads a list to the end has got every row that stayed in its place,
\* however many come before it, but for one at most for each row that left from
\* before others meanwhile; from the lists that only lose their oldest rows, all
\* (list, findAll, getVendorReviews, ...).
RowsMissedFew ==
    reader.op = "end" => Cardinality(reader.stayed \ reader.seen) <= reader.left
=============================================================================
