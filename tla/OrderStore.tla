------------------------------ MODULE OrderStore ------------------------------
(***************************************************************************)
(* The command handlers of Ordering.API over one table: CreateOrder saves  *)
(* the row, then adds its domain event and saves again; DeleteOrder (by    *)
(* id or document number) reads, removes and saves; UpdateOrder reads,     *)
(* finds again and writes.  OrderContext captures and clears the events    *)
(* before each save and dispatches them after it.                          *)
(*                                                                         *)
(* A request has a DbContext of its own; requests interleave between their *)
(* database calls, and Ordering.API may die between any two of them.       *)
(***************************************************************************)
EXTENDS Naturals, FiniteSets

CONSTANTS
  Create,     \* CreateOrder commands; also the identity of the row each inserts
  Update, Delete,
  OrderOf,    \* the row an update or a deletion names
  ValueOf,    \* the columns a creation or an update carries
  NoRow,
  MaxCrashes  \* bound on the crashes of Ordering.API

Request == Create \cup Update \cup Delete

\* Two columns of the table that UpdateOrderCommand carries.
Column == {"TotalPrice", "EmailAddress"}
Value == [Column -> Nat]

ASSUME OrderStoreAssumption ==
  /\ Create \cap Update = {} /\ Create \cap Delete = {} /\ Update \cap Delete = {}
  /\ OrderOf \in [Update \cup Delete -> Create]
  /\ ValueOf \in [Create \cup Update -> Value]
  /\ NoRow \notin Value
  /\ MaxCrashes \in Nat

VARIABLES
  row,        \* SQL Server: the columns of each row
  inserted,   \* rows inserted so far
  pc, answer,
  exist,      \* UpdateAsync: the tracked row Find has loaded
  announced,  \* OrderCreatedEvents dispatched for each order
  dropped,    \* OrderDeletedEvents dispatched for each order
  crashes

vars == <<row, inserted, pc, answer, exist, announced, dropped, crashes>>

TypeOK ==
  /\ row \in [Create -> Value \cup {NoRow}]
  /\ inserted \subseteq Create
  /\ pc \in [Request -> {"read", "find", "save", "dispatch", "ended"}]
  /\ answer \in [Request -> {"pending", "ok", "notFound", "threw", "died"}]
  /\ exist \in [Update -> Value \cup {NoRow}]
  /\ announced \in [Create -> 0 .. 1]
  /\ dropped \in [Create -> 0 .. 1]
  /\ crashes \in 0 .. MaxCrashes

Init ==
  /\ row = [n \in Create |-> NoRow]
  /\ inserted = {}
  /\ pc = [r \in Request |-> IF r \in Create THEN "save" ELSE "read"]
  /\ answer = [r \in Request |-> "pending"]
  /\ exist = [u \in Update |-> NoRow]
  /\ announced = [n \in Create |-> 0]
  /\ dropped = [n \in Create |-> 0]
  /\ crashes = 0

Goto(r, p) == pc' = [pc EXCEPT ![r] = p] /\ UNCHANGED answer

End(r, a) ==
  /\ pc' = [pc EXCEPT ![r] = "ended"]
  /\ answer' = [answer EXCEPT ![r] = a]

\* What the save of a creation, a deletion and an update commits.
InsertRow(c) == row' = [row EXCEPT ![c] = ValueOf[c]] /\ inserted' = inserted \cup {c}
RemoveRow(d) ==
  /\ row[OrderOf[d]] # NoRow /\ row' = [row EXCEPT ![OrderOf[d]] = NoRow]
  /\ UNCHANGED inserted
WriteRow(u) ==
  /\ row[OrderOf[u]] # NoRow /\ row' = [row EXCEPT ![OrderOf[u]] = ValueOf[u]]
  /\ UNCHANGED inserted

\* A database call of r fails: the exception leaves the handler.  Nothing of the
\* save is in the table, and its captured events are gone with the context.
SaveThrows(r) ==
  /\ pc[r] \in {"read", "find", "save"}
  /\ End(r, "threw")
  /\ UNCHANGED <<row, inserted, exist, announced, dropped, crashes>>

\* The save of r is committed, but the connection is lost or the command times out
\* before that is known: base.SaveChangesAsync throws all the same, nothing retries it,
\* and the handler goes neither on to AddedOrder nor to the dispatch.
SaveCommitsThenThrows(r) ==
  /\ pc[r] = "save"
  /\ \/ r \in Create /\ InsertRow(r)
     \/ r \in Delete /\ RemoveRow(r)
     \/ r \in Update /\ WriteRow(r)
  /\ End(r, "threw")
  /\ UNCHANGED <<exist, announced, dropped, crashes>>

-----------------------------------------------------------------------------
(* CreateOrderHandler                                                      *)

\* Mutant: without the second save.
InsertOnly(c) ==
  /\ pc[c] = "save"
  /\ InsertRow(c)
  /\ End(c, "ok")
  /\ UNCHANGED <<exist, announced, dropped, crashes>>

\* CreateAsync: the row is inserted and committed; the order has no event yet.
Insert(c) ==
  /\ pc[c] = "save"
  /\ InsertRow(c)
  /\ Goto(c, "dispatch")
  /\ UNCHANGED <<exist, announced, dropped, crashes>>

\* Mutant: the event is dispatched by the first save as well.
AnnounceTwice(c) ==
  /\ pc[c] = "dispatch"
  /\ announced' = [announced EXCEPT ![c] = @ + 2]
  /\ End(c, "ok")
  /\ UNCHANGED <<row, inserted, exist, dropped, crashes>>

\* AddedOrder and the second save: nothing to write, the event is captured and
\* dispatched.  OrdersDomainHandler swallows a failing mail.
Announce(c) ==
  /\ pc[c] = "dispatch"
  /\ announced' = [announced EXCEPT ![c] = @ + 1]
  /\ End(c, "ok")
  /\ UNCHANGED <<row, inserted, exist, dropped, crashes>>

-----------------------------------------------------------------------------
(* DeleteOrderHandler, DeleteOrderByDocumentNoHandler                      *)

ReadForDelete(d) ==
  /\ pc[d] = "read"
  /\ IF row[OrderOf[d]] = NoRow THEN End(d, "notFound") ELSE Goto(d, "save")
  /\ UNCHANGED <<row, inserted, exist, announced, dropped, crashes>>

\* Mutant: a DELETE that affects no row is a success.
SaveDeleteUnchecked(d) ==
  /\ pc[d] = "save"
  /\ row' = [row EXCEPT ![OrderOf[d]] = NoRow]
  /\ Goto(d, "dispatch")
  /\ UNCHANGED <<inserted, exist, announced, dropped, crashes>>

\* The event is captured and cleared, then DELETE by id.  No row affected:
\* DbUpdateConcurrencyException, and the event is never dispatched.
SaveDelete(d) ==
  /\ pc[d] = "save"
  /\ \/ RemoveRow(d) /\ Goto(d, "dispatch")
     \/ row[OrderOf[d]] = NoRow /\ End(d, "threw") /\ UNCHANGED <<row, inserted>>
  /\ UNCHANGED <<exist, announced, dropped, crashes>>

DispatchDeleted(d) ==
  /\ pc[d] = "dispatch"
  /\ dropped' = [dropped EXCEPT ![OrderOf[d]] = @ + 1]
  /\ End(d, "ok")
  /\ UNCHANGED <<row, inserted, exist, announced, crashes>>

-----------------------------------------------------------------------------
(* UpdateOrderHandler                                                      *)

ReadForUpdate(u) ==
  /\ pc[u] = "read"
  /\ IF row[OrderOf[u]] = NoRow THEN End(u, "notFound") ELSE Goto(u, "find")
  /\ UNCHANGED <<row, inserted, exist, announced, dropped, crashes>>

\* UpdateAsync: Find loads a tracked copy of the row as it is now; Entry(null)
\* throws when it is gone.
Find(u) ==
  /\ pc[u] = "find"
  /\ exist' = [exist EXCEPT ![u] = row[OrderOf[u]]]
  /\ IF row[OrderOf[u]] = NoRow THEN End(u, "threw") ELSE Goto(u, "save")
  /\ UNCHANGED <<row, inserted, announced, dropped, crashes>>

\* Mutant: only the columns that differ from the tracked row are written.
SaveUpdateChanged(u) ==
  /\ pc[u] = "save"
  /\ IF row[OrderOf[u]] # NoRow
     THEN /\ row' = [row EXCEPT ![OrderOf[u]] =
                       [c \in Column |-> IF ValueOf[u][c] # exist[u][c]
                                         THEN ValueOf[u][c] ELSE row[OrderOf[u]][c]]]
          /\ End(u, "ok")
     ELSE End(u, "threw") /\ UNCHANGED row
  /\ UNCHANGED <<inserted, exist, announced, dropped, crashes>>

\* Mutant: a row that is gone is written again.
SaveUpdateUpserts(u) ==
  /\ pc[u] = "save"
  /\ row' = [row EXCEPT ![OrderOf[u]] = ValueOf[u]]
  /\ End(u, "ok")
  /\ UNCHANGED <<inserted, exist, announced, dropped, crashes>>

\* SetValues and the save: equal values are no change and nothing is written, unless
\* another update came between the two reads: the LastModifiedDate of the first read then
\* differs from the row's.  A change makes OrderContext set the entry to Modified, so that
\* every column is written, the untouched ones too.  No row affected:
\* DbUpdateConcurrencyException.  The SaveAsync that follows has nothing to save.
SaveUpdate(u) ==
  /\ pc[u] = "save"
  /\ \/ exist[u] = ValueOf[u] /\ End(u, "ok") /\ UNCHANGED <<row, inserted>>
     \/ WriteRow(u) /\ End(u, "ok")
     \/ row[OrderOf[u]] = NoRow /\ End(u, "threw") /\ UNCHANGED <<row, inserted>>
  /\ UNCHANGED <<exist, announced, dropped, crashes>>

-----------------------------------------------------------------------------
\* Ordering.API dies, and the requests it was handling with it.
Crash ==
  /\ crashes < MaxCrashes
  /\ crashes' = crashes + 1
  /\ \E R \in SUBSET {r \in Request : pc[r] # "ended"} :
       /\ pc' = [r \in Request |-> IF r \in R THEN "ended" ELSE pc[r]]
       /\ answer' = [r \in Request |-> IF r \in R THEN "died" ELSE answer[r]]
  /\ UNCHANGED <<row, inserted, exist, announced, dropped>>

RunCreate(c) == Insert(c) \/ Announce(c)
RunDelete(d) == ReadForDelete(d) \/ SaveDelete(d) \/ DispatchDeleted(d)
RunUpdate(u) == ReadForUpdate(u) \/ Find(u) \/ SaveUpdate(u)

Next ==
  \/ \E c \in Create : RunCreate(c)
  \/ \E d \in Delete : RunDelete(d)
  \/ \E u \in Update : RunUpdate(u)
  \/ \E r \in Request : SaveThrows(r) \/ SaveCommitsThenThrows(r)
  \/ Crash

\* A handler whose call returned runs on.
Fairness ==
  \A c \in Create : WF_vars(RunCreate(c) \/ SaveThrows(c) \/ SaveCommitsThenThrows(c))

Spec == Init /\ [][Next]_vars /\ Fairness

-----------------------------------------------------------------------------
(* Properties.                                                             *)

Gone == {n \in inserted : row[n] = NoRow}

\* Of any deletions of one order that overlap, by id or by document number, one
\* deletes it: one caller is told so, one event is dispatched, and that after the
\* row has gone, also when updates and a crash come in between.
OneDeletionSucceeds ==
  \A n \in Create :
    LET ok == {d \in Delete : OrderOf[d] = n /\ answer[d] = "ok"}
    IN  /\ Cardinality(ok) <= 1
        /\ dropped[n] = Cardinality(ok)
        /\ ok # {} => n \in Gone

\* A row holds the columns of exactly one request, the creation or one update of
\* that order: overlapping updates never leave a mix of their columns.
RowIsOneRequest ==
  \A n \in Create : row[n] # NoRow =>
    row[n] \in {ValueOf[n]} \cup {ValueOf[u] : u \in {v \in Update : OrderOf[v] = n}}

\* An inserted order is announced in the end, unless Ordering.API died between the two
\* saves or the first one, committed, threw: no handler answers "ok" for an order nobody
\* is told of, and no other handler, deletions of that order included, keeps it from
\* being announced.
InsertedIsAnnounced ==
  \A c \in Create : c \in inserted ~> announced[c] = 1 \/ answer[c] \in {"died", "threw"}

\* The table behind the handlers behaves as the sagas' model of it assumes.
Table == INSTANCE OrderTable WITH Order <- Create, placed <- inserted, deleted <- Gone
ImplementsOrderTable == Table!Spec

=============================================================================
