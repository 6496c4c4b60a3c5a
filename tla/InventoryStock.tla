---------------------------- MODULE InventoryStock ----------------------------
(***************************************************************************)
(* Inventory.API over its MongoDB collection: purchases and single sales   *)
(* insert one entry, a sales order inserts one per line under a document   *)
(* number of its own, DeleteById reads an entry and then removes it, and   *)
(* readers walk the entries of an item page by page.                       *)
(*                                                                         *)
(* There is no transaction and no sort: a page is cut from the collection  *)
(* as it is when that page is read, in insertion order.  The collection is *)
(* a set, and the ids of its entries tell the order they were inserted in. *)
(***************************************************************************)
EXTENDS Paging, FiniteSets

CONSTANTS
  Item,
  SalesOrder,  \* requests of SalesOrder
  LinesOf,     \* the items of each, in order
  Deletion,    \* requests of DeleteById
  Reader,      \* clients walking the pages of ItemOf
  ItemOf,
  AskedSize,   \* page sizes clients send
  OwnDocument, \* the fresh document number of an entry of no sales order
  MaxEntries   \* bound on the entries ever inserted

ASSUME InventoryStockAssumption ==
  /\ LinesOf \in [SalesOrder -> Seq(Item)]
  /\ ItemOf \in [Reader -> Item]
  /\ AskedSize \subseteq Int32
  /\ SalesOrder \cap Deletion = {}
  /\ OwnDocument \notin SalesOrder
  /\ MaxEntries \in Nat

VARIABLES
  entries,   \* the collection
  inserted,  \* every entry ever inserted
  line,      \* SalesOrderAsync: the line it inserts next
  answer,
  target,    \* DeleteById: the id of its route
  size, page,
  seen,      \* the pages a reader has read, in order
  atStart    \* history: entries of its item when the walk began

vars == <<entries, inserted, line, answer, target, size, page, seen, atStart>>

Entry == [id : 1 .. MaxEntries, item : Item, document : SalesOrder \cup {OwnDocument}]
InsertedAs(i, d) == [id |-> Cardinality(inserted) + 1, item |-> i, document |-> d]

TypeOK ==
  /\ entries \subseteq inserted /\ inserted \subseteq Entry
  /\ line \in [SalesOrder -> 1 .. MaxEntries + 1]
  /\ answer \in [SalesOrder \cup Deletion -> {"pending", "ok", "notFound", "threw"}]
  /\ target \in [Deletion -> 0 .. MaxEntries]
  /\ size \in [Reader -> 1 .. maxPageSize]
  /\ page \in [Reader -> Nat]
  /\ seen \in [Reader -> Seq(SUBSET Entry)] /\ atStart \in [Reader -> SUBSET Entry]

\* page[r] = 0: the walk has not begun or has ended.
Init ==
  /\ entries = {} /\ inserted = {}
  /\ line = [o \in SalesOrder |-> 1]
  /\ answer = [q \in SalesOrder \cup Deletion |-> "pending"]
  /\ target = [d \in Deletion |-> 0]
  /\ size = [r \in Reader |-> defaultPageSize]
  /\ page = [r \in Reader |-> 0]
  /\ seen = [r \in Reader |-> <<>>]
  /\ atStart = [r \in Reader |-> {}]

Matching(i) == {e \in entries : e.item = i}

\* Where an entry comes among those of its item.
Position(e) == Cardinality({f \in Matching(e.item) : f.id <= e.id})

Insert(e) ==
  /\ Cardinality(inserted) < MaxEntries
  /\ entries' = entries \cup {e}
  /\ inserted' = inserted \cup {e}

readers == <<size, page, seen, atStart>>

\* PurchaseItemAsync, SalesItemAsync: one entry, under a document number of its own
\* (no entry has the number of another; OwnDocument stands for all of these).
AddEntry(i) ==
  /\ Insert(InsertedAs(i, OwnDocument))
  /\ UNCHANGED <<line, answer, target, readers>>

\* Mutant: the last insert is not awaited and may be lost.
InsertLineNotAwaited(o) ==
  /\ answer[o] = "pending" /\ line[o] <= Len(LinesOf[o])
  /\ IF line[o] = Len(LinesOf[o])
     THEN answer' = [answer EXCEPT ![o] = "ok"] /\ UNCHANGED <<line, entries, inserted>>
     ELSE /\ Insert(InsertedAs(LinesOf[o][line[o]], o))
          /\ line' = [line EXCEPT ![o] = @ + 1]
          /\ UNCHANGED answer
  /\ UNCHANGED <<target, readers>>

\* SalesOrderAsync: each line is an insert of its own, awaited before the next.
InsertLine(o) ==
  /\ answer[o] = "pending" /\ line[o] <= Len(LinesOf[o])
  /\ Insert(InsertedAs(LinesOf[o][line[o]], o))
  /\ line' = [line EXCEPT ![o] = @ + 1]
  /\ UNCHANGED <<answer, target, readers>>

AnswerOrder(o) ==
  /\ answer[o] = "pending" /\ line[o] = Len(LinesOf[o]) + 1
  /\ answer' = [answer EXCEPT ![o] = "ok"]
  /\ UNCHANGED <<entries, inserted, line, target, readers>>

\* An insert fails: the lines before it stay, and so does its own entry when it was
\* stored and only the reply of the database was lost.
InsertThrows(o) ==
  /\ answer[o] = "pending" /\ line[o] <= Len(LinesOf[o])
  /\ answer' = [answer EXCEPT ![o] = "threw"]
  /\ \/ /\ Insert(InsertedAs(LinesOf[o][line[o]], o))
        /\ line' = [line EXCEPT ![o] = @ + 1]
     \/ UNCHANGED <<entries, inserted, line>>
  /\ UNCHANGED <<target, readers>>

\* DeleteById, GetByIdAsync: the client names an id it has been given.
FindById(d) ==
  /\ answer[d] = "pending" /\ target[d] = 0
  /\ \E e \in inserted :
       /\ target' = [target EXCEPT ![d] = e.id]
       /\ answer' = [answer EXCEPT ![d] = IF e \in entries THEN @ ELSE "notFound"]
  /\ UNCHANGED <<entries, inserted, line, readers>>

\* DeleteById, DeleteAsync: nobody looks at how many entries it removed.
DeleteById(d) ==
  /\ answer[d] = "pending" /\ target[d] # 0
  /\ entries' = {e \in entries : e.id # target[d]}
  /\ answer' = [answer EXCEPT ![d] = "ok"]
  /\ UNCHANGED <<inserted, line, target, readers>>

\* DeleteById, DeleteAsync: the removal fails, done or not.
DeleteThrows(d) ==
  /\ answer[d] = "pending" /\ target[d] # 0
  /\ entries' \in {entries, {e \in entries : e.id # target[d]}}
  /\ answer' = [answer EXCEPT ![d] = "threw"]
  /\ UNCHANGED <<inserted, line, target, readers>>

StartWalk(r) ==
  /\ page[r] = 0 /\ seen[r] = <<>>
  /\ \E asked \in AskedSize : size' = [size EXCEPT ![r] = PageSize(asked)]
  /\ page' = [page EXCEPT ![r] = PageNumber(0)]
  /\ atStart' = [atStart EXCEPT ![r] = Matching(ItemOf[r])]
  /\ UNCHANGED <<entries, inserted, line, answer, target, seen>>

PageOf(i, p, s) ==
  LET positions == PagePositions(Cardinality(Matching(i)), p, s)
  IN  {e \in Matching(i) : Position(e) \in positions}

\* The list that is sent carries no metadata: a client goes on to the next page
\* until one is not full.  The count read before the page is not in the answer.
ReadPage(r) ==
  /\ page[r] # 0 /\ ~PageThrows(page[r], size[r])
  /\ LET read == PageOf(ItemOf[r], page[r], size[r])
     IN  /\ seen' = [seen EXCEPT ![r] = Append(@, read)]
         /\ page' = [page EXCEPT ![r] = IF Cardinality(read) = size[r] THEN @ + 1 ELSE 0]
  /\ UNCHANGED <<entries, inserted, line, answer, target, size, atStart>>

Next ==
  \/ \E i \in Item : AddEntry(i)
  \/ \E o \in SalesOrder : InsertLine(o) \/ AnswerOrder(o) \/ InsertThrows(o)
  \/ \E d \in Deletion : FindById(d) \/ DeleteById(d) \/ DeleteThrows(d)
  \/ \E r \in Reader : StartWalk(r) \/ ReadPage(r)

Spec == Init /\ [][Next]_vars

-----------------------------------------------------------------------------
(* Properties.                                                             *)

Seen(r) == UNION {seen[r][k] : k \in DOMAIN seen[r]}

\* A reader meets no entry twice however entries come and go between its pages;
\* when its walk has ended, it has missed at most as many of the entries that were
\* there throughout as entries it had read were removed.
WalkIsComplete ==
  \A r \in Reader :
    /\ \A j, k \in DOMAIN seen[r] : j # k => seen[r][j] \cap seen[r][k] = {}
    /\ page[r] = 0 =>
         Cardinality((atStart[r] \cap entries) \ Seen(r)) <= Cardinality(Seen(r) \ entries)

\* A sales order answered with its document number has an entry under it for every
\* line, a broken one for no line twice; an entry is gone for good once a caller was
\* told that it is.
AnsweredMeansDone ==
  /\ \A o \in SalesOrder : \A i \in Item :
       LET sold == Cardinality({e \in inserted : e.document = o /\ e.item = i})
           ordered == Cardinality({k \in DOMAIN LinesOf[o] : LinesOf[o][k] = i})
       IN  sold <= ordered /\ (answer[o] = "ok" => sold = ordered)
  /\ \A d \in Deletion : answer[d] \in {"ok", "notFound"} =>
       \A e \in entries : e.id # target[d]

=============================================================================
