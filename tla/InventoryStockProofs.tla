------------------------- MODULE InventoryStockProofs -------------------------
(***************************************************************************)
(* Proofs about InventoryStock, for any items, sales orders, deletions and *)
(* readers, page sizes and numbers of entries.                             *)
(***************************************************************************)
EXTENDS InventoryStock, PagingProofs, FiniteSetTheorems, TLAPS

\* Ids number the entries in the order of their insertion.
Numbered ==
  /\ IsFiniteSet(inserted) /\ entries \subseteq inserted /\ inserted \subseteq Entry
  /\ Cardinality(inserted) <= MaxEntries
  /\ \A e \in inserted : e.id <= Cardinality(inserted)
  /\ \A e, f \in inserted : e.id = f.id => e = f

\* What a sales order inserts: entries of items.
LEMMA LineItem ==
  ASSUME NEW o \in SalesOrder, NEW k \in 1 .. Len(LinesOf[o])
  PROVE  LinesOf[o][k] \in Item
  <1>1. LinesOf[o] \in Seq(Item)
    BY InventoryStockAssumption
  <1> QED
    BY <1>1

\* A new entry gets an id no entry has had.
LEMMA InsertNumbers ==
  ASSUME Numbered, NEW i \in Item, NEW d \in SalesOrder \cup {OwnDocument},
         Insert(InsertedAs(i, d))
  PROVE  /\ Numbered'
         /\ Cardinality(inserted) \in Nat
         /\ Cardinality(inserted') = Cardinality(inserted) + 1
         /\ InsertedAs(i, d).id = Cardinality(inserted) + 1
         /\ InsertedAs(i, d) \notin inserted
         /\ inserted' = inserted \cup {InsertedAs(i, d)}
         /\ entries' = entries \cup {InsertedAs(i, d)}
  <1> DEFINE c == Cardinality(inserted)
             n == InsertedAs(i, d)
  <1>1. c \in Nat /\ MaxEntries \in Nat
    BY FS_CardinalityType, InventoryStockAssumption DEF Numbered
  <1>2. c < MaxEntries /\ inserted' = inserted \cup {n} /\ entries' = entries \cup {n}
    BY DEF Insert
  <1>3. n = [id |-> c + 1, item |-> i, document |-> d]
    BY DEF InsertedAs
  <1>4. n.id = c + 1 /\ n.item = i /\ n.document = d
    BY <1>3
  <1> HIDE DEF n
  <1>5. n \in Entry
    BY <1>1, <1>2, <1>3 DEF Entry
  <1>6. n \notin inserted
    BY <1>1, <1>4 DEF Numbered
  <1>7. IsFiniteSet(inserted') /\ Cardinality(inserted') = c + 1
    BY <1>2, <1>6, FS_AddElement DEF Numbered
  <1>8. \A e \in inserted : e.id \in Nat /\ e.id <= c
    BY DEF Numbered, Entry
  <1>9. \A e \in inserted' : e.id <= c + 1
    BY <1>1, <1>2, <1>4, <1>8
  <1>10. \A e, f \in inserted' : e.id = f.id => e = f
    <2> SUFFICES ASSUME NEW e \in inserted', NEW f \in inserted', e.id = f.id
                 PROVE  e = f
      OBVIOUS
    <2>1. CASE e \in inserted /\ f \in inserted
      BY <2>1 DEF Numbered
    <2>2. CASE e \in inserted /\ f = n
      BY <1>1, <1>4, <1>8, <2>2
    <2>3. CASE e = n /\ f \in inserted
      BY <1>1, <1>4, <1>8, <2>3
    <2> QED
      BY <1>2, <2>1, <2>2, <2>3
  <1>11. Numbered'
    BY <1>1, <1>2, <1>5, <1>7, <1>9, <1>10 DEF Numbered
  <1> QED
    BY <1>1, <1>2, <1>4, <1>6, <1>7, <1>11 DEF n

\* Which actions insert, and as what.
Inserts(i, d) ==
  /\ i \in Item /\ d \in SalesOrder \cup {OwnDocument}
  /\ Insert(InsertedAs(i, d))
  /\ \/ UNCHANGED answer
     \/ \E o \in SalesOrder : answer' = [answer EXCEPT ![o] = "threw"]
  /\ UNCHANGED <<target, readers>>

\* An order inserts the entry of its next line, and learns of it or not.
InsertsLine(o) ==
  /\ answer[o] = "pending" /\ line[o] <= Len(LinesOf[o])
  /\ Inserts(LinesOf[o][line[o]], o)
  /\ line' = [line EXCEPT ![o] = @ + 1]
  /\ UNCHANGED answer \/ answer' = [answer EXCEPT ![o] = "threw"]

\* An order stops where it is, with nothing inserted.
StopsShort(o) ==
  /\ answer' = [answer EXCEPT ![o] = "threw"]
  /\ UNCHANGED <<entries, inserted, line, target, readers>>

\* Every line an order is at is one of its lines or the end.
LinesInOrder == line \in [SalesOrder -> Nat \ {0}]
                /\ \A o \in SalesOrder : line[o] <= Len(LinesOf[o]) + 1

LEMMA LineInserts ==
  ASSUME LinesInOrder, NEW o \in SalesOrder, InsertLine(o) \/ InsertThrows(o)
  PROVE  InsertsLine(o) \/ StopsShort(o)
  <1>1. line[o] \in 1 .. Len(LinesOf[o])
    <2>1. LinesOf[o] \in Seq(Item)
      BY InventoryStockAssumption
    <2>2. Len(LinesOf[o]) \in Nat
      BY <2>1
    <2> QED
      BY <2>2 DEF LinesInOrder, InsertLine, InsertThrows
  <1>2. LinesOf[o][line[o]] \in Item
    BY <1>1, LineItem
  <1>3. CASE InsertLine(o)
    BY <1>2, <1>3 DEF InsertsLine, Inserts, InsertLine
  <1>4. CASE InsertThrows(o)
    BY <1>2, <1>4 DEF InsertsLine, Inserts, StopsShort, InsertThrows
  <1> QED
    BY <1>3, <1>4

\* A single entry is inserted under a number of its own.
LEMMA EntryInserts ==
  ASSUME NEW i \in Item, AddEntry(i)
  PROVE  Inserts(i, OwnDocument) /\ UNCHANGED <<line, answer>>
  BY DEF Inserts, AddEntry

-----------------------------------------------------------------------------
(* Types.                                                                  *)

\* No order is further than the entries there are.
Typed ==
  /\ Numbered /\ LinesInOrder /\ TypeOK
  /\ \A o \in SalesOrder : line[o] <= Cardinality(inserted) + 1

\* Any insertion of a line keeps the lines in order.
LEMMA LineAdvances ==
  ASSUME Typed, NEW o \in SalesOrder, InsertsLine(o)
  PROVE  /\ LinesInOrder'
         /\ \A p \in SalesOrder : line'[p] <= Cardinality(inserted') + 1
         /\ line' \in [SalesOrder -> 1 .. MaxEntries + 1]
  <1>1. /\ Cardinality(inserted) \in Nat
        /\ Cardinality(inserted') = Cardinality(inserted) + 1
        /\ Cardinality(inserted') <= MaxEntries
    BY InsertNumbers DEF InsertsLine, Inserts, Typed, Numbered
  <1>2. LinesOf[o] \in Seq(Item) /\ MaxEntries \in Nat
    BY InventoryStockAssumption
  <1>3. Len(LinesOf[o]) \in Nat
    BY <1>2
  <1>4. line' = [line EXCEPT ![o] = @ + 1] /\ line[o] <= Len(LinesOf[o])
    BY DEF InsertsLine
  <1>5. line \in [SalesOrder -> Nat \ {0}]
        /\ \A p \in SalesOrder : line[p] <= Cardinality(inserted) + 1
                                 /\ line[p] <= Len(LinesOf[p]) + 1
    BY DEF Typed, LinesInOrder
  <1>6. \A p \in SalesOrder : /\ line'[p] \in Nat \ {0}
                              /\ line'[p] <= Cardinality(inserted') + 1
                              /\ line'[p] <= Len(LinesOf[p]) + 1
    BY <1>1, <1>3, <1>4, <1>5
  <1>7. line' \in [SalesOrder -> Nat \ {0}]
    BY <1>4, <1>5
  <1>8. \A p \in SalesOrder : line'[p] \in 1 .. MaxEntries + 1
    BY <1>1, <1>2, <1>6
  <1> QED
    BY <1>4, <1>5, <1>6, <1>7, <1>8 DEF LinesInOrder

LEMMA InsertTyped ==
  ASSUME Typed, NEW i, NEW d, Inserts(i, d),
         UNCHANGED line \/ \E o \in SalesOrder : InsertsLine(o)
  PROVE  Typed'
  <1>1. /\ Numbered' /\ Cardinality(inserted) \in Nat
        /\ Cardinality(inserted') = Cardinality(inserted) + 1
    BY InsertNumbers DEF Inserts, Typed
  <1>2. /\ LinesInOrder'
        /\ \A p \in SalesOrder : line'[p] <= Cardinality(inserted') + 1
        /\ line' \in [SalesOrder -> 1 .. MaxEntries + 1]
    <2>1. CASE UNCHANGED line
      <3>1. LinesInOrder' /\ \A p \in SalesOrder : line[p] \in Nat
        BY <2>1 DEF LinesInOrder, Typed
      <3> QED
        BY <1>1, <2>1, <3>1 DEF Typed, TypeOK
    <2>2. CASE \E o \in SalesOrder : InsertsLine(o)
      BY <2>2, LineAdvances
    <2> QED
      BY <2>1, <2>2
  <1>3. /\ UNCHANGED <<target, size, page, seen, atStart>>
        /\ answer' \in [SalesOrder \cup Deletion -> {"pending", "ok", "notFound", "threw"}]
    BY DEF Inserts, readers, Typed, TypeOK
  <1>4. TypeOK'
    BY <1>1, <1>2, <1>3 DEF Typed, TypeOK, Numbered
  <1> QED
    BY <1>1, <1>2, <1>4 DEF Typed

\* The other steps leave what was inserted alone.
LEMMA OtherNumbered ==
  ASSUME Typed, UNCHANGED <<inserted, line>>, entries' \subseteq entries
  PROVE  /\ Numbered' /\ LinesInOrder'
         /\ \A o \in SalesOrder : line'[o] <= Cardinality(inserted') + 1
         /\ entries' \subseteq inserted' /\ inserted' \subseteq Entry
         /\ line' \in [SalesOrder -> 1 .. MaxEntries + 1]
  BY DEF Typed, Numbered, LinesInOrder, TypeOK

\* A page, whatever is on it, is a set of entries.
LEMMA PageOfEntries ==
  ASSUME NEW i, NEW p, NEW s
  PROVE  PageOf(i, p, s) \subseteq entries
  BY DEF PageOf, Matching

LEMMA NextTyped ==
  ASSUME Typed, [Next]_vars
  PROVE  Typed'
  <1>1. CASE UNCHANGED vars
    BY <1>1 DEF vars, Typed, Numbered, LinesInOrder, TypeOK
  <1>2. ASSUME NEW i \in Item, AddEntry(i) PROVE Typed'
    BY <1>2, EntryInserts, InsertTyped
  <1>3. ASSUME NEW o \in SalesOrder, InsertsLine(o) PROVE Typed'
    <2>1. Inserts(LinesOf[o][line[o]], o)
      BY <1>3 DEF InsertsLine
    <2> QED
      BY <1>3, <2>1, InsertTyped
  <1>4. ASSUME NEW o \in SalesOrder, AnswerOrder(o) \/ StopsShort(o) PROVE Typed'
    <2>1. UNCHANGED <<entries, inserted, line, target, size, page, seen, atStart>>
      BY <1>4 DEF AnswerOrder, StopsShort, readers
    <2>2. answer' \in [SalesOrder \cup Deletion -> {"pending", "ok", "notFound", "threw"}]
      BY <1>4 DEF AnswerOrder, StopsShort, Typed, TypeOK
    <2> QED
      BY <2>1, <2>2, OtherNumbered DEF Typed, TypeOK
  <1>5. ASSUME NEW d \in Deletion, FindById(d) PROVE Typed'
    <2>1. PICK e \in inserted :
            /\ target' = [target EXCEPT ![d] = e.id]
            /\ answer' = [answer EXCEPT ![d] = IF e \in entries THEN @ ELSE "notFound"]
      BY <1>5 DEF FindById
    <2>2. UNCHANGED <<entries, inserted, line, size, page, seen, atStart>>
      BY <1>5 DEF FindById, readers
    <2>3. e.id \in 0 .. MaxEntries
      BY InventoryStockAssumption DEF Typed, TypeOK, Entry
    <2>4. /\ target' \in [Deletion -> 0 .. MaxEntries]
          /\ answer' \in [SalesOrder \cup Deletion -> {"pending", "ok", "notFound", "threw"}]
      BY <2>1, <2>3 DEF Typed, TypeOK
    <2> QED
      BY <2>2, <2>4, OtherNumbered DEF Typed, TypeOK
  <1>6. ASSUME NEW d \in Deletion, DeleteById(d) \/ DeleteThrows(d) PROVE Typed'
    <2>1. /\ UNCHANGED <<inserted, line, target, size, page, seen, atStart>>
          /\ entries' \subseteq entries
      BY <1>6 DEF DeleteById, DeleteThrows, readers
    <2>2. answer' \in [SalesOrder \cup Deletion -> {"pending", "ok", "notFound", "threw"}]
      BY <1>6 DEF DeleteById, DeleteThrows, Typed, TypeOK
    <2> QED
      BY <2>1, <2>2, OtherNumbered DEF Typed, TypeOK
  <1>7. ASSUME NEW r \in Reader, StartWalk(r) PROVE Typed'
    <2>1. PICK asked \in AskedSize : size' = [size EXCEPT ![r] = PageSize(asked)]
      BY <1>7 DEF StartWalk
    <2>2. PageSize(asked) \in 1 .. maxPageSize /\ PageNumber(0) \in Nat
      <3>1. asked \in Int /\ 0 \in Int
        BY InventoryStockAssumption, PagingAssumption DEF Int32
      <3> QED
        BY <3>1, ParametersInRange
    <2>3. /\ UNCHANGED <<entries, inserted, line, answer, target, seen>>
          /\ page' = [page EXCEPT ![r] = PageNumber(0)]
          /\ atStart' = [atStart EXCEPT ![r] = Matching(ItemOf[r])]
      BY <1>7 DEF StartWalk
    <2>4. size' \in [Reader -> 1 .. maxPageSize] /\ page' \in [Reader -> Nat]
      BY <2>1, <2>2, <2>3 DEF Typed, TypeOK
    <2>5. atStart' \in [Reader -> SUBSET Entry]
      <3>1. Matching(ItemOf[r]) \subseteq Entry
        BY DEF Typed, TypeOK, Matching
      <3> QED
        BY <2>3, <3>1 DEF Typed, TypeOK
    <2> QED
      BY <2>3, <2>4, <2>5, OtherNumbered DEF Typed, TypeOK
  <1>8. ASSUME NEW r \in Reader, ReadPage(r) PROVE Typed'
    <2> DEFINE R == PageOf(ItemOf[r], page[r], size[r])
    <2>1. /\ UNCHANGED <<entries, inserted, line, answer, target, size, atStart>>
          /\ seen' = [seen EXCEPT ![r] = Append(@, R)]
          /\ page' = [page EXCEPT ![r] = IF Cardinality(R) = size[r] THEN @ + 1 ELSE 0]
      BY <1>8 DEF ReadPage
    <2>2. R \in SUBSET Entry
      BY PageOfEntries DEF Typed, TypeOK
    <2> HIDE DEF R
    <2>3. page' \in [Reader -> Nat]
      BY <2>1 DEF Typed, TypeOK
    <2>4. seen' \in [Reader -> Seq(SUBSET Entry)]
      BY <2>1, <2>2 DEF Typed, TypeOK
    <2> QED
      BY <2>1, <2>3, <2>4, OtherNumbered DEF Typed, TypeOK
  <1>9. ASSUME NEW o \in SalesOrder, InsertLine(o) \/ InsertThrows(o) PROVE Typed'
    BY <1>3, <1>4, <1>9, LineInserts DEF Typed
  <1> QED
    BY <1>1, <1>2, <1>4, <1>5, <1>6, <1>7, <1>8, <1>9 DEF Next

LEMMA InitTyped == Init => Typed
  <1> SUFFICES ASSUME Init PROVE Typed
    OBVIOUS
  <1>1. IsFiniteSet(inserted) /\ Cardinality(inserted) = 0 /\ inserted = {}
    BY FS_EmptySet DEF Init
  <1>2. MaxEntries \in Nat /\ defaultPageSize \in 1 .. maxPageSize
    BY InventoryStockAssumption, PagingAssumption
  <1>3. \A o \in SalesOrder : Len(LinesOf[o]) \in Nat
    <2>1. \A o \in SalesOrder : LinesOf[o] \in Seq(Item)
      BY InventoryStockAssumption
    <2> QED
      BY <2>1
  <1>4. Numbered
    BY <1>1, <1>2 DEF Init, Numbered
  <1>5. LinesInOrder
    BY <1>3 DEF Init, LinesInOrder
  <1>6. TypeOK
    BY <1>2 DEF Init, TypeOK
  <1> QED
    BY <1>1, <1>4, <1>5, <1>6 DEF Init, Typed

LEMMA TypedInvariant == Spec => []Typed
  BY InitTyped, NextTyped, PTL DEF Spec

\* The state is well typed: in particular page sizes stay within their limits and no
\* sales order is at a line beyond the entries there are.
THEOREM StockTypes == Spec => []TypeOK
  <1>1. Typed => TypeOK
    BY DEF Typed
  <1> QED
    BY <1>1, TypedInvariant, PTL

-----------------------------------------------------------------------------
(* What an answer guarantees.                                              *)

Sold(o, i) == {e \in inserted : e.document = o /\ e.item = i}
LinesBefore(o, i, n) == {k \in 1 .. n - 1 : LinesOf[o][k] = i}

\* Under its document number an order has one entry of an item for each line of that
\* item it has passed, and it is answered after the last one.
LinesSold ==
  \A o \in SalesOrder :
    /\ \A i \in Item : Cardinality(Sold(o, i)) = Cardinality(LinesBefore(o, i, line[o]))
    /\ answer[o] = "ok" => line[o] = Len(LinesOf[o]) + 1

\* An answered deletion leaves nothing under its id, which no later entry gets.
GoneIsGone ==
  \A d \in Deletion :
    /\ target[d] <= Cardinality(inserted)
    /\ answer[d] \in {"ok", "notFound"} => \A e \in entries : e.id # target[d]

Done == Typed /\ LinesSold /\ GoneIsGone

\* What an entry inserted for an order or for none adds to what the orders have sold.
LEMMA InsertSells ==
  ASSUME Typed, NEW i, NEW d, Inserts(i, d)
  PROVE  \A o \in SalesOrder : \A j \in Item :
           Cardinality(Sold(o, j)') = IF o = d /\ j = i THEN Cardinality(Sold(o, j)) + 1
                                      ELSE Cardinality(Sold(o, j))
  <1> SUFFICES ASSUME NEW o \in SalesOrder, NEW j \in Item
               PROVE  Cardinality(Sold(o, j)') = IF o = d /\ j = i
                        THEN Cardinality(Sold(o, j)) + 1 ELSE Cardinality(Sold(o, j))
    OBVIOUS
  <1> DEFINE n == InsertedAs(i, d)
  <1>1. inserted' = inserted \cup {n} /\ n \notin inserted
    BY InsertNumbers DEF Inserts, Typed
  <1>2. n.item = i /\ n.document = d
    BY DEF InsertedAs
  <1>3. IsFiniteSet(Sold(o, j))
    BY FS_Subset DEF Sold, Typed, Numbered
  <1> HIDE DEF n
  <1>4. CASE o = d /\ j = i
    <2>1. Sold(o, j)' = Sold(o, j) \cup {n} /\ n \notin Sold(o, j)
      BY <1>1, <1>2, <1>4 DEF Sold
    <2> QED
      BY <1>3, <1>4, <2>1, FS_AddElement
  <1>5. CASE ~(o = d /\ j = i)
    <2>1. Sold(o, j)' = Sold(o, j)
      BY <1>1, <1>2, <1>5 DEF Sold
    <2> QED
      BY <1>5, <2>1
  <1> QED
    BY <1>4, <1>5

\* What passing a line adds to the lines passed.
LEMMA LinePassed ==
  ASSUME NEW o \in SalesOrder, NEW n \in Nat \ {0}, NEW j
  PROVE  /\ IsFiniteSet(LinesBefore(o, j, n))
         /\ Cardinality(LinesBefore(o, j, n + 1)) =
              IF LinesOf[o][n] = j THEN Cardinality(LinesBefore(o, j, n)) + 1
              ELSE Cardinality(LinesBefore(o, j, n))
  <1>1. IsFiniteSet(LinesBefore(o, j, n))
    <2>1. IsFiniteSet(1 .. n - 1)
      BY FS_Interval
    <2> QED
      BY <2>1, FS_Subset DEF LinesBefore
  <1>2. 1 .. (n + 1) - 1 = (1 .. n - 1) \cup {n} /\ n \notin 1 .. n - 1
    OBVIOUS
  <1>3. CASE LinesOf[o][n] = j
    <2>1. LinesBefore(o, j, n + 1) = LinesBefore(o, j, n) \cup {n}
          /\ n \notin LinesBefore(o, j, n)
      BY <1>2, <1>3 DEF LinesBefore
    <2> QED
      BY <1>1, <1>3, <2>1, FS_AddElement
  <1>4. CASE LinesOf[o][n] # j
    <2>1. LinesBefore(o, j, n + 1) = LinesBefore(o, j, n)
      BY <1>2, <1>4 DEF LinesBefore
    <2> QED
      BY <1>1, <1>4, <2>1
  <1> QED
    BY <1>3, <1>4, <1>1

\* A new entry is under no id a deletion has named.
LEMMA InsertKeepsGone ==
  ASSUME Done, NEW i, NEW d, Inserts(i, d)
  PROVE  GoneIsGone'
  <1> DEFINE n == InsertedAs(i, d)
             c == Cardinality(inserted)
  <1>1. /\ c \in Nat /\ Cardinality(inserted') = c + 1 /\ n.id = c + 1
        /\ entries' = entries \cup {n} /\ UNCHANGED target
    BY InsertNumbers DEF Inserts, Done, Typed
  <1>3. \A q \in Deletion : answer'[q] = answer[q]
    BY InventoryStockAssumption DEF Inserts, Done, Typed, TypeOK
  <1>2. \A q \in Deletion : target[q] \in Nat /\ target[q] <= c
    BY DEF Done, GoneIsGone, Typed, TypeOK
  <1> HIDE DEF n, c
  <1> QED
    BY <1>1, <1>2, <1>3 DEF Done, GoneIsGone, c

\* A line inserted is a line sold.
LEMMA LineSells ==
  ASSUME Done, NEW o \in SalesOrder, InsertsLine(o)
  PROVE  LinesSold'
  <1> DEFINE i == LinesOf[o][line[o]]
  <1>1. /\ Inserts(i, o) /\ line' = [line EXCEPT ![o] = @ + 1]
        /\ answer[o] = "pending" /\ answer'[o] # "ok"
        /\ \A p \in SalesOrder : p # o => answer'[p] = answer[p]
    BY DEF InsertsLine, Done, Typed, TypeOK
  <1>2. \A p \in SalesOrder : line[p] \in Nat \ {0}
    BY DEF Done, Typed, LinesInOrder
  <1>3. line \in [SalesOrder -> Nat \ {0}]
    BY DEF Done, Typed, LinesInOrder
  <1>4. ASSUME NEW p \in SalesOrder, NEW j \in Item
        PROVE  Cardinality(Sold(p, j)') = Cardinality(LinesBefore(p, j, line'[p]))
    <2>1. Cardinality(Sold(p, j)) = Cardinality(LinesBefore(p, j, line[p]))
      BY DEF Done, LinesSold
    <2>2. Cardinality(Sold(p, j)') = IF p = o /\ j = i THEN Cardinality(Sold(p, j)) + 1
                                     ELSE Cardinality(Sold(p, j))
      BY <1>1, InsertSells DEF Done
    <2>3. Cardinality(LinesBefore(o, j, line[o] + 1)) =
            IF i = j THEN Cardinality(LinesBefore(o, j, line[o])) + 1
            ELSE Cardinality(LinesBefore(o, j, line[o]))
      BY <1>2, LinePassed
    <2>4. line'[p] = IF p = o THEN line[o] + 1 ELSE line[p]
      BY <1>1, <1>3
    <2> HIDE DEF i
    <2> QED
      BY <2>1, <2>2, <2>3, <2>4
  <1>5. ASSUME NEW p \in SalesOrder, answer'[p] = "ok"
        PROVE  line'[p] = Len(LinesOf[p]) + 1
    <2>1. p # o /\ answer[p] = "ok"
      BY <1>1, <1>5
    <2>2. line'[p] = line[p]
      BY <1>1, <1>3, <2>1
    <2> QED
      BY <2>1, <2>2 DEF Done, LinesSold
  <1>6. \A p \in SalesOrder : \A j \in Item : LinesBefore(p, j, line[p])'
                                             = LinesBefore(p, j, line'[p])
    BY DEF LinesBefore
  <1> QED
    BY <1>4, <1>5, <1>6 DEF LinesSold

\* What is left of a sold order when no entry is inserted.
LEMMA SoldStable ==
  ASSUME LinesSold, UNCHANGED <<inserted, line>>,
         \A o \in SalesOrder : answer'[o] = "ok" =>
            answer[o] = "ok" \/ line[o] = Len(LinesOf[o]) + 1
  PROVE  LinesSold'
  <1>1. \A o \in SalesOrder : \A i \in Item :
          /\ Sold(o, i)' = Sold(o, i)
          /\ LinesBefore(o, i, line[o])' = LinesBefore(o, i, line[o])
    BY DEF Sold, LinesBefore
  <1> QED
    BY <1>1 DEF LinesSold

LEMMA NextDone ==
  ASSUME Done, [Next]_vars
  PROVE  Done'
  <1> USE InventoryStockAssumption
  <1>0. Typed'
    BY NextTyped DEF Done
  <1>1. CASE UNCHANGED vars
    <2>1. LinesSold' /\ GoneIsGone'
      BY <1>1, SoldStable DEF vars, Done, GoneIsGone
    <2> QED
      BY <1>0, <2>1 DEF Done
  <1>2. ASSUME NEW i \in Item, AddEntry(i) PROVE Done'
    <2>1. Inserts(i, OwnDocument) /\ UNCHANGED <<line, answer>>
      BY <1>2, EntryInserts
    <2>2. \A o \in SalesOrder : \A j \in Item : Cardinality(Sold(o, j)') = Cardinality(Sold(o, j))
      BY <2>1, InsertSells DEF Done
    <2>3. \A o \in SalesOrder : \A j \in Item :
            LinesBefore(o, j, line[o])' = LinesBefore(o, j, line[o])
      BY <2>1 DEF LinesBefore
    <2>4. LinesSold'
      BY <2>1, <2>2, <2>3 DEF LinesSold, Done
    <2> QED
      BY <1>0, <2>1, <2>4, InsertKeepsGone DEF Done
  <1>3. ASSUME NEW o \in SalesOrder, InsertsLine(o) PROVE Done'
    <2>1. Inserts(LinesOf[o][line[o]], o)
      BY <1>3 DEF InsertsLine
    <2> QED
      BY <1>0, <1>3, <2>1, LineSells, InsertKeepsGone DEF Done
  <1>4. ASSUME NEW o \in SalesOrder, AnswerOrder(o) \/ StopsShort(o) PROVE Done'
    <2>1. /\ UNCHANGED <<entries, inserted, line, target>>
          /\ \A q \in (SalesOrder \cup Deletion) \ {o} : answer'[q] = answer[q]
          /\ answer'[o] = "ok" => line[o] = Len(LinesOf[o]) + 1
      BY <1>4 DEF AnswerOrder, StopsShort, Done, Typed, TypeOK
    <2>2. LinesSold'
      BY <2>1, SoldStable DEF Done
    <2>3. GoneIsGone'
      BY <2>1 DEF Done, GoneIsGone
    <2> QED
      BY <1>0, <2>2, <2>3 DEF Done
  <1>5. ASSUME NEW d \in Deletion, FindById(d) PROVE Done'
    <2>1. PICK e \in inserted :
            /\ target' = [target EXCEPT ![d] = e.id]
            /\ answer' = [answer EXCEPT ![d] = IF e \in entries THEN @ ELSE "notFound"]
      BY <1>5 DEF FindById
    <2>2. UNCHANGED <<entries, inserted, line>> /\ answer[d] = "pending"
      BY <1>5 DEF FindById
    <2>3. /\ \A q \in (SalesOrder \cup Deletion) \ {d} : answer'[q] = answer[q]
          /\ \A q \in Deletion \ {d} : target'[q] = target[q]
          /\ target'[d] = e.id
          /\ answer'[d] = IF e \in entries THEN "pending" ELSE "notFound"
      BY <2>1, <2>2 DEF Done, Typed, TypeOK
    <2>4. LinesSold'
      BY <2>2, <2>3, SoldStable DEF Done
    <2>5. e.id <= Cardinality(inserted)
          /\ \A f \in entries : f.id = e.id => f = e
      BY DEF Done, Typed, Numbered
    <2>6. GoneIsGone'
      BY <2>2, <2>3, <2>5 DEF Done, GoneIsGone
    <2> QED
      BY <1>0, <2>4, <2>6 DEF Done
  <1>6. ASSUME NEW d \in Deletion, DeleteById(d) \/ DeleteThrows(d) PROVE Done'
    <2>1. /\ UNCHANGED <<inserted, line, target>> /\ entries' \subseteq entries
          /\ answer'[d] = "threw" \/ \A e \in entries' : e.id # target[d]
          /\ \A q \in (SalesOrder \cup Deletion) \ {d} : answer'[q] = answer[q]
      BY <1>6 DEF DeleteById, DeleteThrows, Done, Typed, TypeOK
    <2>2. LinesSold'
      BY <2>1, SoldStable DEF Done
    <2>3. GoneIsGone'
      BY <2>1 DEF Done, GoneIsGone
    <2> QED
      BY <1>0, <2>2, <2>3 DEF Done
  <1>7. ASSUME NEW r \in Reader, StartWalk(r) \/ ReadPage(r) PROVE Done'
    <2>1. UNCHANGED <<entries, inserted, line, answer, target>>
      BY <1>7 DEF StartWalk, ReadPage
    <2>2. LinesSold' /\ GoneIsGone'
      BY <2>1, SoldStable DEF Done, GoneIsGone
    <2> QED
      BY <1>0, <2>2 DEF Done
  <1>8. ASSUME NEW o \in SalesOrder, InsertLine(o) \/ InsertThrows(o) PROVE Done'
    BY <1>3, <1>4, <1>8, LineInserts DEF Done, Typed
  <1> QED
    BY <1>1, <1>2, <1>4, <1>5, <1>6, <1>7, <1>8 DEF Next

LEMMA InitDone == Init => Done
  <1> SUFFICES ASSUME Init PROVE Done
    OBVIOUS
  <1>1. inserted = {} /\ Cardinality(inserted) = 0 /\ Cardinality({}) = 0
    BY FS_EmptySet DEF Init
  <1>2. \A o \in SalesOrder : \A i \in Item :
          Sold(o, i) = {} /\ LinesBefore(o, i, line[o]) = {}
    BY <1>1 DEF Init, Sold, LinesBefore
  <1>3. LinesSold
    BY <1>1, <1>2 DEF Init, LinesSold
  <1>4. GoneIsGone
    BY <1>1 DEF Init, GoneIsGone
  <1> QED
    BY <1>3, <1>4, InitTyped DEF Done

\* An answered sales order has sold each of its lines, no order sells a line twice, and
\* an entry a caller was told is gone never comes back.
THEOREM AnswersAreKept == Spec => []AnsweredMeansDone
  <1>1. Done => AnsweredMeansDone
    <2> SUFFICES ASSUME Done PROVE AnsweredMeansDone
      OBVIOUS
    <2>1. ASSUME NEW o \in SalesOrder, NEW i \in Item
          PROVE  LET sold == Cardinality({e \in inserted : e.document = o /\ e.item = i})
                     ordered == Cardinality({k \in DOMAIN LinesOf[o] : LinesOf[o][k] = i})
                 IN  sold <= ordered /\ (answer[o] = "ok" => sold = ordered)
      <3> DEFINE O == {k \in DOMAIN LinesOf[o] : LinesOf[o][k] = i}
                 L == LinesBefore(o, i, line[o])
      <3>1. LinesOf[o] \in Seq(Item)
        BY InventoryStockAssumption
      <3>2. DOMAIN LinesOf[o] = 1 .. Len(LinesOf[o]) /\ Len(LinesOf[o]) \in Nat
        BY <3>1
      <3>3. IsFiniteSet(O)
        <4>1. IsFiniteSet(DOMAIN LinesOf[o])
          BY <3>2, FS_Interval
        <4> QED
          BY <4>1, FS_Subset
      <3>4. line[o] \in Nat \ {0} /\ line[o] <= Len(LinesOf[o]) + 1
        BY DEF Done, Typed, LinesInOrder
      <3>5. L \subseteq O /\ (line[o] = Len(LinesOf[o]) + 1 => L = O)
        BY <3>2, <3>4 DEF LinesBefore
      <3>6. Cardinality(L) <= Cardinality(O)
        BY <3>3, <3>5, FS_Subset
      <3>7. /\ Cardinality({e \in inserted : e.document = o /\ e.item = i}) = Cardinality(L)
            /\ answer[o] = "ok" => line[o] = Len(LinesOf[o]) + 1
        BY DEF Done, LinesSold, Sold
      <3> QED
        BY <3>5, <3>6, <3>7
    <2>2. \A d \in Deletion : answer[d] \in {"ok", "notFound"} =>
            \A e \in entries : e.id # target[d]
      BY DEF Done, GoneIsGone
    <2> QED
      BY <2>1, <2>2 DEF AnsweredMeansDone
  <1> QED
    BY <1>1, InitDone, NextDone, PTL DEF Spec

-----------------------------------------------------------------------------
(* Positions.                                                              *)

\* Positions number the entries of an item from 1 on.
LEMMA PositionsNumber ==
  ASSUME Numbered, NEW i \in Item
  PROVE  /\ IsFiniteSet(Matching(i)) /\ Cardinality(Matching(i)) \in Nat
         /\ [e \in Matching(i) |-> Position(e)]
              \in Bijection(Matching(i), 1 .. Cardinality(Matching(i)))
  <1> DEFINE M == Matching(i)
             n == Cardinality(M)
             Upto(e) == {f \in M : f.id <= e.id}
             p == [e \in M |-> Position(e)]
  <1>1. IsFiniteSet(M) /\ n \in Nat
    <2>1. M \in SUBSET inserted
      BY DEF Matching, Numbered
    <2> QED
      BY <2>1, FS_Subset, FS_CardinalityType DEF Numbered
  <1>2. \A e \in M : e.item = i /\ e.id \in Nat /\ e \in inserted
    BY DEF Matching, Numbered, Entry
  <1>3. \A e \in M : Position(e) = Cardinality(Upto(e))
    BY <1>2 DEF Position
  <1> HIDE DEF M
  <1>4. ASSUME NEW e \in M
        PROVE  IsFiniteSet(Upto(e)) /\ Cardinality(Upto(e)) \in 1 .. n
    <2>1. Upto(e) \in SUBSET M /\ e \in Upto(e)
      BY <1>2
    <2>2. IsFiniteSet(Upto(e)) /\ Cardinality(Upto(e)) <= n
      BY <1>1, <2>1, FS_Subset
    <2>3. Cardinality(Upto(e)) \in Nat /\ Cardinality(Upto(e)) # 0
      BY <2>1, <2>2, FS_CardinalityType, FS_EmptySet
    <2> QED
      BY <1>1, <2>2, <2>3
  <1>5. ASSUME NEW e \in M, NEW f \in M, e.id < f.id
        PROVE  Cardinality(Upto(e)) < Cardinality(Upto(f))
    <2>1. Upto(e) \in SUBSET Upto(f) /\ f \in Upto(f) /\ f \notin Upto(e)
      BY <1>2, <1>5
    <2>2. /\ Cardinality(Upto(e)) <= Cardinality(Upto(f))
          /\ Cardinality(Upto(f)) # Cardinality(Upto(e))
      BY <1>4, <2>1, FS_Subset
    <2> QED
      BY <1>1, <1>4, <2>2
  <1>6. p \in [M -> 1 .. n]
    BY <1>3, <1>4
  <1>7. \A e, f \in M : p[e] = p[f] => e = f
    <2> SUFFICES ASSUME NEW e \in M, NEW f \in M, p[e] = p[f] PROVE e = f
      OBVIOUS
    <2>1. Cardinality(Upto(e)) = Cardinality(Upto(f))
      BY <1>3
    <2>2. Cardinality(Upto(e)) \in Nat
      BY <1>1, <1>4
    <2> HIDE DEF Upto
    <2>3. ~(e.id < f.id) /\ ~(f.id < e.id)
      BY <1>5, <2>1, <2>2
    <2>4. e.id = f.id
      BY <1>2, <2>3
    <2> QED
      BY <1>2, <2>4 DEF Numbered
  <1> HIDE DEF p
  <1>8. p \in Injection(M, 1 .. n)
    BY <1>6, <1>7 DEF Injection, IsInjective
  <1>9. IsFiniteSet(1 .. n) /\ Cardinality(1 .. n) = n
    BY <1>1, FS_Interval
  <1>10. p \in Surjection(M, 1 .. n)
    BY <1>8, <1>9, FS_Injection
  <1>11. p \in Bijection(M, 1 .. n)
    BY <1>8, <1>10 DEF Bijection
  <1> QED
    BY <1>1, <1>11 DEF M, p

\* So there is one entry at each position.
LEMMA PositionsCount ==
  ASSUME Numbered, NEW i \in Item, NEW P \in SUBSET (1 .. Cardinality(Matching(i)))
  PROVE  Cardinality({e \in Matching(i) : Position(e) \in P}) = Cardinality(P)
  <1> DEFINE M == Matching(i)
             n == Cardinality(M)
             p == [e \in M |-> Position(e)]
             Q == {e \in M : Position(e) \in P}
             q == [e \in Q |-> Position(e)]
  <1>1. /\ IsFiniteSet(M) /\ n \in Nat /\ p \in Bijection(M, 1 .. n)
    BY PositionsNumber
  <1>2. IsFiniteSet(Q)
    BY <1>1, FS_Subset
  <1>3. \A e, f \in M : Position(e) = Position(f) => e = f
    BY <1>1 DEF Bijection, Injection, IsInjective
  <1>4. \A k \in P : \E e \in M : Position(e) = k
    BY <1>1 DEF Bijection, Surjection
  <1>5. q \in [Q -> P]
    OBVIOUS
  <1>6. q \in Bijection(Q, P)
    BY <1>3, <1>4, <1>5 DEF Bijection, Injection, IsInjective, Surjection
  <1> HIDE DEF q, Q
  <1>7. Cardinality(P) = Cardinality(Q)
    BY <1>2, <1>6, FS_Bijection DEF ExistsBijection
  <1> QED
    BY <1>7 DEF Q

\* The positions of a page behind a Skip of N.
Behind(N, n, s) == {k \in 1 .. n : N < k /\ k <= N + s}

\* A page is full unless the last position is on it.
LEMMA PageIsFull ==
  ASSUME NEW n \in Nat, NEW N \in Nat, NEW s \in Nat \ {0}
  PROVE  /\ Cardinality(Behind(N, n, s)) \in Nat
         /\ Cardinality(Behind(N, n, s)) = s <=> N + s <= n
  <1> DEFINE P == Behind(N, n, s)
  <1>1. CASE N + s <= n
    <2>1. P = N + 1 .. N + s
      BY <1>1 DEF Behind
    <2>2. Cardinality(N + 1 .. N + s) = IF N + 1 > N + s THEN 0 ELSE N + s - (N + 1) + 1
      BY FS_Interval
    <2>3. Cardinality(P) = s
      BY <2>1, <2>2
    <2> HIDE DEF P
    <2>4. Cardinality(P) \in Nat /\ (Cardinality(P) = s <=> N + s <= n)
      BY <1>1, <2>3
    <2> QED
      BY <2>4 DEF P
  <1>2. CASE ~(N + s <= n)
    <2>1. P = N + 1 .. n
      BY <1>2 DEF Behind
    <2>2. Cardinality(N + 1 .. n) = IF N + 1 > n THEN 0 ELSE n - (N + 1) + 1
      BY FS_Interval
    <2>3. Cardinality(P) = IF N + 1 > n THEN 0 ELSE n - (N + 1) + 1
      BY <2>1, <2>2
    <2> HIDE DEF P
    <2>4. Cardinality(P) \in Nat /\ Cardinality(P) < s
      BY <1>2, <2>3
    <2>5. Cardinality(P) \in Nat /\ (Cardinality(P) = s <=> N + s <= n)
      BY <1>2, <2>4
    <2> QED
      BY <2>5 DEF P
  <1> QED
    BY <1>1, <1>2

\* Skip of a page whose offset has left the 32-bit integers, but not by more than a
\* page, is negative: such a page is refused, never one read anew.
LEMMA SkipWraps ==
  ASSUME NEW p \in Nat \ {0}, NEW s \in 1 .. maxPageSize,
         (p - 1) * s >= IntLimit, (p - 1) * s < IntLimit + s
  PROVE  PageThrows(p, s)
  <1> DEFINE x == (p - 1) * s
  <1>1. /\ x \in Nat /\ IntLimit \in Nat \ {0} /\ x >= IntLimit /\ x < IntLimit + s
        /\ s \in Nat /\ s < IntLimit
    BY PagingAssumption
  <1> HIDE DEF x
  <1>2. (x + IntLimit) % (2 * IntLimit) = x - IntLimit
    <2> DEFINE m == 2 * IntLimit
               y == x - IntLimit
    <2>1. m \in Nat \ {0} /\ y \in Nat /\ y < m /\ x + IntLimit = y + m
      BY <1>1
    <2> HIDE DEF m, y
    <2>2. (y + m) % m = y
      BY <2>1
    <2> QED
      BY <2>1, <2>2 DEF m, y
  <1>3. Wrap(x) < 0
    BY <1>1, <1>2 DEF Wrap
  <1> QED
    BY <1>3 DEF PageThrows, Skip, x

-----------------------------------------------------------------------------
(* The walk of a reader.                                                   *)

PagesAreApart(r) ==
  \A j, k \in DOMAIN seen[r] : j # k => seen[r][j] \cap seen[r][k] = {}

\* A reader on its way has read full pages only, as many entries as it will skip, which
\* leaves the integers by less than a page; an entry it has read, if still there, is
\* among those it will skip: nothing pushes an entry back.
OnItsWay(r) ==
  LET n == Cardinality(Seen(r))
  IN  /\ n = (page[r] - 1) * size[r]
      /\ n < IntLimit + size[r]
      /\ \A e \in Seen(r) \cap entries : Position(e) <= n

\* A reader at the end has missed at most as many entries as were taken from before it.
AtItsEnd(r) ==
  Cardinality((atStart[r] \cap entries) \ Seen(r)) <= Cardinality(Seen(r) \ entries)

Walk(r) ==
  /\ Seen(r) \subseteq inserted /\ atStart[r] \subseteq inserted
  /\ \A e \in Seen(r) \cup atStart[r] : e.item = ItemOf[r]
  /\ PagesAreApart(r)
  /\ page[r] # 0 => OnItsWay(r)
  /\ page[r] = 0 => AtItsEnd(r)

Walks == Typed /\ \A r \in Reader : Walk(r)

LEMMA PositionType ==
  ASSUME Numbered, NEW e
  PROVE  Position(e) \in Nat
  <1> DEFINE U == {f \in Matching(e.item) : f.id <= e.id}
  <1>1. U \in SUBSET inserted
    BY DEF Matching, Numbered
  <1>2. Cardinality(U) \in Nat
    BY <1>1, FS_Subset, FS_CardinalityType DEF Numbered
  <1> QED
    BY <1>2 DEF Position

\* Entries that come or go, but never come back nor push one back, leave a walk alone.
LEMMA WalkStable ==
  ASSUME Typed, Typed', NEW r \in Reader, Walk(r), inserted \subseteq inserted',
         inserted \cap entries' \subseteq entries,
         \A e \in entries \cap entries' : Position(e)' <= Position(e),
         page'[r] = page[r], size'[r] = size[r], seen'[r] = seen[r],
         atStart'[r] = atStart[r]
  PROVE  Walk(r)'
  <1> DEFINE S == Seen(r)
             n == Cardinality(S)
  <1>1. Seen(r)' = S /\ PagesAreApart(r)'
    BY DEF Seen, Walk, PagesAreApart
  <1>2. IsFiniteSet(inserted) /\ S \subseteq inserted /\ atStart[r] \subseteq inserted
    BY DEF Typed, Numbered, Walk
  <1>3. n \in Nat
    BY <1>2, FS_Subset, FS_CardinalityType
  <1> HIDE DEF S
  <1>4. ASSUME page[r] # 0 PROVE OnItsWay(r)'
    <2>1. /\ n = (page[r] - 1) * size[r] /\ n < IntLimit + size[r]
          /\ \A e \in S \cap entries : Position(e) <= n
      BY <1>4 DEF Walk, OnItsWay, S
    <2>2. ASSUME NEW e \in S \cap entries' PROVE Position(e)' <= n
      <3>1. e \in entries /\ Position(e) <= n /\ Position(e)' <= Position(e)
        BY <1>2, <2>1, <2>2
      <3>2. Position(e) \in Nat
        BY PositionType DEF Typed
      <3>3. Position(e)' \in Nat
        <4> DEFINE U == {f \in Matching(e.item)' : f.id <= e.id}
        <4>1. IsFiniteSet(inserted') /\ U \in SUBSET inserted'
          BY DEF Matching, Typed, Numbered
        <4>2. Cardinality(U) \in Nat
          BY <4>1, FS_Subset, FS_CardinalityType
        <4> QED
          BY <4>2 DEF Position
      <3> QED
        BY <1>3, <3>1, <3>2, <3>3
    <2> QED
      BY <1>1, <2>1, <2>2 DEF OnItsWay
  <1>5. ASSUME page[r] = 0 PROVE AtItsEnd(r)'
    <2> DEFINE M == (atStart[r] \cap entries) \ S
               N == (atStart[r] \cap entries') \ S
               G == S \ entries
               H == S \ entries'
    <2>1. N \subseteq M /\ G \subseteq H
      BY <1>2
    <2>2. M \in SUBSET inserted /\ H \in SUBSET inserted
      BY <1>2
    <2>3. IsFiniteSet(M) /\ IsFiniteSet(H)
      BY <1>2, <2>2, FS_Subset
    <2>4. Cardinality(M) <= Cardinality(G)
      BY <1>5 DEF Walk, AtItsEnd, S
    <2> HIDE DEF M, N, G, H
    <2>5. /\ Cardinality(N) <= Cardinality(M) /\ Cardinality(G) <= Cardinality(H)
          /\ IsFiniteSet(N) /\ IsFiniteSet(G)
      BY <2>1, <2>3, FS_Subset
    <2>6. /\ Cardinality(N) \in Nat /\ Cardinality(M) \in Nat
          /\ Cardinality(G) \in Nat /\ Cardinality(H) \in Nat
      BY <2>3, <2>5, FS_CardinalityType
    <2>7. Cardinality(N) <= Cardinality(H)
      BY <2>4, <2>5, <2>6
    <2> QED
      BY <1>1, <2>7 DEF AtItsEnd, N, H
  <1>6. \A e \in S \cup atStart[r] : e.item = ItemOf[r]
    BY DEF Walk, S
  <1> QED
    BY <1>1, <1>2, <1>4, <1>5, <1>6 DEF Walk

\* A new entry comes last.
LEMMA InsertKeepsWalks ==
  ASSUME Walks, Typed', NEW i, NEW d, Inserts(i, d)
  PROVE  Walks'
  <1> DEFINE n == InsertedAs(i, d)
  <1>1. /\ Cardinality(inserted) \in Nat /\ n.id = Cardinality(inserted) + 1
        /\ n \notin inserted
        /\ inserted' = inserted \cup {n} /\ entries' = entries \cup {n}
    BY InsertNumbers DEF Inserts, Walks, Typed
  <1>2. entries \subseteq inserted
        /\ \A e \in inserted : e.id \in Nat /\ e.id <= Cardinality(inserted)
    BY DEF Walks, Typed, Numbered, Entry
  <1> HIDE DEF n
  <1>3. ASSUME NEW e \in entries \cap entries' PROVE Position(e)' <= Position(e)
    <2>1. e \in inserted
      BY <1>2
    <2>2. {f \in Matching(e.item)' : f.id <= e.id} = {f \in Matching(e.item) : f.id <= e.id}
      BY <1>1, <1>2, <2>1 DEF Matching
    <2>3. Position(e)' = Position(e)
      BY <2>2 DEF Position
    <2>4. Position(e) \in Nat
      BY PositionType DEF Walks, Typed
    <2> QED
      BY <2>3, <2>4
  <1>4. inserted \subseteq inserted' /\ inserted \cap entries' \subseteq entries
    BY <1>1
  <1>5. \A r \in Reader : /\ page'[r] = page[r] /\ size'[r] = size[r]
                          /\ seen'[r] = seen[r] /\ atStart'[r] = atStart[r]
    BY DEF Inserts, readers
  <1> QED
    BY <1>3, <1>4, <1>5, WalkStable DEF Walks

\* A deletion brings the entries behind it forward.
LEMMA DeleteKeepsWalks ==
  ASSUME Walks, Typed', NEW d \in Deletion, DeleteById(d) \/ DeleteThrows(d)
  PROVE  Walks'
  <1>1. entries' \subseteq entries /\ inserted' = inserted
    BY DEF DeleteById, DeleteThrows
  <1>2. ASSUME NEW e \in entries \cap entries' PROVE Position(e)' <= Position(e)
    <2> DEFINE U == {f \in Matching(e.item) : f.id <= e.id}
               V == {f \in Matching(e.item)' : f.id <= e.id}
    <2>1. V \in SUBSET U /\ U \in SUBSET inserted
      BY <1>1 DEF Matching, Walks, Typed, Numbered
    <2>2. IsFiniteSet(U)
      BY <2>1, FS_Subset DEF Walks, Typed, Numbered
    <2>3. Cardinality(V) <= Cardinality(U)
      BY <2>1, <2>2, FS_Subset
    <2>4. Position(e)' = Cardinality(V) /\ Position(e) = Cardinality(U)
      BY DEF Position
    <2> QED
      BY <2>3, <2>4
  <1>3. \A r \in Reader : /\ page'[r] = page[r] /\ size'[r] = size[r]
                          /\ seen'[r] = seen[r] /\ atStart'[r] = atStart[r]
    BY DEF DeleteById, DeleteThrows, readers
  <1>4. inserted \cap entries' \subseteq entries
    BY <1>1
  <1> QED
    BY <1>1, <1>2, <1>3, <1>4, WalkStable DEF Walks

\* A walk begins with nothing read and nothing to skip.
LEMMA StartKeepsWalks ==
  ASSUME Walks, Typed', NEW r \in Reader, StartWalk(r)
  PROVE  Walks'
  <1>1. /\ seen[r] = <<>> /\ UNCHANGED <<entries, inserted, seen>>
        /\ page' = [page EXCEPT ![r] = PageNumber(0)]
        /\ atStart' = [atStart EXCEPT ![r] = Matching(ItemOf[r])]
    BY DEF StartWalk
  <1>2. page'[r] = 1 /\ atStart'[r] = Matching(ItemOf[r])
    BY <1>1 DEF PageNumber, Walks, Typed, TypeOK
  <1>3. Seen(r)' = {} /\ PagesAreApart(r)'
    BY <1>1 DEF Seen, PagesAreApart
  <1>4. size'[r] \in Nat \ {0} /\ IntLimit \in Nat \ {0}
    BY PagingAssumption DEF Typed, TypeOK
  <1>5. OnItsWay(r)'
    BY <1>2, <1>3, <1>4, FS_EmptySet DEF OnItsWay
  <1>6. Walk(r)'
    BY <1>1, <1>2, <1>3, <1>5 DEF Walk, Matching, Walks, Typed, Numbered
  <1>7. ASSUME NEW q \in Reader, q # r PROVE Walk(q)'
    <2>1. /\ page'[q] = page[q] /\ size'[q] = size[q]
          /\ seen'[q] = seen[q] /\ atStart'[q] = atStart[q]
      BY <1>7 DEF StartWalk, Walks, Typed, TypeOK
    <2>2. \A e \in entries \cap entries' : Position(e)' <= Position(e)
      <3>1. \A e : Position(e)' = Position(e)
        BY <1>1 DEF Position, Matching
      <3> QED
        BY <3>1, PositionType DEF Walks, Typed
    <2> QED
      BY <1>1, <2>1, <2>2, WalkStable DEF Walks
  <1> QED
    BY <1>6, <1>7 DEF Walks

\* What a reader on its way is given: the entries right behind those it skips, none of
\* which it has read before.
LEMMA PageRead ==
  ASSUME Walks, NEW r \in Reader, ReadPage(r)
  PROVE  LET N == Cardinality(Seen(r))
             R == PageOf(ItemOf[r], page[r], size[r])
             n == Cardinality(Matching(ItemOf[r]))
         IN  /\ N \in Nat /\ n \in Nat /\ N < IntLimit
             /\ R = {e \in Matching(ItemOf[r]) : N < Position(e) /\ Position(e) <= N + size[r]}
             /\ R \cap Seen(r) = {}
             /\ Cardinality(R) = size[r] <=> N + size[r] <= n
  <1> DEFINE N == Cardinality(Seen(r))
             i == ItemOf[r]
             s == size[r]
             p == page[r]
             R == PageOf(i, p, s)
             n == Cardinality(Matching(i))
  <1>1. /\ i \in Item /\ s \in 1 .. maxPageSize /\ p \in Nat \ {0} /\ ~PageThrows(p, s)
        /\ s \in Nat \ {0}
    <2>1. i \in Item
      BY InventoryStockAssumption
    <2>2. s \in 1 .. maxPageSize /\ p \in Nat
      BY DEF Walks, Typed, TypeOK
    <2>3. p # 0 /\ ~PageThrows(p, s)
      BY DEF ReadPage
    <2> QED
      BY <2>1, <2>2, <2>3, PagingAssumption
  <1>2. /\ N = (p - 1) * s /\ N < IntLimit + s
        /\ \A e \in Seen(r) \cap entries : Position(e) <= N
    BY <1>1 DEF Walks, Walk, OnItsWay
  <1>3. Numbered /\ Seen(r) \subseteq inserted
    BY DEF Walks, Typed, Walk
  <1>4. N \in Nat
    BY <1>3, FS_Subset, FS_CardinalityType DEF Numbered
  <1>5. n \in Nat /\ IsFiniteSet(Matching(i))
        /\ \A e \in Matching(i) : Position(e) \in 1 .. n
    BY <1>1, <1>3, PositionsNumber DEF Bijection, Injection
  <1> HIDE DEF N, i, s, p, n
  <1>6. N < IntLimit
    <2>1. IntLimit \in Nat
      BY PagingAssumption
    <2> QED
      BY <1>1, <1>2, <1>4, <2>1, SkipWraps
  <1>7. Skip(p, s) = N
    BY <1>1, <1>2, <1>6, SkipExact
  <1>8. PagePositions(n, p, s) = Behind(N, n, s)
    BY <1>7 DEF PagePositions, Behind
  <1>9. R = {e \in Matching(i) : Position(e) \in Behind(N, n, s)}
    BY <1>8 DEF PageOf, n
  <1> HIDE DEF R
  <1>10. R = {e \in Matching(i) : N < Position(e) /\ Position(e) <= N + s}
    BY <1>5, <1>9 DEF Behind
  <1>11. Cardinality(R) = Cardinality(Behind(N, n, s))
    <2>1. Behind(N, n, s) \in SUBSET (1 .. n)
      BY DEF Behind
    <2> QED
      BY <1>1, <1>3, <1>9, <2>1, PositionsCount DEF n
  <1>12. Cardinality(R) = s <=> N + s <= n
    BY <1>1, <1>4, <1>5, <1>11, PageIsFull
  <1>13. R \cap Seen(r) = {}
    <2>1. \A e \in R : e \in entries /\ Position(e) \in Nat /\ N < Position(e)
      BY <1>5, <1>10 DEF Matching
    <2> QED
      BY <1>2, <1>4, <2>1
  <1> QED
    BY <1>4, <1>5, <1>6, <1>10, <1>12, <1>13 DEF N, i, s, p, R, n

\* A page is added to what was read.
LEMMA PageAdded ==
  ASSUME Walks, NEW r \in Reader, ReadPage(r)
  PROVE  /\ Seen(r)' = Seen(r) \cup PageOf(ItemOf[r], page[r], size[r])
         /\ PagesAreApart(r)'
         /\ UNCHANGED <<entries, inserted, size, atStart>>
         /\ page'[r] = IF Cardinality(PageOf(ItemOf[r], page[r], size[r])) = size[r]
                       THEN page[r] + 1 ELSE 0
         /\ \A q \in Reader \ {r} : page'[q] = page[q] /\ seen'[q] = seen[q]
  <1> DEFINE R == PageOf(ItemOf[r], page[r], size[r])
             t == seen[r]
  <1>1. /\ seen' = [seen EXCEPT ![r] = Append(@, R)]
        /\ page' = [page EXCEPT ![r] = IF Cardinality(R) = size[r] THEN @ + 1 ELSE 0]
        /\ UNCHANGED <<entries, inserted, size, atStart>>
    BY DEF ReadPage
  <1>2. seen \in [Reader -> Seq(SUBSET Entry)] /\ page \in [Reader -> Nat]
    BY DEF Walks, Typed, TypeOK
  <1>3. R \cap Seen(r) = {}
    BY PageRead
  <1>4. R \in SUBSET Entry
    BY PageOfEntries DEF Walks, Typed, TypeOK
  <1> HIDE DEF R
  <1>5. seen'[r] = Append(t, R) /\ t \in Seq(SUBSET Entry)
    BY <1>1, <1>2
  <1>6. /\ Len(t) \in Nat /\ DOMAIN t = 1 .. Len(t)
        /\ DOMAIN seen'[r] = 1 .. Len(t) + 1
        /\ \A k \in 1 .. Len(t) : seen'[r][k] = t[k]
        /\ seen'[r][Len(t) + 1] = R
    BY <1>4, <1>5
  <1>7. \A k \in 1 .. Len(t) : t[k] \cap R = {}
    BY <1>3, <1>6 DEF Seen
  <1>8. Seen(r)' = Seen(r) \cup R
    BY <1>6 DEF Seen
  <1>9. PagesAreApart(r)'
    <2> SUFFICES ASSUME NEW j \in DOMAIN seen'[r], NEW k \in DOMAIN seen'[r], j # k
                 PROVE  seen'[r][j] \cap seen'[r][k] = {}
      BY DEF PagesAreApart
    <2>1. \A a, b \in 1 .. Len(t) : a # b => t[a] \cap t[b] = {}
      BY <1>6 DEF Walks, Walk, PagesAreApart
    <2>2. CASE j # Len(t) + 1 /\ k # Len(t) + 1
      BY <1>6, <2>1, <2>2
    <2>3. CASE j = Len(t) + 1 \/ k = Len(t) + 1
      BY <1>6, <1>7, <2>3
    <2> QED
      BY <2>2, <2>3
  <1>10. /\ page'[r] = IF Cardinality(R) = size[r] THEN page[r] + 1 ELSE 0
         /\ \A q \in Reader \ {r} : page'[q] = page[q] /\ seen'[q] = seen[q]
    BY <1>1, <1>2
  <1> QED
    BY <1>1, <1>8, <1>9, <1>10 DEF R

\* The entries a reader will skip are no more than it has read; so those of them it has
\* not read are no more than those it has read that are gone.
LEMMA SkippedCount ==
  ASSUME Numbered, NEW i \in Item, NEW S \in SUBSET inserted,
         \A e \in S : e.item = i,
         \A e \in S \cap entries : Position(e) <= Cardinality(S)
  PROVE  LET Low == {e \in Matching(i) : Position(e) <= Cardinality(S)}
         IN  IsFiniteSet(Low) /\ Cardinality(Low \ S) <= Cardinality(S \ entries)
  <1> DEFINE N == Cardinality(S)
             n == Cardinality(Matching(i))
             P == {k \in 1 .. n : k <= N}
             Low == {e \in Matching(i) : Position(e) <= N}
             A == S \cap entries
  <1>1. IsFiniteSet(S) /\ N \in Nat
    BY FS_Subset, FS_CardinalityType DEF Numbered
  <1>2. /\ IsFiniteSet(Matching(i)) /\ n \in Nat
        /\ \A e \in Matching(i) : Position(e) \in 1 .. n
    BY PositionsNumber DEF Bijection, Injection
  <1>3. A \subseteq Low
    BY DEF Matching
  <1> HIDE DEF n, N
  <1>4. Low = {e \in Matching(i) : Position(e) \in P}
    BY <1>2
  <1>5. Cardinality(P) <= N
    <2>1. P \in SUBSET (1 .. N) /\ IsFiniteSet(1 .. N) /\ Cardinality(1 .. N) = N
      BY <1>1, <1>2, FS_Interval
    <2> QED
      BY <2>1, FS_Subset
  <1>6. Cardinality(Low) = Cardinality(P)
    <2>1. P \in SUBSET (1 .. n)
      OBVIOUS
    <2> QED
      BY <1>4, <2>1, PositionsCount DEF n
  <1>7. IsFiniteSet(Low)
    BY <1>2, FS_Subset
  <1> HIDE DEF Low, P, A
  <1>8. Cardinality(Low \ A) = Cardinality(Low) - Cardinality(A)
    <2>1. Low \cap A = A
      BY <1>3
    <2> QED
      BY <1>7, <2>1, FS_Difference
  <1>9. Cardinality(S \ entries) = N - Cardinality(A)
    BY <1>1, FS_Difference DEF N, A
  <1>10. Cardinality(Low \ S) = Cardinality(Low \ A)
    <2>1. Low \ S = Low \ A
      BY DEF Low, A, Matching
    <2> QED
      BY <2>1
  <1>11. Cardinality(A) \in Nat /\ Cardinality(Low) \in Nat
    <2>1. IsFiniteSet(A)
      BY <1>1, FS_Intersection DEF A
    <2> QED
      BY <1>7, <2>1, FS_CardinalityType
  <1>12. Cardinality(Low \ S) <= Cardinality(S \ entries)
    BY <1>1, <1>5, <1>6, <1>8, <1>9, <1>10, <1>11
  <1> QED
    BY <1>7, <1>12 DEF Low, N

\* A page read: a full one brings the reader further, any other one to its end.
LEMMA ReadKeepsWalks ==
  ASSUME Walks, Typed', NEW r \in Reader, ReadPage(r)
  PROVE  Walks'
  <1> DEFINE S == Seen(r)
             N == Cardinality(S)
             i == ItemOf[r]
             s == size[r]
             R == PageOf(i, page[r], s)
             n == Cardinality(Matching(i))
  <1>1. /\ N \in Nat /\ n \in Nat /\ N < IntLimit
        /\ R = {e \in Matching(i) : N < Position(e) /\ Position(e) <= N + s}
        /\ R \cap S = {}
        /\ Cardinality(R) = s <=> N + s <= n
    BY PageRead
  <1>2. /\ Seen(r)' = S \cup R /\ PagesAreApart(r)'
        /\ UNCHANGED <<entries, inserted, size, atStart>>
        /\ page'[r] = IF Cardinality(R) = s THEN page[r] + 1 ELSE 0
        /\ \A q \in Reader \ {r} : page'[q] = page[q] /\ seen'[q] = seen[q]
    BY PageAdded
  <1>3. i \in Item
    BY InventoryStockAssumption
  <1>4. s \in 1 .. maxPageSize /\ page[r] \in Nat
    BY DEF Walks, Typed, TypeOK
  <1>5. /\ Numbered /\ S \subseteq inserted /\ atStart[r] \subseteq inserted
        /\ \A e \in S \cup atStart[r] : e.item = i
    BY DEF Walks, Typed, Walk
  <1>6. /\ N = (page[r] - 1) * s
        /\ \A e \in S \cap entries : Position(e) <= N
    BY DEF Walks, Walk, OnItsWay, ReadPage
  <1>7. /\ R \subseteq Matching(i) /\ R \subseteq entries
        /\ IsFiniteSet(S) /\ IsFiniteSet(Matching(i)) /\ IsFiniteSet(R)
        /\ \A e \in Matching(i) : Position(e) \in 1 .. n
    <2>1. R \subseteq Matching(i) /\ R \subseteq entries
      BY <1>1 DEF Matching
    <2>2. IsFiniteSet(S)
      BY <1>5, FS_Subset DEF Numbered
    <2>3. IsFiniteSet(Matching(i)) /\ \A e \in Matching(i) : Position(e) \in 1 .. n
      BY <1>3, <1>5, PositionsNumber DEF Bijection, Injection
    <2> QED
      BY <2>1, <2>2, <2>3, FS_Subset
  <1>8. \A e : Position(e)' = Position(e)
    BY <1>2 DEF Position, Matching
  <1> HIDE DEF S, N, i, s, R, n
  <1>9. ASSUME Cardinality(R) = s PROVE page'[r] # 0 /\ OnItsWay(r)'
    <2>1. Cardinality(S \cup R) = N + s
      <3>1. Cardinality(S \cup R) = N + s - Cardinality(S \cap R)
        BY <1>7, <1>9, FS_Union DEF N
      <3>2. Cardinality(S \cap R) = 0
        <4>1. S \cap R = {}
          BY <1>1
        <4> QED
          BY <4>1, FS_EmptySet
      <3> QED
        BY <1>1, <1>4, <3>1, <3>2
    <2>2. page'[r] = page[r] + 1 /\ page'[r] # 0
      BY <1>2, <1>4, <1>9
    <2>3. N + s = (page'[r] - 1) * s /\ N + s < IntLimit + s
      BY <1>1, <1>4, <1>6, <2>2, PagingAssumption
    <2>4. \A e \in (S \cup R) \cap entries : Position(e) <= N + s
      <3>1. \A e : Position(e) \in Nat
        BY <1>5, PositionType
      <3> QED
        BY <1>1, <1>4, <1>6, <3>1
    <2>5. OnItsWay(r)'
      BY <1>2, <1>8, <2>1, <2>3, <2>4 DEF OnItsWay, s
    <2> QED
      BY <1>2, <2>2, <2>5
  <1>10. ASSUME Cardinality(R) # s PROVE page'[r] = 0 /\ AtItsEnd(r)'
    <2>1. page'[r] = 0 /\ n < N + s
      BY <1>1, <1>2, <1>4, <1>10
    <2> DEFINE Low == {e \in Matching(i) : Position(e) <= N}
    <2>2. IsFiniteSet(Low) /\ Cardinality(Low \ S) <= Cardinality(S \ entries)
      BY <1>3, <1>5, <1>6, SkippedCount DEF N
    <2>3. (atStart[r] \cap entries) \ (S \cup R) \subseteq Low \ S
      <3> SUFFICES ASSUME NEW e \in (atStart[r] \cap entries) \ (S \cup R)
                   PROVE  e \in Low
        OBVIOUS
      <3>1. e \in Matching(i)
        BY <1>5 DEF Matching
      <3>2. Position(e) \in 1 .. n
        BY <1>7, <3>1
      <3> QED
        BY <1>1, <1>4, <2>1, <3>1, <3>2
    <2>4. (S \cup R) \ entries = S \ entries
      BY <1>7
    <2> HIDE DEF Low
    <2>5. Cardinality((atStart[r] \cap entries) \ (S \cup R)) <= Cardinality(S \ entries)
      <3> DEFINE M == (atStart[r] \cap entries) \ (S \cup R)
                 L == Low \ S
      <3>1. M \in SUBSET L /\ IsFiniteSet(L)
        BY <2>2, <2>3, FS_Difference
      <3>2. IsFiniteSet(M) /\ Cardinality(M) <= Cardinality(L)
        BY <3>1, FS_Subset
      <3>3. IsFiniteSet(S \ entries)
        BY <1>7, FS_Difference
      <3>4. Cardinality(M) \in Nat /\ Cardinality(L) \in Nat /\ Cardinality(S \ entries) \in Nat
        BY <3>1, <3>2, <3>3, FS_CardinalityType
      <3>5. Cardinality(L) <= Cardinality(S \ entries)
        BY <2>2
      <3> HIDE DEF M, L
      <3>6. Cardinality(M) <= Cardinality(S \ entries)
        BY <3>2, <3>4, <3>5
      <3> QED
        BY <3>6 DEF M
    <2>6. AtItsEnd(r)'
      BY <1>2, <2>4, <2>5 DEF AtItsEnd
    <2> QED
      BY <2>1, <2>6
  <1>11. (page'[r] # 0 => OnItsWay(r)') /\ (page'[r] = 0 => AtItsEnd(r)')
    BY <1>9, <1>10
  <1>12. Walk(r)'
    BY <1>2, <1>5, <1>7, <1>11 DEF Walk, Matching, Numbered, i
  <1>13. ASSUME NEW q \in Reader, q # r PROVE Walk(q)'
    <2>1. \A e \in entries \cap entries' : Position(e)' <= Position(e)
      BY <1>5, <1>8, PositionType
    <2> QED
      BY <1>2, <1>13, <2>1, WalkStable DEF Walks
  <1> QED
    BY <1>12, <1>13 DEF Walks

LEMMA InitWalks == Init => Walks
  <1> SUFFICES ASSUME Init PROVE Walks
    OBVIOUS
  <1>1. ASSUME NEW r \in Reader PROVE Walk(r)
    <2>1. seen[r] = <<>> /\ atStart[r] = {} /\ page[r] = 0 /\ entries = {}
      BY DEF Init
    <2>2. Seen(r) = {} /\ PagesAreApart(r)
      BY <2>1 DEF Seen, PagesAreApart
    <2>3. AtItsEnd(r)
      <3>1. (atStart[r] \cap entries) \ Seen(r) = {} /\ Seen(r) \ entries = {}
        BY <2>1, <2>2
      <3> QED
        BY <3>1, FS_EmptySet DEF AtItsEnd
    <2> QED
      BY <2>1, <2>2, <2>3 DEF Walk
  <1> QED
    BY <1>1, InitTyped DEF Walks

LEMMA NextWalks ==
  ASSUME Walks, [Next]_vars
  PROVE  Walks'
  <1>0. Typed'
    BY NextTyped DEF Walks
  <1>1. ASSUME UNCHANGED <<entries, inserted, readers>> PROVE Walks'
    <2>1. \A e \in entries \cap entries' : Position(e)' <= Position(e)
      <3>1. \A e : Position(e)' = Position(e)
        BY <1>1 DEF Position, Matching
      <3> QED
        BY <3>1, PositionType DEF Walks, Typed
    <2> QED
      BY <1>0, <1>1, <2>1, WalkStable DEF Walks, readers
  <1>2. ASSUME NEW i \in Item, AddEntry(i) PROVE Walks'
    BY <1>0, <1>2, EntryInserts, InsertKeepsWalks
  <1>3. ASSUME NEW o \in SalesOrder, InsertLine(o) \/ InsertThrows(o) PROVE Walks'
    <2>1. CASE InsertsLine(o)
      BY <1>0, <2>1, InsertKeepsWalks DEF InsertsLine
    <2>2. CASE StopsShort(o)
      BY <1>1, <2>2 DEF StopsShort
    <2> QED
      BY <1>3, <2>1, <2>2, LineInserts DEF Walks, Typed
  <1>4. ASSUME NEW d \in Deletion, DeleteById(d) \/ DeleteThrows(d) PROVE Walks'
    BY <1>0, <1>4, DeleteKeepsWalks
  <1>5. ASSUME NEW r \in Reader, StartWalk(r) \/ ReadPage(r) PROVE Walks'
    BY <1>0, <1>5, StartKeepsWalks, ReadKeepsWalks
  <1>6. CASE \/ UNCHANGED vars
             \/ \E o \in SalesOrder : AnswerOrder(o)
             \/ \E d \in Deletion : FindById(d)
    <2>1. UNCHANGED <<entries, inserted, readers>>
      BY <1>6 DEF vars, readers, AnswerOrder, FindById
    <2> QED
      BY <1>1, <2>1
  <1> QED
    BY <1>2, <1>3, <1>4, <1>5, <1>6 DEF Next

\* Whatever is inserted and deleted while it goes from page to page, a reader is given
\* no entry twice, and of those that were there all along it misses no more than were
\* taken from what it had read, for every page size and up to the last page whose offset
\* is an integer.
THEOREM WalksAreComplete == Spec => []WalkIsComplete
  <1>1. Walks => WalkIsComplete
    BY DEF Walks, Walk, PagesAreApart, AtItsEnd, WalkIsComplete
  <1> QED
    BY <1>1, InitWalks, NextWalks, PTL DEF Spec

=============================================================================
