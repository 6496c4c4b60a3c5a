--------------------------- MODULE OrderStoreProofs ---------------------------
(***************************************************************************)
(* Proofs about OrderStore, for any commands, columns and crashes.         *)
(*                                                                         *)
(* The invariant says of each request what its place in its handler tells  *)
(* about the table: a creation still to save has no row, a deletion past   *)
(* its save has removed the row of an inserted order, and of the deletions *)
(* of one order only one has got that far.                                 *)
(***************************************************************************)
EXTENDS OrderStore, FiniteSetTheorems, TLAPS

Place == {"read", "find", "save", "dispatch", "ended"}
Reply == {"pending", "ok", "notFound", "threw", "died"}

\* TypeOK without the bounds on the two counters, which follow from the rest.
Types ==
  /\ row \in [Create -> Value \cup {NoRow}]
  /\ inserted \subseteq Create
  /\ pc \in [Request -> Place]
  /\ answer \in [Request -> Reply]
  /\ exist \in [Update -> Value \cup {NoRow}]
  /\ announced \in [Create -> Nat]
  /\ dropped \in [Create -> Nat]
  /\ crashes \in 0 .. MaxCrashes

Unanswered == \A r \in Request : pc[r] # "ended" <=> answer[r] = "pending"

RowsAreInserted == \A n \in Create : row[n] # NoRow => n \in inserted

Creations ==
  \A c \in Create :
    /\ pc[c] \in {"save", "dispatch", "ended"}
    /\ pc[c] = "save" => c \notin inserted
    /\ pc[c] = "dispatch" => c \in inserted
    /\ announced[c] = IF answer[c] = "ok" THEN 1 ELSE 0

Updates == \A u \in Update : pc[u] # "dispatch"

\* A deletion whose save removed the row, and that has not died since.
Won(d) == pc[d] = "dispatch" \/ answer[d] = "ok"

Deletions ==
  /\ \A d \in Delete : Won(d) => OrderOf[d] \in inserted /\ row[OrderOf[d]] = NoRow
  /\ \A d, e \in Delete : Won(d) /\ Won(e) /\ OrderOf[d] = OrderOf[e] => d = e

Dropped ==
  \A n \in Create :
    dropped[n] = IF \E d \in Delete : OrderOf[d] = n /\ answer[d] = "ok" THEN 1 ELSE 0

Inv == Types /\ Unanswered /\ RowsAreInserted /\ Creations /\ Updates /\ Deletions /\ Dropped

-----------------------------------------------------------------------------
\* The invariant holds before any request.
LEMMA InitInv == Init => Inv
  <1> SUFFICES ASSUME Init PROVE Inv
    OBVIOUS
  <1> USE OrderStoreAssumption DEF Init, Request
  <1>1. Types
    BY DEF Types, Place, Reply
  <1>2. Unanswered /\ RowsAreInserted /\ Creations /\ Updates
    BY DEF Unanswered, RowsAreInserted, Creations, Updates
  <1>3. Deletions /\ Dropped
    BY DEF Deletions, Dropped, Won
  <1> QED
    BY <1>1, <1>2, <1>3 DEF Inv

\* A step of the handlers of CreateOrder keeps the invariant.
LEMMA CreateInv == ASSUME Inv, NEW c \in Create, RunCreate(c) PROVE Inv'
  <1> USE OrderStoreAssumption DEF Inv, Request
  <1>0. c \in Request /\ pc[c] \in Place /\ answer[c] \in Reply
    BY DEF Types
  <1>1. CASE Insert(c)
    <2> USE <1>1 DEF Insert, InsertRow, Goto
    <2>1. Types'
      BY DEF Types, Place
    <2>2. Unanswered'
      BY <1>0 DEF Types, Unanswered
    <2>3. RowsAreInserted' /\ Updates'
      BY DEF Types, RowsAreInserted, Updates
    <2>4. Creations'
      BY DEF Types, Creations
    <2>5. c \notin inserted
      BY DEF Creations
    <2>6. \A d \in Delete : Won(d)' <=> Won(d)
      BY DEF Types, Won
    <2>7. \A d \in Delete : Won(d) => OrderOf[d] # c
      BY <2>5 DEF Deletions
    <2>8. Deletions'
      BY <2>6, <2>7 DEF Types, Deletions
    <2>9. Dropped'
      BY DEF Dropped
    <2> QED
      BY <2>1, <2>2, <2>3, <2>4, <2>8, <2>9
  <1>2. CASE Announce(c)
    <2> USE <1>2 DEF Announce, End
    <2>a. answer[c] # "ok"
      BY <1>0 DEF Unanswered
    <2>b. announced[c] = 0
      BY <2>a DEF Creations
    <2>0. announced' = [announced EXCEPT ![c] = 1]
      BY <2>b
    <2>1. Types'
      BY <2>0 DEF Types, Place, Reply
    <2>2. Unanswered'
      BY <1>0 DEF Types, Unanswered
    <2>3. RowsAreInserted' /\ Updates'
      BY DEF Types, RowsAreInserted, Updates
    <2>4. Creations'
      BY <2>0 DEF Types, Creations
    <2>5. \A d \in Delete : answer'[d] = answer[d] /\ pc'[d] = pc[d]
      BY DEF Types
    <2>6. Deletions' /\ Dropped'
      BY <2>5 DEF Deletions, Dropped, Won
    <2> QED
      BY <2>1, <2>2, <2>3, <2>4, <2>6
  <1> QED
    BY <1>1, <1>2 DEF RunCreate

\* A step of the handlers of DeleteOrder keeps the invariant: the row that lets one
\* deletion through its save lets no second one.
LEMMA DeleteInv == ASSUME Inv, NEW d \in Delete, RunDelete(d) PROVE Inv'
  <1> USE OrderStoreAssumption DEF Inv, Request
  <1> DEFINE n == OrderOf[d]
  <1>0. d \in Request /\ d \notin Create /\ d \notin Update /\ n \in Create
        /\ pc[d] \in Place /\ answer[d] \in Reply
    BY DEF Types
  <1>1. CASE ReadForDelete(d)
    <2> USE <1>1 DEF ReadForDelete, Goto, End
    <2>0. pc[d] # "ended" /\ ~Won(d)
      BY DEF Won, Unanswered
    <2>1. Types'
      BY <1>0 DEF Types, Place, Reply
    <2>2. Unanswered'
      BY <1>0 DEF Types, Unanswered
    <2>3. RowsAreInserted' /\ Updates' /\ Creations'
      BY <1>0 DEF Types, RowsAreInserted, Updates, Creations
    <2>4. \A e \in Delete : Won(e)' <=> Won(e)
      BY <2>0 DEF Types, Won
    <2>5. Deletions'
      BY <2>4 DEF Deletions
    <2>6. \A e \in Delete : answer'[e] = "ok" <=> answer[e] = "ok"
      BY <2>0 DEF Types, Won
    <2>7. Dropped'
      BY <2>6 DEF Dropped
    <2> QED
      BY <2>1, <2>2, <2>3, <2>5, <2>7
  <1>2. CASE SaveDelete(d)
    <2> USE <1>2 DEF SaveDelete
    <2>0. pc[d] # "ended" /\ ~Won(d)
      BY DEF Won, Unanswered
    <2>1. CASE RemoveRow(d) /\ Goto(d, "dispatch")
      <3> row[n] # NoRow /\ row' = [row EXCEPT ![n] = NoRow] /\ UNCHANGED inserted
        BY <2>1 DEF RemoveRow
      <3> Goto(d, "dispatch")
        BY <2>1
      <3> USE DEF Goto
      <3>1. Types'
        BY <1>0 DEF Types, Place
      <3>2. Unanswered'
        BY <1>0 DEF Types, Unanswered
      <3>3. RowsAreInserted'
        BY <1>0 DEF Types, RowsAreInserted
      <3>4. Updates' /\ Creations'
        BY <1>0 DEF Types, Updates, Creations
      <3>5. n \in inserted
        BY <1>0 DEF RowsAreInserted
      <3>6. \A e \in Delete : Won(e)' => e = d \/ (Won(e) /\ OrderOf[e] # n)
        BY DEF Types, Won, Deletions
      <3>7. row'[n] = NoRow /\ \A m \in Create : row[m] = NoRow => row'[m] = NoRow
        BY <1>0 DEF Types
      <3>8. Deletions'
        BY <3>5, <3>6, <3>7 DEF Deletions
      <3>9. Dropped'
        BY DEF Dropped
      <3> QED
        BY <3>1, <3>2, <3>3, <3>4, <3>8, <3>9
    <2>2. CASE row[n] = NoRow /\ End(d, "threw") /\ UNCHANGED <<row, inserted>>
      <3> row' = row /\ inserted' = inserted /\ End(d, "threw")
        BY <2>2
      <3> USE DEF End
      <3>1. Types'
        BY <1>0 DEF Types, Place, Reply
      <3>2. Unanswered'
        BY <1>0 DEF Types, Unanswered
      <3>3. RowsAreInserted' /\ Updates' /\ Creations'
        BY <1>0 DEF Types, RowsAreInserted, Updates, Creations
      <3>4. \A e \in Delete : (Won(e)' <=> Won(e)) /\ (answer'[e] = "ok" <=> answer[e] = "ok")
        BY <2>0 DEF Types, Won
      <3>5. Deletions' /\ Dropped'
        BY <3>4 DEF Deletions, Dropped
      <3> QED
        BY <3>1, <3>2, <3>3, <3>5
    <2> QED
      BY <2>1, <2>2
  <1>3. CASE DispatchDeleted(d)
    <2> USE <1>3 DEF DispatchDeleted, End
    <2>0. Won(d) /\ answer[d] = "pending"
      BY <1>0 DEF Won, Unanswered
    <2>1. \A e \in Delete : OrderOf[e] = n => answer[e] # "ok"
      BY <2>0 DEF Deletions, Won
    <2>2. dropped[n] = 0
      BY <1>0, <2>1 DEF Dropped
    <2>3. dropped' = [dropped EXCEPT ![n] = 1]
      BY <2>2
    <2>4. Types'
      BY <1>0, <2>3 DEF Types, Place, Reply
    <2>5. Unanswered'
      BY <1>0 DEF Types, Unanswered
    <2>6. RowsAreInserted' /\ Updates' /\ Creations'
      BY <1>0 DEF Types, RowsAreInserted, Updates, Creations
    <2>7. \A e \in Delete : Won(e)' <=> Won(e)
      BY <2>0 DEF Types, Won
    <2>8. Deletions'
      BY <2>7 DEF Deletions
    <2>9. answer'[d] = "ok" /\ \A e \in Delete : e # d => answer'[e] = answer[e]
      BY <1>0 DEF Types
    <2>10. Dropped'
      BY <1>0, <2>3, <2>9 DEF Types, Dropped
    <2> QED
      BY <2>4, <2>5, <2>6, <2>8, <2>10
  <1> QED
    BY <1>1, <1>2, <1>3 DEF RunDelete

\* A step of the handler of UpdateOrder keeps the invariant: it writes only a row
\* that is there.
LEMMA UpdateInv == ASSUME Inv, NEW u \in Update, RunUpdate(u) PROVE Inv'
  <1> USE OrderStoreAssumption DEF Inv, Request
  <1> DEFINE n == OrderOf[u]
  <1>0. u \in Request /\ u \notin Create /\ u \notin Delete /\ n \in Create
        /\ ValueOf[u] \in Value /\ ValueOf[u] # NoRow
    BY DEF Types
  <1>1. CASE ReadForUpdate(u)
    <2> USE <1>1 DEF ReadForUpdate, Goto, End
    <2>1. Types'
      BY <1>0 DEF Types, Place, Reply
    <2>2. Unanswered'
      BY <1>0 DEF Types, Unanswered
    <2>3. RowsAreInserted' /\ Updates' /\ Creations'
      BY <1>0 DEF Types, RowsAreInserted, Updates, Creations
    <2>4. \A e \in Delete : pc'[e] = pc[e] /\ answer'[e] = answer[e]
      BY <1>0 DEF Types
    <2>5. Deletions' /\ Dropped'
      BY <2>4 DEF Deletions, Dropped, Won
    <2> QED
      BY <2>1, <2>2, <2>3, <2>5
  <1>2. CASE Find(u)
    <2> USE <1>2 DEF Find, Goto, End
    <2>1. Types'
      BY <1>0 DEF Types, Place, Reply
    <2>2. Unanswered'
      BY <1>0 DEF Types, Unanswered
    <2>3. RowsAreInserted' /\ Updates' /\ Creations'
      BY <1>0 DEF Types, RowsAreInserted, Updates, Creations
    <2>4. \A e \in Delete : pc'[e] = pc[e] /\ answer'[e] = answer[e]
      BY <1>0 DEF Types
    <2>5. Deletions' /\ Dropped'
      BY <2>4 DEF Deletions, Dropped, Won
    <2> QED
      BY <2>1, <2>2, <2>3, <2>5
  <1>3. CASE SaveUpdate(u)
    <2> USE <1>3 DEF SaveUpdate, End
    <2>0. /\ inserted' = inserted
          /\ row' = row \/ (row[n] # NoRow /\ row' = [row EXCEPT ![n] = ValueOf[u]])
      BY DEF WriteRow
    <2>1. Types'
      BY <1>0, <2>0 DEF Types, Place, Reply
    <2>2. Unanswered'
      BY <1>0 DEF Types, Unanswered
    <2>3. \A m \in Create : row'[m] = NoRow <=> row[m] = NoRow
      BY <1>0, <2>0 DEF Types
    <2>4. RowsAreInserted'
      BY <2>0, <2>3 DEF RowsAreInserted
    <2>5. Updates' /\ Creations'
      BY <1>0, <2>0 DEF Types, Updates, Creations
    <2>6. \A e \in Delete : pc'[e] = pc[e] /\ answer'[e] = answer[e]
      BY <1>0 DEF Types
    <2>7. Deletions' /\ Dropped'
      BY <2>0, <2>3, <2>6 DEF Deletions, Dropped, Won
    <2> QED
      BY <2>1, <2>2, <2>4, <2>5, <2>7
  <1> QED
    BY <1>1, <1>2, <1>3 DEF RunUpdate

\* Requests that end without an answer of their handler keep the invariant.
LEMMA CutOffInv ==
  ASSUME Inv, (\E r \in Request : SaveThrows(r)) \/ Crash
  PROVE  Inv'
  <1> USE OrderStoreAssumption DEF Inv
  <1>1. PICK R \in SUBSET Request :
          /\ \A r \in R : pc[r] # "ended"
          /\ \E a \in {"threw", "died"} :
               /\ pc' = [r \in Request |-> IF r \in R THEN "ended" ELSE pc[r]]
               /\ answer' = [r \in Request |-> IF r \in R THEN a ELSE answer[r]]
    <2>1. ASSUME NEW r \in Request, SaveThrows(r)
          PROVE  \E R \in SUBSET Request :
                   /\ \A q \in R : pc[q] # "ended"
                   /\ pc' = [q \in Request |-> IF q \in R THEN "ended" ELSE pc[q]]
                   /\ answer' = [q \in Request |-> IF q \in R THEN "threw" ELSE answer[q]]
      <3> WITNESS {r} \in SUBSET Request
      <3> QED
        BY <2>1 DEF SaveThrows, End, Types
    <2>2. ASSUME Crash
          PROVE  \E R \in SUBSET Request :
                   /\ \A q \in R : pc[q] # "ended"
                   /\ pc' = [q \in Request |-> IF q \in R THEN "ended" ELSE pc[q]]
                   /\ answer' = [q \in Request |-> IF q \in R THEN "died" ELSE answer[q]]
      BY <2>2 DEF Crash
    <2> QED
      BY <2>1, <2>2
  <1>2. UNCHANGED <<row, inserted, exist, announced, dropped>> /\ crashes' \in 0 .. MaxCrashes
    BY DEF SaveThrows, Crash, Types
  <1>3. \A r \in Request :
          /\ r \in R => pc[r] # "ended" /\ answer[r] = "pending"
          /\ pc'[r] = IF r \in R THEN "ended" ELSE pc[r]
          /\ answer'[r] # "pending" <=> r \in R \/ answer[r] # "pending"
          /\ answer'[r] = "ok" <=> answer[r] = "ok"
    BY <1>1 DEF Unanswered
  <1>4. Types'
    BY <1>1, <1>2 DEF Types, Place, Reply
  <1>5. Unanswered' /\ RowsAreInserted'
    BY <1>2, <1>3 DEF Unanswered, RowsAreInserted
  <1>6. Creations' /\ Updates'
    BY <1>2, <1>3 DEF Creations, Updates, Request
  <1>7. \A d \in Delete : (Won(d)' => Won(d)) /\ (answer'[d] = "ok" <=> answer[d] = "ok")
    BY <1>3 DEF Won, Request
  <1>8. Deletions' /\ Dropped'
    BY <1>2, <1>7 DEF Deletions, Dropped
  <1> QED
    BY <1>4, <1>5, <1>6, <1>8

\* A save that is committed and throws keeps the invariant: its request ends, with a row
\* inserted, gone or written.
LEMMA CommitsThenThrowsInv ==
  ASSUME Inv, NEW r \in Request, SaveCommitsThenThrows(r)
  PROVE  Inv'
  <1> USE OrderStoreAssumption DEF Inv
  <1>1. /\ pc[r] = "save" /\ pc' = [pc EXCEPT ![r] = "ended"]
        /\ answer' = [answer EXCEPT ![r] = "threw"] /\ answer[r] = "pending"
        /\ UNCHANGED <<exist, announced, dropped, crashes>>
    BY DEF SaveCommitsThenThrows, End, Unanswered
  <1>2. \A q \in Request :
          /\ pc'[q] = IF q = r THEN "ended" ELSE pc[q]
          /\ answer'[q] = IF q = r THEN "threw" ELSE answer[q]
    BY <1>1 DEF Types
  <1>3. \A d \in Delete : d \in Request /\ OrderOf[d] \in Create
    BY DEF Request
  <1>4. \A d \in Delete : (Won(d)' <=> Won(d)) /\ (answer'[d] = "ok" <=> answer[d] = "ok")
    BY <1>1, <1>2, <1>3 DEF Won
  <1>5. \A u \in Update : pc'[u] # "dispatch"
    BY <1>2 DEF Updates, Request
  <1>6. pc' \in [Request -> Place] /\ answer' \in [Request -> Reply] /\ Unanswered'
    BY <1>1, <1>2 DEF Types, Place, Reply, Unanswered
  <1>7. CASE r \in Create /\ InsertRow(r)
    <2> USE <1>7 DEF InsertRow
    <2>1. r \notin inserted /\ ValueOf[r] \in Value
      BY <1>1 DEF Creations
    <2>2. Types' /\ RowsAreInserted'
      BY <1>1, <1>6, <2>1 DEF Types, RowsAreInserted
    <2>3. Creations'
      BY <1>1, <1>2 DEF Creations, Request
    <2>4. \A d \in Delete : Won(d) => OrderOf[d] # r
      BY <2>1 DEF Deletions
    <2>5. Deletions' /\ Dropped'
      BY <1>1, <1>3, <1>4, <2>4 DEF Types, Deletions, Dropped
    <2> QED
      BY <1>5, <1>6, <2>2, <2>3, <2>5 DEF Updates
  <1>8. CASE r \notin Create /\ ((r \in Delete /\ RemoveRow(r)) \/ (r \in Update /\ WriteRow(r)))
    <2> DEFINE n == OrderOf[r]
    <2>1. /\ n \in Create /\ row[n] # NoRow /\ inserted' = inserted
          /\ \E v \in Value \cup {NoRow} :
               row' = [row EXCEPT ![n] = v] /\ (r \in Update => v # NoRow)
      BY <1>8 DEF RemoveRow, WriteRow
    <2>2. \A m \in Create : m # n => row'[m] = row[m]
      BY <2>1 DEF Types
    <2>3. Types' /\ RowsAreInserted'
      BY <1>1, <1>6, <2>1, <2>2 DEF Types, RowsAreInserted
    <2>4. Creations'
      BY <1>1, <1>2, <1>8, <2>1 DEF Creations, Request
    <2>5. \A d \in Delete : Won(d) => OrderOf[d] # n
      BY <2>1 DEF Deletions
    <2>6. Deletions' /\ Dropped'
      BY <1>1, <1>3, <1>4, <2>1, <2>2, <2>5 DEF Deletions, Dropped
    <2> QED
      BY <1>5, <1>6, <2>3, <2>4, <2>6 DEF Updates
  <1>9. \/ r \in Create /\ InsertRow(r)
        \/ r \in Delete /\ RemoveRow(r)
        \/ r \in Update /\ WriteRow(r)
    BY DEF SaveCommitsThenThrows
  <1> QED
    BY <1>7, <1>8, <1>9

\* Inv is inductive.
LEMMA StepInv == Inv /\ [Next]_vars => Inv'
  <1> SUFFICES ASSUME Inv, [Next]_vars PROVE Inv'
    OBVIOUS
  <1>1. CASE UNCHANGED vars
    BY <1>1 DEF vars, Inv, Types, Unanswered, RowsAreInserted, Creations, Updates,
                Deletions, Dropped, Won
  <1>2. CASE Next
    BY <1>2, CreateInv, DeleteInv, UpdateInv, CutOffInv, CommitsThenThrowsInv DEF Next
  <1> QED
    BY <1>1, <1>2

\* Every reachable state satisfies the invariant.
LEMMA Invariant == Spec => []Inv
  BY InitInv, StepInv, PTL DEF Spec

\* The state of Ordering.API and of its table is well typed whatever commands run; no
\* order is announced or dropped twice.
THEOREM TypeCorrect == Spec => []TypeOK
  <1>1. Inv => TypeOK
    BY DEF Inv, Types, Creations, Dropped, TypeOK, Place, Reply
  <1> QED
    BY <1>1, Invariant, PTL

-----------------------------------------------------------------------------
\* Of any number of overlapping deletions of an order one succeeds, with one event,
\* and only once the row has gone for good.
THEOREM OneDeletion == Spec => []OneDeletionSucceeds
  <1>1. Inv => OneDeletionSucceeds
    <2> SUFFICES ASSUME Inv, NEW n \in Create
                 PROVE  LET ok == {d \in Delete : OrderOf[d] = n /\ answer[d] = "ok"}
                        IN  /\ Cardinality(ok) <= 1
                            /\ dropped[n] = Cardinality(ok)
                            /\ ok # {} => n \in Gone
      BY DEF OneDeletionSucceeds
    <2> DEFINE ok == {d \in Delete : OrderOf[d] = n /\ answer[d] = "ok"}
    <2> USE DEF Inv, Dropped, Deletions, Won, Gone
    <2>1. CASE ok = {}
      <3>1. Cardinality(ok) = 0
        BY <2>1, FS_EmptySet
      <3>2. dropped[n] = 0
        BY <2>1
      <3> QED
        BY <2>1, <3>1, <3>2
    <2>2. CASE ok # {}
      <3>1. PICK d \in Delete : OrderOf[d] = n /\ answer[d] = "ok"
        BY <2>2
      <3>2. ok = {d}
        BY <3>1
      <3>3. Cardinality(ok) = 1
        BY <3>2, FS_Singleton
      <3>4. dropped[n] = 1 /\ n \in Gone
        BY <3>1
      <3> QED
        BY <3>3, <3>4
    <2> QED
      BY <2>1, <2>2
  <1> QED
    BY <1>1, Invariant, PTL

\* However updates of an order overlap, its row holds the columns of one request.
THEOREM RowsAreWhole == Spec => []RowIsOneRequest
  <1>1. Init => RowIsOneRequest
    BY DEF Init, RowIsOneRequest
  <1>2. Inv /\ RowIsOneRequest /\ [Next]_vars => RowIsOneRequest'
    <2> SUFFICES ASSUME Inv, RowIsOneRequest, [Next]_vars PROVE RowIsOneRequest'
      OBVIOUS
    <2> USE OrderStoreAssumption
    <2>1. \/ row' = row
          \/ \E c \in Create : row' = [row EXCEPT ![c] = ValueOf[c]]
          \/ \E d \in Delete : row' = [row EXCEPT ![OrderOf[d]] = NoRow]
          \/ \E u \in Update : row' = [row EXCEPT ![OrderOf[u]] = ValueOf[u]]
      BY DEF Next, vars, RunCreate, RunDelete, RunUpdate, Insert, Announce, ReadForDelete,
             SaveDelete, DispatchDeleted, ReadForUpdate, Find, SaveUpdate, SaveThrows, Crash,
             SaveCommitsThenThrows, InsertRow, RemoveRow, WriteRow
    <2> QED
      BY <2>1 DEF RowIsOneRequest, Inv, Types
  <1> QED
    BY <1>1, <1>2, Invariant, PTL DEF Spec

\* OrderStore implements OrderTable: seen from outside, a row is inserted once, goes at
\* most once and never comes back, whatever runs at once or is cut off.
THEOREM RefinesTable == Spec => ImplementsOrderTable
  <1>1. Init => Table!Init
    BY DEF Init, Table!Init, Gone
  <1>2. Inv /\ Inv' /\ [Next]_vars => [Table!Next]_<<inserted, Gone>>
    <2> SUFFICES ASSUME Inv, Inv', [Next]_vars
                 PROVE  Table!Next \/ UNCHANGED <<inserted, Gone>>
      OBVIOUS
    <2> USE OrderStoreAssumption DEF Inv, Types
    <2>1. ASSUME NEW c \in Create, InsertRow(c), pc[c] = "save" PROVE Table!Insert(c)
      <3>1. c \notin inserted /\ row' = [row EXCEPT ![c] = ValueOf[c]]
            /\ inserted' = inserted \cup {c} /\ ValueOf[c] # NoRow
        BY <2>1 DEF InsertRow, Creations
      <3> QED
        BY <3>1 DEF Gone, Table!Insert
    <2>2. ASSUME NEW d \in Delete, RemoveRow(d) PROVE Table!Remove(OrderOf[d])
      <3>1. OrderOf[d] \in inserted \ Gone /\ inserted' = inserted
            /\ row' = [row EXCEPT ![OrderOf[d]] = NoRow]
        BY <2>2 DEF RemoveRow, RowsAreInserted, Gone
      <3>2. Gone' = Gone \cup {OrderOf[d]}
        BY <3>1 DEF Gone
      <3> QED
        BY <3>1, <3>2 DEF Table!Remove
    <2>3. ASSUME NEW u \in Update, WriteRow(u) PROVE UNCHANGED <<inserted, Gone>>
      <3>1. inserted' = inserted /\ ValueOf[u] # NoRow /\ row[OrderOf[u]] # NoRow
            /\ row' = [row EXCEPT ![OrderOf[u]] = ValueOf[u]]
        BY <2>3 DEF WriteRow
      <3> QED
        BY <3>1 DEF Gone
    <2>4. CASE UNCHANGED <<row, inserted>>
      BY <2>4 DEF Gone
    <2>5. \/ UNCHANGED <<row, inserted>>
          \/ \E c \in Create : InsertRow(c) /\ pc[c] = "save"
          \/ \E d \in Delete : RemoveRow(d)
          \/ \E u \in Update : WriteRow(u)
      BY DEF Next, vars, RunCreate, RunDelete, RunUpdate, Insert, Announce, ReadForDelete,
             SaveDelete, DispatchDeleted, ReadForUpdate, Find, SaveUpdate, SaveThrows, Crash,
             SaveCommitsThenThrows
    <2>6. \A d \in Delete : OrderOf[d] \in Create
      OBVIOUS
    <2> QED
      BY <2>1, <2>2, <2>3, <2>4, <2>5, <2>6 DEF Table!Next
  <1> QED
    BY <1>1, <1>2, Invariant, PTL DEF Spec, ImplementsOrderTable, Table!Spec

=============================================================================
