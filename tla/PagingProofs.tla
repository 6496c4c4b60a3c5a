----------------------------- MODULE PagingProofs -----------------------------
(***************************************************************************)
(* What paging computes, for every collection size, page size and page     *)
(* number whose offset an integer can hold.                                *)
(***************************************************************************)
EXTENDS Paging, TLAPS

\* Whole-number division, as the two products around the dividend.
LEMMA Quotient ==
  ASSUME NEW a \in Nat, NEW s \in Nat \ {0}
  PROVE  /\ a \div s \in Nat
         /\ (a \div s) * s <= a
         /\ a < (a \div s) * s + s
  OBVIOUS

\* Of two multiples of s the one with the greater factor is greater by s at least.
LEMMA Multiples ==
  ASSUME NEW p \in Nat, NEW q \in Nat, NEW s \in Nat \ {0}, p < q
  PROVE  p * s + s <= q * s
  <1>1. PICK d \in Nat : q = p + 1 + d
    <2> WITNESS q - p - 1 \in Nat
    <2> QED
      OBVIOUS
  <1>2. q * s = p * s + s + d * s
    BY <1>1
  <1>3. d * s >= 0
    OBVIOUS
  <1> QED
    BY <1>2, <1>3

\* Whatever a client sends, a page number is positive and a page size within its limits.
THEOREM ParametersInRange ==
  ASSUME NEW value \in Int
  PROVE  PageNumber(value) \in Nat \ {0} /\ PageSize(value) \in 1 .. maxPageSize
  BY PagingAssumption DEF PageNumber, PageSize

\* Skip does not wrap around as long as the offset of the page is an integer.
LEMMA SkipExact ==
  ASSUME NEW page \in Nat \ {0}, NEW size \in 1 .. maxPageSize,
         (page - 1) * size < IntLimit
  PROVE  Skip(page, size) = (page - 1) * size
  <1> DEFINE x == (page - 1) * size
  <1>1. x \in Nat /\ IntLimit \in Nat \ {0} /\ x < IntLimit
    BY PagingAssumption
  <1> HIDE DEF x
  <1>2. (x + IntLimit) % (2 * IntLimit) = x + IntLimit
    BY <1>1
  <1> QED
    BY <1>1, <1>2 DEF Skip, Wrap, x

\* Each of the n rows is on exactly one page, the one its index divided by the page
\* size gives: walking the pages of a collection that does not change shows every row
\* once.
THEOREM EachRowOnOnePage ==
  ASSUME NEW n \in Nat, NEW i \in 1 .. n, NEW size \in 1 .. maxPageSize,
         NEW page \in Nat \ {0}, (page - 1) * size < IntLimit
  PROVE  i \in PagePositions(n, page, size) <=> page = (i - 1) \div size + 1
  <1> DEFINE q == (i - 1) \div size
             p == page - 1
  <1>1. q \in Nat /\ p \in Nat /\ q * size <= i - 1 /\ i - 1 < q * size + size
    BY Quotient, PagingAssumption
  <1>2. Skip(page, size) = p * size
    BY SkipExact
  <1>3. p * size \in Nat /\ size \in Nat \ {0} /\ q * size \in Nat
    BY <1>1, PagingAssumption
  <1>4. p < q => p * size + size <= q * size
    BY <1>1, <1>3, Multiples
  <1>5. q < p => q * size + size <= p * size
    BY <1>1, <1>3, Multiples
  <1>6. i \in PagePositions(n, page, size) <=> p * size < i /\ i <= p * size + size
    BY <1>2 DEF PagePositions
  <1>7. p = q <=> page = q + 1
    BY <1>1
  <1> HIDE DEF p, q
  <1>8. i \in PagePositions(n, page, size) <=> p = q
    BY <1>1, <1>3, <1>4, <1>5, <1>6
  <1> QED
    BY <1>7, <1>8 DEF q

\* HasNext is true of exactly the pages behind which rows are left.
THEOREM HasNextIsRight ==
  ASSUME NEW n \in Nat, NEW size \in 1 .. maxPageSize, NEW page \in Nat \ {0}
  PROVE  HasNext(n, page, size) <=> page * size < n
  <1> DEFINE t == (n + size - 1) \div size
  <1>1. t \in Nat /\ size \in Nat \ {0}
        /\ t * size <= n + size - 1 /\ n + size - 1 < t * size + size
    BY Quotient, PagingAssumption
  <1>2. page * size \in Nat /\ t * size \in Nat
    BY <1>1
  <1>3. page < t => page * size + size <= t * size
    BY <1>1, Multiples
  <1>4. t < page => t * size + size <= page * size
    BY <1>1, Multiples
  <1>5. t = page => t * size = page * size
    OBVIOUS
  <1> HIDE DEF t
  <1>6. page < t <=> page * size < n
    BY <1>1, <1>2, <1>3, <1>4, <1>5
  <1> QED
    BY <1>6 DEF HasNext, TotalPages, t

=============================================================================
