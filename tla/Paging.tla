-------------------------------- MODULE Paging --------------------------------
(***************************************************************************)
(* Shared.SeedWord: the request parameters every paged query binds, the    *)
(* page it reads and the metadata of the list it returns.  Page numbers,   *)
(* sizes and the product Skip is computed from are 32-bit integers.        *)
(***************************************************************************)
EXTENDS Integers, Sequences

CONSTANTS
  maxPageSize, defaultPageSize,  \* 50 and 10
  IntLimit                       \* 2^31: integers are -IntLimit .. IntLimit - 1

ASSUME PagingAssumption ==
  /\ maxPageSize \in Nat \ {0}
  /\ defaultPageSize \in 1 .. maxPageSize
  /\ IntLimit \in Nat \ {0}
  /\ maxPageSize < IntLimit

Int32 == -IntLimit .. IntLimit - 1

\* Unchecked arithmetic wraps around.
Wrap(x) == ((x + IntLimit) % (2 * IntLimit)) - IntLimit

\* PageNumber.set
PageNumber(value) == IF value < 1 THEN 1 ELSE value

\* Mutant: without the upper limit.
PageSizeUncapped(value) == IF value > 0 THEN value ELSE defaultPageSize

\* PageSize.set on a fresh parameter object: a size that is not positive is ignored.
PageSize(value) ==
  IF value > 0 THEN IF value > maxPageSize THEN maxPageSize ELSE value
  ELSE defaultPageSize

\* Mutant: pages counted from zero.
SkipFromZero(page, size) == Wrap(page * size)

\* What ToPageList passes to Skip.
Skip(page, size) == Wrap((page - 1) * size)

\* The driver refuses a negative Skip.
PageThrows(page, size) == Skip(page, size) < 0

\* Positions of the rows ToPageList reads of n matching ones.
PagePositions(n, page, size) ==
  {i \in 1 .. n : Skip(page, size) < i /\ i <= Skip(page, size) + size}

\* PageList: Math.Ceiling of the quotient.
TotalPages(n, size) == (n + size - 1) \div size

\* MetaData
HasPrevious(page) == page > 1
HasNext(n, page, size) == page < TotalPages(n, size)
FirstRowOnPage(n, page, size) == IF n > 0 THEN Wrap(Wrap((page - 1) * size) + 1) ELSE 0

=============================================================================
