------------------------------ MODULE Sorting ------------------------------
(***************************************************************************)
(* The sorting algorithms of examples/knowledge/sorting-lab, on sequences, *)
(* and the check of a comparator.  A comparator is the function from pairs *)
(* of items to -1, 0 or 1, as CountingComparator reports it; it need not   *)
(* be an order.  Indices are one more than in the source.  Traces and      *)
(* counts of comparisons are left out.                                     *)
(***************************************************************************)
EXTENDS Integers, Sequences, SequencesExt, FiniteSets, FiniteSetsExt

Upwards(first, last) == [i \in 1 .. Max({0, last - first + 1}) |-> first + i - 1]
Downwards(first, last) == Reverse(Upwards(last, first))
Swap(a, i, j) == [a EXCEPT ![i] = a[j], ![j] = a[i]]

\* One turn of insertion_sort: the item at index moves left past greater ones.
Insert(cmp, a, index) ==
  LET value == a[index]
      stop == Max({0} \cup {k \in 1 .. index - 1 : cmp[a[k], value] <= 0})
  IN SubSeq(a, 1, stop) \o <<value>> \o SubSeq(a, stop + 1, index - 1)
     \o SubSeq(a, index + 1, Len(a))
InsertionSort(cmp, values) ==
  FoldLeft(LAMBDA a, index : Insert(cmp, a, index), values, Upwards(2, Len(values)))

\* One turn of selection_sort.
Select(cmp, a, start) ==
  LET minimum == FoldLeft(LAMBDA m, i : IF cmp[a[i], a[m]] < 0 THEN i ELSE m,
                          start, Upwards(start + 1, Len(a)))
  IN Swap(a, start, minimum)
SelectionSort(cmp, values) ==
  FoldLeft(LAMBDA a, start : Select(cmp, a, start), values, Upwards(1, Len(values) - 1))

\* One pass of bubble_sort; it stops early after a pass that changed nothing,
\* which the passes left would not do either.
Pass(cmp, a, end) ==
  FoldLeft(LAMBDA b, i : IF cmp[b[i], b[i + 1]] > 0 THEN Swap(b, i, i + 1) ELSE b,
           a, Upwards(1, end - 1))
BubbleSort(cmp, values) ==
  FoldLeft(LAMBDA a, end : Pass(cmp, a, end), values, Downwards(Len(values), 2))

\* Mutant: the right half wins a tie.
TakesLeftIfLess(cmp, l, r) == cmp[l, r] < 0

TakesLeft(cmp, l, r) == cmp[l, r] <= 0

RECURSIVE Merge(_, _, _)
Merge(cmp, left, right) ==
  IF left = <<>> THEN right
  ELSE IF right = <<>> THEN left
  ELSE IF TakesLeft(cmp, left[1], right[1])
  THEN <<left[1]>> \o Merge(cmp, Tail(left), right)
  ELSE <<right[1]>> \o Merge(cmp, left, Tail(right))

RECURSIVE MergeSort(_, _)
MergeSort(cmp, values) ==
  LET middle == Len(values) \div 2 IN
  IF Len(values) <= 1 THEN values
  ELSE Merge(cmp, MergeSort(cmp, SubSeq(values, 1, middle)),
                  MergeSort(cmp, SubSeq(values, middle + 1, Len(values))))

\* _sift_down: the children of i are 2i and 2i + 1.
RECURSIVE SiftDown(_, _, _, _)
SiftDown(cmp, a, root, size) ==
  LET left == 2 * root
      child == IF left < size /\ cmp[a[left], a[left + 1]] < 0 THEN left + 1 ELSE left
  IN IF left > size THEN a
     ELSE IF cmp[a[root], a[child]] >= 0 THEN a
     ELSE SiftDown(cmp, Swap(a, root, child), child, size)

HeapSort(cmp, values) ==
  LET n == Len(values)
      heap == FoldLeft(LAMBDA a, root : SiftDown(cmp, a, root, n), values, Downwards(n \div 2, 1))
  IN FoldLeft(LAMBDA a, end : SiftDown(cmp, Swap(a, 1, end), 1, end - 1), heap, Downwards(n, 2))

\* validate_order
ValidOrder(cmp, items, requireTotal) ==
  /\ \A a \in items : cmp[a, a] = 0
  /\ \A a, b \in items :
       /\ cmp[a, b] < 0 => cmp[b, a] > 0
       /\ cmp[a, b] > 0 => cmp[b, a] < 0
       /\ requireTotal /\ a # b => cmp[a, b] # 0
  /\ \A a, b, c \in items :
       /\ cmp[a, b] < 0 /\ cmp[b, c] < 0 => cmp[a, c] < 0
       /\ cmp[a, b] = 0 /\ cmp[b, c] = 0 => cmp[a, c] = 0

\* assert_result
Ordered(cmp, a) == \A i \in 1 .. Len(a) - 1 : cmp[a[i], a[i + 1]] <= 0
SameItems(a, b) ==
  \A x \in ToSet(a) \cup ToSet(b) :
    Cardinality({i \in DOMAIN a : a[i] = x}) = Cardinality({i \in DOMAIN b : b[i] = x})
-----------------------------------------------------------------------------
\* Reference: a comparator is an order when it compares by some rank.
Ranked(cmp, items) ==
  \E rank \in [items -> 1 .. Cardinality(items)] : \A a, b \in items :
    /\ cmp[a, b] < 0 <=> rank[a] < rank[b]
    /\ cmp[a, b] > 0 <=> rank[a] > rank[b]

\* Reference: equal items of the result keep the order they had; for values
\* without a repeated item.
StableResult(cmp, values, result) ==
  \A i, j \in DOMAIN result : i < j =>
    \/ cmp[result[i], result[j]] < 0
    \/ cmp[result[i], result[j]] = 0 /\ IndexFirstSubSeq(<<result[i]>>, values)
                                          < IndexFirstSubSeq(<<result[j]>>, values)

\* validate_order accepts a comparator exactly if it is a ranking; under one it
\* accepts all five algorithms sort, and the three that are said to be stable
\* are; and under no comparator is an item lost or doubled.
SortsAsPromised(cmp, values) ==
  LET stable == {InsertionSort(cmp, values), BubbleSort(cmp, values), MergeSort(cmp, values)}
      all == stable \cup {SelectionSort(cmp, values), HeapSort(cmp, values)}
      items == ToSet(values)
  IN /\ ValidOrder(cmp, items, FALSE) <=> Ranked(cmp, items)
     /\ \A a \in all : SameItems(a, values)
     /\ ValidOrder(cmp, items, FALSE) =>
          /\ \A a \in all : Ordered(cmp, a)
          /\ IsInjective(values) => \A a \in stable : StableResult(cmp, values, a)
     /\ ValidOrder(cmp, items, TRUE) => Cardinality(all) = 1
=============================================================================
