------------------------------- MODULE DomainTypo ------------------------------
(***************************************************************************)
(* DomainTypoChecker: is a domain one edit away from a free provider's     *)
(* (domain-typo-checker.ts).  A name is a sequence of characters.          *)
(***************************************************************************)
EXTENDS Naturals, Sequences, FiniteSets, SequencesExt, FiniteSetsExt

\* How far the ends, and then the beginnings, of two names agree; the first name
\* is the shorter one.
SharedSuffix(a, b) ==
  Max({k \in 0..Len(a) : \A i \in 0..(k - 1) : a[Len(a) - i] = b[Len(b) - i]})

SharedPrefix(a, b) ==
  Max({k \in 0..Len(a) : \A i \in 1..k : a[i] = b[i]})

BugCell(same, diagonal, above, left) ==
  LET replaced == IF same THEN diagonal ELSE diagonal + 1
  IN IF above > left THEN IF replaced > left THEN left + 1 ELSE replaced
     ELSE IF replaced > above THEN left + 1 ELSE replaced

\* One cell of the table from its neighbours: temporary2, array[index] and result.
Cell(same, diagonal, above, left) ==
  LET replaced == IF same THEN diagonal ELSE diagonal + 1
  IN IF above > left THEN IF replaced > left THEN left + 1 ELSE replaced
     ELSE IF replaced > above THEN above + 1 ELSE replaced

\* The j-th round of the outer loop: from the column of j - 1, this.array, to that of
\* j.  The cells of the empty prefix, j - 1 and j, are temporary and result at its start.
Column(a, char, j, array) ==
  LET column[i \in 0..Len(a)] ==
        IF i = 0 THEN j
        ELSE Cell(char = a[i], array[i - 1], array[i], column[i - 1])
  IN column

Columns(a, b) ==
  LET column[j \in 0..Len(b)] ==
        IF j = 0 THEN [i \in 0..Len(a) |-> i] ELSE Column(a, b[j], j, column[j - 1])
  IN column

Distance(a, b) == Columns(a, b)[Len(b)][Len(a)]

\* What the names share at either end is trimmed before the table is filled.
Trimmed(first, second) ==
  LET suffix == SharedSuffix(first, second)
      a == SubSeq(first, 1, Len(first) - suffix)
      b == SubSeq(second, 1, Len(second) - suffix)
      prefix == SharedPrefix(a, b)
  IN IF Len(a) = prefix THEN Len(b) - prefix
     ELSE Distance(SubSeq(a, prefix + 1, Len(a)), SubSeq(b, prefix + 1, Len(b)))

\* findDistance: the shorter name is the first.
FindDistance(one, other) ==
  IF Len(one) > Len(other) THEN Trimmed(other, one) ELSE Trimmed(one, other)

BugHasTypo(domain, providers) ==
  Min({FindDistance(domain, p) : p \in providers}) <= 2

\* check returns the smallest distance if it is below 2, and domainTypoCheck takes
\* 0 and null for no typo.
HasTypo(domain, providers) ==
  Min({FindDistance(domain, p) : p \in providers}) = 1
================================================================================
