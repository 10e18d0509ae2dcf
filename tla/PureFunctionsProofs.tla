--------------------------- MODULE PureFunctionsProofs ---------------------------
(***************************************************************************)
(* The pure functions, for every input.                                    *)
(***************************************************************************)
EXTENDS PureFunctions, FiniteSetTheorems, TLAPS

\* A property of every input is a property of every behaviour, which keeps its input.
LEMMA InputsOnly == Spec => [](input \in Inputs)
<1>1. Init => input \in Inputs
  BY DEF Init
<1>2. input \in Inputs /\ [Next]_input => (input \in Inputs)'
  BY DEF Next
<1>3. QED
  BY <1>1, <1>2, PTL DEF Spec

-----------------------------------------------------------------------------
(* Replies *)

\* A reply with no code but its first gets the verdict of the table, and one with
\* no code of the table that of its class, whatever replies are parsed.
THEOREM RepliesCorrect == Replies \subseteq Reply => (Spec => []ReplyFollowsTable)
<1> SUFFICES ASSUME Replies \subseteq Reply PROVE Spec => []ReplyFollowsTable
  OBVIOUS
<1>1. input \in Inputs => ReplyFollowsTable
  <2> SUFFICES ASSUME input \in Inputs, input.kind = "reply" PROVE ReplyFollowsTable
    BY DEF ReplyFollowsTable
  <2> DEFINE r == input.reply
  <2>1. r \in Reply
    BY DEF Inputs
  <2>2. ASSUME r.starts \in Codes, r.codes = {r.starts}
        PROVE  \/ Parse(r) = Table[r.starts]
               \/ Parse(r) = Blocked /\ r.blocking /\ Table[r.starts] = NoMailbox
    <3> DEFINE has(codes) == r.codes \intersect codes # {}
    <3>1. /\ has({"250"}) <=> r.starts = "250"
          /\ has({"251"}) <=> r.starts = "251"
          /\ has({"550", "521", "556", "505", "551", "500"}) <=>
               r.starts \in {"550", "521", "556", "505", "551", "500"}
          /\ has({"421", "450", "451", "452"}) <=>
               r.starts \in {"421", "450", "451", "452"}
          /\ has({"553"}) <=> r.starts = "553"
          /\ has({"554"}) <=> r.starts = "554"
      BY <2>2
    <3>2. r.starts \in {"250", "251", "550", "551", "505", "521", "500", "553", "554", "556",
                        "451", "452", "450", "421"}
      BY <2>2 DEF Codes, Table
    <3>3. Table[r.starts] =
            CASE r.starts = "250" -> Valid
              [] r.starts = "251" -> Alias
              [] r.starts = "553" -> Unverified
              [] r.starts = "554" -> Blocked
              [] r.starts \in {"451", "452", "450", "421"} -> Grey
              [] OTHER -> NoMailbox
      BY <3>2 DEF Table
    <3>4. Parse(r) =
            IF r.starts = "250" THEN Valid
            ELSE IF r.starts = "251" THEN Alias
            ELSE IF r.starts \in {"550", "521", "556", "505", "551", "500"}
            THEN IF r.blocking THEN Blocked ELSE NoMailbox
            ELSE IF r.starts \in {"421", "450", "451", "452"} THEN Grey
            ELSE IF r.starts = "553" THEN Unverified ELSE Blocked
      BY <3>1, <3>2 DEF Parse
    <3>5. r.blocking \in BOOLEAN
      BY <2>1 DEF Reply
    <3>6. QED
      BY <3>2, <3>3, <3>4, <3>5
  <2>3. ASSUME r.codes = {}
        PROVE  /\ Parse(r) = Grey <=> r.starts = "4xx"
               /\ Parse(r) = NoMailbox <=> r.starts = "5xx"
               /\ Parse(r) # Valid
    <3>1. \A codes : r.codes \intersect codes = {}
      BY <2>3
    <3>2. QED
      BY <3>1 DEF Parse, Valid, Blocked, NoMailbox, TimedOut, Grey, Say
  <2>4. QED
    BY <2>2, <2>3 DEF ReplyFollowsTable
<1>2. QED
  BY <1>1, InputsOnly, PTL

-----------------------------------------------------------------------------
(* Reports *)

\* What is stored of the emails of a CSV was stored by validations.
StoredCsvs ==
  \A csv \in Csvs : \A e \in DOMAIN csv.processed : csv.processed[e] \in Storable

\* Each row of a report is a stored verdict or none.
LEMMA RowsAreStorable ==
  ASSUME StoredCsvs, input \in Inputs, input.kind = "csv"
  PROVE  \A i \in DOMAIN Rows : Rows[i] \in Storable \union {NoVerdict}
BY DEF Inputs, Rows, Merge, StoredCsvs

\* Where a row goes and how it is counted, for all that can be stored.
LEMMA FileAndCounter ==
  ASSUME NEW v \in Storable \union {NoVerdict}
  PROVE  /\ \A file \in {"valid", "catch-all", "spamtrap"} :
              FileOf(v) = file <=> CounterOf(v) = file
         /\ CounterOf(v) = "do_not_mail" <=>
              FileOf(v) \in {"role_based", "disposable_domain_temporary_email"}
         /\ CounterOf(v) = "unknown" <=>
              /\ FileOf(v) \in {"unverifiable_email", "smtp_connection_timeout", "ip_blocked"}
              /\ v.status # "invalid"
         /\ CounterOf(v) = "invalid" <=>
              \/ FileOf(v) \in {"mailbox_not_found", "does_not_accept_mail"}
              \/ /\ FileOf(v) \in {"ip_blocked", "grey_listed", "combined"}
                 /\ v.status = "invalid"
         /\ FileOf(v) \notin {"combined", "grey_listed"} => CounterOf(v) # "none"
<1> DEFINE is(status, reason) == v.status = status /\ v.reason = reason
<1>1. \A status, reason : v = Say(status, reason) => is(status, reason)
  BY DEF Say
<1>2. v = Say(v.status, v.reason)
  BY DEF Storable, OfTheAddress, OfAReply, OfARefusal, NoVerdict, Valid, Alias, CatchAll,
         Spamtrap, NoMailbox, Grey, TimedOut, Blocked, Unverified, Say
<1>3. \/ is("invalid", "invalid_email_format") \/ is("do_not_mail", "role_based")
      \/ is("do_not_mail", "disposable_domain_temporary_email") \/ is("spamtrap", "")
      \/ is("invalid", "possible_typo") \/ is("invalid", "mx_record_not_found")
      \/ is("valid", "") \/ is("valid", "alias_or_forwarded_email")
      \/ is("invalid", "mailbox_not_found") \/ is("service_unavailable", "ip_blocked")
      \/ is("unknown", "grey_listed") \/ is("unknown", "unverifiable_email")
      \/ is("unknown", "smtp_connection_timeout") \/ is("unknown", "text")
      \/ is("catch-all", "") \/ is("invalid", "does_not_accept_mail")
      \/ is("invalid", "text") \/ is("invalid", "ip_blocked") \/ is("invalid", "grey_listed")
      \/ is("undefined", "undefined")
  BY <1>1 DEF Storable, OfTheAddress, OfAReply, OfARefusal, NoVerdict, Valid, Alias, CatchAll,
              Spamtrap, NoMailbox, Grey, TimedOut, Blocked, Unverified
<1>4. v \in {Unverified, TimedOut, Blocked} <=>
        \/ is("unknown", "unverifiable_email") \/ is("unknown", "smtp_connection_timeout")
        \/ is("service_unavailable", "ip_blocked")
  BY <1>1, <1>2 DEF Unverified, TimedOut, Blocked
<1> DEFINE counter ==
             CASE v.status \in {"valid", "catch-all", "spamtrap", "do_not_mail"} -> v.status
               [] v.status \in {"invalid", "invalid_domain"} -> "invalid"
               [] \/ is("unknown", "unverifiable_email")
                  \/ is("unknown", "smtp_connection_timeout")
                  \/ is("service_unavailable", "ip_blocked") -> "unknown"
               [] OTHER -> "none"
<1>5. CounterOf(v) = counter
  BY <1>4 DEF CounterOf
<1>6. /\ \A file \in {"valid", "catch-all", "spamtrap"} : FileOf(v) = file <=> counter = file
      /\ counter = "do_not_mail" <=>
           FileOf(v) \in {"role_based", "disposable_domain_temporary_email"}
      /\ counter = "unknown" <=>
           /\ FileOf(v) \in {"unverifiable_email", "smtp_connection_timeout", "ip_blocked"}
           /\ v.status # "invalid"
      /\ counter = "invalid" <=>
           \/ FileOf(v) \in {"mailbox_not_found", "does_not_accept_mail"}
           \/ /\ FileOf(v) \in {"ip_blocked", "grey_listed", "combined"}
              /\ v.status = "invalid"
      /\ FileOf(v) \notin {"combined", "grey_listed"} => counter # "none"
  BY <1>3 DEF FileOf, ReasonFiles
<1>7. QED
  BY <1>5, <1>6

\* A row with a file of its own is counted, unless it is grey, in every report.
THEOREM FiledIsCountedCorrect == StoredCsvs => (Spec => []FiledIsCounted)
<1> SUFFICES ASSUME StoredCsvs PROVE Spec => []FiledIsCounted
  OBVIOUS
<1>1. input \in Inputs => FiledIsCounted
  BY RowsAreStorable, FileAndCounter DEF FiledIsCounted
<1>2. QED
  BY <1>1, InputsOnly, PTL

\* In every report each counter counts the rows of its files, and invalid and unknown
\* differ from theirs by the invalid rows that are filed by sub-status or not at all
\* (scheduler.service.ts:218-244, 275-297).
THEOREM CountsCorrect == StoredCsvs => (Spec => []CountersByFile)
<1> SUFFICES ASSUME StoredCsvs PROVE Spec => []CountersByFile
  OBVIOUS
<1>1. input \in Inputs => CountersByFile
  <2> SUFFICES ASSUME input \in Inputs, input.kind = "csv" PROVE CountersByFile
    BY DEF CountersByFile
  <2> DEFINE filed(files) == UNION {CsvRows(Rows, file) : file \in files}
  <2>1. \A files : filed(files) = {i \in DOMAIN Rows : FileOf(Rows[i]) \in files}
    BY DEF CsvRows
  <2>2. \A i \in DOMAIN Rows : Rows[i] \in Storable \union {NoVerdict}
    BY RowsAreStorable
  <2> HIDE DEF filed
  <2>3. \A file \in {"valid", "catch-all", "spamtrap"} :
          Counted(Rows, file) = filed({file})
    BY <2>1, <2>2, FileAndCounter DEF Counted
  <2>4. Counted(Rows, "do_not_mail") =
          filed({"role_based", "disposable_domain_temporary_email"})
    BY <2>1, <2>2, FileAndCounter DEF Counted
  <2>5. Counted(Rows, "unknown") =
          filed({"unverifiable_email", "smtp_connection_timeout", "ip_blocked"})
            \ {i \in DOMAIN Rows : Rows[i].status = "invalid"}
    BY <2>1, <2>2, FileAndCounter DEF Counted
  <2>6. Counted(Rows, "invalid") =
          filed({"mailbox_not_found", "does_not_accept_mail"})
            \union (filed({"ip_blocked", "grey_listed", "combined"})
                      \intersect {i \in DOMAIN Rows : Rows[i].status = "invalid"})
    BY <2>1, <2>2, FileAndCounter DEF Counted
  <2>7. QED
    BY <2>3, <2>4, <2>5, <2>6 DEF CountersByFile, filed
<1>2. QED
  BY <1>1, InputsOnly, PTL

-----------------------------------------------------------------------------
(* Batches *)

\* Division by the size of a batch, for Batches.
LEMMA Quotient ==
  ASSUME NEW n \in Nat, NEW s \in Nat \ {0}
  PROVE  /\ n \div s \in Nat
         /\ (n \div s) * s <= n /\ n < (n \div s + 1) * s
  OBVIOUS

\* Multiplication is monotonic.
LEMMA Multiples ==
  ASSUME NEW a \in Int, NEW b \in Int, NEW s \in Nat \ {0}
  PROVE  /\ a <= b => a * s <= b * s
         /\ (a + 1) * s = a * s + s /\ (a - 1) * s = a * s - s
         /\ a * s < b * s => a < b
  OBVIOUS

\* The batches of a list: how many, how long, and what is in them.
LEMMA BatchShape ==
  ASSUME NEW E, NEW emails \in Seq(E), NEW size \in Nat \ {0}
  PROVE  LET n == Len(emails)
             batches == Batches(size, emails)
             last == Len(batches)
         IN /\ last \in Nat /\ DOMAIN batches = 1..last
            /\ n <= last * size /\ last * size < n + size
            /\ \A b \in 1..last :
                 /\ (b - 1) * size \in 0..(n - 1)
                 /\ b < last => b * size <= n
                 /\ Len(batches[b]) = IF b * size > n THEN n - (b - 1) * size ELSE size
                 /\ DOMAIN batches[b] = 1..Len(batches[b])
                 /\ \A k \in DOMAIN batches[b] :
                      /\ (b - 1) * size + k \in 1..n
                      /\ batches[b][k] = emails[(b - 1) * size + k]
<1> DEFINE n == Len(emails)
           batches == Batches(size, emails)
           last == (n + size - 1) \div size
<1>1. n \in Nat /\ DOMAIN emails = 1..n
  OBVIOUS
<1>2. last \in Nat /\ last * size <= n + size - 1 /\ n + size - 1 < (last + 1) * size
  <2>1. n + size - 1 \in Nat
    BY <1>1
  <2>2. QED
    BY <2>1, Quotient
<1> DEFINE end(b) == IF b * size > n THEN n ELSE b * size
<1>3. batches = [b \in 1..last |-> SubSeq(emails, (b - 1) * size + 1, end(b))]
  BY DEF Batches
<1>4. Len(batches) = last /\ DOMAIN batches = 1..last
  BY <1>2, <1>3
<1>5. n <= last * size /\ last * size < n + size
  BY <1>1, <1>2, Multiples
<1> HIDE DEF last, n
<1>6. ASSUME NEW b \in 1..last
      PROVE  /\ (b - 1) * size \in 0..(n - 1)
             /\ b < last => b * size <= n
             /\ b * size = (b - 1) * size + size
  <2>1. b \in Int /\ b - 1 \in Int /\ last - 1 \in Int /\ last \in Int
    BY <1>2
  <2>2. (b - 1) * size \in Int /\ (last - 1) * size \in Int /\ last * size \in Int
        /\ b * size \in Int
    BY <2>1
  <2>3. (last - 1) * size = last * size - size /\ b * size = (b - 1) * size + size
    BY <2>1, Multiples
  <2>4. 0 <= (b - 1) * size /\ (b - 1) * size <= (last - 1) * size
    BY <2>1, Multiples
  <2>5. b < last => b * size <= (last - 1) * size
    BY <2>1, Multiples
  <2>6. QED
    BY <1>1, <1>5, <2>2, <2>3, <2>4, <2>5
<1>7. ASSUME NEW b \in 1..last
      PROVE  /\ Len(batches[b]) = IF b * size > n THEN n - (b - 1) * size ELSE size
             /\ DOMAIN batches[b] = 1..Len(batches[b])
             /\ \A k \in DOMAIN batches[b] :
                  /\ (b - 1) * size + k \in 1..n
                  /\ batches[b][k] = emails[(b - 1) * size + k]
  <2> DEFINE first == (b - 1) * size + 1
  <2>1. b * size \in Int /\ (b - 1) * size \in Int
    BY <1>2
  <2>2. first \in 1..n /\ end(b) \in first..n
    BY <1>1, <1>6, <2>1
  <2>3. batches[b] = SubSeq(emails, first, end(b))
    BY <1>3
  <2>4. first \in Int /\ end(b) \in Int /\ first <= end(b)
    BY <1>1, <2>2
  <2> HIDE DEF first
  <2>5. /\ Len(batches[b]) = end(b) - first + 1
        /\ DOMAIN batches[b] = 1..(end(b) - first + 1)
        /\ \A k \in 1..(end(b) - first + 1) : batches[b][k] = emails[first + k - 1]
    BY <1>1, <2>2, <2>3, <2>4
  <2>6. \A k \in DOMAIN batches[b] : first + k - 1 \in 1..n
    BY <1>1, <2>2, <2>4, <2>5
  <2>7. Len(batches[b]) = IF b * size > n THEN n - (b - 1) * size ELSE size
    BY <1>1, <1>6, <2>1, <2>5 DEF first
  <2>8. \A k \in DOMAIN batches[b] : first + k - 1 = (b - 1) * size + k
    BY <2>1, <2>5 DEF first
  <2>9. QED
    BY <2>5, <2>6, <2>7, <2>8
<1>8. QED
  BY <1>2, <1>4, <1>5, <1>6, <1>7 DEF n

\* Lists in batches of at least one.
ProperBatches ==
  /\ \A csv \in Csvs : \E S : csv.emails \in Seq(S)
  /\ Sizes \subseteq Nat \ {0}

\* The batches of every list are the list, in order, each email once.
THEOREM BatchesCorrect == ProperBatches => (Spec => []BatchesAreTheFile)
<1> SUFFICES ASSUME ProperBatches PROVE Spec => []BatchesAreTheFile
  OBVIOUS
<1>1. input \in Inputs => BatchesAreTheFile
  <2> SUFFICES ASSUME input \in Inputs, input.kind = "batch" PROVE BatchesAreTheFile
    BY DEF BatchesAreTheFile
  <2> DEFINE size == input.size
             emails == input.emails
             batches == Batches(size, emails)
             n == Len(emails)
             last == Len(batches)
             place(b, k) == (b - 1) * size + k
  <2>1. size \in Nat \ {0} /\ \E S : emails \in Seq(S)
    BY DEF Inputs, ProperBatches
  <2>2. PICK S : emails \in Seq(S)
    BY <2>1
  <2>3. n \in Nat /\ DOMAIN emails = 1..n
    BY <2>2
  <2>4. /\ last \in Nat /\ DOMAIN batches = 1..last
        /\ n <= last * size /\ last * size < n + size
        /\ \A b \in 1..last :
             /\ (b - 1) * size \in 0..(n - 1)
             /\ b < last => b * size <= n
             /\ Len(batches[b]) = IF b * size > n THEN n - (b - 1) * size ELSE size
             /\ DOMAIN batches[b] = 1..Len(batches[b])
             /\ \A k \in DOMAIN batches[b] : /\ place(b, k) \in 1..n
                                             /\ batches[b][k] = emails[place(b, k)]
    BY <2>1, <2>2, BatchShape
  <2> HIDE DEF batches, n, last
  <2>5. ASSUME NEW b \in 1..last
        PROVE  /\ b * size \in Int /\ (b - 1) * size \in Int
               /\ b * size = (b - 1) * size + size
    BY <2>1, <2>4, Multiples
  <2>6. ASSUME NEW b \in 1..last
        PROVE  IF b < last THEN Len(batches[b]) = size ELSE Len(batches[b]) \in 1..size
    <3> DEFINE before == (b - 1) * size
               upto == b * size
    <3>1. before \in 0..(n - 1) /\ upto = before + size /\ (b < last => upto <= n)
      BY <2>4, <2>5
    <3>2. Len(batches[b]) = IF upto > n THEN n - before ELSE size
      BY <2>4
    <3> HIDE DEF before, upto
    <3>3. QED
      BY <2>1, <2>3, <3>1, <3>2
  <2>7. ASSUME NEW i \in 1..n
        PROVE  \E b \in 1..last : \E k \in DOMAIN batches[b] : i = place(b, k)
    <3> DEFINE b == (i - 1) \div size + 1
               before == (b - 1) * size
               k == i - before
    <3>1. b - 1 = (i - 1) \div size /\ b \in Nat \ {0}
      <4>1. i - 1 \in Nat
        BY <2>3
      <4>2. (i - 1) \div size \in Nat
        BY <4>1, <2>1, Quotient
      <4>3. QED
        BY <4>2
    <3>2. before <= i - 1 /\ i - 1 < b * size
      <4>1. i - 1 \in Nat
        BY <2>3
      <4>2. QED
        BY <4>1, <2>1, <3>1, Quotient
    <3> HIDE DEF b
    <3>3. b * size \in Int /\ before \in Int /\ b * size = before + size
      BY <2>1, <3>1, Multiples
    <3>4. last * size \in Int
      BY <2>1, <2>4
    <3>5. b - 1 < last
      <4> HIDE DEF before
      <4>1. before < last * size
        BY <2>3, <2>4, <3>2, <3>3, <3>4
      <4>2. QED
        BY <4>1, <2>1, <2>4, <3>1, Multiples DEF before
    <3>6. b \in 1..last
      BY <2>4, <3>1, <3>5
    <3>7. k \in 1..Len(batches[b])
      <4>1. Len(batches[b]) = IF b * size > n THEN n - before ELSE size
        BY <2>4, <3>6
      <4> DEFINE upto == b * size
      <4>2. upto \in Int /\ upto = before + size /\ i - 1 < upto
        BY <3>2, <3>3
      <4> HIDE DEF before, upto
      <4>3. before \in Int /\ before <= i - 1
        BY <3>2, <3>3 DEF before
      <4>4. Len(batches[b]) = IF upto > n THEN n - before ELSE size
        BY <4>1 DEF upto
      <4>5. QED
        BY <2>1, <2>3, <4>2, <4>3, <4>4
    <3>8. i = place(b, k)
      BY <3>3
    <3>9. k \in DOMAIN batches[b]
      BY <2>4, <3>6, <3>7
    <3>10. QED
      BY <3>6, <3>8, <3>9
  <2>8. QED
    BY <2>3, <2>4, <2>6, <2>7 DEF BatchesAreTheFile, batches, n, last
<1>2. QED
  BY <1>1, InputsOnly, PTL

-----------------------------------------------------------------------------
(* Induction *)

\* A set of numbers that has 0 and the successor of each of its members has them all:
\* if n were missing, adding one would map the members below n one to one into those
\* other than 0.
LEMMA NatInduct ==
  ASSUME NEW L \in SUBSET Nat, 0 \in L, \A k \in L : k + 1 \in L, NEW n \in Nat
  PROVE  n \in L
<1> SUFFICES ASSUME n \notin L PROVE FALSE
  OBVIOUS
<1> DEFINE I == {k \in L : k < n}
           J == I \ {0}
           next == [k \in I |-> k + 1]
<1>1. I \in SUBSET Nat /\ \A k \in I : k <= n
  <2>1. \A k \in I : k \in Nat /\ k <= n
    OBVIOUS
  <2>2. QED
    BY <2>1
<1>2. IsFiniteSet(I)
  BY <1>1, FS_BoundedSetOfNaturals
<1>3. 0 \in I
  OBVIOUS
<1>4. next \in [I -> J]
  <2>1. \A k \in I : k + 1 \in L /\ k + 1 # n /\ k + 1 <= n /\ k + 1 # 0
    OBVIOUS
  <2>2. \A k \in I : k + 1 \in J
    BY <2>1
  <2>3. QED
    BY <2>2
<1>5. /\ IsFiniteSet(J) /\ Cardinality(J) = Cardinality(I) - 1 /\ Cardinality(I) \in Nat
  <2> HIDE DEF I
  <2>1. QED
    BY <1>2, <1>3, FS_RemoveElement, FS_CardinalityType
<1>6. \A x, y \in I : next[x] = next[y] => x = y
  OBVIOUS
<1> HIDE DEF I, J, next
<1>7. Cardinality(J) < Cardinality(I)
  BY <1>5
<1>8. QED
  BY <1>2, <1>4, <1>5, <1>6, <1>7, FS_PigeonHole

\* A set of places in a table that has its first row and column, and each place
\* whose three neighbours before it it has, has them all.
LEMMA GridInduct ==
  ASSUME NEW m \in Nat, NEW n \in Nat, NEW Good,
         \A i \in 0..m : <<i, 0>> \in Good,
         \A j \in 0..n : <<0, j>> \in Good,
         \A i \in 1..m, j \in 1..n :
           /\ <<i - 1, j - 1>> \in Good
           /\ <<i - 1, j>> \in Good
           /\ <<i, j - 1>> \in Good
           => <<i, j>> \in Good
  PROVE  \A i \in 0..m, j \in 0..n : <<i, j>> \in Good
<1> DEFINE L == {k \in Nat : \A i \in 0..m, j \in 0..n : i + j <= k => <<i, j>> \in Good}
<1>1. 0 \in L
  OBVIOUS
<1>2. ASSUME NEW k \in L
      PROVE  k + 1 \in L
  <2> SUFFICES ASSUME NEW i \in 0..m, NEW j \in 0..n, i + j <= k + 1
               PROVE  <<i, j>> \in Good
    OBVIOUS
  <2>1. CASE i = 0 \/ j = 0
    BY <2>1
  <2>2. CASE i # 0 /\ j # 0
    <3>1. i \in 1..m /\ j \in 1..n /\ i - 1 \in 0..m /\ j - 1 \in 0..n
      BY <2>2
    <3>2. \A x \in 0..m, y \in 0..n : x + y <= k => <<x, y>> \in Good
      OBVIOUS
    <3>3. /\ (i - 1) + (j - 1) <= k /\ (i - 1) + j <= k /\ i + (j - 1) <= k
      BY <3>1
    <3>4. QED
      BY <3>1, <3>2, <3>3
  <2>3. QED
    BY <2>1, <2>2
<1>3. ASSUME NEW i \in 0..m, NEW j \in 0..n
      PROVE  <<i, j>> \in Good
  <2>1. i + j \in Nat /\ L \in SUBSET Nat
    OBVIOUS
  <2>2. i + j \in L
    <3> HIDE DEF L
    <3>1. QED
      BY <1>1, <1>2, <2>1, NatInduct
  <2>3. QED
    BY <2>2
<1>4. QED
  BY <1>3

\* Min of a pair.
LEMMA LeastOfTwo ==
  ASSUME NEW x \in Nat, NEW y \in Nat
  PROVE  Min({x, y}) = IF x <= y THEN x ELSE y
<1>1. \E u \in {x, y} : \A v \in {x, y} : u <= v
  OBVIOUS
<1>2. Min({x, y}) \in {x, y} /\ \A v \in {x, y} : Min({x, y}) <= v
  BY <1>1 DEF Min
<1>3. QED
  BY <1>2

\* Min of a triple.
LEMMA LeastOfThree ==
  ASSUME NEW x \in Nat, NEW y \in Nat, NEW z \in Nat
  PROVE  LET least == Min({x, y, z})
         IN least \in {x, y, z} /\ least <= x /\ least <= y /\ least <= z
<1>1. \E u \in {x, y, z} : \A v \in {x, y, z} : u <= v
  OBVIOUS
<1>2. /\ Min({x, y, z}) \in {x, y, z}
      /\ \A v \in {x, y, z} : Min({x, y, z}) <= v
  BY <1>1 DEF Min
<1>3. QED
  BY <1>2

\* A set of numbers up to n that is not empty has a largest one.
LEMMA Largest ==
  ASSUME NEW n \in Nat, NEW S \in SUBSET (0..n), S # {}
  PROVE  Max(S) \in S /\ \A k \in S : k <= Max(S)
<1> DEFINE L == {k \in Nat : \A T \in SUBSET (0..k) :
                               T # {} => \E x \in T : \A y \in T : x >= y}
<1>1. 0 \in L
  <2>1. 0..0 = {0}
    OBVIOUS
  <2>2. \A T \in SUBSET {0} : T # {} => T = {0}
    OBVIOUS
  <2>3. QED
    BY <2>1, <2>2
<1>2. ASSUME NEW k \in L
      PROVE  k + 1 \in L
  <2> SUFFICES ASSUME NEW T \in SUBSET (0..(k + 1)), T # {}
               PROVE  \E x \in T : \A y \in T : x >= y
    OBVIOUS
  <2>1. CASE k + 1 \in T
    BY <2>1
  <2>2. CASE k + 1 \notin T
    <3>1. T \in SUBSET (0..k)
      BY <2>2
    <3>2. QED
      BY <3>1
  <2>3. QED
    BY <2>1, <2>2
<1>3. n \in L
  <2>1. L \in SUBSET Nat
    OBVIOUS
  <2> HIDE DEF L
  <2>2. QED
    BY <1>1, <1>2, <2>1, NatInduct
<1>4. \E x \in S : \A y \in S : x >= y
  BY <1>3
<1>5. Max(S) \in S /\ \A y \in S : Max(S) >= y
  BY <1>4 DEF Max
<1>6. QED
  BY <1>5

-----------------------------------------------------------------------------
(* Tables of edit distances *)

\* The distances of the beginnings of two names, by their lengths.
Solves(d, a, b) ==
  /\ \A i \in 0..Len(a) : d[<<i, 0>>] = i
  /\ \A j \in 0..Len(b) : d[<<0, j>>] = j
  /\ \A i \in 1..Len(a), j \in 1..Len(b) :
       d[<<i, j>>] = IF a[i] = b[j] THEN d[<<i - 1, j - 1>>]
                     ELSE 1 + Min({d[<<i - 1, j>>], d[<<i, j - 1>>], d[<<i - 1, j - 1>>]})
IsEditTable(d, a, b) ==
  /\ \A i \in 0..Len(a), j \in 0..Len(b) : d[<<i, j>>] \in Nat
  /\ Solves(d, a, b)

\* Where a table is even: neighbours differ by one at most.
Even(d, m, n) ==
  {p \in (0..m) \X (0..n) :
     /\ p[1] # 0 => d[p] - d[<<p[1] - 1, p[2]>>] \in -1..1
     /\ p[2] # 0 => d[p] - d[<<p[1], p[2] - 1>>] \in -1..1}

\* The cell of the code is that of the definition.
LEMMA CellIsLeast ==
  ASSUME NEW x \in Nat, NEW y \in Nat, NEW z \in Nat,
         x - y \in -1..1, x - z \in -1..1
  PROVE  Cell(TRUE, x, y, z) = x /\ Cell(FALSE, x, y, z) = 1 + Min({z, y, x})
<1> DEFINE least == Min({z, y, x})
<1>1. least \in {z, y, x} /\ least <= z /\ least <= y /\ least <= x
  BY LeastOfThree
<1> HIDE DEF least
<1>2. Cell(TRUE, x, y, z) = x
  BY DEF Cell
<1>3. Cell(FALSE, x, y, z) = 1 + least
  BY <1>1 DEF Cell
<1>4. QED
  BY <1>2, <1>3 DEF least

\* A cell whose neighbours are even is even with them.
LEMMA EvenStep ==
  ASSUME NEW x \in Nat, NEW y \in Nat, NEW z \in Nat,
         x - y \in -1..1, x - z \in -1..1, NEW same \in BOOLEAN,
         NEW c, c = IF same THEN x ELSE 1 + Min({z, y, x})
  PROVE  c \in Nat /\ c - y \in -1..1 /\ c - z \in -1..1
<1> DEFINE least == Min({z, y, x})
<1>1. least \in {z, y, x} /\ least <= z /\ least <= y /\ least <= x
  BY LeastOfThree
<1> HIDE DEF least
<1>2. c = IF same THEN x ELSE 1 + least
  BY DEF least
<1>3. QED
  BY <1>1, <1>2

\* Every table of edit distances is even.
LEMMA TableIsEven ==
  ASSUME NEW a, NEW b, Len(a) \in Nat, Len(b) \in Nat, NEW d, IsEditTable(d, a, b)
  PROVE  \A i \in 0..Len(a), j \in 0..Len(b) : <<i, j>> \in Even(d, Len(a), Len(b))
<1> DEFINE m == Len(a)
           n == Len(b)
<1>0. m \in Nat /\ n \in Nat /\ 0 \in 0..m /\ 0 \in 0..n
  OBVIOUS
<1>1. ASSUME NEW i \in 0..m PROVE <<i, 0>> \in Even(d, m, n)
  <2>1. d[<<i, 0>>] = i /\ (i # 0 => d[<<i - 1, 0>>] = i - 1)
    BY <1>0 DEF IsEditTable, Solves
  <2>2. QED
    BY <1>0, <2>1 DEF Even
<1>2. ASSUME NEW j \in 0..n PROVE <<0, j>> \in Even(d, m, n)
  <2>1. d[<<0, j>>] = j /\ (j # 0 => d[<<0, j - 1>>] = j - 1)
    BY <1>0 DEF IsEditTable, Solves
  <2>2. QED
    BY <1>0, <2>1 DEF Even
<1>3. ASSUME NEW i \in 1..m, NEW j \in 1..n, <<i - 1, j - 1>> \in Even(d, m, n),
             <<i - 1, j>> \in Even(d, m, n), <<i, j - 1>> \in Even(d, m, n)
      PROVE  <<i, j>> \in Even(d, m, n)
  <2> DEFINE x == d[<<i - 1, j - 1>>]
             y == d[<<i, j - 1>>]
             z == d[<<i - 1, j>>]
  <2>1. i \in 0..m /\ j \in 0..n /\ i - 1 \in 0..m /\ j - 1 \in 0..n /\ i # 0 /\ j # 0
    OBVIOUS
  <2>2. x \in Nat /\ y \in Nat /\ z \in Nat
    BY <2>1 DEF IsEditTable, Solves
  <2>3. z - x \in -1..1 /\ y - x \in -1..1
    BY <1>3, <2>1 DEF Even
  <2>4. d[<<i, j>>] = IF a[i] = b[j] THEN x ELSE 1 + Min({z, y, x})
    BY <2>1 DEF IsEditTable, Solves
  <2> HIDE DEF x, y, z
  <2>5. x - y \in -1..1 /\ x - z \in -1..1
    BY <2>2, <2>3
  <2>6. d[<<i, j>>] - y \in -1..1 /\ d[<<i, j>>] - z \in -1..1
    BY <2>2, <2>4, <2>5, EvenStep
  <2>7. QED
    BY <2>1, <2>6 DEF Even, x, y, z
<1>4. QED
  <2> HIDE DEF m, n
  <2>1. m \in Nat /\ n \in Nat
    BY DEF m, n
  <2> DEFINE Good == Even(d, m, n)
  <2> HIDE DEF Good
  <2>2. \A i \in 0..m, j \in 0..n : <<i, j>> \in Good
    BY <1>1, <1>2, <1>3, <2>1, GridInduct DEF Good
  <2>3. QED
    BY <2>2 DEF Good, m, n

\* There is only one.
LEMMA TableIsUnique ==
  ASSUME NEW a, NEW b, Len(a) \in Nat, Len(b) \in Nat,
         NEW d, NEW e, Solves(d, a, b), Solves(e, a, b)
  PROVE  \A i \in 0..Len(a), j \in 0..Len(b) : d[<<i, j>>] = e[<<i, j>>]
<1> DEFINE m == Len(a)
           n == Len(b)
           Good == {p \in (0..m) \X (0..n) : d[p] = e[p]}
<1>0. m \in Nat /\ n \in Nat /\ 0 \in 0..m /\ 0 \in 0..n
  OBVIOUS
<1>1. ASSUME NEW i \in 0..m PROVE <<i, 0>> \in Good
  <2>1. d[<<i, 0>>] = i /\ e[<<i, 0>>] = i
    BY DEF Solves
  <2>2. QED
    BY <1>0, <2>1
<1>2. ASSUME NEW j \in 0..n PROVE <<0, j>> \in Good
  <2>1. d[<<0, j>>] = j /\ e[<<0, j>>] = j
    BY DEF Solves
  <2>2. QED
    BY <1>0, <2>1
<1>3. ASSUME NEW i \in 1..m, NEW j \in 1..n, <<i - 1, j - 1>> \in Good,
             <<i - 1, j>> \in Good, <<i, j - 1>> \in Good
      PROVE  <<i, j>> \in Good
  <2>1. i \in 0..m /\ j \in 0..n /\ i # 0 /\ j # 0
    OBVIOUS
  <2>2. /\ d[<<i - 1, j - 1>>] = e[<<i - 1, j - 1>>]
        /\ d[<<i - 1, j>>] = e[<<i - 1, j>>] /\ d[<<i, j - 1>>] = e[<<i, j - 1>>]
    BY <1>3
  <2>3. d[<<i, j>>] = e[<<i, j>>]
    <3> DEFINE cell(t) == IF a[i] = b[j] THEN t[<<i - 1, j - 1>>]
                          ELSE 1 + Min({t[<<i - 1, j>>], t[<<i, j - 1>>],
                                        t[<<i - 1, j - 1>>]})
    <3>1. d[<<i, j>>] = cell(d) /\ e[<<i, j>>] = cell(e)
      BY DEF Solves
    <3>2. cell(d) = cell(e)
      BY <2>2
    <3>3. QED
      BY <3>1, <3>2
  <2>4. QED
    BY <2>1, <2>3
<1>4. QED
  <2> HIDE DEF m, n, Good
  <2>1. m \in Nat /\ n \in Nat
    BY DEF m, n
  <2>2. \A i \in 0..m, j \in 0..n : <<i, j>> \in Good
    BY <1>1, <1>2, <1>3, <2>1, GridInduct
  <2>3. QED
    BY <2>2 DEF Good, m, n

-----------------------------------------------------------------------------
(* The table of the code *)

\* The cells of a column are computed in turn.
LEMMA ColumnCells ==
  ASSUME NEW a, Len(a) \in Nat, NEW char, NEW j, NEW array
  PROVE  LET column == Column(a, char, j, array)
         IN /\ column[0] = j
            /\ \A i \in 1..Len(a) :
                 column[i] = Cell(char = a[i], array[i - 1], array[i], column[i - 1])
<1> DEFINE Is(f, n) ==
             f = [i \in 0..n |-> IF i = 0 THEN j
                                ELSE Cell(char = a[i], array[i - 1], array[i], f[i - 1])]
           L == {n \in Nat : \E f : Is(f, n)}
<1>1. 0 \in L
  <2>1. Is([i \in 0..0 |-> j], 0)
    OBVIOUS
  <2>2. QED
    BY <2>1
<1>2. ASSUME NEW n \in L
      PROVE  n + 1 \in L
  <2>1. PICK f : Is(f, n)
    OBVIOUS
  <2> DEFINE g == [i \in 0..(n + 1) |->
                     IF i <= n THEN f[i]
                     ELSE Cell(char = a[i], array[i - 1], array[i], f[i - 1])]
  <2>2. \A i \in 0..n : g[i] = f[i]
    OBVIOUS
  <2>3. \A i \in 0..n :
          f[i] = IF i = 0 THEN j ELSE Cell(char = a[i], array[i - 1], array[i], f[i - 1])
    BY <2>1
  <2>4. \A i \in 0..(n + 1) :
          g[i] = IF i = 0 THEN j ELSE Cell(char = a[i], array[i - 1], array[i], g[i - 1])
    <3> SUFFICES ASSUME NEW i \in 0..(n + 1)
                 PROVE  g[i] = IF i = 0 THEN j
                               ELSE Cell(char = a[i], array[i - 1], array[i], g[i - 1])
      OBVIOUS
    <3>1. CASE i = 0
      BY <2>2, <2>3, <3>1
    <3>2. CASE i \in 1..n
      <4>1. g[i] = f[i] /\ g[i - 1] = f[i - 1] /\ i # 0 /\ i \in 0..n
        BY <2>2, <3>2
      <4> HIDE DEF g
      <4>2. QED
        BY <2>3, <4>1
    <3>3. CASE i = n + 1
      <4>1. g[i] = Cell(char = a[i], array[i - 1], array[i], f[i - 1]) /\ i # 0
        BY <3>3
      <4>2. g[i - 1] = f[i - 1]
        BY <2>2, <3>3
      <4> HIDE DEF g
      <4>3. QED
        BY <4>1, <4>2
    <3>4. QED
      BY <3>1, <3>2, <3>3
  <2>5. g = [i \in 0..(n + 1) |-> g[i]]
    OBVIOUS
  <2> HIDE DEF g
  <2>6. Is(g, n + 1)
    BY <2>4, <2>5
  <2>7. QED
    BY <2>6
<1>3. Len(a) \in L
  <2>1. L \in SUBSET Nat
    OBVIOUS
  <2> HIDE DEF L
  <2>2. QED
    BY <1>1, <1>2, <2>1, NatInduct
<1>4. Is(Column(a, char, j, array), Len(a))
  <2>1. \E f : Is(f, Len(a))
    BY <1>3
  <2>2. QED
    BY <2>1 DEF Column
<1> DEFINE column == Column(a, char, j, array)
<1> HIDE DEF column
<1>5. Is(column, Len(a))
  BY <1>4 DEF column
<1>6. column[0] = j /\ \A i \in 1..Len(a) :
        column[i] = Cell(char = a[i], array[i - 1], array[i], column[i - 1])
  BY <1>5
<1>7. QED
  BY <1>6 DEF column

\* The columns are computed in turn.
LEMMA ColumnsInTurn ==
  ASSUME NEW a, NEW b, Len(a) \in Nat, Len(b) \in Nat
  PROVE  /\ Columns(a, b)[0] = [i \in 0..Len(a) |-> i]
         /\ \A j \in 1..Len(b) :
              Columns(a, b)[j] = Column(a, b[j], j, Columns(a, b)[j - 1])
<1> DEFINE Is(f, n) ==
             f = [j \in 0..n |-> IF j = 0 THEN [i \in 0..Len(a) |-> i]
                                ELSE Column(a, b[j], j, f[j - 1])]
           L == {n \in Nat : \E f : Is(f, n)}
<1>1. 0 \in L
  <2>1. Is([j \in 0..0 |-> [i \in 0..Len(a) |-> i]], 0)
    OBVIOUS
  <2>2. QED
    BY <2>1
<1>2. ASSUME NEW n \in L
      PROVE  n + 1 \in L
  <2>1. PICK f : Is(f, n)
    OBVIOUS
  <2> DEFINE g == [j \in 0..(n + 1) |->
                     IF j <= n THEN f[j] ELSE Column(a, b[j], j, f[j - 1])]
  <2>2. \A j \in 0..n : g[j] = f[j]
    OBVIOUS
  <2>3. \A j \in 0..n : f[j] = IF j = 0 THEN [i \in 0..Len(a) |-> i]
                               ELSE Column(a, b[j], j, f[j - 1])
    BY <2>1
  <2>4. \A j \in 0..(n + 1) : g[j] = IF j = 0 THEN [i \in 0..Len(a) |-> i]
                                     ELSE Column(a, b[j], j, g[j - 1])
    <3> SUFFICES ASSUME NEW j \in 0..(n + 1)
                 PROVE  g[j] = IF j = 0 THEN [i \in 0..Len(a) |-> i]
                               ELSE Column(a, b[j], j, g[j - 1])
      OBVIOUS
    <3>1. CASE j = 0
      BY <2>2, <2>3, <3>1
    <3>2. CASE j \in 1..n
      <4>1. g[j] = f[j] /\ g[j - 1] = f[j - 1] /\ j # 0 /\ j \in 0..n
        BY <2>2, <3>2
      <4> HIDE DEF g
      <4>2. QED
        BY <2>3, <4>1
    <3>3. CASE j = n + 1
      <4>1. g[j] = Column(a, b[j], j, f[j - 1]) /\ j # 0
        BY <3>3
      <4>2. g[j - 1] = f[j - 1]
        BY <2>2, <3>3
      <4> HIDE DEF g
      <4>3. QED
        BY <4>1, <4>2
    <3>4. QED
      BY <3>1, <3>2, <3>3
  <2>5. g = [j \in 0..(n + 1) |-> g[j]]
    OBVIOUS
  <2> HIDE DEF g
  <2>6. Is(g, n + 1)
    BY <2>4, <2>5
  <2>7. QED
    BY <2>6
<1>3. Len(b) \in L
  <2>1. L \in SUBSET Nat
    OBVIOUS
  <2> HIDE DEF L
  <2>2. QED
    BY <1>1, <1>2, <2>1, NatInduct
<1>4. Is(Columns(a, b), Len(b))
  <2>1. \E f : Is(f, Len(b))
    BY <1>3
  <2>2. QED
    BY <2>1 DEF Columns
<1> DEFINE columns == Columns(a, b)
<1> HIDE DEF columns
<1>5. Is(columns, Len(b))
  BY <1>4 DEF columns
<1>6. /\ columns[0] = [i \in 0..Len(a) |-> i]
      /\ \A j \in 1..Len(b) : columns[j] = Column(a, b[j], j, columns[j - 1])
  <2>1. \A j \in 0..Len(b) : columns[j] = IF j = 0 THEN [i \in 0..Len(a) |-> i]
                                           ELSE Column(a, b[j], j, columns[j - 1])
    BY <1>5
  <2>2. 0 \in 0..Len(b) /\ \A j \in 1..Len(b) : j # 0 /\ j \in 0..Len(b)
    OBVIOUS
  <2>3. QED
    BY <2>1, <2>2
<1>7. QED
  BY <1>6 DEF columns

CodeTable(a, b) ==
  [p \in (0..Len(a)) \X (0..Len(b)) |-> Columns(a, b)[p[2]][p[1]]]

\* The table of the code, cell by cell.
LEMMA CodeCells ==
  ASSUME NEW a, NEW b, Len(a) \in Nat, Len(b) \in Nat
  PROVE  LET c == CodeTable(a, b)
         IN /\ \A i \in 0..Len(a) : c[<<i, 0>>] = i
            /\ \A j \in 0..Len(b) : c[<<0, j>>] = j
            /\ \A i \in 1..Len(a), j \in 1..Len(b) :
                 c[<<i, j>>] = Cell(b[j] = a[i], c[<<i - 1, j - 1>>],
                                    c[<<i, j - 1>>], c[<<i - 1, j>>])
<1> DEFINE m == Len(a)
           n == Len(b)
           c == CodeTable(a, b)
           columns == Columns(a, b)
<1>1. m \in Nat /\ n \in Nat /\ 0 \in 0..m /\ 0 \in 0..n
  OBVIOUS
<1>2. \A i \in 0..m, j \in 0..n : c[<<i, j>>] = columns[j][i]
  BY DEF CodeTable
<1>3. /\ columns[0] = [i \in 0..m |-> i]
      /\ \A j \in 1..n : columns[j] = Column(a, b[j], j, columns[j - 1])
  BY ColumnsInTurn
<1>4. ASSUME NEW j \in 1..n
      PROVE  /\ columns[j][0] = j
             /\ \A i \in 1..m :
                  columns[j][i] = Cell(b[j] = a[i], columns[j - 1][i - 1],
                                       columns[j - 1][i], columns[j][i - 1])
  <2>1. columns[j] = Column(a, b[j], j, columns[j - 1])
    BY <1>3
  <2> HIDE DEF columns
  <2>2. QED
    BY <2>1, ColumnCells
<1> HIDE DEF c, columns
<1>5. \A i \in 0..m : c[<<i, 0>>] = i
  BY <1>1, <1>2, <1>3
<1>6. ASSUME NEW j \in 0..n PROVE c[<<0, j>>] = j
  <2>1. CASE j = 0
    BY <1>1, <1>5, <2>1
  <2>2. CASE j \in 1..n
    BY <1>1, <1>2, <1>4, <2>2
  <2>3. QED
    BY <1>1, <2>1, <2>2
<1>7. ASSUME NEW i \in 1..m, NEW j \in 1..n
      PROVE  c[<<i, j>>] = Cell(b[j] = a[i], c[<<i - 1, j - 1>>], c[<<i, j - 1>>],
                                c[<<i - 1, j>>])
  <2>1. i \in 0..m /\ j \in 0..n /\ i - 1 \in 0..m /\ j - 1 \in 0..n
    BY <1>1
  <2>2. /\ c[<<i, j>>] = columns[j][i] /\ c[<<i - 1, j - 1>>] = columns[j - 1][i - 1]
        /\ c[<<i, j - 1>>] = columns[j - 1][i] /\ c[<<i - 1, j>>] = columns[j][i - 1]
    BY <1>2, <2>1
  <2>3. QED
    BY <1>4, <2>2
<1>8. QED
  BY <1>5, <1>6, <1>7 DEF c

\* The code computes a table of edit distances: a cell may look at its neighbours one
\* after the other, because they differ by one at most.
LEMMA CodeIsTable ==
  ASSUME NEW a, NEW b, Len(a) \in Nat, Len(b) \in Nat
  PROVE  IsEditTable(CodeTable(a, b), a, b)
<1> DEFINE m == Len(a)
           n == Len(b)
           c == CodeTable(a, b)
           cell(i, j) == IF a[i] = b[j] THEN c[<<i - 1, j - 1>>]
                         ELSE 1 + Min({c[<<i - 1, j>>], c[<<i, j - 1>>],
                                       c[<<i - 1, j - 1>>]})
           Good == {p \in Even(c, m, n) :
                      /\ c[p] \in Nat
                      /\ p[1] # 0 /\ p[2] # 0 => c[p] = cell(p[1], p[2])}
<1>0. m \in Nat /\ n \in Nat /\ 0 \in 0..m /\ 0 \in 0..n
  OBVIOUS
<1>1. /\ \A i \in 0..m : c[<<i, 0>>] = i
      /\ \A j \in 0..n : c[<<0, j>>] = j
      /\ \A i \in 1..m, j \in 1..n :
           c[<<i, j>>] = Cell(b[j] = a[i], c[<<i - 1, j - 1>>], c[<<i, j - 1>>],
                              c[<<i - 1, j>>])
  BY CodeCells
<1> HIDE DEF c
<1>2. ASSUME NEW i \in 0..m PROVE <<i, 0>> \in Good
  <2>1. c[<<i, 0>>] = i /\ (i # 0 => c[<<i - 1, 0>>] = i - 1)
    BY <1>0, <1>1
  <2>2. <<i, 0>> \in Even(c, m, n)
    BY <1>0, <2>1 DEF Even
  <2>3. QED
    BY <2>1, <2>2
<1>3. ASSUME NEW j \in 0..n PROVE <<0, j>> \in Good
  <2>1. c[<<0, j>>] = j /\ (j # 0 => c[<<0, j - 1>>] = j - 1)
    BY <1>0, <1>1
  <2>2. <<0, j>> \in Even(c, m, n)
    BY <1>0, <2>1 DEF Even
  <2>3. QED
    BY <2>1, <2>2
<1>4. ASSUME NEW i \in 1..m, NEW j \in 1..n, <<i - 1, j - 1>> \in Good,
             <<i - 1, j>> \in Good, <<i, j - 1>> \in Good
      PROVE  <<i, j>> \in Good
  <2> DEFINE x == c[<<i - 1, j - 1>>]
             y == c[<<i, j - 1>>]
             z == c[<<i - 1, j>>]
             same == a[i] = b[j]
  <2>1. i \in 0..m /\ j \in 0..n /\ i - 1 \in 0..m /\ j - 1 \in 0..n /\ i # 0 /\ j # 0
    BY <1>0
  <2>2. x \in Nat /\ y \in Nat /\ z \in Nat
    BY <1>4
  <2>3. z - x \in -1..1 /\ y - x \in -1..1
    BY <1>4, <2>1 DEF Even
  <2>4. c[<<i, j>>] = Cell(same, x, y, z)
    <3>1. (b[j] = a[i]) = same
      OBVIOUS
    <3>2. QED
      BY <1>1, <3>1
  <2>5. same \in BOOLEAN
    OBVIOUS
  <2>6. cell(i, j) = IF same THEN x ELSE 1 + Min({z, y, x})
    OBVIOUS
  <2> HIDE DEF x, y, z, same, cell
  <2>7. x - y \in -1..1 /\ x - z \in -1..1
    BY <2>2, <2>3
  <2>8. c[<<i, j>>] = cell(i, j)
    <3>1. Cell(TRUE, x, y, z) = x /\ Cell(FALSE, x, y, z) = 1 + Min({z, y, x})
      BY <2>2, <2>7, CellIsLeast
    <3>2. CASE same = TRUE
      BY <2>4, <2>6, <3>1, <3>2
    <3>3. CASE same = FALSE
      BY <2>4, <2>6, <3>1, <3>3
    <3>4. QED
      BY <2>5, <3>2, <3>3
  <2>9. /\ c[<<i, j>>] \in Nat
        /\ c[<<i, j>>] - y \in -1..1 /\ c[<<i, j>>] - z \in -1..1
    BY <2>2, <2>5, <2>6, <2>7, <2>8, EvenStep
  <2>10. <<i, j>> \in Even(c, m, n)
    BY <2>1, <2>9 DEF Even, x, y, z
  <2>11. QED
    BY <2>8, <2>9, <2>10
<1>5. \A i \in 0..m, j \in 0..n : <<i, j>> \in Good
  <2> HIDE DEF m, n, Good
  <2>1. QED
    BY <1>0, <1>2, <1>3, <1>4, GridInduct
<1>6. \A i \in 0..m, j \in 0..n : c[<<i, j>>] \in Nat
  BY <1>5
<1>7. ASSUME NEW i \in 1..m, NEW j \in 1..n PROVE c[<<i, j>>] = cell(i, j)
  <2>1. i \in 0..m /\ j \in 0..n /\ i # 0 /\ j # 0
    BY <1>0
  <2> HIDE DEF cell
  <2>2. QED
    BY <1>5, <2>1
<1>8. QED
  BY <1>1, <1>6, <1>7 DEF IsEditTable, Solves, c

\* So there is a table of edit distances, and the definition describes it.
LEMMA TableExists ==
  ASSUME NEW a, NEW b, Len(a) \in Nat, Len(b) \in Nat
  PROVE  /\ IsEditTable(EditTable(a, b), a, b)
         /\ \A i \in 0..Len(a), j \in 0..Len(b) :
              Columns(a, b)[j][i] = EditTable(a, b)[<<i, j>>]
<1> DEFINE m == Len(a)
           n == Len(b)
           code == CodeTable(a, b)
           lev == EditTable(a, b)
           Is(d) == d = [p \in (0..m) \X (0..n) |->
                           LET i == p[1]  j == p[2] IN
                           IF i = 0 \/ j = 0 THEN i + j
                           ELSE IF a[i] = b[j] THEN d[<<i - 1, j - 1>>]
                           ELSE 1 + Min({d[<<i - 1, j>>], d[<<i, j - 1>>],
                                         d[<<i - 1, j - 1>>]})]
<1>0. m \in Nat /\ n \in Nat /\ 0 \in 0..m /\ 0 \in 0..n
  OBVIOUS
<1>1. IsEditTable(code, a, b)
  BY CodeIsTable
<1>2. Is(code)
  <2> DEFINE cell(i, j) == IF i = 0 \/ j = 0 THEN i + j
                           ELSE IF a[i] = b[j] THEN code[<<i - 1, j - 1>>]
                           ELSE 1 + Min({code[<<i - 1, j>>], code[<<i, j - 1>>],
                                         code[<<i - 1, j - 1>>]})
  <2>1. code = [p \in (0..m) \X (0..n) |-> code[p]]
    BY DEF CodeTable
  <2> HIDE DEF code
  <2>2. ASSUME NEW i \in 0..m, NEW j \in 0..n PROVE code[<<i, j>>] = cell(i, j)
    <3>1. CASE i = 0
      BY <1>1, <3>1 DEF IsEditTable, Solves
    <3>2. CASE j = 0
      BY <1>1, <3>2 DEF IsEditTable, Solves
    <3>3. CASE i # 0 /\ j # 0
      <4>1. i \in 1..m /\ j \in 1..n
        BY <1>0, <3>3
      <4>2. QED
        BY <1>1, <3>3, <4>1 DEF IsEditTable, Solves
    <3>4. QED
      BY <3>1, <3>2, <3>3
  <2> HIDE DEF cell
  <2>3. \A p \in (0..m) \X (0..n) : code[p] = cell(p[1], p[2])
    BY <2>2
  <2>4. code = [p \in (0..m) \X (0..n) |-> cell(p[1], p[2])]
    BY <2>1, <2>3
  <2>5. QED
    BY <2>4 DEF cell
<1>3. Is(lev)
  <2>1. \E d : Is(d)
    BY <1>2
  <2>2. QED
    BY <2>1 DEF EditTable
<1> HIDE DEF code, lev
<1>4. ASSUME NEW i \in 0..m, NEW j \in 0..n
      PROVE  /\ i = 0 \/ j = 0 => lev[<<i, j>>] = i + j
             /\ i # 0 /\ j # 0 =>
                  lev[<<i, j>>] = IF a[i] = b[j] THEN lev[<<i - 1, j - 1>>]
                                ELSE 1 + Min({lev[<<i - 1, j>>], lev[<<i, j - 1>>],
                                              lev[<<i - 1, j - 1>>]})
  BY <1>3
<1>5. Solves(lev, a, b)
  <2>0. \A i \in 0..m, j \in 0..n : i = 0 \/ j = 0 => lev[<<i, j>>] = i + j
    BY <1>4
  <2>1. ASSUME NEW i \in 0..m PROVE lev[<<i, 0>>] = i
    BY <1>0, <2>0
  <2>2. ASSUME NEW j \in 0..n PROVE lev[<<0, j>>] = j
    BY <1>0, <2>0
  <2>3. ASSUME NEW i \in 1..m, NEW j \in 1..n
        PROVE  lev[<<i, j>>] = IF a[i] = b[j] THEN lev[<<i - 1, j - 1>>]
                             ELSE 1 + Min({lev[<<i - 1, j>>], lev[<<i, j - 1>>],
                                           lev[<<i - 1, j - 1>>]})
    <3>1. i \in 0..m /\ j \in 0..n /\ i # 0 /\ j # 0
      BY <1>0
    <3>2. QED
      BY <1>4, <3>1
  <2>4. QED
    BY <2>1, <2>2, <2>3 DEF Solves
<1>6. \A i \in 0..m, j \in 0..n : lev[<<i, j>>] = code[<<i, j>>]
  <2>1. Solves(code, a, b)
    BY <1>1 DEF IsEditTable
  <2>2. QED
    <3>1. Len(a) \in Nat /\ Len(b) \in Nat
      BY <1>0
    <3>2. ASSUME NEW i \in 0..Len(a), NEW j \in 0..Len(b)
          PROVE  lev[<<i, j>>] = code[<<i, j>>]
      BY <1>5, <2>1, <3>1, TableIsUnique
    <3>3. QED
      BY <3>2
<1>7. IsEditTable(lev, a, b)
  BY <1>1, <1>5, <1>6 DEF IsEditTable
<1>8. \A i \in 0..m, j \in 0..n : Columns(a, b)[j][i] = code[<<i, j>>]
  BY DEF code, CodeTable
<1>9. QED
  BY <1>6, <1>7, <1>8 DEF lev

\* The table of the code is that of the definition.
LEMMA DistanceIsTable ==
  ASSUME NEW a, NEW b, Len(a) \in Nat, Len(b) \in Nat
  PROVE  Distance(a, b) = EditDistance(a, b)
<1>1. Len(a) \in 0..Len(a) /\ Len(b) \in 0..Len(b)
  OBVIOUS
<1>2. QED
  BY <1>1, TableExists DEF Distance, EditDistance

-----------------------------------------------------------------------------
(* What names share *)

\* It does not matter which name comes first.
LEMMA EitherWay ==
  ASSUME NEW a, NEW b, Len(a) \in Nat, Len(b) \in Nat
  PROVE  EditDistance(a, b) = EditDistance(b, a)
<1> DEFINE m == Len(a)
           n == Len(b)
           e == EditTable(b, a)
           d == [p \in (0..m) \X (0..n) |-> e[<<p[2], p[1]>>]]
<1>0. m \in Nat /\ n \in Nat /\ 0 \in 0..m /\ 0 \in 0..n
  OBVIOUS
<1>1. Solves(e, b, a)
  BY TableExists DEF IsEditTable
<1> HIDE DEF e
<1>2. \A i \in 0..m, j \in 0..n : d[<<i, j>>] = e[<<j, i>>]
  OBVIOUS
<1> HIDE DEF d
<1>3. Solves(d, a, b)
  <2>1. ASSUME NEW i \in 0..m PROVE d[<<i, 0>>] = i
    BY <1>0, <1>1, <1>2 DEF Solves
  <2>2. ASSUME NEW j \in 0..n PROVE d[<<0, j>>] = j
    BY <1>0, <1>1, <1>2 DEF Solves
  <2>3. ASSUME NEW i \in 1..m, NEW j \in 1..n
        PROVE  d[<<i, j>>] = IF a[i] = b[j] THEN d[<<i - 1, j - 1>>]
                             ELSE 1 + Min({d[<<i - 1, j>>], d[<<i, j - 1>>],
                                           d[<<i - 1, j - 1>>]})
    <3>1. i \in 0..m /\ j \in 0..n /\ i - 1 \in 0..m /\ j - 1 \in 0..n
      BY <1>0
    <3>2. /\ d[<<i, j>>] = e[<<j, i>>] /\ d[<<i - 1, j - 1>>] = e[<<j - 1, i - 1>>]
          /\ d[<<i - 1, j>>] = e[<<j, i - 1>>] /\ d[<<i, j - 1>>] = e[<<j - 1, i>>]
      BY <1>2, <3>1
    <3>3. {d[<<i - 1, j>>], d[<<i, j - 1>>], d[<<i - 1, j - 1>>]} =
            {e[<<j - 1, i>>], e[<<j, i - 1>>], e[<<j - 1, i - 1>>]}
      BY <3>2
    <3>4. e[<<j, i>>] = IF b[j] = a[i] THEN e[<<j - 1, i - 1>>]
                        ELSE 1 + Min({e[<<j - 1, i>>], e[<<j, i - 1>>],
                                      e[<<j - 1, i - 1>>]})
      BY <1>1 DEF Solves
    <3>5. QED
      BY <3>2, <3>3, <3>4
  <2>4. QED
    BY <2>1, <2>2, <2>3 DEF Solves
<1>4. Solves(EditTable(a, b), a, b)
  BY TableExists DEF IsEditTable
<1>5. m \in 0..m /\ n \in 0..n
  BY <1>0
<1>6. d[<<m, n>>] = EditTable(a, b)[<<m, n>>]
  BY <1>0, <1>3, <1>4, <1>5, TableIsUnique
<1>7. QED
  BY <1>2, <1>5, <1>6 DEF EditDistance, e

\* What two names end with is of no account.
LEMMA EndsDoNotCount ==
  ASSUME NEW a, NEW b, Len(a) \in Nat, Len(b) \in Nat, NEW s \in Nat,
         s <= Len(a), s <= Len(b),
         \A i \in 0..(s - 1) : a[Len(a) - i] = b[Len(b) - i]
  PROVE  EditDistance(a, b) = EditTable(a, b)[<<Len(a) - s, Len(b) - s>>]
<1> DEFINE m == Len(a)
           n == Len(b)
           e == EditTable(a, b)
           L == {k \in Nat : k <= s => e[<<m - k, n - k>>] = e[<<m, n>>]}
<1>0. m \in Nat /\ n \in Nat
  OBVIOUS
<1>1. Solves(e, a, b)
  BY TableExists DEF IsEditTable
<1> HIDE DEF e
<1>2. 0 \in L
  BY <1>0
<1>3. ASSUME NEW k \in L PROVE k + 1 \in L
  <2> SUFFICES ASSUME k + 1 <= s PROVE e[<<m - (k + 1), n - (k + 1)>>] = e[<<m, n>>]
    OBVIOUS
  <2>1. m - k \in 1..m /\ n - k \in 1..n /\ k \in 0..(s - 1)
    BY <1>0
  <2>2. a[m - k] = b[n - k]
    BY <2>1
  <2>3. e[<<m - k, n - k>>] = e[<<(m - k) - 1, (n - k) - 1>>]
    BY <1>1, <2>1, <2>2 DEF Solves
  <2>4. (m - k) - 1 = m - (k + 1) /\ (n - k) - 1 = n - (k + 1)
    BY <1>0
  <2>5. e[<<m - k, n - k>>] = e[<<m, n>>]
    BY <2>1
  <2>6. QED
    BY <2>3, <2>4, <2>5
<1>4. s \in L
  <2>1. L \in SUBSET Nat
    OBVIOUS
  <2> HIDE DEF L
  <2>2. QED
    BY <1>2, <1>3, <2>1, NatInduct
<1>5. QED
  BY <1>4 DEF EditDistance, e

\* The distance of two names is at least the difference of their lengths.
LEMMA AtLeastTheLengths ==
  ASSUME NEW a, NEW b, Len(a) \in Nat, Len(b) \in Nat, NEW d, IsEditTable(d, a, b)
  PROVE  \A i \in 0..Len(a), j \in 0..Len(b) :
           d[<<i, j>>] \in Nat /\ d[<<i, j>>] >= i - j /\ d[<<i, j>>] >= j - i
<1> DEFINE m == Len(a)
           n == Len(b)
           Good == {p \in (0..m) \X (0..n) :
                      d[p] \in Nat /\ d[p] >= p[1] - p[2] /\ d[p] >= p[2] - p[1]}
<1>0. m \in Nat /\ n \in Nat /\ 0 \in 0..m /\ 0 \in 0..n
  OBVIOUS
<1>1. ASSUME NEW i \in 0..m PROVE <<i, 0>> \in Good
  <2>1. d[<<i, 0>>] = i
    BY DEF IsEditTable, Solves
  <2>2. QED
    BY <1>0, <2>1
<1>2. ASSUME NEW j \in 0..n PROVE <<0, j>> \in Good
  <2>1. d[<<0, j>>] = j
    BY DEF IsEditTable, Solves
  <2>2. QED
    BY <1>0, <2>1
<1>3. ASSUME NEW i \in 1..m, NEW j \in 1..n, <<i - 1, j - 1>> \in Good,
             <<i - 1, j>> \in Good, <<i, j - 1>> \in Good
      PROVE  <<i, j>> \in Good
  <2> DEFINE x == d[<<i - 1, j - 1>>]
             y == d[<<i, j - 1>>]
             z == d[<<i - 1, j>>]
             least == Min({z, y, x})
  <2>1. /\ x \in Nat /\ x >= i - j /\ x >= j - i
        /\ y \in Nat /\ y >= i - (j - 1) /\ y >= (j - 1) - i
        /\ z \in Nat /\ z >= (i - 1) - j /\ z >= j - (i - 1)
    BY <1>3
  <2>2. d[<<i, j>>] = IF a[i] = b[j] THEN x ELSE 1 + least
    BY DEF IsEditTable, Solves
  <2> HIDE DEF x, y, z
  <2>3. least \in {z, y, x}
    BY <2>1, LeastOfThree
  <2> HIDE DEF least
  <2>4. d[<<i, j>>] \in Nat /\ d[<<i, j>>] >= i - j /\ d[<<i, j>>] >= j - i
    BY <1>0, <2>1, <2>2, <2>3
  <2>5. i \in 0..m /\ j \in 0..n
    BY <1>0
  <2>6. QED
    BY <2>4, <2>5
<1>4. \A i \in 0..m, j \in 0..n : <<i, j>> \in Good
  <2> HIDE DEF m, n, Good
  <2>1. QED
    BY <1>0, <1>1, <1>2, <1>3, GridInduct
<1>5. QED
  BY <1>4

\* After a shared beginning, only the rest of one name has to be added to get the other.
LEMMA AfterShared ==
  ASSUME NEW a, NEW b, Len(a) \in Nat, Len(b) \in Nat, NEW d, IsEditTable(d, a, b),
         NEW p \in Nat, p <= Len(a), p <= Len(b), \A k \in 1..p : a[k] = b[k]
  PROVE  /\ \A i \in 0..(Len(a) - p) : d[<<p + i, p>>] = i
         /\ \A j \in 0..(Len(b) - p) : d[<<p, p + j>>] = j
<1> DEFINE m == Len(a)
           n == Len(b)
           D == {k \in Nat : k <= p => d[<<k, k>>] = 0}
           I == {k \in Nat : p + k <= m => d[<<p + k, p>>] <= k}
           J == {k \in Nat : p + k <= n => d[<<p, p + k>>] <= k}
<1>0. m \in Nat /\ n \in Nat /\ 0 \in 0..m /\ 0 \in 0..n
  OBVIOUS
<1>1. p \in D
  <2>1. 0 \in D
    BY <1>0 DEF IsEditTable, Solves
  <2>2. ASSUME NEW k \in D PROVE k + 1 \in D
    <3> SUFFICES ASSUME k + 1 <= p PROVE d[<<k + 1, k + 1>>] = 0
      OBVIOUS
    <3>1. k + 1 \in 1..m /\ k + 1 \in 1..n /\ k + 1 \in 1..p /\ (k + 1) - 1 = k
      BY <1>0
    <3>2. d[<<k + 1, k + 1>>] = d[<<(k + 1) - 1, (k + 1) - 1>>]
      BY <3>1 DEF IsEditTable, Solves
    <3>3. d[<<k, k>>] = 0
      BY <3>1
    <3>4. QED
      BY <3>1, <3>2, <3>3
  <2>3. D \in SUBSET Nat
    OBVIOUS
  <2> HIDE DEF D
  <2>4. QED
    BY <2>1, <2>2, <2>3, NatInduct
<1>2. d[<<p, p>>] = 0
  BY <1>1
<1>3. ASSUME NEW k \in Nat PROVE k \in I
  <2>1. 0 \in I
    BY <1>2
  <2>2. ASSUME NEW l \in I PROVE l + 1 \in I
    <3> SUFFICES ASSUME p + (l + 1) <= m PROVE d[<<p + (l + 1), p>>] <= l + 1
      OBVIOUS
    <3>1. p + (l + 1) \in 0..m /\ p + l \in 0..m /\ p \in 0..n /\ p + (l + 1) # 0
          /\ (p + (l + 1)) - 1 = p + l
      BY <1>0
    <3>2. d[<<p + (l + 1), p>>] \in Nat /\ d[<<p + l, p>>] \in Nat
      BY <3>1 DEF IsEditTable
    <3>3. <<p + (l + 1), p>> \in Even(d, m, n)
      BY <3>1, TableIsEven
    <3>4. d[<<p + (l + 1), p>>] - d[<<p + l, p>>] \in -1..1
      BY <3>1, <3>3 DEF Even
    <3>5. d[<<p + l, p>>] <= l
      BY <3>1
    <3>6. QED
      BY <3>2, <3>4, <3>5
  <2>3. I \in SUBSET Nat
    OBVIOUS
  <2> HIDE DEF I
  <2>4. QED
    BY <2>1, <2>2, <2>3, NatInduct
<1>4. ASSUME NEW k \in Nat PROVE k \in J
  <2>1. 0 \in J
    BY <1>2
  <2>2. ASSUME NEW l \in J PROVE l + 1 \in J
    <3> SUFFICES ASSUME p + (l + 1) <= n PROVE d[<<p, p + (l + 1)>>] <= l + 1
      OBVIOUS
    <3>1. p + (l + 1) \in 0..n /\ p + l \in 0..n /\ p \in 0..m /\ p + (l + 1) # 0
          /\ (p + (l + 1)) - 1 = p + l
      BY <1>0
    <3>2. d[<<p, p + (l + 1)>>] \in Nat /\ d[<<p, p + l>>] \in Nat
      BY <3>1 DEF IsEditTable
    <3>3. <<p, p + (l + 1)>> \in Even(d, m, n)
      BY <3>1, TableIsEven
    <3>4. d[<<p, p + (l + 1)>>] - d[<<p, p + l>>] \in -1..1
      BY <3>1, <3>3 DEF Even
    <3>5. d[<<p, p + l>>] <= l
      BY <3>1
    <3>6. QED
      BY <3>2, <3>4, <3>5
  <2>3. J \in SUBSET Nat
    OBVIOUS
  <2> HIDE DEF J
  <2>4. QED
    BY <2>1, <2>2, <2>3, NatInduct
<1>5. ASSUME NEW i \in 0..(m - p) PROVE d[<<p + i, p>>] = i
  <2>1. p + i \in 0..m /\ p \in 0..n /\ i \in Nat
    BY <1>0
  <2>2. d[<<p + i, p>>] \in Nat /\ d[<<p + i, p>>] >= (p + i) - p
    BY <2>1, AtLeastTheLengths
  <2>3. d[<<p + i, p>>] <= i
    BY <1>3, <2>1
  <2>4. QED
    BY <2>1, <2>2, <2>3
<1>6. ASSUME NEW j \in 0..(n - p) PROVE d[<<p, p + j>>] = j
  <2>1. p + j \in 0..n /\ p \in 0..m /\ j \in Nat
    BY <1>0
  <2>2. d[<<p, p + j>>] \in Nat /\ d[<<p, p + j>>] >= (p + j) - p
    BY <2>1, AtLeastTheLengths
  <2>3. d[<<p, p + j>>] <= j
    BY <1>4, <2>1
  <2>4. QED
    BY <2>1, <2>2, <2>3
<1>7. QED
  BY <1>5, <1>6

\* u is a part of a: the one that begins after place p.
PartAt(u, a, p) ==
  Len(u) \in Nat /\ p + Len(u) <= Len(a) /\ \A k \in 1..Len(u) : u[k] = a[p + k]

Begin(a, b, p) == \A k \in 1..p : a[k] = b[k]

\* The table of what follows a shared beginning is a part of the whole one.
LEMMA Inside ==
  ASSUME NEW a, NEW b, Len(a) \in Nat, Len(b) \in Nat, NEW p \in Nat, Begin(a, b, p),
         NEW u, NEW v, PartAt(u, a, p), PartAt(v, b, p)
  PROVE  EditDistance(u, v) = EditTable(a, b)[<<p + Len(u), p + Len(v)>>]
<1> USE DEF PartAt, Begin
<1> DEFINE m == Len(u)
           n == Len(v)
           e == EditTable(a, b)
           d == [q \in (0..m) \X (0..n) |-> e[<<p + q[1], p + q[2]>>]]
<1>0. /\ m \in Nat /\ n \in Nat /\ 0 \in 0..m /\ 0 \in 0..n /\ m \in 0..m /\ n \in 0..n
      /\ p <= Len(a) /\ p <= Len(b)
  OBVIOUS
<1>1. IsEditTable(e, a, b)
  BY TableExists
<1>2. Solves(e, a, b)
  BY <1>1 DEF IsEditTable
<1> HIDE DEF e
<1>3. \A i \in 0..m, j \in 0..n : d[<<i, j>>] = e[<<p + i, p + j>>]
  OBVIOUS
<1> HIDE DEF d
<1>4. /\ \A i \in 0..(Len(a) - p) : e[<<p + i, p>>] = i
      /\ \A j \in 0..(Len(b) - p) : e[<<p, p + j>>] = j
  BY <1>0, <1>1, AfterShared
<1>5. Solves(d, u, v)
  <2>1. ASSUME NEW i \in 0..m PROVE d[<<i, 0>>] = i
    <3>1. i \in 0..(Len(a) - p) /\ p + 0 = p
      BY <1>0
    <3>2. d[<<i, 0>>] = e[<<p + i, p + 0>>]
      BY <1>0, <1>3
    <3>3. QED
      BY <1>4, <3>1, <3>2
  <2>2. ASSUME NEW j \in 0..n PROVE d[<<0, j>>] = j
    <3>1. j \in 0..(Len(b) - p) /\ p + 0 = p
      BY <1>0
    <3>2. d[<<0, j>>] = e[<<p + 0, p + j>>]
      BY <1>0, <1>3
    <3>3. QED
      BY <1>4, <3>1, <3>2
  <2>3. ASSUME NEW i \in 1..m, NEW j \in 1..n
        PROVE  d[<<i, j>>] = IF u[i] = v[j] THEN d[<<i - 1, j - 1>>]
                             ELSE 1 + Min({d[<<i - 1, j>>], d[<<i, j - 1>>],
                                           d[<<i - 1, j - 1>>]})
    <3> DEFINE r == p + i
               c == p + j
    <3>1. /\ i \in 0..m /\ i - 1 \in 0..m /\ r \in 1..Len(a) /\ p + (i - 1) = r - 1
          /\ j \in 0..n /\ j - 1 \in 0..n /\ c \in 1..Len(b) /\ p + (j - 1) = c - 1
      <4>1. i \in Nat /\ i >= 1 /\ i <= m /\ j \in Nat /\ j >= 1 /\ j <= n
        BY <1>0
      <4>2. p \in Nat /\ p + m <= Len(a) /\ Len(a) \in Nat
        OBVIOUS
      <4>3. p + n <= Len(b) /\ Len(b) \in Nat
        OBVIOUS
      <4> HIDE DEF m, n
      <4>4. i \in 0..m /\ i - 1 \in 0..m /\ r \in 1..Len(a) /\ p + (i - 1) = r - 1
        BY <1>0, <4>1, <4>2
      <4>5. j \in 0..n /\ j - 1 \in 0..n /\ c \in 1..Len(b) /\ p + (j - 1) = c - 1
        BY <1>0, <4>1, <4>2, <4>3
      <4>6. QED
        BY <4>4, <4>5
    <3>2. u[i] = a[r] /\ v[j] = b[c]
      OBVIOUS
    <3>3. /\ d[<<i, j>>] = e[<<r, c>>]
          /\ d[<<i - 1, j - 1>>] = e[<<p + (i - 1), p + (j - 1)>>]
          /\ d[<<i - 1, j>>] = e[<<p + (i - 1), c>>]
          /\ d[<<i, j - 1>>] = e[<<r, p + (j - 1)>>]
      BY <1>3, <3>1
    <3> HIDE DEF r, c
    <3>4. /\ d[<<i - 1, j - 1>>] = e[<<r - 1, c - 1>>]
          /\ d[<<i - 1, j>>] = e[<<r - 1, c>>] /\ d[<<i, j - 1>>] = e[<<r, c - 1>>]
      BY <3>1, <3>3
    <3>5. e[<<r, c>>] = IF a[r] = b[c] THEN e[<<r - 1, c - 1>>]
                        ELSE 1 + Min({e[<<r - 1, c>>], e[<<r, c - 1>>],
                                      e[<<r - 1, c - 1>>]})
      BY <1>2, <3>1 DEF Solves
    <3>6. QED
      BY <3>2, <3>3, <3>4, <3>5
  <2>4. QED
    BY <2>1, <2>2, <2>3 DEF Solves
<1>6. Solves(EditTable(u, v), u, v)
  BY TableExists DEF IsEditTable
<1>7. EditTable(u, v)[<<m, n>>] = d[<<m, n>>]
  BY <1>0, <1>5, <1>6, TableIsUnique
<1>8. QED
  BY <1>0, <1>3, <1>7 DEF EditDistance, e

-----------------------------------------------------------------------------
(* findDistance *)

\* SharedSuffix counts characters that agree.
LEMMA SharedSuffixIs ==
  ASSUME NEW a, NEW b, Len(a) \in Nat
  PROVE  LET s == SharedSuffix(a, b)
         IN s \in 0..Len(a) /\ \A i \in 0..(s - 1) : a[Len(a) - i] = b[Len(b) - i]
<1> DEFINE S == {k \in 0..Len(a) : \A i \in 0..(k - 1) : a[Len(a) - i] = b[Len(b) - i]}
<1>1. S \in SUBSET (0..Len(a))
  OBVIOUS
<1>2. 0 \in S
  OBVIOUS
<1>3. SharedSuffix(a, b) = Max(S)
  BY DEF SharedSuffix
<1> HIDE DEF S
<1>4. Max(S) \in S
  BY <1>1, <1>2, Largest
<1>5. QED
  BY <1>3, <1>4 DEF S

\* SharedPrefix counts characters that agree.
LEMMA SharedPrefixIs ==
  ASSUME NEW a, NEW b, Len(a) \in Nat
  PROVE  LET p == SharedPrefix(a, b)
         IN p \in 0..Len(a) /\ \A i \in 1..p : a[i] = b[i]
<1> DEFINE S == {k \in 0..Len(a) : \A i \in 1..k : a[i] = b[i]}
<1>1. S \in SUBSET (0..Len(a))
  OBVIOUS
<1>2. 0 \in S
  OBVIOUS
<1>3. SharedPrefix(a, b) = Max(S)
  BY DEF SharedPrefix
<1> HIDE DEF S
<1>4. Max(S) \in S
  BY <1>1, <1>2, Largest
<1>5. QED
  BY <1>3, <1>4 DEF S

\* SubSeq by its length and its characters.
LEMMA Part ==
  ASSUME NEW S, NEW a \in Seq(S), NEW p \in Nat, NEW q \in 0..Len(a), p <= q
  PROVE  /\ Len(SubSeq(a, p + 1, q)) = q - p
         /\ \A k \in 1..(q - p) : SubSeq(a, p + 1, q)[k] = a[p + k]
         /\ SubSeq(a, p + 1, q) \in Seq(S)
<1>1. CASE p = q
  BY <1>1
<1>2. CASE p < q
  <2>1. p + 1 \in 1..Len(a) /\ q \in (p + 1)..Len(a)
    BY <1>2
  <2>2. QED
    BY <2>1
<1>3. QED
  BY <1>1, <1>2

\* findDistance once the shorter name is the first.
LEMMA ShorterFirst ==
  ASSUME NEW S, NEW first \in Seq(S), NEW second \in Seq(S), Len(first) <= Len(second)
  PROVE  Trimmed(first, second) = EditDistance(first, second)
<1> DEFINE suffix == SharedSuffix(first, second)
           a == SubSeq(first, 1, Len(first) - suffix)
           b == SubSeq(second, 1, Len(second) - suffix)
           prefix == SharedPrefix(a, b)
           u == SubSeq(a, prefix + 1, Len(a))
           v == SubSeq(b, prefix + 1, Len(b))
           e == EditTable(a, b)
<1>1. Trimmed(first, second) =
        IF Len(a) = prefix THEN Len(b) - prefix ELSE Distance(u, v)
  BY DEF Trimmed
<1>2. /\ suffix \in 0..Len(first)
      /\ \A i \in 0..(suffix - 1) : first[Len(first) - i] = second[Len(second) - i]
  BY SharedSuffixIs
<1> HIDE DEF suffix
<1>3. /\ Len(a) = Len(first) - suffix /\ a \in Seq(S)
      /\ \A k \in 1..Len(a) : a[k] = first[k]
      /\ Len(b) = Len(second) - suffix /\ b \in Seq(S)
      /\ \A k \in 1..Len(b) : b[k] = second[k]
  <2>1. Len(first) - suffix \in 0..Len(first) /\ Len(second) - suffix \in 0..Len(second)
    BY <1>2
  <2>2. QED
    BY <1>2, <2>1, Part
<1> HIDE DEF a, b
<1>4. Len(a) \in Nat /\ Len(b) \in Nat /\ Len(a) <= Len(b)
  BY <1>2, <1>3
<1>5. EditDistance(first, second) = EditDistance(a, b)
  <2>1. EditDistance(first, second) =
          EditTable(first, second)[<<Len(first) - suffix, Len(second) - suffix>>]
    <3>1. /\ Len(first) \in Nat /\ Len(second) \in Nat /\ suffix \in Nat
          /\ suffix <= Len(first) /\ suffix <= Len(second)
      BY <1>2
    <3>2. QED
      BY <1>2, <3>1, EndsDoNotCount
  <2>2. EditDistance(a, b) = EditTable(first, second)[<<0 + Len(a), 0 + Len(b)>>]
    <3>1. PartAt(a, first, 0) /\ PartAt(b, second, 0)
      BY <1>2, <1>3, <1>4 DEF PartAt
    <3>2. Begin(first, second, 0)
      BY DEF Begin
    <3>3. Len(first) \in Nat /\ Len(second) \in Nat /\ 0 \in Nat
      OBVIOUS
    <3>4. QED
      BY <3>1, <3>2, <3>3, Inside
  <2>3. 0 + Len(a) = Len(first) - suffix /\ 0 + Len(b) = Len(second) - suffix
    BY <1>3, <1>4
  <2>4. QED
    BY <2>1, <2>2, <2>3
<1>6. prefix \in 0..Len(a) /\ \A i \in 1..prefix : a[i] = b[i]
  BY <1>4, SharedPrefixIs
<1> HIDE DEF prefix
<1>7. CASE Len(a) = prefix
  <2>1. IsEditTable(e, a, b)
    BY <1>4, TableExists
  <2> HIDE DEF e
  <2>2. \A j \in 0..(Len(b) - prefix) : e[<<prefix, prefix + j>>] = j
    BY <1>4, <1>6, <2>1, AfterShared
  <2>3. Len(b) - prefix \in 0..(Len(b) - prefix) /\ prefix + (Len(b) - prefix) = Len(b)
    BY <1>4, <1>6
  <2>4. e[<<prefix, Len(b)>>] = Len(b) - prefix
    BY <2>2, <2>3
  <2>5. QED
    BY <1>1, <1>5, <1>7, <2>4 DEF EditDistance, e
<1>8. CASE Len(a) # prefix
  <2>1. /\ Len(u) = Len(a) - prefix /\ \A k \in 1..Len(u) : u[k] = a[prefix + k]
        /\ Len(v) = Len(b) - prefix /\ \A k \in 1..Len(v) : v[k] = b[prefix + k]
    BY <1>3, <1>4, <1>6, Part
  <2> HIDE DEF u, v
  <2>2. /\ Len(u) \in Nat /\ Len(v) \in Nat
        /\ prefix + Len(u) = Len(a) /\ prefix + Len(v) = Len(b)
    BY <1>4, <1>6, <2>1
  <2>3. EditDistance(u, v) = EditTable(a, b)[<<prefix + Len(u), prefix + Len(v)>>]
    <3>1. PartAt(u, a, prefix) /\ PartAt(v, b, prefix)
      BY <2>1, <2>2, <1>4, <1>6 DEF PartAt
    <3>2. prefix \in Nat /\ Begin(a, b, prefix)
      BY <1>4, <1>6 DEF Begin
    <3>3. QED
      BY <1>4, <3>1, <3>2, Inside
  <2>4. EditDistance(u, v) = EditDistance(a, b)
    BY <2>2, <2>3 DEF EditDistance
  <2>5. QED
    BY <1>1, <1>5, <1>8, <2>2, <2>4, DistanceIsTable
<1>9. QED
  BY <1>7, <1>8

\* findDistance computes the edit distance of every two names.
LEMMA FindDistanceIsLevenshtein ==
  ASSUME NEW S, NEW one \in Seq(S), NEW other \in Seq(S)
  PROVE  FindDistance(one, other) = EditDistance(one, other)
<1>1. Len(one) \in Nat /\ Len(other) \in Nat
  OBVIOUS
<1>2. CASE Len(one) > Len(other)
  <2>1. Trimmed(other, one) = EditDistance(other, one)
    BY <1>1, <1>2, ShorterFirst
  <2>2. FindDistance(one, other) = Trimmed(other, one)
    BY <1>2 DEF FindDistance
  <2>3. QED
    BY <1>1, <2>1, <2>2, EitherWay
<1>3. CASE ~(Len(one) > Len(other))
  <2>1. Trimmed(one, other) = EditDistance(one, other)
    BY <1>1, <1>3, ShorterFirst
  <2>2. FindDistance(one, other) = Trimmed(one, other)
    BY <1>3 DEF FindDistance
  <2>3. QED
    BY <2>1, <2>2
<1>4. QED
  BY <1>2, <1>3

\* What is asked of the names: that each is a sequence of the same characters.
ProperNames == \E S : Names \subseteq Seq(S)

\* Whatever two names are compared, findDistance computes their edit distance.
THEOREM DistanceCorrect == ProperNames => (Spec => []DistanceIsLevenshtein)
<1> SUFFICES ASSUME ProperNames PROVE Spec => []DistanceIsLevenshtein
  OBVIOUS
<1>1. input \in Inputs => DistanceIsLevenshtein
  <2> SUFFICES ASSUME input \in Inputs, input.kind = "names"
               PROVE  FindDistance(input.one, input.other) =
                        EditDistance(input.one, input.other)
    BY DEF DistanceIsLevenshtein
  <2>1. input.one \in Names /\ input.other \in Names
    BY DEF Inputs
  <2>2. PICK S : Names \subseteq Seq(S)
    BY DEF ProperNames
  <2>3. input.one \in Seq(S) /\ input.other \in Seq(S)
    BY <2>1, <2>2
  <2>4. QED
    BY <2>3, FindDistanceIsLevenshtein
<1>2. QED
  BY <1>1, InputsOnly, PTL

-----------------------------------------------------------------------------
(* One edit *)

\* The beginnings of i and of j characters are the same, or one edit apart.
Same(a, b, i, j) == i = j /\ Begin(a, b, i)

Replaced(a, b, i, j) ==
  i = j /\ \E q \in 1..i : a[q] # b[q] /\ \A k \in 1..i : k # q => a[k] = b[k]

Removed(a, b, i, j) ==
  i = j + 1 /\ \E q \in 1..i : /\ \A k \in 1..(q - 1) : a[k] = b[k]
                               /\ \A k \in (q + 1)..i : a[k] = b[k - 1]

Apart(a, b, i, j) ==
  Replaced(a, b, i, j) \/ Removed(a, b, i, j) \/ Removed(b, a, j, i)

\* One more character at the end of both.
LEMMA SameStep ==
  ASSUME NEW a, NEW b, NEW i \in Nat \ {0}, NEW j \in Nat \ {0}
  PROVE  Same(a, b, i, j) <=> Same(a, b, i - 1, j - 1) /\ a[i] = b[j]
<1>1. ASSUME i = j PROVE Begin(a, b, i) <=> Begin(a, b, i - 1) /\ a[i] = b[i]
  BY DEF Begin
<1>2. QED
  BY <1>1 DEF Same

\* After a shared character, an edit is one before it.
LEMMA RemovedBefore ==
  ASSUME NEW a, NEW b, NEW i \in Nat \ {0}, NEW j \in Nat \ {0}, a[i] = b[j]
  PROVE  Removed(a, b, i, j) <=> Removed(a, b, i - 1, j - 1)
<1>1. ASSUME Removed(a, b, i, j) PROVE Removed(a, b, i - 1, j - 1)
  <2>1. i = j + 1 /\ j = i - 1
    BY <1>1 DEF Removed
  <2>2. PICK q \in 1..i : /\ \A k \in 1..(q - 1) : a[k] = b[k]
                          /\ \A k \in (q + 1)..i : a[k] = b[k - 1]
    BY <1>1 DEF Removed
  <2>3. CASE q = i
    <3>1. i - 1 \in 1..(i - 1) /\ \A k \in 1..((i - 1) - 1) : a[k] = b[k]
      BY <2>1, <2>2, <2>3
    <3>2. \A k \in ((i - 1) + 1)..(i - 1) : a[k] = b[k - 1]
      OBVIOUS
    <3>3. QED
      BY <2>1, <3>1, <3>2 DEF Removed
  <2>4. CASE q # i
    <3>1. q \in 1..(i - 1) /\ \A k \in (q + 1)..(i - 1) : a[k] = b[k - 1]
      BY <2>1, <2>2, <2>4
    <3>2. QED
      BY <2>1, <2>2, <3>1 DEF Removed
  <2>5. QED
    BY <2>3, <2>4
<1>2. ASSUME Removed(a, b, i - 1, j - 1) PROVE Removed(a, b, i, j)
  <2>1. i = j + 1 /\ j = i - 1
    BY <1>2 DEF Removed
  <2>2. PICK q \in 1..(i - 1) : /\ \A k \in 1..(q - 1) : a[k] = b[k]
                                /\ \A k \in (q + 1)..(i - 1) : a[k] = b[k - 1]
    BY <1>2 DEF Removed
  <2>3. a[i] = b[i - 1]
    BY <2>1
  <2>4. q \in 1..i /\ \A k \in (q + 1)..i : a[k] = b[k - 1]
    BY <2>2, <2>3
  <2>5. QED
    BY <2>1, <2>2, <2>4 DEF Removed
<1>3. QED
  BY <1>1, <1>2

\* The same for a replaced character.
LEMMA ReplacedBefore ==
  ASSUME NEW a, NEW b, NEW i \in Nat \ {0}, NEW j \in Nat \ {0}, a[i] = b[j]
  PROVE  Replaced(a, b, i, j) <=> Replaced(a, b, i - 1, j - 1)
<1>1. CASE i # j
  BY <1>1 DEF Replaced
<1>2. CASE i = j
  <2>1. ASSUME NEW q \in 1..i, a[q] # b[q], \A k \in 1..i : k # q => a[k] = b[k]
        PROVE  q \in 1..(i - 1) /\ \A k \in 1..(i - 1) : k # q => a[k] = b[k]
    BY <1>2, <2>1
  <2>2. ASSUME NEW q \in 1..(i - 1), \A k \in 1..(i - 1) : k # q => a[k] = b[k]
        PROVE  q \in 1..i /\ \A k \in 1..i : k # q => a[k] = b[k]
    BY <1>2, <2>2
  <2>3. QED
    BY <1>2, <2>1, <2>2 DEF Replaced
<1>3. QED
  BY <1>1, <1>2

\* Where the last characters differ, the edit is at the last character.
LEMMA RemovedLast ==
  ASSUME NEW a, NEW b, NEW i \in Nat \ {0}, NEW j \in Nat \ {0}, a[i] # b[j]
  PROVE  Removed(a, b, i, j) <=> Same(a, b, i - 1, j)
<1>1. ASSUME Removed(a, b, i, j) PROVE Same(a, b, i - 1, j)
  <2>1. i = j + 1 /\ j = i - 1
    BY <1>1 DEF Removed
  <2>2. PICK q \in 1..i : /\ \A k \in 1..(q - 1) : a[k] = b[k]
                          /\ \A k \in (q + 1)..i : a[k] = b[k - 1]
    BY <1>1 DEF Removed
  <2>3. q = i
    BY <2>1, <2>2
  <2>4. QED
    BY <2>1, <2>2, <2>3 DEF Same, Begin
<1>2. ASSUME Same(a, b, i - 1, j) PROVE Removed(a, b, i, j)
  <2>1. i = j + 1 /\ \A k \in 1..(i - 1) : a[k] = b[k]
    BY <1>2 DEF Same, Begin
  <2>2. i \in 1..i /\ (i + 1)..i = {}
    OBVIOUS
  <2>3. QED
    BY <2>1, <2>2 DEF Removed
<1>3. QED
  BY <1>1, <1>2

\* The same for a replaced character.
LEMMA ReplacedLast ==
  ASSUME NEW a, NEW b, NEW i \in Nat \ {0}, NEW j \in Nat \ {0}, a[i] # b[j]
  PROVE  Replaced(a, b, i, j) <=> Same(a, b, i - 1, j - 1)
<1>1. ASSUME Replaced(a, b, i, j) PROVE Same(a, b, i - 1, j - 1)
  <2>1. PICK q \in 1..i : \A k \in 1..i : k # q => a[k] = b[k]
    BY <1>1 DEF Replaced
  <2>2. i = j /\ q = i
    BY <1>1, <2>1 DEF Replaced
  <2>3. QED
    BY <2>1, <2>2 DEF Same, Begin
<1>2. ASSUME Same(a, b, i - 1, j - 1) PROVE Replaced(a, b, i, j)
  <2>1. i = j /\ \A k \in 1..(i - 1) : a[k] = b[k]
    BY <1>2 DEF Same, Begin
  <2>2. i \in 1..i /\ \A k \in 1..i : k # i => a[k] = b[k]
    BY <2>1
  <2>3. QED
    BY <2>1, <2>2 DEF Replaced
<1>3. QED
  BY <1>1, <1>2

\* To be the same is the same from either side.
LEMMA SameEitherWay ==
  ASSUME NEW a, NEW b, NEW i, NEW j
  PROVE  Same(a, b, i, j) <=> Same(b, a, j, i)
BY DEF Same, Begin

\* A table has 0 where the beginnings are the same, and 1 where they are one edit apart.
LEMMA ZeroAndOne ==
  ASSUME NEW a, NEW b, Len(a) \in Nat, Len(b) \in Nat, NEW d, IsEditTable(d, a, b)
  PROVE  \A i \in 0..Len(a), j \in 0..Len(b) :
           /\ d[<<i, j>>] = 0 <=> Same(a, b, i, j)
           /\ d[<<i, j>>] = 1 <=> Apart(a, b, i, j)
<1> DEFINE m == Len(a)
           n == Len(b)
           Says(i, j) == /\ d[<<i, j>>] = 0 <=> Same(a, b, i, j)
                         /\ d[<<i, j>>] = 1 <=> Apart(a, b, i, j)
           Good == {p \in (0..m) \X (0..n) : Says(p[1], p[2])}
<1>0. m \in Nat /\ n \in Nat /\ 0 \in 0..m /\ 0 \in 0..n
  OBVIOUS
<1>1. ASSUME NEW i \in 0..m PROVE <<i, 0>> \in Good
  <2>1. d[<<i, 0>>] = i
    BY DEF IsEditTable, Solves
  <2>2. i = 0 <=> Same(a, b, i, 0)
    BY DEF Same, Begin
  <2>3. ~Replaced(a, b, i, 0) /\ ~Removed(b, a, 0, i)
    BY DEF Replaced, Removed
  <2>4. Removed(a, b, i, 0) => i = 1
    BY DEF Removed
  <2>5. ASSUME i = 1 PROVE Removed(a, b, i, 0)
    BY <2>5 DEF Removed
  <2>6. QED
    BY <1>0, <2>1, <2>2, <2>3, <2>4, <2>5 DEF Apart
<1>2. ASSUME NEW j \in 0..n PROVE <<0, j>> \in Good
  <2>1. d[<<0, j>>] = j
    BY DEF IsEditTable, Solves
  <2>2. j = 0 <=> Same(a, b, 0, j)
    BY DEF Same, Begin
  <2>3. ~Replaced(a, b, 0, j) /\ ~Removed(a, b, 0, j)
    BY DEF Replaced, Removed
  <2>4. Removed(b, a, j, 0) => j = 1
    BY DEF Removed
  <2>5. ASSUME j = 1 PROVE Removed(b, a, j, 0)
    BY <2>5 DEF Removed
  <2>6. QED
    BY <1>0, <2>1, <2>2, <2>3, <2>4, <2>5 DEF Apart
<1>3. ASSUME NEW i \in 1..m, NEW j \in 1..n, <<i - 1, j - 1>> \in Good,
             <<i - 1, j>> \in Good, <<i, j - 1>> \in Good
      PROVE  <<i, j>> \in Good
  <2> DEFINE x == d[<<i - 1, j - 1>>]
             y == d[<<i, j - 1>>]
             z == d[<<i - 1, j>>]
             c == d[<<i, j>>]
  <2>1. /\ i \in Nat \ {0} /\ j \in Nat \ {0} /\ i \in 0..m /\ j \in 0..n
        /\ i - 1 \in 0..m /\ j - 1 \in 0..n
    BY <1>0
  <2>2. x \in Nat /\ y \in Nat /\ z \in Nat
    BY <2>1 DEF IsEditTable
  <2>3. c = IF a[i] = b[j] THEN x ELSE 1 + Min({z, y, x})
    BY <2>1 DEF IsEditTable, Solves
  <2>4. Says(i - 1, j - 1) /\ Says(i - 1, j) /\ Says(i, j - 1)
    BY <1>3
  <2>5. CASE a[i] = b[j]
    <3>1. Same(a, b, i, j) <=> Same(a, b, i - 1, j - 1)
      BY <2>1, <2>5, SameStep
    <3>2. Removed(a, b, i, j) <=> Removed(a, b, i - 1, j - 1)
      BY <2>1, <2>5, RemovedBefore
    <3>3. Removed(b, a, j, i) <=> Removed(b, a, j - 1, i - 1)
      BY <2>1, <2>5, RemovedBefore
    <3>4. Replaced(a, b, i, j) <=> Replaced(a, b, i - 1, j - 1)
      BY <2>1, <2>5, ReplacedBefore
    <3>5. c = x
      BY <2>3, <2>5
    <3>6. QED
      BY <2>4, <3>1, <3>2, <3>3, <3>4, <3>5 DEF Apart
  <2>6. CASE a[i] # b[j]
    <3>1. ~Same(a, b, i, j)
      BY <2>1, <2>6, SameStep
    <3>2. Removed(a, b, i, j) <=> z = 0
      BY <2>1, <2>4, <2>6, RemovedLast
    <3>3. Removed(b, a, j, i) <=> y = 0
      BY <2>1, <2>4, <2>6, RemovedLast, SameEitherWay
    <3>4. Replaced(a, b, i, j) <=> x = 0
      BY <2>1, <2>4, <2>6, ReplacedLast
    <3> DEFINE least == Min({z, y, x})
    <3>5. least \in {z, y, x} /\ least <= z /\ least <= y /\ least <= x
      BY <2>2, LeastOfThree
    <3>6. c = 1 + least
      BY <2>3, <2>6
    <3> HIDE DEF least, x, y, z, c
    <3>7. c # 0 /\ (c = 1 <=> x = 0 \/ y = 0 \/ z = 0)
      BY <2>2, <3>5, <3>6
    <3>8. QED
      BY <3>1, <3>2, <3>3, <3>4, <3>7 DEF Apart, c
  <2>7. Says(i, j)
    BY <2>5, <2>6
  <2> HIDE DEF Says
  <2>8. QED
    BY <2>1, <2>7
<1>4. QED
  <2> HIDE DEF m, n, Good
  <2>1. m \in Nat /\ n \in Nat
    BY DEF m, n
  <2>2. \A i \in 0..m, j \in 0..n : <<i, j>> \in Good
    BY <1>1, <1>2, <1>3, <2>1, GridInduct
  <2>3. QED
    BY <2>2 DEF Good, m, n

-----------------------------------------------------------------------------
(* OneEdit *)

\* RemoveAt by its length and its characters.
LEMMA WithoutOne ==
  ASSUME NEW S, NEW a \in Seq(S), NEW q \in 1..Len(a)
  PROVE  /\ RemoveAt(a, q) \in Seq(S) /\ Len(RemoveAt(a, q)) = Len(a) - 1
         /\ \A k \in 1..(q - 1) : RemoveAt(a, q)[k] = a[k]
         /\ \A k \in q..(Len(a) - 1) : RemoveAt(a, q)[k] = a[k + 1]
<1> DEFINE s == SubSeq(a, 1, q - 1)
           t == SubSeq(a, q + 1, Len(a))
<1>0. Len(a) \in Nat /\ q \in Nat /\ q >= 1 /\ q <= Len(a)
  OBVIOUS
<1>1. s \in Seq(S) /\ Len(s) = q - 1 /\ \A k \in 1..(q - 1) : s[k] = a[k]
  <2>1. q - 1 \in 0..Len(a) /\ 0 \in Nat /\ 0 <= q - 1 /\ 0 + 1 = 1 /\ (q - 1) - 0 = q - 1
    BY <1>0
  <2>2. \A k \in 1..(q - 1) : 0 + k = k
    BY <1>0
  <2>3. QED
    BY <2>1, <2>2, Part
<1>2. t \in Seq(S) /\ Len(t) = Len(a) - q /\ \A k \in 1..(Len(a) - q) : t[k] = a[q + k]
  <2>1. Len(a) \in 0..Len(a) /\ q \in Nat
    BY <1>0
  <2>2. QED
    BY <1>0, <2>1, Part
<1>3. RemoveAt(a, q) = s \o t
  BY DEF RemoveAt
<1> HIDE DEF s, t
<1>4. s \o t \in Seq(S) /\ Len(s \o t) = Len(a) - 1
  BY <1>0, <1>1, <1>2
<1>5. ASSUME NEW k \in 1..(q - 1) PROVE (s \o t)[k] = a[k]
  BY <1>0, <1>1, <1>2, <1>4
<1>6. ASSUME NEW k \in q..(Len(a) - 1) PROVE (s \o t)[k] = a[k + 1]
  <2>1. k \in Nat /\ k >= q /\ k <= Len(a) - 1
    BY <1>0
  <2>2. k \in 1..(Len(s) + Len(t)) /\ k > Len(s)
    BY <1>0, <1>1, <1>2, <2>1
  <2>3. (s \o t)[k] = t[k - Len(s)]
    BY <1>1, <1>2, <2>2
  <2>4. k - Len(s) \in 1..(Len(a) - q) /\ q + (k - Len(s)) = k + 1
    BY <1>0, <1>1, <2>1
  <2>5. QED
    BY <1>2, <2>3, <2>4
<1>7. QED
  BY <1>3, <1>4, <1>5, <1>6

\* Taking one character from a name gives the other.
LEMMA RemovedIs ==
  ASSUME NEW S, NEW a \in Seq(S), NEW b \in Seq(S)
  PROVE  (\E q \in DOMAIN a : RemoveAt(a, q) = b) <=> Removed(a, b, Len(a), Len(b))
<1>0. Len(a) \in Nat /\ Len(b) \in Nat /\ DOMAIN a = 1..Len(a) /\ DOMAIN b = 1..Len(b)
  OBVIOUS
<1>1. ASSUME NEW q \in DOMAIN a, RemoveAt(a, q) = b
      PROVE  Removed(a, b, Len(a), Len(b))
  <2>1. q \in 1..Len(a)
    BY <1>0
  <2>2. /\ Len(b) = Len(a) - 1 /\ \A k \in 1..(q - 1) : b[k] = a[k]
        /\ \A k \in q..(Len(a) - 1) : b[k] = a[k + 1]
    BY <1>1, <2>1, WithoutOne
  <2>3. ASSUME NEW k \in (q + 1)..Len(a) PROVE a[k] = b[k - 1]
    <3>1. k - 1 \in q..(Len(a) - 1) /\ (k - 1) + 1 = k
      BY <1>0, <2>1
    <3>2. QED
      BY <2>2, <3>1
  <2>4. Len(a) = Len(b) + 1
    BY <1>0, <2>2
  <2>5. QED
    BY <2>1, <2>2, <2>3, <2>4 DEF Removed
<1>2. ASSUME Removed(a, b, Len(a), Len(b))
      PROVE  \E q \in DOMAIN a : RemoveAt(a, q) = b
  <2>1. Len(a) = Len(b) + 1
    BY <1>2 DEF Removed
  <2>2. PICK q \in 1..Len(a) : /\ \A k \in 1..(q - 1) : a[k] = b[k]
                               /\ \A k \in (q + 1)..Len(a) : a[k] = b[k - 1]
    BY <1>2 DEF Removed
  <2> DEFINE c == RemoveAt(a, q)
  <2>3. /\ c \in Seq(S) /\ Len(c) = Len(a) - 1
        /\ \A k \in 1..(q - 1) : c[k] = a[k]
        /\ \A k \in q..(Len(a) - 1) : c[k] = a[k + 1]
    BY WithoutOne
  <2> HIDE DEF c
  <2>4. ASSUME NEW k \in 1..Len(b) PROVE c[k] = b[k]
    <3>1. CASE k < q
      BY <1>0, <2>2, <2>3, <3>1
    <3>2. CASE k >= q
      <4>1. k \in q..(Len(a) - 1) /\ k + 1 \in (q + 1)..Len(a) /\ (k + 1) - 1 = k
        BY <1>0, <2>1, <3>2
      <4>2. QED
        BY <2>2, <2>3, <4>1
    <3>3. QED
      BY <1>0, <3>1, <3>2
  <2>5. Len(c) = Len(b)
    BY <1>0, <2>1, <2>3
  <2>6. c = b
    BY <2>3, <2>4, <2>5
  <2>7. QED
    BY <1>0, <2>6 DEF c
<1>3. QED
  BY <1>1, <1>2

\* One place where names of one length differ.
LEMMA ReplacedIs ==
  ASSUME NEW S, NEW a \in Seq(S), NEW b \in Seq(S)
  PROVE  Len(a) = Len(b) /\ Cardinality({i \in DOMAIN a : a[i] # b[i]}) = 1
           <=> Replaced(a, b, Len(a), Len(b))
<1> DEFINE D == {i \in DOMAIN a : a[i] # b[i]}
<1>0. Len(a) \in Nat /\ DOMAIN a = 1..Len(a)
  OBVIOUS
<1>1. IsFiniteSet(D)
  <2>1. IsFiniteSet(1..Len(a))
    BY <1>0, FS_Interval
  <2>2. QED
    BY <1>0, <2>1, FS_Subset
<1>2. Cardinality(D) = 1 <=> \E q : D = {q}
  <2> HIDE DEF D
  <2>1. QED
    BY <1>1, FS_Singleton
<1>3. ASSUME NEW q
      PROVE  D = {q} <=> q \in 1..Len(a) /\ a[q] # b[q]
                           /\ \A k \in 1..Len(a) : k # q => a[k] = b[k]
  BY <1>0
<1> HIDE DEF D
<1>4. Cardinality(D) = 1 <=>
        \E q \in 1..Len(a) : a[q] # b[q] /\ \A k \in 1..Len(a) : k # q => a[k] = b[k]
  BY <1>2, <1>3
<1>5. QED
  BY <1>4 DEF Replaced, D

\* The names at distance 0 from a name are itself, those at distance 1 the ones an
\* edit makes of it.
LEMMA DistanceOne ==
  ASSUME NEW S, NEW a \in Seq(S), NEW b \in Seq(S)
  PROVE  /\ FindDistance(a, b) \in Nat
         /\ FindDistance(a, b) = 0 <=> a = b
         /\ FindDistance(a, b) = 1 <=> OneEdit(a, b)
<1> DEFINE m == Len(a)
           n == Len(b)
           e == EditTable(a, b)
<1>0. m \in Nat /\ n \in Nat /\ m \in 0..m /\ n \in 0..n
  OBVIOUS
<1>1. IsEditTable(e, a, b)
  BY <1>0, TableExists
<1>2. FindDistance(a, b) = e[<<m, n>>]
  BY FindDistanceIsLevenshtein DEF EditDistance
<1> HIDE DEF e
<1>3. e[<<m, n>>] \in Nat
  BY <1>0, <1>1 DEF IsEditTable
<1>4. (e[<<m, n>>] = 0 <=> Same(a, b, m, n)) /\ (e[<<m, n>>] = 1 <=> Apart(a, b, m, n))
  BY <1>0, <1>1, ZeroAndOne
<1>5. Same(a, b, m, n) <=> a = b
  BY DEF Same, Begin
<1>6. Apart(a, b, m, n) <=> OneEdit(a, b)
  <2>1. Removed(a, b, m, n) <=> \E i \in DOMAIN a : RemoveAt(a, i) = b
    BY RemovedIs
  <2>2. Removed(b, a, n, m) <=> \E i \in DOMAIN b : RemoveAt(b, i) = a
    BY RemovedIs
  <2>3. Replaced(a, b, m, n) <=>
          Len(a) = Len(b) /\ Cardinality({i \in DOMAIN a : a[i] # b[i]}) = 1
    BY ReplacedIs
  <2>4. QED
    BY <2>1, <2>2, <2>3 DEF Apart, OneEdit
<1>7. QED
  BY <1>2, <1>3, <1>4, <1>5, <1>6

\* A domain that is no provider's is a typo exactly when one edit makes it one.
THEOREM TypoCorrect == ProperNames => (Spec => []TypoIsOneEdit)
<1> SUFFICES ASSUME ProperNames PROVE Spec => []TypoIsOneEdit
  OBVIOUS
<1>1. PICK S : Names \subseteq Seq(S)
  BY DEF ProperNames
<1>2. input \in Inputs => TypoIsOneEdit
  <2> DEFINE one == input.one
             other == input.other
  <2> SUFFICES ASSUME input \in Inputs, input.kind = "names",
                      NEW p \in Names, one \notin {other, p}
               PROVE  HasTypo(one, {other, p}) <=> OneEdit(one, other) \/ OneEdit(one, p)
    BY DEF TypoIsOneEdit
  <2>1. one \in Seq(S) /\ other \in Seq(S) /\ p \in Seq(S)
    BY <1>1 DEF Inputs
  <2> HIDE DEF one, other
  <2> DEFINE x == FindDistance(one, other)
             y == FindDistance(one, p)
  <2>2. x \in Nat /\ x # 0 /\ (x = 1 <=> OneEdit(one, other))
    BY <2>1, DistanceOne
  <2>3. y \in Nat /\ y # 0 /\ (y = 1 <=> OneEdit(one, p))
    BY <2>1, DistanceOne
  <2>4. {FindDistance(one, q) : q \in {other, p}} = {x, y}
    OBVIOUS
  <2>5. HasTypo(one, {other, p}) <=> Min({x, y}) = 1
    BY <2>4 DEF HasTypo
  <2> HIDE DEF x, y
  <2>6. Min({x, y}) = IF x <= y THEN x ELSE y
    BY <2>2, <2>3, LeastOfTwo
  <2>7. QED
    BY <2>2, <2>3, <2>5, <2>6
<1>3. QED
  BY <1>2, InputsOnly, PTL
================================================================================
