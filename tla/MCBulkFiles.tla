----------------------------- MODULE MCBulkFiles -----------------------------
(* Small instances of BulkFiles. *)
EXTENDS BulkFilesInvariant, TLC

CONSTANTS a, b, t1, t2, t3, j1, j2

MCFiles == {1, 2}

\* Every file holds the same single email.
MCShared == [f \in Files |-> {a}]

\* Every file holds both emails: batches, scans and re-checks take several
\* steps, and a partial read of the CSV is not empty.
MCBoth == [f \in Files |-> {a, b}]

\* Invocations and jobs are interchangeable (safety runs only).
MCSymmetry == Permutations(Ticks) \union Permutations(GreyJobs)
=============================================================================
