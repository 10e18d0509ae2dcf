-------------------------- MODULE BulkFilesContract --------------------------
(***************************************************************************)
(* What the bulk service promises the owner of an uploaded file, whatever  *)
(* the crons, the queue and the tables do in between: the upload is        *)
(* accepted, later its report appears and stays, and then one mail says so.*)
(***************************************************************************)
EXTENDS Naturals

CONSTANT Files

VARIABLES
  accepted,   \* the files whose upload was answered with a database row
  reported,   \* the files whose counts and result folder are in the row
  told        \* [Files -> Nat] completion mails handed to the mail queue

vars == <<accepted, reported, told>>

Init ==
  /\ accepted = {}
  /\ reported = {}
  /\ told = [f \in Files |-> 0]

\* Ids come from a sequence: a file is accepted after every file with a
\* smaller id.
Accept(f) ==
  /\ f \notin accepted
  /\ \A g \in Files : g < f => g \in accepted
  /\ accepted' = accepted \union {f}
  /\ UNCHANGED <<reported, told>>

Report(f) ==
  /\ f \in accepted \ reported
  /\ reported' = reported \union {f}
  /\ UNCHANGED <<accepted, told>>

Tell(f) ==
  /\ f \in reported
  /\ told[f] = 0
  /\ told' = [told EXCEPT ![f] = 1]
  /\ UNCHANGED <<accepted, reported>>

Next == \E f \in Files : Accept(f) \/ Report(f) \/ Tell(f)

Spec == Init /\ [][Next]_vars
=============================================================================
