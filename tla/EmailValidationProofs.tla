------------------------ MODULE EmailValidationProofs --------------------------
(***************************************************************************)
(* Proofs about EmailValidation, for any emails, domains and calls, any    *)
(* answers of the mail servers, and any number of days.                    *)
(***************************************************************************)
EXTENDS EmailValidationInvariant, SequenceTheorems, TLAPS

-----------------------------------------------------------------------------
(* Verdicts *)

LEMMA VerdictTypes ==
  /\ {Valid, CatchAll, Spamtrap, NoMailbox, Grey, TimedOut, Exception, DomainExists}
       \subseteq Verdict
  /\ {Say("invalid", "invalid_email_format"), Say("do_not_mail", "role_based"),
      Say("do_not_mail", "disposable_domain_temporary_email"),
      Say("invalid", "possible_typo"), Say("invalid", "mx_record_not_found"), Wordy}
       \subseteq Verdict
  /\ OfAReply \subseteq Verdict /\ OfARefusal \subseteq Verdict
BY DEF Verdict, Say, EmailStatus, NotAStatus, EmailReason, NotAReason, Valid, Alias,
       CatchAll, Spamtrap, NoMailbox, Grey, TimedOut, Blocked, Unverified, Wordy,
       Exception, DomainExists, OfAReply, OfARefusal

LEMMA AnswerTypes ==
  \A answer \in Answers : answer.verdict \in Verdict
BY VerdictTypes, AnswersAssumption

LEMMA NotGrey ==
  \A v \in {Valid, Spamtrap, NoMailbox, TimedOut, Exception, DomainExists,
           Say("invalid", "invalid_email_format"), Say("do_not_mail", "role_based"),
           Say("do_not_mail", "disposable_domain_temporary_email"),
           Say("invalid", "possible_typo"), Say("invalid", "mx_record_not_found")} :
    ~IsGrey(v)
<1>1. ~IsGrey(Valid) /\ ~IsGrey(Spamtrap) /\ ~IsGrey(NoMailbox) /\ ~IsGrey(TimedOut)
      /\ ~IsGrey(Exception) /\ ~IsGrey(DomainExists)
  BY DEF Say, Valid, Spamtrap, NoMailbox, Grey, TimedOut, Exception, DomainExists, IsGrey
<1>2. /\ ~IsGrey(Say("invalid", "invalid_email_format"))
      /\ ~IsGrey(Say("do_not_mail", "role_based"))
      /\ ~IsGrey(Say("do_not_mail", "disposable_domain_temporary_email"))
      /\ ~IsGrey(Say("invalid", "possible_typo"))
      /\ ~IsGrey(Say("invalid", "mx_record_not_found"))
  BY DEF Say, Grey, IsGrey
<1>3. QED
  BY <1>1, <1>2

-----------------------------------------------------------------------------
(* The calls *)

Inv == TypeOK /\ BehindThePlace

LEMMA InitInv == Init => Inv
<1> SUFFICES ASSUME Init PROVE Inv
  OBVIOUS
<1>1. TypeOK
  <2>1. call \in [Calls -> Call]
    BY SetsAssumption DEF Init, Call, Places
  <2>2. blamed \in [Domains -> Seq(Problem)]
    BY DEF Init
  <2>3. QED
    BY <2>1, <2>2, GapsAssumption DEF Init, TypeOK, Days
<1>2. BehindThePlace
  BY NoneAssumption, VerdictTypes
  DEF Init, BehindThePlace, OnTheWay, WithVerdict, Remembered, Trying, Storing
<1>3. QED
  BY <1>1, <1>2 DEF Inv

\* A step of a call c that touches nothing else: what holds of the call's new
\* record is enough.
LEMMA CallInv ==
  ASSUME Inv, NEW c \in Calls, NEW r \in Call,
         call' = [call EXCEPT ![c] = r], OnTheWay(r), WithVerdict(r),
         UNCHANGED <<day, processed, saved, blamed, mailed, recheck>>,
         lookups' \subseteq Calls \X Zones
  PROVE  Inv'
<1>1. TypeOK'
  BY DEF Inv, TypeOK
<1>2. \A x : OnTheWay(x)' <=> OnTheWay(x)
  BY DEF OnTheWay, HasHost
<1>3. \A x : WithVerdict(x)' <=> WithVerdict(x)
  BY DEF WithVerdict, HasHost
<1>4. Remembered'
  BY DEF Inv, BehindThePlace, Remembered, HasHost
<1>5. QED
  BY <1>1, <1>2, <1>3, <1>4 DEF Inv, BehindThePlace, TypeOK

\* A step that moves its call on, or gives it a verdict, and nothing else.
LEMMA GoInv ==
  ASSUME Inv, NEW c \in Calls, NEW place \in Places, Go(c, place),
         OnTheWay([call[c] EXCEPT !.at = place]),
         WithVerdict([call[c] EXCEPT !.at = place]),
         UNCHANGED <<day, processed, saved, blamed, mailed, recheck>>,
         lookups' \subseteq Calls \X Zones
  PROVE  Inv'
<1> DEFINE r == [call[c] EXCEPT !.at = place]
<1>1. r \in Call /\ call' = [call EXCEPT ![c] = r]
  BY DEF Inv, TypeOK, Call, Go
<1>2. QED
  BY <1>1, CallInv

LEMMA ReturnInv ==
  ASSUME Inv, NEW c \in Calls, NEW v \in Verdict, Return(c, v),
         IsGrey(v) => HasHost(Email(c)), call[c].domain # {} => HasHost(Email(c)),
         UNCHANGED <<day, processed, saved, blamed, mailed, recheck, lookups>>
  PROVE  Inv'
<1> DEFINE r == [call[c] EXCEPT !.at = "save", !.verdict = v]
<1>1. r \in Call /\ call' = [call EXCEPT ![c] = r]
  BY DEF Inv, TypeOK, Call, Places, Return, Throw
<1>2. OnTheWay(r) /\ WithVerdict(r)
  BY NoneAssumption
  DEF OnTheWay, WithVerdict, Trying, Storing, Call, Email, Inv, TypeOK
<1>3. QED
  BY <1>1, <1>2, CallInv DEF Inv, TypeOK

LEMMA ThrowInv ==
  ASSUME Inv, NEW c \in Calls, NEW v \in Verdict, Throw(c, v),
         IsGrey(v) => HasHost(Email(c)), call[c].domain # {} => HasHost(Email(c)),
         UNCHANGED <<day, processed, saved, blamed, mailed, recheck, lookups>>
  PROVE  Inv'
<1> DEFINE r == [call[c] EXCEPT !.at = "save", !.verdict = v, !.failed = TRUE]
<1>1. r \in Call /\ call' = [call EXCEPT ![c] = r]
  BY DEF Inv, TypeOK, Call, Places, Return, Throw
<1>2. OnTheWay(r) /\ WithVerdict(r)
  BY NoneAssumption
  DEF OnTheWay, WithVerdict, Trying, Storing, Call, Email, Inv, TypeOK
<1>3. QED
  BY <1>1, <1>2, CallInv DEF Inv, TypeOK

LEMMA CallFacts ==
  ASSUME Inv, NEW c \in Calls
  PROVE  /\ call[c] \in Call /\ Email(c) \in Emails
         /\ OnTheWay(call[c]) /\ WithVerdict(call[c])
         /\ Email(c) \notin Malformed => Domain(c) \in Domains
         /\ call[c].domain # {} => HasHost(Email(c))
<1>1. call[c] \in Call /\ Email(c) \in Emails
  BY DEF Inv, TypeOK, Call, Email
<1>2. OnTheWay(call[c]) /\ WithVerdict(call[c])
  BY DEF Inv, BehindThePlace
<1>3. Email(c) \notin Malformed => Domain(c) \in Domains
  BY <1>1, SetsAssumption DEF Domain
<1>4. QED
  BY <1>1, <1>2, <1>3 DEF OnTheWay, Email

-----------------------------------------------------------------------------
(* smtpValidation, up to the mail server *)

LEMMA BeginInv ==
  ASSUME Inv, NEW c \in Calls, Begin(c)
  PROVE  Inv'
<1> DEFINE row == processed[Email(c)]
<1>0. UNCHANGED <<day, processed, saved, blamed, mailed, recheck, lookups>>
  BY DEF Begin, tables
<1>1. CASE row # None /\ ShouldReturnCached(row)
  <2> DEFINE r == [call[c] EXCEPT !.at = "done", !.verdict = row.verdict]
  <2>0. row \in Row
    BY <1>1, CallFacts DEF Inv, TypeOK
  <2>1. row.verdict \in Verdict /\ (IsGrey(row.verdict) => HasHost(Email(c)))
    BY <1>1, <2>0, CallFacts DEF Row, Inv, BehindThePlace, Remembered
  <2>a. call' = [call EXCEPT ![c].at = "done", ![c].verdict = row.verdict]
    BY <1>1 DEF Begin
  <2>2. r \in Call /\ call' = [call EXCEPT ![c] = r]
    <3> HIDE DEF row
    <3> QED
      BY <2>a, <2>1 DEF Inv, TypeOK, Call, Places
  <2>3. OnTheWay(r) /\ WithVerdict(r)
    BY <1>1, <2>1, CallFacts, NoneAssumption
    DEF OnTheWay, WithVerdict, Trying, Storing, Call, Email
  <2>4. QED
    BY <1>0, <2>2, <2>3, CallInv DEF Inv, TypeOK
<1>2. CASE ~(row # None /\ ShouldReturnCached(row)) /\ Email(c) \in Malformed
  BY <1>0, <1>2, ThrowInv, CallFacts, VerdictTypes, NotGrey DEF Begin
<1>3. CASE ~(row # None /\ ShouldReturnCached(row)) /\ Email(c) \notin Malformed
  <2>1. Go(c, "errors") /\ At(c, "start")
    BY <1>3 DEF Begin
  <2>2. OnTheWay([call[c] EXCEPT !.at = "errors"])
        /\ WithVerdict([call[c] EXCEPT !.at = "errors"])
    BY <1>3, <2>1, CallFacts
    DEF OnTheWay, WithVerdict, Trying, Storing, Call, Email, At
  <2>3. QED
    BY <1>0, <2>1, <2>2, GoInv DEF Inv, TypeOK, Places
<1>4. QED
  BY <1>1, <1>2, <1>3

\* From one place before the mail server to the next.
LEMMA NextPlace ==
  ASSUME Inv, NEW c \in Calls, call[c].at \in Trying,
         NEW place \in Trying, Go(c, place),
         place \in {"smtp", "mail"} => HasHost(Email(c)),
         UNCHANGED <<day, processed, saved, blamed, mailed, recheck, lookups>>
  PROVE  Inv'
<1>1. OnTheWay([call[c] EXCEPT !.at = place]) /\ WithVerdict([call[c] EXCEPT !.at = place])
  BY CallFacts DEF OnTheWay, WithVerdict, Trying, Storing, Call, Email
<1>2. place \in Places /\ lookups' \subseteq Calls \X Zones
  BY DEF Trying, Places, Inv, TypeOK
<1>3. QED
  BY <1>1, <1>2, GoInv

LEMMA FindErrorDomainInv ==
  ASSUME Inv, NEW c \in Calls, FindErrorDomain(c)
  PROVE  Inv'
<1>0. UNCHANGED <<day, processed, saved, blamed, mailed, recheck, lookups>>
  BY DEF FindErrorDomain, tables
<1>1. call[c].at \in Trying /\ Domain(c) \in Domains
  BY CallFacts DEF FindErrorDomain, At, Trying, OnTheWay, Email
<1>2. CASE Go(c, "domain")
  BY <1>0, <1>1, <1>2, NextPlace DEF Trying
<1>3. ASSUME NEW i \in DOMAIN blamed[Domain(c)],
             Throw(c, blamed[Domain(c)][i].verdict)
      PROVE  Inv'
  <2>0. blamed[Domain(c)] \in Seq(Problem)
    BY <1>1 DEF Inv, TypeOK
  <2>a. blamed[Domain(c)][i] \in Problem
    BY <2>0, LenProperties, ElementOfSeq
  <2>1. blamed[Domain(c)][i].verdict \in Verdict
    BY <2>a DEF Problem
  <2>2. IsGrey(blamed[Domain(c)][i].verdict) => HasHost(Email(c))
    BY <1>1 DEF Inv, BehindThePlace, Remembered, HasHost, Domain
  <2>3. QED
    BY <1>0, <1>3, <2>1, <2>2, ThrowInv, CallFacts
<1>4. QED
  BY <1>2, <1>3 DEF FindErrorDomain

LEMMA FindDomainInv ==
  ASSUME Inv, NEW c \in Calls, FindDomain(c)
  PROVE  Inv'
<1>1. Email(c) \notin Malformed /\ Domain(c) \in Domains
  BY CallFacts DEF FindDomain, At, Trying, OnTheWay, Email
<1>2. PICK row \in IF saved[Domain(c)] = {} THEN {{}}
                   ELSE {{at} : at \in saved[Domain(c)]} :
        call' = [call EXCEPT ![c].domain = row,
                             ![c].at = IF Domain(c) \in Free THEN "mx" ELSE "lists"]
  BY DEF FindDomain
<1> DEFINE r == [call[c] EXCEPT !.domain = row,
                                !.at = IF Domain(c) \in Free THEN "mx" ELSE "lists"]
<1>3. row \in SUBSET Days /\ (row # {} => HasHost(Email(c)))
  BY <1>1, <1>2 DEF Inv, TypeOK, HasHost, Domain
<1>4. r \in Call /\ call' = [call EXCEPT ![c] = r]
  BY <1>2, <1>3 DEF Inv, TypeOK, Call, Places
<1>5. OnTheWay(r) /\ WithVerdict(r)
  BY <1>1, <1>3, CallFacts
  DEF OnTheWay, WithVerdict, Trying, Storing, Call, Email, FindDomain, At
<1>6. QED
  BY <1>4, <1>5, CallInv DEF Inv, TypeOK, FindDomain, tables

LEMMA CheckListsInv ==
  ASSUME Inv, NEW c \in Calls, CheckLists(c)
  PROVE  Inv'
<1>0. /\ UNCHANGED <<day, processed, saved, blamed, mailed, recheck, lookups>>
      /\ call[c].at \in Trying
  BY DEF CheckLists, tables, At, Trying
<1>1. CASE Go(c, "dnsbl")
  BY <1>0, <1>1, NextPlace DEF Trying
<1>2. ASSUME NEW v \in {Say("do_not_mail", "role_based"),
                        Say("do_not_mail", "disposable_domain_temporary_email")},
             Throw(c, v)
      PROVE  Inv'
  BY <1>0, <1>2, ThrowInv, CallFacts, VerdictTypes, NotGrey
<1>3. QED
  BY <1>1, <1>2 DEF CheckLists

\* The promise of checkDomainSpamDatabaseList is settled.
LEMMA PromiseInv ==
  ASSUME Inv, NEW c \in Calls, NEW p \in {"pending", "resolved", "rejected"},
         call' = [call EXCEPT ![c].promise = p],
         UNCHANGED <<day, processed, saved, blamed, mailed, recheck>>,
         lookups' \subseteq Calls \X Zones
  PROVE  Inv'
<1> DEFINE r == [call[c] EXCEPT !.promise = p]
<1>1. r \in Call /\ call' = [call EXCEPT ![c] = r]
  BY DEF Inv, TypeOK, Call
<1>2. OnTheWay(r) /\ WithVerdict(r)
  BY CallFacts DEF OnTheWay, WithVerdict, Call
<1>3. QED
  BY <1>1, <1>2, CallInv

LEMMA LookupsInv ==
  ASSUME Inv, NEW c \in Calls,
         ResolveDomain(c) \/ \E zone \in Zones : LookupAnswered(c, zone)
  PROVE  Inv'
<1>0. UNCHANGED <<day, processed, saved, blamed, mailed, recheck>>
  BY DEF ResolveDomain, LookupAnswered, tables
<1>1. lookups' \subseteq Calls \X Zones
  BY DEF ResolveDomain, LookupAnswered, Inv, TypeOK
<1>2. \E p \in {"pending", "resolved", "rejected"} :
        call' = [call EXCEPT ![c].promise = p]
  <2>1. call[c].promise \in {"pending", "resolved", "rejected"}
    BY CallFacts DEF Call
  <2>2. CASE ResolveDomain(c)
    BY <2>2 DEF ResolveDomain
  <2>3. CASE \E zone \in Zones : LookupAnswered(c, zone)
    <3> DEFINE p == IF Domain(c) \in Listed /\ call[c].promise = "pending"
                    THEN "rejected" ELSE call[c].promise
    <3>1. call' = [call EXCEPT ![c].promise = p]
      BY <2>3 DEF LookupAnswered
    <3>2. p \in {"pending", "resolved", "rejected"}
      BY <2>1
    <3>3. QED
      BY <3>1, <3>2
  <2>4. QED
    BY <2>2, <2>3
<1>3. QED
  BY <1>0, <1>1, <1>2, PromiseInv

LEMMA LeaveBlacklistsInv ==
  ASSUME Inv, NEW c \in Calls, LeaveBlacklists(c)
  PROVE  Inv'
<1>0. /\ UNCHANGED <<day, processed, saved, blamed, mailed, recheck, lookups>>
      /\ call[c].at \in Trying
  BY DEF LeaveBlacklists, tables, At, Trying
<1>1. CASE Go(c, "mx")
  BY <1>0, <1>1, NextPlace DEF Trying
<1>2. ASSUME NEW v \in {Spamtrap, Say("invalid", "possible_typo")}, Throw(c, v)
      PROVE  Inv'
  BY <1>0, <1>2, ThrowInv, CallFacts, VerdictTypes, NotGrey
<1>3. QED
  BY <1>1, <1>2 DEF LeaveBlacklists

LEMMA FindMxInv ==
  ASSUME Inv, NEW c \in Calls, FindMx(c)
  PROVE  Inv'
<1>0. /\ UNCHANGED <<day, processed, saved, blamed, mailed, recheck, lookups>>
      /\ call[c].at \in Trying
  BY DEF FindMx, tables, At, Trying
<1>1. CASE call[c].domain = {} /\ Go(c, "create")
  BY <1>0, <1>1, NextPlace DEF Trying
<1>2. CASE call[c].domain # {} /\ Go(c, "smtp")
  BY <1>0, <1>2, NextPlace, CallFacts DEF Trying
<1>3. CASE Throw(c, Say("invalid", "mx_record_not_found"))
  BY <1>0, <1>3, ThrowInv, CallFacts, VerdictTypes, NotGrey
<1>4. QED
  BY <1>1, <1>2, <1>3 DEF FindMx

LEMMA CreateDomainInv ==
  ASSUME Inv, NEW c \in Calls, CreateDomain(c)
  PROVE  Inv'
<1>0. /\ UNCHANGED <<day, processed, saved, blamed, mailed, recheck, lookups>>
      /\ call[c].at \in Trying
  BY DEF CreateDomain, tables, At, Trying
<1>1. CASE Go(c, "insert")
  BY <1>0, <1>1, NextPlace DEF Trying
<1>2. CASE Throw(c, DomainExists)
  BY <1>0, <1>2, ThrowInv, CallFacts, VerdictTypes, NotGrey
<1>3. QED
  BY <1>1, <1>2 DEF CreateDomain

LEMMA AskInv ==
  ASSUME Inv, NEW c \in Calls, Ask(c)
  PROVE  Inv'
<1>0. /\ UNCHANGED <<day, processed, saved, blamed, mailed, recheck, lookups>>
      /\ call[c].at \in Trying
  BY DEF Ask, tables, At, Trying
<1>1. HasHost(Email(c))
  BY CallFacts DEF OnTheWay, Ask, At, Email
<1>2. CASE Go(c, "mail")
  BY <1>0, <1>1, <1>2, NextPlace DEF Trying
<1>3. ASSUME NEW answer \in Answers,
             Throw(c, answer.verdict) \/ Return(c, answer.verdict)
      PROVE  Inv'
  BY <1>0, <1>1, <1>3, ThrowInv, ReturnInv, AnswerTypes
<1>4. QED
  BY <1>2, <1>3 DEF Ask

-----------------------------------------------------------------------------
(* Steps that change the tables *)

\* As long as rows are only added or changed, what the other calls have behind
\* them stays.
LEMMA Kept ==
  ASSUME Inv,
         \A d \in Domains : saved[d] # {} => saved'[d] # {},
         \A e \in Emails : processed[e] # None => processed'[e] # None
  PROVE  \A r \in Call : /\ OnTheWay(r) => OnTheWay(r)'
                         /\ WithVerdict(r) => WithVerdict(r)'
<1>1. \A e : HasHost(e) => HasHost(e)'
  BY DEF HasHost
<1>2. \A r \in Call : r.email \in Emails
  BY DEF Call
<1>3. QED
  BY <1>1, <1>2 DEF OnTheWay, WithVerdict

\* A step of a call that adds to the tables: q is its new record.
LEMMA TablesInv ==
  ASSUME Inv, NEW c \in Calls, NEW q \in Call, call' = [call EXCEPT ![c] = q],
         \A d \in Domains : saved[d] # {} => saved'[d] # {},
         \A e \in Emails : processed[e] # None => processed'[e] # None,
         OnTheWay(q)', WithVerdict(q)', Remembered',
         processed' \in [Emails -> Row \union {None}],
         saved' \in [Domains -> SUBSET Days],
         blamed' \in [Domains -> Seq(Problem)],
         mailed' \subseteq Emails,
         UNCHANGED <<day, lookups, recheck>>
  PROVE  Inv'
<1>1. TypeOK'
  BY DEF Inv, TypeOK
<1>2. \A x \in Calls : OnTheWay(call[x])' /\ WithVerdict(call[x])'
  <2> TAKE x \in Calls
  <2>1. CASE x = c
    <3>1. call'[x] = q
      BY <2>1 DEF Inv, TypeOK
    <3>2. QED
      BY <3>1 DEF OnTheWay, WithVerdict
  <2>2. CASE x # c
    <3>1. PICK r \in Call : r = call[x]
      BY CallFacts
    <3>2. OnTheWay(r)' /\ WithVerdict(r)'
      BY <3>1, CallFacts, Kept
    <3>3. call'[x] = r
      BY <2>2, <3>1 DEF Inv, TypeOK
    <3>4. QED
      BY <3>2, <3>3 DEF OnTheWay, WithVerdict
  <2>3. QED
    BY <2>1, <2>2
<1>3. QED
  BY <1>1, <1>2 DEF Inv, BehindThePlace

LEMMA InsertDomainInv ==
  ASSUME Inv, NEW c \in Calls, InsertDomain(c)
  PROVE  Inv'
<1>1. Email(c) \notin Malformed /\ Domain(c) \in Domains /\ call[c].at = "insert"
  BY CallFacts DEF InsertDomain, At, Trying, OnTheWay, Email
<1>2. /\ saved' = [saved EXCEPT ![Domain(c)] = @ \union {day}]
      /\ UNCHANGED <<day, processed, blamed, lookups, mailed, recheck>>
  BY DEF InsertDomain
<1>3. PICK q \in Call : /\ q = [call[c] EXCEPT !.at = "smtp"]
                        /\ call' = [call EXCEPT ![c] = q]
  BY DEF InsertDomain, Go, Inv, TypeOK, Call, Places
<1>4. saved' \in [Domains -> SUBSET Days]
  BY <1>2 DEF Inv, TypeOK
<1>5. \A d \in Domains : saved[d] # {} => saved'[d] # {}
  BY <1>2 DEF Inv, TypeOK
<1>6. q.email = Email(c) /\ HasHost(q.email)'
  BY <1>1, <1>2, <1>3 DEF Inv, TypeOK, HasHost, Domain, Email, Call
<1>7. OnTheWay(q)' /\ WithVerdict(q)'
  BY <1>1, <1>2, <1>3, <1>6, CallFacts
  DEF OnTheWay, WithVerdict, Trying, Storing, Call, Email
<1>8. Remembered'
  BY <1>2, <1>5 DEF Inv, BehindThePlace, Remembered, HasHost
<1>9. QED
  BY <1>2, <1>3, <1>4, <1>5, <1>7, <1>8, TablesInv DEF Inv, TypeOK

LEMMA SendVerifyPlusEmailInv ==
  ASSUME Inv, NEW c \in Calls, SendVerifyPlusEmail(c)
  PROVE  Inv'
<1>1. HasHost(Email(c))
  BY CallFacts DEF OnTheWay, SendVerifyPlusEmail, At, Email
<1>2. CASE Throw(c, Exception) /\ UNCHANGED mailed
  BY <1>2, ThrowInv, CallFacts, VerdictTypes, NotGrey DEF SendVerifyPlusEmail, tables
<1>3. CASE /\ mailed' = mailed \union {Email(c)}
           /\ call' = [call EXCEPT ![c].at = "save", ![c].verdict = Valid,
                                   ![c].plus = TRUE]
  <2>1. PICK q \in Call :
          /\ q = [call[c] EXCEPT !.at = "save", !.verdict = Valid, !.plus = TRUE]
          /\ call' = [call EXCEPT ![c] = q]
    <3>1. Valid \in Verdict
      BY VerdictTypes
    <3> DEFINE r == [call[c] EXCEPT !.at = "save", !.verdict = Valid, !.plus = TRUE]
    <3>2. call[c] \in Call
      BY CallFacts
    <3>3. r \in Call
      BY <3>1, <3>2 DEF Call, Places
    <3>4. call' = [call EXCEPT ![c] = r]
      BY <1>3 DEF Inv, TypeOK
    <3>5. QED
      BY <3>3, <3>4
  <2>2. UNCHANGED <<day, tables, lookups, recheck>>
    BY DEF SendVerifyPlusEmail
  <2>3. OnTheWay(q)' /\ WithVerdict(q)'
    BY <2>1, <2>2, CallFacts, VerdictTypes, NoneAssumption, NotGrey
    DEF OnTheWay, WithVerdict, Trying, Storing, Call, HasHost, tables
  <2>4. Remembered'
    BY <1>1, <1>3, <2>2 DEF Inv, BehindThePlace, Remembered, HasHost, tables
  <2>5. mailed' \subseteq Emails
    BY <1>3, CallFacts DEF Inv, TypeOK
  <2>6. QED
    BY <2>1, <2>2, <2>3, <2>4, <2>5, TablesInv DEF Inv, TypeOK, tables
<1>4. QED
  BY <1>2, <1>3 DEF SendVerifyPlusEmail

-----------------------------------------------------------------------------
(* smtpValidation, once there is a verdict *)

\* From one place after the verdict to the next.
LEMMA NextStore ==
  ASSUME Inv, NEW c \in Calls, call[c].at \in Storing,
         NEW place \in {"store", "blame", "done"}, Go(c, place),
         place = "blame" => processed[Email(c)] # None,
         place = "done" => processed[Email(c)] # None \/ ~Complete(c),
         UNCHANGED <<day, processed, saved, blamed, mailed, recheck, lookups>>
  PROVE  Inv'
<1>1. OnTheWay([call[c] EXCEPT !.at = place]) /\ WithVerdict([call[c] EXCEPT !.at = place])
  BY CallFacts DEF OnTheWay, WithVerdict, Trying, Storing, Call, Email, Complete, Domain
<1>2. place \in Places /\ lookups' \subseteq Calls \X Zones
  BY DEF Places, Inv, TypeOK
<1>3. QED
  BY <1>1, <1>2, GoInv

LEMMA FindProcessedInv ==
  ASSUME Inv, NEW c \in Calls, FindProcessed(c)
  PROVE  Inv'
<1>1. /\ UNCHANGED <<day, processed, saved, blamed, mailed, recheck, lookups>>
      /\ call[c].at \in Storing
  BY DEF FindProcessed, tables, At, Storing
<1>2. CASE processed[Email(c)] = None
  BY <1>1, <1>2, NextStore DEF FindProcessed
<1>3. CASE processed[Email(c)] # None
  <2>1. PICK place \in {"blame", "done"} : Go(c, place)
    BY <1>3 DEF FindProcessed
  <2>2. QED
    BY <1>1, <1>3, <2>1, NextStore
<1>4. QED
  BY <1>2, <1>3

LEMMA InsertProcessedInv ==
  ASSUME Inv, NEW c \in Calls, InsertProcessed(c)
  PROVE  Inv'
<1>0. /\ call[c].at = "store" /\ Email(c) \in Emails
      /\ UNCHANGED <<day, saved, blamed, lookups, mailed, recheck>>
      /\ call[c].verdict \in Verdict
  BY CallFacts DEF InsertProcessed, At, WithVerdict, Storing, Call
<1>1. CASE processed[Email(c)] = None /\ Complete(c)
  <2>1. processed' = [processed EXCEPT ![Email(c)] = RowOf(c)]
    BY <1>1 DEF InsertProcessed
  <2>2. RowOf(c) \in Row
    BY <1>0, CallFacts DEF RowOf, Row, Inv, TypeOK, Call
  <2>3. processed' \in [Emails -> Row \union {None}]
    BY <2>1, <2>2 DEF Inv, TypeOK
  <2>4. processed'[Email(c)] # None
    BY <1>0, <2>1, <2>2, NoneAssumption DEF Inv, TypeOK
  <2>5. \A e \in Emails : processed[e] # None => processed'[e] # None
    BY <2>1, <2>4 DEF Inv, TypeOK
  <2>6. PICK place \in {"blame", "done"} : Go(c, place)
    BY <1>1 DEF InsertProcessed
  <2>7. PICK q \in Call : /\ q = [call[c] EXCEPT !.at = place]
                          /\ call' = [call EXCEPT ![c] = q]
    BY <2>6 DEF Go, Inv, TypeOK, Call, Places
  <2>8. OnTheWay(q)' /\ WithVerdict(q)'
    BY <1>0, <2>4, <2>6, <2>7, CallFacts
    DEF OnTheWay, WithVerdict, Trying, Storing, Call, HasHost, Email
  <2>a. /\ DomainOf[Email(c)] \in Domains
        /\ IsGrey(RowOf(c).verdict) => HasHost(Email(c))
    BY <1>0, <1>1, CallFacts, SetsAssumption
    DEF RowOf, Complete, Domain, WithVerdict, Storing, Email
  <2>9. Remembered'
    BY <1>0, <1>1, <2>1, <2>a, SetsAssumption
    DEF Inv, TypeOK, BehindThePlace, Remembered, HasHost
  <2>10. QED
    BY <1>0, <2>3, <2>5, <2>7, <2>8, <2>9, TablesInv DEF Inv, TypeOK
<1>2. CASE ~(processed[Email(c)] = None /\ Complete(c))
  <2>1. UNCHANGED <<day, processed, saved, blamed, mailed, recheck, lookups>>
    BY <1>0, <1>2 DEF InsertProcessed
  <2>2. CASE Go(c, "done")
    BY <1>0, <1>2, <2>1, <2>2, NextStore DEF Storing
  <2>3. CASE Throw(c, Exception)
    BY <2>1, <2>3, ThrowInv, CallFacts, VerdictTypes, NotGrey
  <2>4. QED
    BY <1>2, <2>2, <2>3 DEF InsertProcessed
<1>3. QED
  BY <1>1, <1>2

\* A call in the catch block has a domain to blame and a verdict to blame it for.
LEMMA BlameFacts ==
  ASSUME Inv, NEW c \in Calls, call[c].at \in {"blame", "append"}
  PROVE  /\ Domain(c) \in Domains /\ call[c].verdict \in Verdict
         /\ blamed[Domain(c)] \in Seq(Problem)
         /\ IsGrey(call[c].verdict) => saved[Domain(c)] # {}
<1>1. Domain(c) \in Domains
  BY CallFacts DEF WithVerdict, Email, Domain, Inv, BehindThePlace, Remembered
<1>2. call[c].verdict \in Verdict
  BY CallFacts DEF WithVerdict, Storing, Call
<1>3. IsGrey(call[c].verdict) => saved[Domain(c)] # {}
  BY CallFacts DEF WithVerdict, Storing, HasHost, Email, Domain
<1>4. QED
  BY <1>1, <1>2, <1>3 DEF Inv, TypeOK

LEMMA BlameDomainInv ==
  ASSUME Inv, NEW c \in Calls, BlameDomain(c)
  PROVE  Inv'
<1>0. /\ call[c].at = "blame"
      /\ UNCHANGED <<day, processed, saved, lookups, mailed, recheck>>
  BY DEF BlameDomain, At
<1> DEFINE d == Domain(c)
<1>1. CASE Go(c, "done") /\ UNCHANGED blamed
  BY <1>0, <1>1, NextStore, CallFacts DEF Storing, WithVerdict, Email
<1>2. CASE AboutTheDomain(c) /\ Go(c, "append") /\ UNCHANGED blamed
  <2>1. OnTheWay([call[c] EXCEPT !.at = "append"])
        /\ WithVerdict([call[c] EXCEPT !.at = "append"])
    BY <1>0, <1>2, CallFacts
    DEF OnTheWay, WithVerdict, Trying, Storing, Call, AboutTheDomain, Domain, Email
  <2>2. QED
    BY <1>0, <1>2, <2>1, GoInv DEF Places, Inv, TypeOK
<1>3. ASSUME NEW i \in DOMAIN blamed[d], Go(c, "done"),
             blamed' = [blamed EXCEPT ![d][i] = Overwritten(@, call[c].verdict)]
      PROVE  Inv'
  <2>1. blamed[d][i] \in Problem
    BY <1>0, BlameFacts, LenProperties, ElementOfSeq
  <2>2. Overwritten(blamed[d][i], call[c].verdict) \in Problem
    BY <1>0, <2>1, BlameFacts DEF Overwritten, Problem
  <2>3. [blamed[d] EXCEPT ![i] = Overwritten(blamed[d][i], call[c].verdict)] \in Seq(Problem)
    BY <1>0, <2>2, BlameFacts, ExceptSeq, LenProperties
  <2>4. blamed' = [blamed EXCEPT ![d] =
           [blamed[d] EXCEPT ![i] = Overwritten(blamed[d][i], call[c].verdict)]]
    BY <1>3
  <2>5. blamed' \in [Domains -> Seq(Problem)]
    BY <2>3, <2>4 DEF Inv, TypeOK
  <2>6. PICK q \in Call : /\ q = [call[c] EXCEPT !.at = "done"]
                          /\ call' = [call EXCEPT ![c] = q]
    BY <1>3 DEF Go, Inv, TypeOK, Call, Places
  <2>7. OnTheWay(q)' /\ WithVerdict(q)'
    BY <1>0, <2>6, CallFacts
    DEF OnTheWay, WithVerdict, Trying, Storing, Call, HasHost, Email
  <2>8. Remembered'
    <3>1. ASSUME NEW x \in Domains, NEW j \in DOMAIN blamed'[x],
                 IsGrey(blamed'[x][j].verdict)
          PROVE  saved[x] # {}
      <4>1. CASE x = d /\ j = i
        <5>1. blamed'[x][j] = Overwritten(blamed[d][i], call[c].verdict)
          BY <1>0, <1>3, <4>1, <2>4, BlameFacts DEF Inv, TypeOK
        <5>2. IsGrey(blamed[d][i].verdict) \/ IsGrey(call[c].verdict)
          BY <3>1, <5>1, <2>1 DEF Overwritten, Problem
        <5>3. QED
          BY <1>0, <4>1, <5>2, BlameFacts DEF Inv, BehindThePlace, Remembered
      <4>2. CASE ~(x = d /\ j = i)
        <5>1. j \in DOMAIN blamed[x] /\ blamed'[x][j] = blamed[x][j]
          BY <1>0, <4>2, <2>4, BlameFacts DEF Inv, TypeOK
        <5>2. QED
          BY <3>1, <5>1 DEF Inv, BehindThePlace, Remembered
      <4>3. QED
        BY <4>1, <4>2
    <3>2. QED
      BY <1>0, <3>1 DEF Inv, BehindThePlace, Remembered, HasHost
  <2>9. QED
    BY <1>0, <2>5, <2>6, <2>7, <2>8, TablesInv DEF Inv, TypeOK
<1>4. QED
  BY <1>1, <1>2, <1>3 DEF BlameDomain

LEMMA AppendProblemInv ==
  ASSUME Inv, NEW c \in Calls, AppendProblem(c)
  PROVE  Inv'
<1> DEFINE d == Domain(c)
           p == [verdict |-> call[c].verdict, at |-> day]
<1>1. /\ call[c].at = "append" /\ Go(c, "done")
      /\ blamed' = [blamed EXCEPT ![d] = Append(@, p)]
      /\ UNCHANGED <<day, processed, saved, lookups, mailed, recheck>>
  BY DEF AppendProblem, At
<1>2. p \in Problem
  BY <1>1, BlameFacts DEF Problem, Inv, TypeOK
<1>3. d \in Domains /\ blamed[d] \in Seq(Problem)
  BY <1>1, BlameFacts
<1>4. /\ Append(blamed[d], p) \in Seq(Problem)
      /\ DOMAIN Append(blamed[d], p) = 1..(Len(blamed[d]) + 1)
      /\ \A j \in 1..Len(blamed[d]) : Append(blamed[d], p)[j] = blamed[d][j]
      /\ Append(blamed[d], p)[Len(blamed[d]) + 1] = p
  BY <1>2, <1>3, AppendProperties, LenProperties
<1>5. blamed' \in [Domains -> Seq(Problem)] /\ blamed'[d] = Append(blamed[d], p)
  BY <1>1, <1>3, <1>4 DEF Inv, TypeOK
<1>6. PICK q \in Call : /\ q = [call[c] EXCEPT !.at = "done"]
                        /\ call' = [call EXCEPT ![c] = q]
  BY <1>1 DEF Go, Inv, TypeOK, Call, Places
<1>7. OnTheWay(q)' /\ WithVerdict(q)'
  BY <1>1, <1>6, CallFacts
  DEF OnTheWay, WithVerdict, Trying, Storing, Call, HasHost, Email
<1>8. Remembered'
  <2>1. ASSUME NEW x \in Domains, NEW j \in DOMAIN blamed'[x],
               IsGrey(blamed'[x][j].verdict)
        PROVE  saved[x] # {}
    <3>1. CASE x = d /\ j = Len(blamed[d]) + 1
      BY <1>1, <1>4, <1>5, <2>1, <3>1, BlameFacts
    <3>2. CASE x = d /\ j # Len(blamed[d]) + 1
      <4>1. j \in DOMAIN blamed[x] /\ blamed'[x][j] = blamed[x][j]
        BY <1>3, <1>4, <1>5, <3>2, LenProperties
      <4>2. QED
        BY <2>1, <4>1 DEF Inv, BehindThePlace, Remembered
    <3>3. CASE x # d
      <4>1. blamed'[x] = blamed[x]
        BY <1>1, <3>3 DEF Inv, TypeOK
      <4>2. QED
        BY <2>1, <4>1 DEF Inv, BehindThePlace, Remembered
    <3>4. QED
      BY <3>1, <3>2, <3>3
  <2>2. QED
    BY <1>1, <2>1 DEF Inv, BehindThePlace, Remembered, HasHost
<1>9. QED
  BY <1>1, <1>5, <1>6, <1>7, <1>8, TablesInv DEF Inv, TypeOK

-----------------------------------------------------------------------------
(* What others do to the rows *)

\* A step of the webhook or of the grey job: no call moves.
LEMMA OthersInv ==
  ASSUME Inv, processed' \in [Emails -> Row \union {None}],
         \A e \in Emails :
           /\ (processed'[e] # None) <=> (processed[e] # None)
           /\ processed[e] # None /\ IsGrey(processed'[e].verdict) => HasHost(e),
         recheck' \subseteq Files \X Emails \X BOOLEAN, day' \in Days,
         UNCHANGED <<saved, blamed, call, lookups, mailed>>
  PROVE  Inv'
<1>1. TypeOK'
  BY DEF Inv, TypeOK
<1>2. \A c \in Calls : OnTheWay(call[c])' /\ WithVerdict(call[c])'
  BY CallFacts DEF OnTheWay, WithVerdict, HasHost, Email
<1>3. Remembered'
  BY DEF Inv, BehindThePlace, Remembered, HasHost
<1>4. QED
  BY <1>1, <1>2, <1>3 DEF Inv, BehindThePlace

LEMMA UpdateTypes ==
  ASSUME Inv, NEW e \in Emails, NEW v \in Verdict, NEW plus \in BOOLEAN,
         UpdateProcessed(e, v, plus), IsGrey(v) /\ processed[e] # None => HasHost(e)
  PROVE  /\ processed' \in [Emails -> Row \union {None}]
         /\ \A x \in Emails :
              /\ (processed'[x] # None) <=> (processed[x] # None)
              /\ processed[x] # None /\ IsGrey(processed'[x].verdict) => HasHost(x)
<1>0. \A x \in Emails :
        processed[x] # None /\ IsGrey(processed[x].verdict) => HasHost(x)
  BY DEF Inv, BehindThePlace, Remembered
<1>1. CASE processed' = processed
  BY <1>0, <1>1 DEF Inv, TypeOK
<1>2. CASE processed' # processed
  <2> DEFINE row == [processed[e] EXCEPT !.verdict = v, !.plus = plus]
  <2>1. processed[e] # None /\ processed[e] \in Row
    BY <1>2 DEF UpdateProcessed, Inv, TypeOK
  <2>2. row \in Row /\ row.verdict = v
    BY <2>1 DEF Row
  <2>3. processed' = [processed EXCEPT ![e] = row]
    BY <1>2 DEF UpdateProcessed, Inv, TypeOK
  <2>4. QED
    BY <1>0, <2>1, <2>2, <2>3, NoneAssumption DEF Inv, TypeOK
<1>3. QED
  BY <1>1, <1>2

LEMMA NotifiedInv ==
  ASSUME Inv, NEW e \in Emails, Notified(e)
  PROVE  Inv'
<1>1. PICK v \in {Valid, Grey, NoMailbox} : UpdateProcessed(e, v, TRUE)
  BY DEF Notified
<1>2. v \in Verdict /\ HasHost(e)
  BY VerdictTypes DEF Notified, Inv, BehindThePlace, Remembered
<1>3. QED
  BY <1>1, <1>2, UpdateTypes, OthersInv DEF Notified, Inv, TypeOK

LEMMA QueueGreyInv ==
  ASSUME Inv, NEW file \in Files, NEW e \in Emails, QueueGrey(file, e)
  PROVE  Inv'
<1>1. processed[e] \in Row
  BY DEF QueueGrey, Inv, TypeOK
<1>2. recheck' \subseteq Files \X Emails \X BOOLEAN
  BY <1>1 DEF QueueGrey, Inv, TypeOK, Row
<1>3. QED
  BY <1>2, OthersInv DEF QueueGrey, tables, Inv, TypeOK, BehindThePlace, Remembered

\* The verdict that a re-check writes is one, and grey only if the row is.
LEMMA RecheckWrites ==
  ASSUME Inv, NEW file \in Files, NEW e \in Emails, NEW plus \in BOOLEAN,
         Recheck(file, e, plus)
  PROVE  \/ UNCHANGED processed
         \/ \E v \in Verdict :
              /\ UpdateProcessed(e, v, plus)
              /\ IsGrey(v) => v = processed[e].verdict
<1>1. CASE processed[e] = None
  BY <1>1 DEF Recheck, UpdateProcessed
<1>2. CASE processed[e] # None
  <2>1. processed[e].verdict \in Verdict
    BY <1>2 DEF Inv, TypeOK, Row
  <2>2. NoMailbox \in Verdict /\ ~IsGrey(NoMailbox)
    BY VerdictTypes, NotGrey
  <2>3. PICK answer \in Answers :
          UpdateProcessed(e,
            IF saved[DomainOf[e]] = {} THEN processed[e].verdict
            ELSE IF IsGrey(answer.verdict) THEN NoMailbox
            ELSE answer.verdict, plus)
    BY DEF Recheck
  <2>4. QED
    BY <2>1, <2>2, <2>3, AnswerTypes
<1>3. QED
  BY <1>1, <1>2

LEMMA RecheckInv ==
  ASSUME Inv, NEW file \in Files, NEW e \in Emails, NEW plus \in BOOLEAN,
         Recheck(file, e, plus)
  PROVE  Inv'
<1>0. \A x \in Emails :
        processed[x] # None /\ IsGrey(processed[x].verdict) => HasHost(x)
  BY DEF Inv, BehindThePlace, Remembered
<1>1. recheck' \subseteq Files \X Emails \X BOOLEAN
  BY DEF Recheck, Inv, TypeOK
<1>2. /\ processed' \in [Emails -> Row \union {None}]
      /\ \A x \in Emails :
           /\ (processed'[x] # None) <=> (processed[x] # None)
           /\ processed[x] # None /\ IsGrey(processed'[x].verdict) => HasHost(x)
  <2>1. CASE UNCHANGED processed
    BY <1>0, <2>1 DEF Inv, TypeOK
  <2>2. ASSUME NEW v \in Verdict, UpdateProcessed(e, v, plus),
               IsGrey(v) => v = processed[e].verdict
        PROVE  <1>2!1 /\ <1>2!2
    BY <1>0, <2>2, UpdateTypes
  <2>3. QED
    BY <2>1, <2>2, RecheckWrites
<1>3. QED
  BY <1>1, <1>2, OthersInv DEF Recheck, Inv, TypeOK

LEMMA TickInv == Inv /\ Tick => Inv'
<1> SUFFICES ASSUME Inv, Tick PROVE Inv'
  OBVIOUS
<1>1. day' \in Days
  BY GapsAssumption DEF Tick, Inv, TypeOK, Days
<1>2. QED
  BY <1>1, OthersInv DEF Tick, tables, Inv, TypeOK, BehindThePlace, Remembered

-----------------------------------------------------------------------------
(* The invariant *)

LEMMA NextInv == Inv /\ [Next]_vars => Inv'
<1> SUFFICES ASSUME Inv, [Next]_vars PROVE Inv'
  OBVIOUS
<1>1. ASSUME NEW c \in Calls, Step(c) PROVE Inv'
  BY <1>1, BeginInv, FindErrorDomainInv, FindDomainInv, CheckListsInv, LookupsInv,
     LeaveBlacklistsInv, FindMxInv, CreateDomainInv, InsertDomainInv, AskInv,
     SendVerifyPlusEmailInv, FindProcessedInv, InsertProcessedInv, BlameDomainInv,
     AppendProblemInv DEF Step
<1>2. ASSUME NEW c \in Calls, NEW zone \in Zones, LookupAnswered(c, zone) PROVE Inv'
  BY <1>2, LookupsInv
<1>3. ASSUME NEW e \in Emails, Notified(e) PROVE Inv'
  BY <1>3, NotifiedInv
<1>4. ASSUME NEW e \in Emails, NEW file \in Files,
             QueueGrey(file, e) \/ \E plus \in BOOLEAN : Recheck(file, e, plus)
      PROVE  Inv'
  BY <1>4, QueueGreyInv, RecheckInv
<1>5. CASE Tick
  BY <1>5, TickInv
<1>6. CASE UNCHANGED vars
  <2>1. UNCHANGED <<day, processed, saved, blamed, call, lookups, mailed, recheck>>
    BY <1>6 DEF vars, tables
  <2>2. QED
    BY <2>1, OthersInv DEF Inv, TypeOK, BehindThePlace, Remembered
<1>7. QED
  BY <1>1, <1>2, <1>3, <1>4, <1>5, <1>6 DEF Next

LEMMA AlwaysInv == Spec => []Inv
BY InitInv, NextInv, PTL DEF Spec

\* Every variable of the model keeps its type: a verdict that is stored or blamed
\* has a status and a reason of email-status-type.ts, or those of an exception.
THEOREM TypeCorrect == Spec => []TypeOK
BY AlwaysInv, PTL DEF Inv

\* For any number of concurrent calls, what a call of smtpValidation has done by
\* the time it reaches a place of the code still holds when it goes on
\* (domain.service.ts:436-553).
THEOREM CallsCorrect == Spec => []BehindThePlace
BY AlwaysInv, PTL DEF Inv

\* A validation that is over has left a row for its email
\* (domain.service.ts:543-551, 603-634).
THEOREM VerdictIsStoredCorrect == Spec => []VerdictIsStored
<1>1. Inv => VerdictIsStored
  BY CallFacts DEF VerdictIsStored, WithVerdict, At, Complete, Domain, Email
<1>2. QED
  BY <1>1, AlwaysInv, PTL

-----------------------------------------------------------------------------
(* Who writes a row of processed_emails *)

\* A row is inserted by a validation, or changed by the webhook or the grey job,
\* which touch no call; grey anew, by the webhook only.
LEMMA RowChanges ==
  ASSUME Inv, Next, NEW e \in Emails, processed'[e] # processed[e]
  PROVE  \/ /\ processed[e] = None
            /\ \E c \in Calls : Email(c) = e /\ Complete(c) /\ InsertProcessed(c)
         \/ /\ processed[e] # None /\ UNCHANGED call
            /\ IsGrey(processed'[e].verdict) =>
                 e \in mailed \/ processed'[e].verdict = processed[e].verdict
<1>1. ASSUME NEW c \in Calls, InsertProcessed(c)
      PROVE  processed[e] = None /\ Email(c) = e /\ Complete(c)
  BY <1>1 DEF InsertProcessed, Inv, TypeOK
<1>2. ASSUME NEW x \in Emails, NEW v \in Verdict, NEW plus \in BOOLEAN,
             UpdateProcessed(x, v, plus)
      PROVE  x = e /\ processed[e] # None /\ processed'[e].verdict = v
  <2>1. x = e /\ processed[e] # None
    BY <1>2 DEF UpdateProcessed, Inv, TypeOK
  <2>2. processed[e] \in Row
    BY <2>1 DEF Inv, TypeOK
  <2>3. processed'[e] = [processed[e] EXCEPT !.verdict = v, !.plus = plus]
    BY <1>2, <2>1 DEF UpdateProcessed, Inv, TypeOK
  <2>4. QED
    BY <2>1, <2>2, <2>3 DEF Row
<1>3. ASSUME NEW x \in Emails, Notified(x)
      PROVE  processed[e] # None /\ UNCHANGED call /\ e \in mailed
  <2>1. PICK v \in Verdict : UpdateProcessed(x, v, TRUE)
    BY <1>3, VerdictTypes DEF Notified
  <2>2. x = e /\ processed[e] # None
    BY <1>2, <2>1
  <2>3. QED
    BY <1>3, <2>2 DEF Notified
<1>4. ASSUME NEW file \in Files, NEW x \in Emails, NEW plus \in BOOLEAN,
             Recheck(file, x, plus)
      PROVE  /\ processed[e] # None /\ UNCHANGED call
             /\ IsGrey(processed'[e].verdict) =>
                  processed'[e].verdict = processed[e].verdict
  <2>1. PICK v \in Verdict : /\ UpdateProcessed(x, v, plus)
                             /\ IsGrey(v) => v = processed[x].verdict
    BY <1>4, RecheckWrites
  <2>2. x = e /\ processed[e] # None /\ processed'[e].verdict = v
    BY <1>2, <2>1
  <2>3. UNCHANGED call
    BY <1>4 DEF Recheck
  <2>4. QED
    BY <2>1, <2>2, <2>3
<1>5. \/ \E c \in Calls : InsertProcessed(c)
      \/ \E x \in Emails :
           \/ Notified(x)
           \/ \E file \in Files, plus \in BOOLEAN : Recheck(file, x, plus)
  BY DEF Next, Step, Begin, FindErrorDomain, FindDomain, CheckLists, ResolveDomain,
         LeaveBlacklists, FindMx, CreateDomain, InsertDomain, Ask, SendVerifyPlusEmail,
         FindProcessed, BlameDomain, AppendProblem, LookupAnswered, QueueGrey, Tick, tables
<1>6. QED
  BY <1>1, <1>3, <1>4, <1>5

\* A validation never changes a row that is there (domain.service.ts:118-130).
THEOREM StoredVerdictStaysCorrect == Spec => StoredVerdictStays
<1>1. ASSUME Inv, [Next]_vars
      PROVE  [\A e \in Emails :
                processed[e] # None /\ processed'[e] # processed[e] => UNCHANGED call]_vars
  BY <1>1, RowChanges
<1>2. QED
  BY <1>1, AlwaysInv, PTL DEF Spec, StoredVerdictStays

\* The grey job finds a row in domains for every email it is to ask about
\* (queue.service.ts:92-95).
THEOREM GreyHasHostCorrect == Spec => []GreyHasHost
<1>1. Inv => GreyHasHost
  BY DEF Inv, BehindThePlace, Remembered, GreyHasHost, HasHost
<1>2. QED
  BY <1>1, AlwaysInv, PTL

\* A final verdict is made grey again by an event about the email's own mail only
\* (queue.service.ts:106-118, webhook.service.ts:41-64).
THEOREM FinalStaysFinalCorrect == Spec => FinalStaysFinal
<1>1. ASSUME Inv, [Next]_vars
      PROVE  [\A e \in Emails :
                /\ processed[e] # None /\ ~IsGrey(processed[e].verdict)
                /\ IsGrey(processed'[e].verdict)
                => e \in mailed]_vars
  BY <1>1, RowChanges
<1>2. QED
  BY <1>1, AlwaysInv, PTL DEF Spec, FinalStaysFinal

-----------------------------------------------------------------------------
(* Who writes a row of error_domains *)

\* The rows of a domain change by one step of a call in the catch block, for a
\* verdict about the domain.
LEMMA BlamedChanges ==
  ASSUME Inv, [Next]_vars, NEW d \in Domains, blamed'[d] # blamed[d]
  PROVE  \E c \in Calls :
           /\ Domain(c) = d /\ call[c].at \in {"blame", "append"}
           /\ d \notin Free /\ call[c].verdict.reason \notin SkipReasons
           /\ \/ \E i \in DOMAIN blamed[d] :
                   blamed'[d] = [blamed[d] EXCEPT
                                   ![i] = Overwritten(blamed[d][i], call[c].verdict)]
              \/ blamed'[d] = Append(blamed[d], [verdict |-> call[c].verdict, at |-> day])
<1>1. PICK c \in Calls : BlameDomain(c) \/ AppendProblem(c)
  BY DEF Next, Step, Begin, FindErrorDomain, FindDomain, CheckLists, ResolveDomain,
         LeaveBlacklists, FindMx, CreateDomain, InsertDomain, Ask, SendVerifyPlusEmail,
         FindProcessed, InsertProcessed, LookupAnswered, Notified, Recheck, QueueGrey,
         Tick, tables, vars
<1>2. CASE BlameDomain(c)
  <2>1. PICK i \in DOMAIN blamed[Domain(c)] :
          blamed' = [blamed EXCEPT ![Domain(c)][i] = Overwritten(@, call[c].verdict)]
    BY <1>2 DEF BlameDomain
  <2>2. AboutTheDomain(c)
    BY <1>2 DEF BlameDomain
  <2>3. d = Domain(c) /\ blamed'[d] = [blamed[d] EXCEPT
                                        ![i] = Overwritten(blamed[d][i], call[c].verdict)]
    BY <2>1 DEF Inv, TypeOK
  <2>4. QED
    BY <1>2, <2>2, <2>3, <2>1 DEF AboutTheDomain, BlameDomain, At
<1>3. CASE AppendProblem(c)
  <2>1. d = Domain(c)
        /\ blamed'[d] = Append(blamed[d], [verdict |-> call[c].verdict, at |-> day])
    BY <1>3 DEF AppendProblem, Inv, TypeOK
  <2>2. d \notin Free /\ call[c].verdict.reason \notin SkipReasons
    BY <1>3, <2>1, CallFacts DEF AppendProblem, At, WithVerdict, Domain, Email
  <2>3. QED
    BY <1>3, <2>1, <2>2 DEF AppendProblem, At
<1>4. QED
  BY <1>1, <1>2, <1>3

\* What the rows of a domain are after such a step.
LEMMA BlamedRows ==
  ASSUME Inv, [Next]_vars, NEW d \in Domains, NEW i \in DOMAIN blamed'[d]
  PROVE  \/ i \in DOMAIN blamed[d] /\ blamed'[d][i] = blamed[d][i]
         \/ \E c \in Calls :
              /\ Domain(c) = d /\ call[c].at \in {"blame", "append"}
              /\ d \notin Free /\ call[c].verdict.reason \notin SkipReasons
              /\ \/ /\ i \in DOMAIN blamed[d]
                    /\ blamed'[d][i] = Overwritten(blamed[d][i], call[c].verdict)
                 \/ /\ i \notin DOMAIN blamed[d]
                    /\ blamed'[d][i] = [verdict |-> call[c].verdict, at |-> day]
<1>1. blamed[d] \in Seq(Problem) /\ blamed'[d] \in Seq(Problem)
  BY NextInv DEF Inv, TypeOK
<1>2. CASE blamed'[d] = blamed[d]
  BY <1>2
<1>3. ASSUME NEW c \in Calls, NEW k \in DOMAIN blamed[d],
             d \notin Free, call[c].verdict.reason \notin SkipReasons,
             blamed'[d] = [blamed[d] EXCEPT
                             ![k] = Overwritten(blamed[d][k], call[c].verdict)]
      PROVE  \/ i \in DOMAIN blamed[d] /\ blamed'[d][i] = blamed[d][i]
             \/ /\ i \in DOMAIN blamed[d]
                /\ blamed'[d][i] = Overwritten(blamed[d][i], call[c].verdict)
  BY <1>1, <1>3
<1>4. ASSUME NEW c \in Calls,
             blamed'[d] = Append(blamed[d], [verdict |-> call[c].verdict, at |-> day])
      PROVE  \/ i \in DOMAIN blamed[d] /\ blamed'[d][i] = blamed[d][i]
             \/ /\ i \notin DOMAIN blamed[d]
                /\ blamed'[d][i] = [verdict |-> call[c].verdict, at |-> day]
  BY <1>1, <1>4
<1>5. QED
  BY <1>2, <1>3, <1>4, BlamedChanges

\* A call past the insert stays there, with its verdict; every call keeps its email.
LEMMA PastStays ==
  ASSUME Inv, [Next]_vars, NEW c \in Calls
  PROVE  /\ call'[c].email = call[c].email
         /\ call[c].at \in {"blame", "append", "done"} =>
              /\ call'[c].at \in {"blame", "append", "done"}
              /\ call'[c].verdict = call[c].verdict
<1>0. call \in [Calls -> Call] /\ call[c] \in Call
  BY DEF Inv, TypeOK
<1>1. CASE UNCHANGED call
  BY <1>1
<1>2. ASSUME NEW x \in Calls, NEW zone \in Zones, LookupAnswered(x, zone)
      PROVE  /\ call'[c].email = call[c].email /\ call'[c].at = call[c].at
             /\ call'[c].verdict = call[c].verdict
  BY <1>0, <1>2 DEF LookupAnswered, Call
<1>3. ASSUME NEW x \in Calls, Step(x), x # c
      PROVE  call'[c] = call[c]
  BY <1>0, <1>3
  DEF Step, Begin, FindErrorDomain, FindDomain, CheckLists, ResolveDomain,
      LeaveBlacklists, FindMx, CreateDomain, InsertDomain, Ask, SendVerifyPlusEmail,
      FindProcessed, InsertProcessed, BlameDomain, AppendProblem, Go, Return, Throw
<1>4. ASSUME Step(c)
      PROVE  call'[c].email = call[c].email
  <2>1. CASE Begin(c) \/ FindDomain(c) \/ ResolveDomain(c) \/ SendVerifyPlusEmail(c)
    <3>1. CASE Begin(c)
      BY <1>0, <3>1 DEF Begin, Go, Throw, Call
    <3>2. CASE FindDomain(c)
      BY <1>0, <3>2 DEF FindDomain, Call
    <3>3. CASE ResolveDomain(c) \/ SendVerifyPlusEmail(c)
      BY <1>0, <3>3 DEF ResolveDomain, SendVerifyPlusEmail, Throw, Call
    <3>4. QED
      BY <2>1, <3>1, <3>2, <3>3
  <2>2. CASE CheckLists(c) \/ LeaveBlacklists(c) \/ FindMx(c) \/ CreateDomain(c)
    BY <1>0, <2>2 DEF CheckLists, LeaveBlacklists, FindMx, CreateDomain, Go, Throw, Call
  <2>3. CASE InsertDomain(c) \/ FindProcessed(c) \/ InsertProcessed(c)
             \/ BlameDomain(c) \/ AppendProblem(c)
    BY <1>0, <2>3
    DEF InsertDomain, FindProcessed, InsertProcessed, BlameDomain, AppendProblem,
        Go, Throw, Call
  <2>4. CASE FindErrorDomain(c) \/ Ask(c)
    <3>1. (\E place \in Places : Go(c, place))
          \/ \E v : Throw(c, v) \/ Return(c, v)
      BY <2>4 DEF FindErrorDomain, Ask, Places
    <3>2. ASSUME NEW place, Go(c, place)
          PROVE  call'[c].email = call[c].email
      BY <1>0, <3>2 DEF Go, Call
    <3>3. ASSUME NEW v, Throw(c, v) \/ Return(c, v)
          PROVE  call'[c].email = call[c].email
      BY <1>0, <3>3 DEF Throw, Return, Call
    <3>4. QED
      BY <3>1, <3>2, <3>3
  <2>5. QED
    BY <1>4, <2>1, <2>2, <2>3, <2>4 DEF Step
<1>5. ASSUME Step(c), call[c].at \in {"blame", "append", "done"}
      PROVE  /\ call'[c].at \in {"blame", "append", "done"}
             /\ call'[c].verdict = call[c].verdict
  <2>1. BlameDomain(c) \/ AppendProblem(c)
    BY <1>5
    DEF Step, At, Begin, FindErrorDomain, FindDomain, CheckLists, ResolveDomain,
        LeaveBlacklists, FindMx, CreateDomain, InsertDomain, Ask, SendVerifyPlusEmail,
        FindProcessed, InsertProcessed
  <2>2. Go(c, "append") \/ Go(c, "done")
    BY <2>1 DEF BlameDomain, AppendProblem
  <2>3. QED
    BY <1>0, <2>2 DEF Go, Call
<1>6. \/ UNCHANGED call
      \/ \E x \in Calls : Step(x) \/ \E zone \in Zones : LookupAnswered(x, zone)
  BY DEF Next, Notified, QueueGrey, Recheck, Tick, vars
<1>7. QED
  BY <1>1, <1>2, <1>3, <1>4, <1>5, <1>6

LEMMA RowsHaveWriterInv ==
  ASSUME Inv, RowsHaveWriter, [Next]_vars
  PROVE  RowsHaveWriter'
<1> SUFFICES ASSUME NEW e \in Emails, processed'[e] # None
             PROVE  \E c \in Calls : /\ call'[c].email = e
                                     /\ call'[c].at \in {"blame", "append", "done"}
                                     /\ call'[c].verdict.reason # "undefined"
  BY DEF RowsHaveWriter, Email
<1>1. CASE processed[e] # None
  BY <1>1, PastStays DEF RowsHaveWriter, Email
<1>2. CASE processed[e] = None
  <2>1. Next
    BY <1>2 DEF vars, tables
  <2>2. PICK c \in Calls : Email(c) = e /\ Complete(c) /\ InsertProcessed(c)
    BY <1>2, <2>1, RowChanges
  <2>3. Go(c, "blame") \/ Go(c, "done")
    BY <1>2, <2>2 DEF InsertProcessed
  <2>4. /\ call'[c].email = e /\ call'[c].at \in {"blame", "append", "done"}
        /\ call'[c].verdict = call[c].verdict
    BY <2>2, <2>3, CallFacts DEF Go, Call, Email, Inv, TypeOK
  <2>5. QED
    BY <2>2, <2>4 DEF Complete
<1>3. QED
  BY <1>1, <1>2

LEMMA AlwaysWriter == Spec => []RowsHaveWriter
<1>1. Init => RowsHaveWriter
  BY DEF Init, RowsHaveWriter
<1>2. QED
  BY <1>1, RowsHaveWriterInv, AlwaysInv, PTL DEF Spec

\* Two calls for one email of a domain.
Twice(d) == \E c, other \in Calls :
              c # other /\ Email(c) = Email(other) /\ Domain(c) = d

\* A call that blames a domain for no verdict is not the one that wrote the row.
LEMMA BlamedTwice ==
  ASSUME Inv, RowsHaveWriter, NEW c \in Calls, call[c].at \in {"blame", "append"},
         call[c].verdict.reason = "undefined"
  PROVE  Twice(Domain(c))
<1>1. Email(c) \in Emails /\ processed[Email(c)] # None
  BY CallFacts DEF WithVerdict, Email
<1>2. PICK other \in Calls : Email(other) = Email(c)
                             /\ call[other].verdict.reason # "undefined"
  BY <1>1 DEF RowsHaveWriter
<1>3. QED
  BY <1>2 DEF Twice

\* A domain is barred for a verdict that may concern more than one mailbox, or for an
\* error about an email that was validated twice; a free provider never is
\* (domain.service.ts:543-551, 605-629).
THEOREM BlameCorrect == Spec => []BlameHasGround
<1>1. Init => BlameHasGround
  BY DEF Init, BlameHasGround, Range
<1>2. ASSUME Inv, RowsHaveWriter, BlameHasGround, [Next]_vars
      PROVE  BlameHasGround'
  <2> DEFINE Ground(d, v) == /\ d \notin Free /\ v.reason \notin SkipReasons
                             /\ v.reason = "undefined" => Twice(d)
  <2>1. ASSUME NEW d, Twice(d)
        PROVE  Twice(d)'
    BY <1>2, <2>1, PastStays DEF Twice, Email, Domain
  <2>2. SUFFICES ASSUME NEW d \in Domains, NEW i \in DOMAIN blamed'[d]
                 PROVE  Ground(d, blamed'[d][i].verdict)
    BY <2>1 DEF BlameHasGround, Range, Twice
  <2>3. ASSUME i \in DOMAIN blamed[d]
        PROVE  Ground(d, blamed[d][i].verdict)
    BY <1>2, <2>3 DEF BlameHasGround, Range, Twice
  <2>4. CASE i \in DOMAIN blamed[d] /\ blamed'[d][i] = blamed[d][i]
    BY <2>3, <2>4
  <2>5. CASE ~(i \in DOMAIN blamed[d] /\ blamed'[d][i] = blamed[d][i])
    <3>1. PICK c \in Calls :
            /\ Domain(c) = d /\ call[c].at \in {"blame", "append"}
            /\ d \notin Free /\ call[c].verdict.reason \notin SkipReasons
            /\ \/ /\ i \in DOMAIN blamed[d]
                  /\ blamed'[d][i] = Overwritten(blamed[d][i], call[c].verdict)
               \/ /\ i \notin DOMAIN blamed[d]
                  /\ blamed'[d][i] = [verdict |-> call[c].verdict, at |-> day]
      BY <1>2, <2>5, BlamedRows
    <3>2. Ground(d, call[c].verdict)
      BY <1>2, <3>1, BlamedTwice
    <3>3. CASE i \notin DOMAIN blamed[d]
      <4>1. blamed'[d][i].verdict = call[c].verdict
        BY <3>1, <3>3
      <4>2. QED
        BY <3>2, <4>1
    <3>4. CASE i \in DOMAIN blamed[d]
      <4>1. blamed[d][i] \in Problem
        BY <1>2, <3>4, LenProperties, ElementOfSeq DEF Inv, TypeOK
      <4>2. blamed'[d][i].verdict \in {blamed[d][i].verdict, call[c].verdict}
        BY <3>1, <3>4, <4>1 DEF Overwritten, Problem
      <4>3. QED
        BY <2>3, <3>2, <3>4, <4>2
    <3>5. QED
      BY <3>3, <3>4
  <2>6. QED
    BY <2>4, <2>5
<1>3. QED
  BY <1>1, <1>2, AlwaysInv, AlwaysWriter, PTL DEF Spec

\* A row of error_domains keeps its status and its date for good
\* (domain.service.ts:196-207).
THEOREM ProblemKeepsStatusAndDateCorrect == Spec => ProblemKeepsStatusAndDate
<1> DEFINE Keeps == \A d \in Domains : \A i \in DOMAIN blamed[d] :
                      /\ i \in DOMAIN blamed'[d]
                      /\ blamed'[d][i].at = blamed[d][i].at
                      /\ blamed'[d][i].verdict.status = blamed[d][i].verdict.status
<1>1. ASSUME Inv, [Next]_vars
      PROVE  [Keeps]_vars
  <2> SUFFICES ASSUME NEW d \in Domains, NEW i \in DOMAIN blamed[d]
               PROVE  /\ i \in DOMAIN blamed'[d]
                      /\ blamed'[d][i].at = blamed[d][i].at
                      /\ blamed'[d][i].verdict.status = blamed[d][i].verdict.status
    OBVIOUS
  <2>1. blamed[d] \in Seq(Problem) /\ blamed[d][i] \in Problem
    BY <1>1, LenProperties, ElementOfSeq DEF Inv, TypeOK
  <2>2. i \in DOMAIN blamed'[d]
    <3>1. CASE blamed'[d] = blamed[d]
      BY <3>1
    <3>2. ASSUME NEW c \in Calls, NEW k \in DOMAIN blamed[d],
                 blamed'[d] = [blamed[d] EXCEPT
                                 ![k] = Overwritten(blamed[d][k], call[c].verdict)]
          PROVE  i \in DOMAIN blamed'[d]
      BY <3>2
    <3>3. ASSUME NEW c \in Calls,
                 blamed'[d] = Append(blamed[d], [verdict |-> call[c].verdict, at |-> day])
          PROVE  i \in DOMAIN blamed'[d]
      BY <2>1, <3>3
    <3>4. QED
      BY <1>1, <3>1, <3>2, <3>3, BlamedChanges
  <2>3. CASE blamed'[d][i] = blamed[d][i]
    BY <2>2, <2>3
  <2>4. ASSUME NEW c \in Calls,
               blamed'[d][i] = Overwritten(blamed[d][i], call[c].verdict)
        PROVE  /\ blamed'[d][i].at = blamed[d][i].at
               /\ blamed'[d][i].verdict.status = blamed[d][i].verdict.status
    BY <2>1, <2>4 DEF Overwritten, Problem
  <2>5. QED
    BY <1>1, <2>2, <2>3, <2>4, BlamedRows
<1>2. QED
  BY <1>1, AlwaysInv, PTL DEF Spec, ProblemKeepsStatusAndDate
================================================================================
