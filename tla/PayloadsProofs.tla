-------------------------- MODULE PayloadsProofs ---------------------------
(***************************************************************************)
(* What becomes of a payload, whatever the lengths of its texts, the bytes *)
(* of their characters and the ages, and for every number of retries.      *)
(***************************************************************************)
EXTENDS Payloads, TLAPS

-----------------------------------------------------------------------------
(* The handlers against the table of the README and against the form.      *)

\* The numbers that a payload's checks compare.
LEMMA PayloadShape ==
    ASSUME NEW p \in Payloads
    PROVE  /\ \/ p \in Emails /\ p.type = "send_email"
              \/ p \in Reports /\ p.type = "report_generation"
              \/ p \in Cleanups /\ p.type = "data_cleanup"
           /\ p.malformed \in BOOLEAN
           /\ p.text.chars \in Nat /\ p.text.width \in 1..4 /\ p.text.padded \in BOOLEAN
           /\ Bytes(p.text) \in Nat
           /\ p.type = "data_cleanup" => p.days \in Int
  <1>1. \/ p \in Emails /\ p.type = "send_email"
        \/ p \in Reports /\ p.type = "report_generation"
        \/ p \in Cleanups /\ p.type = "data_cleanup"
    BY DEF Payloads, Emails, Reports, Cleanups
  <1>2. p.malformed \in BOOLEAN /\ p.text \in Texts
    BY <1>1 DEF Emails, Reports, Cleanups
  <1>3. /\ p.text.chars \in Nat /\ p.text.width \in 1..4 /\ p.text.padded \in BOOLEAN
    BY <1>2, SamplesAssumption DEF Texts
  <1>4. p.type = "data_cleanup" => p.days \in Int
    <2>1. p \in Emails => p.type = "send_email"
      BY DEF Emails
    <2>2. p \in Reports => p.type = "report_generation"
      BY DEF Reports
    <2>3. p \in Cleanups => p.days \in Int
      BY SamplesAssumption DEF Cleanups
    <2> QED BY <1>1, <2>1, <2>2, <2>3
  <1>5. Bytes(p.text) \in Nat
    BY <1>3 DEF Bytes
  <1> QED BY <1>1, <1>2, <1>3, <1>4, <1>5

\* Each type is judged by the handler registered for it.
LEMMA JudgedByItsHandler ==
    ASSUME NEW p \in Payloads
    PROVE  /\ p.type = "send_email" => Problem(p) = EmailProblem(p)
           /\ p.type = "report_generation" => Problem(p) = ReportProblem(p)
           /\ p.type = "data_cleanup" => Problem(p) = CleanupProblem(p)
           /\ Problem(p) \in Problems \cup {"none"}
  <1>1. Registry(p.type) = p.type
    BY DEF Registry
  <1>2. /\ p.type = "send_email" => Problem(p) = EmailProblem(p)
        /\ p.type = "report_generation" => Problem(p) = ReportProblem(p)
        /\ p.type = "data_cleanup" => Problem(p) = CleanupProblem(p)
    BY <1>1 DEF Problem
  <1>3. /\ EmailProblem(p) \in Problems \cup {"none"}
        /\ ReportProblem(p) \in Problems \cup {"none"}
        /\ CleanupProblem(p) \in Problems \cup {"none"}
    BY DEF EmailProblem, ReportProblem, CleanupProblem, Problems
  <1> QED BY <1>2, <1>3, PayloadShape

\* No handler accepts what the README's table does not.
LEMMA AcceptedIsDocumented ==
    ASSUME NEW p \in Payloads, Problem(p) = "none"
    PROVE  Documented(p)
  <1>1. CASE p.type = "send_email"
    <2>1. EmailProblem(p) = "none"
      BY <1>1, JudgedByItsHandler
    <2>2. /\ Decodes(p) /\ p.to \in {"plain", "padded"} /\ p.text.chars # 0 /\ p.body
      BY <2>1 DEF EmailProblem
    <2> QED BY <1>1, <2>2, PayloadShape DEF Documented, Decodes
  <1>2. CASE p.type = "report_generation"
    <2>1. ReportProblem(p) = "none"
      BY <1>2, JudgedByItsHandler
    <2>2. Decodes(p) /\ p.format \in {"pdf", "paddedPDF"} /\ p.text.chars # 0
      BY <2>1 DEF ReportProblem
    <2>3. ~p.malformed /\ p.text.chars > 0
      BY <2>2, PayloadShape DEF Decodes
    <2> QED BY <1>2, <2>2, <2>3 DEF Documented
  <1>3. CASE p.type = "data_cleanup"
    <2>1. CleanupProblem(p) = "none"
      BY <1>3, JudgedByItsHandler
    <2>2. Decodes(p) /\ ~(p.days <= 0) /\ ~(p.days > 3650) /\ p.text.chars # 0
      BY <2>1 DEF CleanupProblem
    <2>3. 1 <= p.days /\ p.days <= 3650
      BY <1>3, <2>2, PayloadShape
    <2>4. ~p.malformed /\ p.text.chars > 0
      BY <2>2, PayloadShape DEF Decodes
    <2> QED BY <1>3, <2>3, <2>4 DEF Documented
  <1> QED BY <1>1, <1>2, <1>3, PayloadShape

\* And every handler accepts what the table does, if the text fits its limit.
LEMMA DocumentedIsAccepted ==
    ASSUME NEW p \in Payloads, Documented(p), Fits(p)
    PROVE  Problem(p) = "none"
  <1>0. Decodes(p) /\ p.text.chars # 0 /\ ~(Bytes(p.text) > Limit(p.type))
    <2>1. ~p.malformed /\ p.text.chars > 0 /\ p.text.chars * p.text.width <= Limit(p.type)
      BY DEF Documented, Fits
    <2>2. Limit(p.type) \in Nat
      BY DEF Limit
    <2>3. Bytes(p.text) = p.text.chars * p.text.width
      BY DEF Bytes
    <2> QED BY <2>1, <2>2, <2>3, PayloadShape DEF Decodes
  <1>1. CASE p.type = "send_email"
    <2>1. /\ p.to # "blank" /\ p.to \in {"plain", "padded"} /\ p.body
          /\ ~(Bytes(p.text) > 200)
      BY <1>0, <1>1 DEF Documented, Limit
    <2>2. EmailProblem(p) = "none"
      BY <1>0, <2>1 DEF EmailProblem
    <2> QED BY <1>1, <2>2, JudgedByItsHandler
  <1>2. CASE p.type = "report_generation"
    <2>1. p.format # "blank" /\ p.format \in {"pdf", "paddedPDF"}
      BY <1>2 DEF Documented
    <2>a. ~(Bytes(p.text) > 100)
      BY <1>0, <1>2 DEF Limit
    <2>2. ReportProblem(p) = "none"
      BY <1>0, <2>1, <2>a DEF ReportProblem
    <2> QED BY <1>2, <2>2, JudgedByItsHandler
  <1>3. CASE p.type = "data_cleanup"
    <2>a. 1 <= p.days /\ p.days <= 3650 /\ p.days \in Int
      BY <1>3, PayloadShape DEF Documented
    <2>1. ~(p.days <= 0) /\ ~(p.days > 3650) /\ ~(Bytes(p.text) > 100)
      BY <1>0, <1>3, <2>a DEF Limit
    <2>2. CleanupProblem(p) = "none"
      BY <1>0, <2>1 DEF CleanupProblem
    <2> QED BY <1>3, <2>2, JudgedByItsHandler
  <1> QED BY <1>1, <1>2, <1>3, PayloadShape

\* What a browser does not see.
FormGap(p, why) ==
    \/ why = "length" /\ p.text.width > 1
    \/ why = "required" /\ (p.text.chars = 0 \/ ~p.body)
    \/ why = "address" /\ p.to = "dotted"

\* A text of one byte per character that the form allows is within the limit of
\* its handler: the form counts at least its characters.
LEMMA AsciiFits ==
    ASSUME NEW p \in Payloads, FormAllows(p), p.text.width = 1
    PROVE  Bytes(p.text) <= MaxLength(p.type)
  <1>1. Units(p.text) <= MaxLength(p.type) /\ MaxLength(p.type) \in Nat
    BY DEF FormAllows, MaxLength
  <1>2. Bytes(p.text) = p.text.chars /\ Units(p.text) >= p.text.chars /\ Units(p.text) \in Nat
    BY PayloadShape DEF Bytes, Units
  <1> QED BY <1>1, <1>2, PayloadShape

LEMMA FormGaps ==
    ASSUME NEW p \in Payloads, FormAllows(p), Problem(p) # "none"
    PROVE  FormGap(p, Problem(p))
  <1>0. /\ Decodes(p)
        /\ p.text.width > 1 \/ Bytes(p.text) <= MaxLength(p.type)
    <2>1. Decodes(p)
      BY DEF FormAllows, Decodes
    <2>2. p.text.width = 1 \/ p.text.width > 1
      BY PayloadShape
    <2> QED BY <2>1, <2>2, AsciiFits
  <1>1. CASE p.type = "send_email"
    <2>1. p.to \in {"plain", "dotted"} /\ (p.text.width > 1 \/ ~(Bytes(p.text) > 200))
      BY <1>0, <1>1, PayloadShape DEF FormAllows, MaxLength
    <2>2. /\ EmailProblem(p) \in {"address", "required", "length", "none"}
          /\ EmailProblem(p) = "address" => p.to = "dotted"
          /\ EmailProblem(p) = "required" => p.text.chars = 0 \/ ~p.body
          /\ EmailProblem(p) = "length" => Bytes(p.text) > 200
      BY <1>0, <2>1 DEF EmailProblem
    <2> QED BY <1>1, <2>1, <2>2, JudgedByItsHandler DEF FormGap
  <1>2. CASE p.type = "report_generation"
    <2>1. p.format = "pdf" /\ (p.text.width > 1 \/ ~(Bytes(p.text) > 100))
      BY <1>0, <1>2, PayloadShape DEF FormAllows, MaxLength
    <2>2. /\ ReportProblem(p) \in {"required", "length", "none"}
          /\ ReportProblem(p) = "required" => p.text.chars = 0
          /\ ReportProblem(p) = "length" => Bytes(p.text) > 100
      BY <1>0, <2>1 DEF ReportProblem
    <2> QED BY <1>2, <2>1, <2>2, JudgedByItsHandler DEF FormGap
  <1>3. CASE p.type = "data_cleanup"
    <2>a. 1 <= p.days /\ p.days <= 3650 /\ p.days \in Int
      BY <1>3, PayloadShape DEF FormAllows
    <2>b. p.text.width > 1 \/ ~(Bytes(p.text) > 100)
      BY <1>0, <1>3, PayloadShape DEF MaxLength
    <2>1. /\ ~(p.days <= 0) /\ ~(p.days > 3650)
          /\ p.text.width > 1 \/ ~(Bytes(p.text) > 100)
      BY <2>a, <2>b
    <2>2. /\ CleanupProblem(p) \in {"required", "length", "none"}
          /\ CleanupProblem(p) = "required" => p.text.chars = 0
          /\ CleanupProblem(p) = "length" => Bytes(p.text) > 100
      BY <1>0, <2>1 DEF CleanupProblem
    <2> QED BY <1>3, <2>1, <2>2, JudgedByItsHandler DEF FormGap
  <1> QED BY <1>1, <1>2, <1>3, PayloadShape

-----------------------------------------------------------------------------
(* The invariant: the attempts agree with status and retry counter, and the *)
(* recorded failure is always the verdict on the payload.                  *)

Entities ==
    /\ row \in Entity
    /\ row.status \in {"none", "pending"} => attempts = row.retryCount
    /\ row.status \in {"processing", "success"} => attempts = row.retryCount + 1
    /\ row.status = "failed" => attempts = MaxRetries + 1

Verdict ==
    /\ lastError \in {"none", Problem(draft)}
    /\ row.retryCount > 0 \/ row.status = "failed" => Problem(draft) # "none"
    /\ row.status = "success" => Problem(draft) = "none"
    /\ (row.retryCount > 0 \/ row.status = "failed") => lastError = Problem(draft)

Inputs ==
    /\ draft \in Payloads \cup {EmptyObject}
    /\ byForm \in BOOLEAN /\ stopped \in BOOLEAN
    /\ row.status # "none" => draft \in Payloads
    /\ byForm => draft \in Payloads /\ FormAllows(draft)

PayloadsInv == Inputs /\ Entities /\ Verdict

LEMMA PayloadsInit == Init => PayloadsInv
  <1> SUFFICES ASSUME Init PROVE PayloadsInv
    OBVIOUS
  <1>1. row.status = "none" /\ row.retryCount = 0 /\ row \in Entity
    BY MaxRetriesAssumption DEF Init, NoRow, Entity
  <1>2. Inputs
    BY <1>1 DEF Init, Inputs
  <1>3. Entities
    BY <1>1 DEF Init, Entities
  <1>4. Verdict
    BY <1>1 DEF Init, Verdict
  <1> QED BY <1>2, <1>3, <1>4 DEF PayloadsInv

\* The job's own fields, in the form that the steps below use.
LEMMA RowFields ==
    ASSUME Entities
    PROVE  /\ row.status \in {"none", "pending", "processing", "success", "failed"}
           /\ row.retryCount \in 0..MaxRetries
           /\ row.lastError \in BOOLEAN /\ row.startedAt \in BOOLEAN
           /\ row.completedAt \in BOOLEAN
  BY DEF Entities, Entity, Status

LEMMA PayloadsStep == PayloadsInv /\ [Next]_vars => PayloadsInv'
  <1> SUFFICES ASSUME PayloadsInv, [Next]_vars PROVE PayloadsInv'
    OBVIOUS
  <1>0. Inputs /\ Entities /\ Verdict
    BY DEF PayloadsInv
  <1>f. /\ row \in Entity
        /\ row.status \in {"none", "pending", "processing", "success", "failed"}
        /\ row.retryCount \in 0..MaxRetries /\ MaxRetries \in Nat \ {0}
    BY <1>0, RowFields, MaxRetriesAssumption DEF Entities
  <1>1. CASE Submit
    <2>1. /\ row' = New /\ row'.status = "pending" /\ row'.retryCount = 0
          /\ row.retryCount = 0 /\ row.status = "none"
      BY <1>1 DEF Submit, New, NoRow
    <2>2. row' \in Entity
      BY <1>f, <1>1 DEF Submit, New, NoRow, Entity, Status
    <2>3. Inputs'
      BY <1>0, <1>1 DEF Submit, Inputs
    <2>4. Entities'
      BY <1>0, <1>1, <2>1, <2>2 DEF Submit, Entities
    <2>5. Verdict'
      BY <1>0, <1>1, <2>1 DEF Submit, Verdict
    <2> QED BY <2>3, <2>4, <2>5 DEF PayloadsInv
  <1>2. CASE Begin
    <2>1. /\ row' \in Entity /\ row'.status = "processing" /\ row'.retryCount = row.retryCount
          /\ row.status = "pending" /\ attempts' = attempts + 1
          /\ UNCHANGED <<draft, byForm, lastError, stopped>>
      BY <1>f, <1>2 DEF Begin, CanMarkProcessing, MarkProcessing, Entity, Status
    <2>2. Inputs'
      BY <1>0, <2>1 DEF Inputs
    <2>3. Entities'
      BY <1>0, <2>1 DEF Entities
    <2>4. Verdict'
      BY <1>0, <2>1 DEF Verdict
    <2> QED BY <2>2, <2>3, <2>4 DEF PayloadsInv
  <1>3. CASE Reject
    <2>1. /\ row.status = "processing" /\ Problem(draft) # "none"
          /\ row' = RecordFailure(row) /\ lastError' = Problem(draft)
          /\ UNCHANGED <<draft, byForm, attempts, stopped>>
      BY <1>3 DEF Reject, CanFinish
    <2>2. CASE CanRetry(row)
      <3>1. row.retryCount + 1 \in 0..MaxRetries
        BY <1>f, <2>2 DEF CanRetry
      <3>2. /\ row' \in Entity /\ row'.status = "pending"
            /\ row'.retryCount = row.retryCount + 1
        BY <1>f, <2>1, <2>2, <3>1 DEF RecordFailure, Entity, Status
      <3> QED BY <1>0, <2>1, <3>2 DEF PayloadsInv, Inputs, Entities, Verdict
    <2>3. CASE ~CanRetry(row)
      <3>1. row.retryCount = MaxRetries
        BY <1>f, <2>3 DEF CanRetry
      <3>2. /\ row' \in Entity /\ row'.status = "failed" /\ row'.retryCount = row.retryCount
        BY <1>f, <2>1, <2>3 DEF RecordFailure, Entity, Status
      <3> QED BY <1>0, <2>1, <3>1, <3>2 DEF PayloadsInv, Inputs, Entities, Verdict
    <2> QED BY <2>2, <2>3
  <1>4. CASE Complete
    <2>1. /\ row.status = "processing" /\ Problem(draft) = "none"
          /\ row' = MarkSuccess(row) /\ lastError' = "none"
          /\ UNCHANGED <<draft, byForm, attempts, stopped>>
      BY <1>4 DEF Complete, CanFinish
    <2>2. /\ row' \in Entity /\ row'.status = "success" /\ row'.retryCount = row.retryCount
      BY <1>f, <2>1 DEF MarkSuccess, Entity, Status
    <2> QED BY <1>0, <2>1, <2>2 DEF PayloadsInv, Inputs, Entities, Verdict
  <1>5. CASE Stop
    BY <1>0, <1>5 DEF Stop, PayloadsInv, Inputs, Entities, Verdict
  <1>6. CASE UNCHANGED vars
    BY <1>0, <1>6 DEF vars, PayloadsInv, Inputs, Entities, Verdict
  <1> QED BY <1>1, <1>2, <1>3, <1>4, <1>5, <1>6 DEF Next, Process

LEMMA PayloadsInductive == Spec => []PayloadsInv
  BY PayloadsInit, PayloadsStep, PTL DEF Spec

-----------------------------------------------------------------------------
(* The theorems.                                                           *)

\* Types, and at most MaxRetries + 1 attempts.
THEOREM PayloadsTypeCorrect == Spec => []TypeOK
  <1>1. ASSUME PayloadsInv PROVE TypeOK
    <2>1. /\ row \in Entity /\ row.retryCount \in 0..MaxRetries /\ MaxRetries \in Nat
          /\ row.status \in {"none", "pending", "processing", "success", "failed"}
      BY <1>1, RowFields, MaxRetriesAssumption DEF PayloadsInv, Entities
    <2>2. attempts \in 0..(MaxRetries + 1)
      BY <1>1, <2>1 DEF PayloadsInv, Entities
    <2>3. lastError \in Problems \cup {"none"}
      <3>1. draft \in Payloads => Problem(draft) \in Problems \cup {"none"}
        BY JudgedByItsHandler
      <3>2. Problem(EmptyObject) \in Problems \cup {"none"}
        BY DEF Problem, EmptyObject, CleanupProblem, Problems, Registry
      <3> QED BY <1>1, <3>1, <3>2 DEF PayloadsInv, Inputs, Verdict
    <2> QED BY <1>1, <2>1, <2>2, <2>3 DEF PayloadsInv, Inputs, TypeOK
  <1> QED BY PayloadsInductive, <1>1, PTL

\* For all texts and ages, a job succeeds only with a payload of the README's table.
THEOREM SuccessNeedsADocumentedPayload == Spec => []SuccessIsDocumented
  <1>1. PayloadsInv => SuccessIsDocumented
    BY AcceptedIsDocumented DEF PayloadsInv, Inputs, Verdict, SuccessIsDocumented
  <1> QED BY PayloadsInductive, <1>1, PTL

\* A documented payload that fits the limit in bytes is never sent to a retry.
THEOREM DocumentedJobsRunOnce == Spec => []DocumentedNeedsNoRetry
  <1>1. ASSUME PayloadsInv, Documented(draft), Fits(draft)
        PROVE  row.retryCount = 0 /\ row.status # "failed"
    <2>1. Problem(draft) = "none"
      BY <1>1, DocumentedIsAccepted DEF Documented
    <2> QED BY <1>1, <2>1, RowFields, MaxRetriesAssumption DEF PayloadsInv, Verdict
  <1>2. PayloadsInv => DocumentedNeedsNoRetry
    BY <1>1 DEF DocumentedNeedsNoRetry
  <1> QED BY PayloadsInductive, <1>2, PTL

\* The ways in which a payload that the form let pass can fail are the known ones.
THEOREM FormFailures == Spec => []FormFailuresAreKnown
  <1>1. PayloadsInv => FormFailuresAreKnown
    BY FormGaps DEF PayloadsInv, Inputs, Verdict, FormGap, FormFailuresAreKnown
  <1> QED BY PayloadsInductive, <1>1, PTL

\* A hopeless job is tried MaxRetries + 1 times, each time for the same reason.
THEOREM HopelessJobsRunOut == Spec => []HopelessJobsAreTriedOut
  <1>1. ASSUME PayloadsInv PROVE HopelessJobsAreTriedOut
    <2>1. /\ row.retryCount \in Nat /\ MaxRetries \in Nat
          /\ row.status \in {"none", "pending", "processing", "success", "failed"}
      BY <1>1, RowFields, MaxRetriesAssumption DEF PayloadsInv
    <2>2. attempts > 1 => row.retryCount > 0 \/ row.status = "failed"
      BY <1>1, <2>1 DEF PayloadsInv, Entities
    <2> QED BY <1>1, <2>1, <2>2 DEF PayloadsInv, Entities, Verdict, HopelessJobsAreTriedOut
  <1> QED BY PayloadsInductive, <1>1, PTL

-----------------------------------------------------------------------------
(* The job's way to its end.                                               *)

\* The row as the one job of the abstract lifecycle.
Lifecycle == INSTANCE JobLifecycle WITH
    Jobs       <- {"job"},
    status     <- [j \in {"job"} |-> row.status],
    retryCount <- [j \in {"job"} |-> row.retryCount]

PayloadLifecycle == Lifecycle!Spec

LEMMA LifecycleStep ==
    PayloadsInv /\ [Next]_vars => [Lifecycle!Next]_(Lifecycle!vars)
  <1> SUFFICES ASSUME PayloadsInv, [Next]_vars
               PROVE  [Lifecycle!Next]_(Lifecycle!vars)
    OBVIOUS
  <1> USE DEF Lifecycle!Next, Lifecycle!vars, Lifecycle!Move
  <1>a. row \in Entity
    BY DEF PayloadsInv, Entities
  <1>1. CASE Submit
    <2>1. Lifecycle!Create("job")
      BY <1>1 DEF Submit, Lifecycle!Create, New, NoRow
    <2> QED BY <2>1
  <1>2. CASE Begin
    <2>1. Lifecycle!Start("job")
      BY <1>2, <1>a DEF Begin, CanMarkProcessing, MarkProcessing, Lifecycle!Start, Entity
    <2> QED BY <2>1
  <1>3. CASE Reject
    <2>1. row.status = "processing" /\ row' = RecordFailure(row)
      BY <1>3 DEF Reject, CanFinish
    <2>2. CASE CanRetry(row)
      <3>1. Lifecycle!Retry("job")
        BY <2>1, <2>2, <1>a DEF Lifecycle!Retry, RecordFailure, CanRetry, Entity
      <3> QED BY <3>1
    <2>3. CASE ~CanRetry(row)
      <3>1. row.retryCount = MaxRetries
        BY <2>3, <1>a, MaxRetriesAssumption DEF CanRetry, Entity
      <3>2. Lifecycle!Exhaust("job")
        BY <2>1, <2>3, <3>1, <1>a DEF Lifecycle!Exhaust, RecordFailure, Entity
      <3> QED BY <3>2
    <2> QED BY <2>2, <2>3
  <1>4. CASE Complete
    <2>1. Lifecycle!Succeed("job")
      BY <1>4, <1>a DEF Complete, CanFinish, MarkSuccess, Lifecycle!Succeed, Entity
    <2> QED BY <2>1
  <1>5. CASE Stop \/ UNCHANGED vars
    BY <1>5 DEF Stop, vars
  <1> QED BY <1>1, <1>2, <1>3, <1>4, <1>5 DEF Next, Process

\* Whatever a payload is, good or hopeless, its job moves along JobLifecycle: the
\* handlers decide which transition is taken, never a transition of their own.
THEOREM PayloadsKeepTheLifecycle == Spec => PayloadLifecycle
  <1>1. Init => Lifecycle!Init
    BY DEF Init, Lifecycle!Init, NoRow
  <1> QED BY PayloadsInductive, LifecycleStep, <1>1, PTL
          DEF Spec, PayloadLifecycle, Lifecycle!Spec

\* The transitions that the row has ahead of it at most, and the stop.
Ahead(r) == CASE r.status = "none"       -> 2 * (MaxRetries - r.retryCount) + 3
              [] r.status = "pending"    -> 2 * (MaxRetries - r.retryCount) + 2
              [] r.status = "processing" -> 2 * (MaxRetries - r.retryCount) + 1
              [] OTHER                   -> 0

StepsLeft == Ahead(row) + IF stopped THEN 0 ELSE 1

JobDescends == StepsLeft \in Nat /\ StepsLeft' < StepsLeft
JobIsBounded == [][JobDescends]_vars

LEMMA AheadIsNatural ==
    ASSUME NEW r \in Entity
    PROVE  Ahead(r) \in Nat
  BY MaxRetriesAssumption DEF Entity, Status, Ahead

\* No payload keeps the workers busy for ever: every step of a job, a retry
\* included, takes it nearer to its end, which is at most 2 * MaxRetries + 4 steps
\* away from the submission.
THEOREM JobsAreBounded == Spec => JobIsBounded
  <1>1. ASSUME PayloadsInv, Next PROVE JobDescends
    <2>a. /\ row \in Entity /\ row.retryCount \in 0..MaxRetries /\ MaxRetries \in Nat
          /\ stopped \in BOOLEAN
      BY <1>1, RowFields, MaxRetriesAssumption DEF PayloadsInv, Inputs, Entities
    <2>b. Ahead(row) \in Nat /\ StepsLeft \in Nat
      BY <2>a, AheadIsNatural DEF StepsLeft
    <2>c. ASSUME UNCHANGED stopped, Ahead(row') \in Int, Ahead(row') < Ahead(row)
          PROVE  JobDescends
      BY <2>a, <2>b, <2>c DEF JobDescends, StepsLeft
    <2>1. CASE Submit
      BY <1>1, <2>1, <2>a, <2>c DEF Submit, New, NoRow, Ahead
    <2>2. CASE Begin
      <3>1. row.status = "pending" /\ row'.status = "processing"
        BY <2>2, <2>a DEF Begin, CanMarkProcessing, MarkProcessing, Entity
      <3>2. row'.retryCount = row.retryCount /\ UNCHANGED stopped
        BY <2>2, <2>a DEF Begin, MarkProcessing, Entity
      <3> QED BY <2>a, <2>c, <3>1, <3>2 DEF Ahead
    <2>3. CASE Reject
      <3>1. row.status = "processing" /\ row' = RecordFailure(row) /\ UNCHANGED stopped
        BY <2>3 DEF Reject, CanFinish
      <3>2. CASE CanRetry(row)
        <4>1. row'.status = "pending" /\ row'.retryCount = row.retryCount + 1
          BY <2>a, <3>1, <3>2 DEF RecordFailure, Entity
        <4> QED BY <2>a, <2>c, <3>1, <4>1 DEF Ahead
      <3>3. CASE ~CanRetry(row)
        <4>1. row'.status = "failed"
          BY <2>a, <3>1, <3>3 DEF RecordFailure, Entity
        <4> QED BY <2>a, <2>c, <3>1, <4>1 DEF Ahead
      <3> QED BY <3>2, <3>3
    <2>4. CASE Complete
      <3>1. row.status = "processing" /\ row'.status = "success" /\ UNCHANGED stopped
        BY <2>4, <2>a DEF Complete, CanFinish, MarkSuccess, Entity
      <3> QED BY <2>a, <2>c, <3>1 DEF Ahead
    <2>5. CASE Stop
      BY <2>5, <2>b DEF Stop, JobDescends, StepsLeft
    <2> QED BY <1>1, <2>1, <2>2, <2>3, <2>4, <2>5 DEF Next, Process
  <1>2. PayloadsInv /\ [Next]_vars => [JobDescends]_vars
    BY <1>1
  <1> QED BY PayloadsInductive, <1>2, PTL DEF Spec, JobIsBounded

=============================================================================
