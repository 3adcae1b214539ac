------------------------------ MODULE Payloads ------------------------------
(***************************************************************************)
(* What a job carries, from the form or the API client that submits it to  *)
(* the handler that judges it: the constraints of JobForm, the check of    *)
(* the domain (a non-empty JSON object), the registry of the executor and  *)
(* the validation of the three handlers.  The API accepts payloads that no *)
(* handler will; such a job is retried like any other before it fails.     *)
(*                                                                         *)
(* A text is its length in characters, the bytes of UTF-8 that each takes, *)
(* and whether white space surrounds it.  The pipeline around an attempt   *)
(* is that of AsyncJobs; here a job is alone, and a process that stops     *)
(* during an attempt leaves it in processing.                              *)
(*                                                                         *)
(* A definition named ...Mutant is the next one with a plausible mistake.  *)
(***************************************************************************)
EXTENDS Job, Integers

CONSTANTS
    Lengths,   \* lengths of the texts, in characters
    Widths,    \* bytes per character, of 1..4
    Ages       \* values of older_than_days

ASSUME SamplesAssumption == /\ Lengths \subseteq Nat /\ Widths \subseteq 1..4
                            /\ Ages \subseteq Int

Texts == [chars : Lengths, width : Widths, padded : BOOLEAN]

Types == {"send_email", "report_generation", "data_cleanup"}

\* malformed: a field that the type lacks, or a value of another JSON type.  A
\* field that is missing is decoded like an empty text or 0.  An address is
\* plain, in the form Bob <bob@example.com>, or one of two consecutive dots; the
\* padded forms have spaces around them, and the padded format is in upper case.
Emails == [type      : {"send_email"},
           malformed : BOOLEAN,
           to        : {"blank", "plain", "padded", "named", "dotted", "other"},
           text      : Texts,      \* the subject
           body      : BOOLEAN]    \* it is more than white space

Reports == [type      : {"report_generation"},
            malformed : BOOLEAN,
            text      : Texts,     \* the name of the report
            format    : {"blank", "pdf", "paddedPDF", "xml"}]

Cleanups == [type      : {"data_cleanup"},
             malformed : BOOLEAN,
             text      : Texts,    \* the scope
             days      : Ages]

EmptyObject == [type |-> "data_cleanup", fields |-> {}]

Payloads == Emails \cup Reports \cup Cleanups

-----------------------------------------------------------------------------
(* The form.                                                               *)

\* maxLength counts the raw value in the 16-bit units of JavaScript strings.
Units(t) == t.chars * (IF t.width = 4 THEN 2 ELSE 1) + (IF t.padded THEN 2 ELSE 0)

MaxLengthMutant(type) == 200    \* the limit of the subject for every text
MaxLength(type) == IF type = "send_email" THEN 200 ELSE 100

\* A payload that the browser lets the form submit.  A text of spaces is there
\* for "required", and an input of type email drops the spaces around it.
FormAllows(p) ==
    /\ ~p.malformed
    /\ Units(p.text) \in 1..MaxLength(p.type)
    /\ CASE p.type = "send_email" -> p.to \in {"plain", "dotted"}
         [] p.type = "report_generation" -> p.format = "pdf"
         [] p.type = "data_cleanup" -> 1 <= p.days /\ p.days <= 3650

-----------------------------------------------------------------------------
(* The executor.                                                           *)

\* len(strings.TrimSpace(text)), in bytes.
Bytes(t) == t.chars * t.width

\* decodeStrictPayload.  A second JSON value cannot follow: the API has refused it.
Decodes(p) == ~p.malformed

Problems == {"payload", "required", "address", "length", "format", "days", "type"}

\* The first check that fails, or "none", in each handler's order.
EmailProblemMutant(p) ==     \* Subject is not trimmed
    CASE ~Decodes(p) -> "payload"
      [] p.to = "blank" -> "required"
      [] p.to \notin {"plain", "padded"} -> "address"
      [] p.text.chars = 0 /\ ~p.text.padded -> "required"
      [] Bytes(p.text) > 200 -> "length"
      [] ~p.body -> "required"
      [] OTHER -> "none"
EmailProblem(p) ==
    CASE ~Decodes(p) -> "payload"
      [] p.to = "blank" -> "required"
      [] p.to \notin {"plain", "padded"} -> "address"
      [] p.text.chars = 0 -> "required"
      [] Bytes(p.text) > 200 -> "length"
      [] ~p.body -> "required"
      [] OTHER -> "none"

ReportProblem(p) ==
    CASE ~Decodes(p) -> "payload"
      [] p.text.chars = 0 -> "required"
      [] Bytes(p.text) > 100 -> "length"
      [] p.format = "blank" -> "required"
      [] p.format \notin {"pdf", "paddedPDF"} -> "format"
      [] OTHER -> "none"

CleanupProblemMutant(p) ==   \* the bound itself is refused
    CASE ~Decodes(p) -> "payload"
      [] p.text.chars = 0 -> "required"
      [] Bytes(p.text) > 100 -> "length"
      [] p.days <= 0 \/ p.days >= 3650 -> "days"
      [] OTHER -> "none"
CleanupProblem(p) ==
    CASE ~Decodes(p) -> "payload"
      [] p.text.chars = 0 -> "required"
      [] Bytes(p.text) > 100 -> "length"
      [] p.days <= 0 \/ p.days > 3650 -> "days"
      [] OTHER -> "none"

\* The handler of a type, by the type that the handler accepts.
Registry(type) == type

Problem(p) ==
    IF Registry(p.type) # p.type THEN "type"
    ELSE CASE p.type = "send_email" -> EmailProblem(p)
           [] p.type = "report_generation" -> ReportProblem(p)
           [] p.type = "data_cleanup" -> CleanupProblem(p)

-----------------------------------------------------------------------------
VARIABLES
    draft,       \* the payload about to be submitted
    byForm,      \* whether the form submits it
    row,         \* the job's row
    lastError,   \* what the text of last_error says
    attempts,    \* attempts begun
    stopped      \* the worker's process stopped during an attempt

vars == <<draft, byForm, row, lastError, attempts, stopped>>

Init ==
    /\ draft \in Payloads \cup {EmptyObject}
    /\ byForm \in BOOLEAN
    /\ byForm => draft \in Payloads /\ FormAllows(draft)
    /\ row = NoRow
    /\ lastError = "none"
    /\ attempts = 0
    /\ stopped = FALSE

\* POST /api/v1/jobs: any object that is not empty becomes a job.
Submit ==
    /\ row = NoRow
    /\ draft # EmptyObject
    /\ row' = New
    /\ UNCHANGED <<draft, byForm, lastError, attempts, stopped>>

Begin ==
    /\ CanMarkProcessing(row)
    /\ row' = MarkProcessing(row)
    /\ attempts' = attempts + 1
    /\ UNCHANGED <<draft, byForm, lastError, stopped>>

\* The handler returns an error at once, or waits for its timer.
Reject ==
    /\ CanFinish(row)
    /\ ~stopped
    /\ Problem(draft) # "none"
    /\ row' = RecordFailure(row)
    /\ lastError' = Problem(draft)
    /\ UNCHANGED <<draft, byForm, attempts, stopped>>

Complete ==
    /\ CanFinish(row)
    /\ ~stopped
    /\ Problem(draft) = "none"
    /\ row' = MarkSuccess(row)
    /\ lastError' = "none"
    /\ UNCHANGED <<draft, byForm, attempts, stopped>>

Stop ==
    /\ CanFinish(row)
    /\ ~stopped
    /\ stopped' = TRUE
    /\ UNCHANGED <<draft, byForm, row, lastError, attempts>>

Process == Begin \/ Reject \/ Complete

Next == Submit \/ Process \/ Stop

Spec == Init /\ [][Next]_vars

-----------------------------------------------------------------------------
(* The table "Valid handler payloads" of README.md, which names no limit on *)
(* the length of a text.                                                   *)

Documented(p) ==
    /\ p \in Payloads
    /\ ~p.malformed
    /\ p.text.chars > 0
    /\ p.type = "send_email" => p.to \in {"plain", "padded"} /\ p.body
    /\ p.type = "report_generation" => p.format \in {"pdf", "paddedPDF"}
    /\ p.type = "data_cleanup" => 1 <= p.days /\ p.days <= 3650

\* The limit of the handlers' tests: 201 and 101 characters are refused.
Limit(type) == IF type = "send_email" THEN 200 ELSE 100
Fits(p) == p.text.chars * p.text.width <= Limit(p.type)

\* Every variable has its type; the retries do not outrun the attempts.
TypeOK ==
    /\ draft \in Payloads \cup {EmptyObject}
    /\ byForm \in BOOLEAN
    /\ row \in Entity
    /\ lastError \in Problems \cup {"none"}
    /\ attempts \in 0..(MaxRetries + 1)
    /\ stopped \in BOOLEAN

\* A job succeeds only with a payload that the README's table calls valid,
\* whichever handler the executor picked and however often it was tried.
SuccessIsDocumented == row.status = "success" => Documented(draft)

\* A job with a documented payload whose text fits the limit in bytes is done
\* in one attempt: no check of any handler sends it to a retry.
DocumentedNeedsNoRetry ==
    (Documented(draft) /\ Fits(draft)) => row.retryCount = 0 /\ row.status # "failed"

\* What the form submits fails only for one of the reasons that a browser
\* does not see: bytes against characters, spaces only, a dotted address, an
\* empty message.  In particular no ASCII text is too long for the handler.
FormFailuresAreKnown ==
    (byForm /\ lastError # "none") =>
        \/ lastError = "length" /\ draft.text.width > 1
        \/ lastError = "required" /\ (draft.text.chars = 0 \/ ~draft.body)
        \/ lastError = "address" /\ draft.to = "dotted"

\* A job that no attempt can complete is tried MaxRetries + 1 times, no more
\* and no less, and carries the same reason from the first failure on.
HopelessJobsAreTriedOut ==
    /\ row.status = "failed" => attempts = MaxRetries + 1
    /\ row.status = "pending" => attempts = row.retryCount
    /\ attempts > 1 => lastError = Problem(draft) /\ lastError # "none"

=============================================================================
