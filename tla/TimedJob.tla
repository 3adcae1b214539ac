----------------------------- MODULE TimedJob ------------------------------
(***************************************************************************)
(* One job and the times of its lifecycle.  Module Job says when a          *)
(* transition is legal; this module adds what the clocks decide:           *)
(*                                                                         *)
(*   - a transition is refused when the clock is behind the entity's last   *)
(*     update (transitionTime), and a row whose update precedes its         *)
(*     creation cannot be loaded (Restore);                                *)
(*   - MySQL keeps times to a microsecond and rounds, so a stored time may  *)
(*     lie ahead of the clock that it was read from;                       *)
(*   - GORM overwrites updated_at with its own reading of the clock when it *)
(*     writes an Update, after the entity read the clock;                  *)
(*   - API and workers may run on different hosts, whose clocks differ, and *)
(*     a clock may be set while a job is under way.                        *)
(*                                                                         *)
(* Faults of calls are left to AsyncJobs: here every call succeeds and an   *)
(* ID is handed from one processing attempt to the next.                   *)
(***************************************************************************)
EXTENDS Job, Integers

CONSTANTS
    Hosts,        \* hosts that run a worker; each has one clock
    ApiHost,      \* the one that runs the API as well
    Offsets,      \* how far a clock may be from true time
    Epoch,        \* true time at the start
    Quantum,      \* bound: time passes in multiples of it, in nanoseconds
    CallTime,     \* a call to MySQL or Redis takes at least as long
    MaxTime,      \* bound: true time
    MaxSettings   \* bound: how often clocks are set

\* DATETIME(6) against clocks that count nanoseconds.
Microsecond == 1000

ASSUME HostsAssumption == ApiHost \in Hosts
ASSUME TimeAssumption ==
    /\ Offsets \subseteq Int
    /\ Epoch \in Int /\ Quantum \in Nat /\ CallTime \in Nat
    /\ MaxTime \in Int /\ MaxSettings \in Nat
    /\ \A o \in Offsets : Epoch + o >= Microsecond   \* no clock ever reads zero
\* Between the write of a row and the next reading of a clock for it lie at least
\* two calls; they outlast the rounding.
ASSUME CallsOutlastRounding == 2 * CallTime >= Microsecond \div 2

VARIABLES
    now,        \* true time
    offset,     \* offset[h]: what the clock of h is ahead of true time
    settings,   \* how often a clock was set
    pc,         \* where the job is
    host,       \* where its present attempt runs
    entity,     \* what that attempt holds
    row,        \* its row in MySQL
    writer      \* history: the host that wrote the row last

clocks == <<now, offset, settings>>
vars   == <<clocks, pc, host, entity, row, writer>>

PC == {"submit", "queued", "loaded", "marked", "execute", "finished",
       "settled", "refused", "unreadable"}

\* A time that is not set (a nil pointer); no clock reads it.
Unset == 0

Timed == [job : Entity, created : Int, updated : Int, started : Int, completed : Int]

NoTimedRow == [job |-> NoRow, created |-> Unset, updated |-> Unset,
               started |-> Unset, completed |-> Unset]

-----------------------------------------------------------------------------
(* The entity.                                                             *)

NewAt(t) == [job |-> New, created |-> t, updated |-> t,
             started |-> Unset, completed |-> Unset]

\* Definitions named ...Mutant are the next one with a plausible mistake.
TimeAllowedMutant(e, t) == t >= e.created    \* the wrong field is compared
TimeAllowedAlwaysMutant(e, t) == t # Unset   \* only IsZero is tested
TimeAllowed(e, t) == t >= e.updated

Processing(e, t) == [e EXCEPT !.job = MarkProcessing(@), !.started = t,
                              !.completed = Unset, !.updated = t]

Succeeded(e, t) == [e EXCEPT !.job = MarkSuccess(@), !.completed = t, !.updated = t]

Failed(e, t) ==
    [e EXCEPT !.job = RecordFailure(@), !.updated = t,
              !.completed = IF CanRetry(e.job) THEN Unset ELSE t]

\* Restore rejects a row that was updated before it was created.
Restorable(r) == r.created # Unset /\ r.updated >= r.created

-----------------------------------------------------------------------------
(* The row.                                                                *)

StoredMutant(t) ==       \* DATETIME, which rounds to seconds, scaled down
    LET s == t + 2 * Microsecond IN s - (s % (4 * Microsecond))

\* MySQL rounds half up to a microsecond; NULL stays NULL.
Stored(t) == LET s == t + Microsecond \div 2 IN s - (s % Microsecond)

\* Create writes the times of the entity.
Inserted(e) == [e EXCEPT !.created = Stored(@), !.updated = Stored(@)]

WrittenMutant(e, r, t) ==   \* created_at is among the columns that Update writes
    [e EXCEPT !.created = Stored(t), !.updated = Stored(t),
              !.started = Stored(@), !.completed = Stored(@)]

\* Update keeps created_at, and GORM replaces updated_at by its NowFunc.
Written(e, r, t) ==
    [e EXCEPT !.created = r.created, !.updated = Stored(t),
              !.started = Stored(@), !.completed = Stored(@)]

-----------------------------------------------------------------------------
(* The clocks.                                                             *)

Clock(h) == now + offset[h]

\* Time passes; a call takes at least CallTime.
Elapse(d) == now + d <= MaxTime /\ now' = now + d /\ UNCHANGED <<offset, settings>>

Tick == Elapse(Quantum) /\ UNCHANGED <<pc, host, entity, row, writer>>

\* NTP or an operator sets the clock of a host.
SetClock(h) ==
    /\ settings < MaxSettings
    /\ settings' = settings + 1
    /\ \E o \in Offsets \ {offset[h]} : offset' = [offset EXCEPT ![h] = o]
    /\ UNCHANGED <<now, pc, host, entity, row, writer>>

Init ==
    /\ now = Epoch
    /\ offset \in [Hosts -> Offsets]
    /\ settings = 0
    /\ pc = "submit"
    /\ host = ApiHost
    /\ entity = NoTimedRow
    /\ row = NoTimedRow
    /\ writer = ApiHost

-----------------------------------------------------------------------------
(* The life of the job.                                                    *)

\* CreateJob.Execute: the entity with its creation time, INSERT, LPUSH.
Submit ==
    /\ pc = "submit"
    /\ entity' = NewAt(Clock(ApiHost))
    /\ row' = Inserted(entity')
    /\ writer' = ApiHost
    /\ pc' = "queued"
    /\ Elapse(CallTime)
    /\ UNCHANGED host

\* ProcessJob.Execute on some host: GetByID maps the row to an entity.
Load(h) ==
    /\ pc = "queued"
    /\ host' = h
    /\ Elapse(CallTime)
    /\ \/ Restorable(row) /\ entity' = row /\ pc' = "loaded"
       \/ ~Restorable(row) /\ pc' = "unreadable" /\ UNCHANGED entity
    /\ UNCHANGED <<row, writer>>

\* A transition at the present reading of the host's clock, or its refusal.
Transition(from, to, e) ==
    /\ pc = from
    /\ \/ TimeAllowed(entity, Clock(host)) /\ entity' = e /\ pc' = to
       \/ ~TimeAllowed(entity, Clock(host)) /\ pc' = "refused" /\ UNCHANGED entity
    /\ UNCHANGED <<clocks, host, row, writer>>

Mark == /\ CanMarkProcessing(entity.job)
        /\ Transition("loaded", "marked", Processing(entity, Clock(host)))

Update(from, to) ==
    /\ pc = from
    /\ row' = Written(entity, row, Clock(host))
    /\ writer' = host
    /\ pc' = to
    /\ Elapse(CallTime)
    /\ UNCHANGED <<host, entity>>

Claim == Update("marked", "execute")

Finish ==
    /\ CanFinish(entity.job)
    /\ \E e \in {Succeeded(entity, Clock(host)), Failed(entity, Clock(host))} :
           Transition("execute", "finished", e)

\* The outcome is written, and a retry is published.
Record == Update("finished", IF entity.job.status = "pending" THEN "queued" ELSE "settled")

Next == \/ Tick \/ (\E h \in Hosts : SetClock(h))
        \/ Submit \/ (\E h \in Hosts : Load(h))
        \/ Mark \/ Claim \/ Finish \/ Record

Spec == Init /\ [][Next]_vars

-----------------------------------------------------------------------------
(* Properties.                                                             *)

\* Every variable keeps its type; the retry counter of entity and row stays within
\* the range that Restore accepts (Entity).
TypeOK ==
    /\ now \in Int /\ offset \in [Hosts -> Offsets] /\ settings \in 0..MaxSettings
    /\ pc \in PC /\ host \in Hosts /\ writer \in Hosts
    /\ entity \in Timed /\ row \in Timed

\* README, "Job fields": the times that a client reads are in the order of the
\* lifecycle, created before started before completed, however far the clocks of
\* the hosts are apart and however they are set: a transition that would break
\* the order is refused, or its row cannot be loaded any more.
TimesOrdered ==
    /\ row.started # Unset => row.created <= row.started
    /\ row.completed # Unset => row.started # Unset /\ row.started <= row.completed

\* Only a clock that is set back can make a row that GetByID cannot load again
\* (Restore: updated_at before created_at), which is lost to clients and workers
\* for good.  Clocks that merely differ cannot.
RowLoadable == settings = 0 /\ pc # "submit" => Restorable(row)

\* A transition is refused only to a host whose clock is behind the clock of the
\* host that wrote the row, or after a clock was set; so never as long as API and
\* workers share a steady clock, in spite of the rounding in MySQL.
RefusedOnlyBehind ==
    pc = "refused" /\ settings = 0 => offset[host] < offset[writer]

\* updated_at is "the time of the most recent lifecycle change": it never moves
\* back, on whichever hosts the attempts run, unless a clock is set.
UpdatesAdvance ==
    [][settings = 0 /\ row # NoTimedRow => row'.updated >= row.updated]_vars

\* What an attempt holds and its row, inductive: the entity's times are in order,
\* and the row has them as MySQL keeps them.
TimesInv ==
    /\ TypeOK
    /\ now >= Epoch
    /\ TimesOrdered
    /\ row.created = Stored(row.created)
    /\ pc = "submit" => row = NoTimedRow
    /\ pc = "loaded" => entity = row /\ Restorable(row)
    /\ pc \in {"marked", "execute", "finished"} =>
          row.created <= entity.started /\ entity.started >= Microsecond
    /\ pc \in {"marked", "execute"} =>
          entity.completed = Unset /\ entity.updated = entity.started
    /\ pc \in {"execute", "finished"} => row.started = Stored(entity.started)
    /\ pc = "finished" /\ entity.completed # Unset => entity.started <= entity.completed

\* Inductive with it, as long as no clock is set: the row's update is behind the
\* clock that wrote it, and further behind after every call since.
SteadyInv ==
    settings = 0 =>
        /\ RowLoadable /\ RefusedOnlyBehind
        /\ row.updated = Stored(row.updated)
        /\ row.updated <= Stored(Clock(writer))
        /\ pc = "queued" => row.updated <= Stored(Clock(writer) - CallTime)
        /\ pc = "loaded" => row.updated <= Stored(Clock(writer) - 2 * CallTime)
        /\ pc = "marked" => row.updated <= entity.updated
        /\ pc \in {"marked", "execute", "finished"} => entity.updated <= Clock(host)
        /\ pc \in {"execute", "finished"} => writer = host

=============================================================================
