-------------------------- MODULE TimedJobProofs ---------------------------
(***************************************************************************)
(* What the clocks cannot do to a job, for every number of hosts, every     *)
(* error of their clocks and every number of retries.                      *)
(***************************************************************************)
EXTENDS TimedJob, TLAPS

(* The transitions of the entity stay within its type, for every retry      *)
(* limit.                                                                  *)
LEMMA EntityTypes ==
    /\ NoRow \in Entity
    /\ New \in Entity
    /\ \A e \in Entity : /\ MarkProcessing(e) \in Entity
                         /\ MarkSuccess(e) \in Entity
                         /\ RecordFailure(e) \in Entity
  <1> 0 \in 0..MaxRetries
    BY MaxRetriesAssumption
  <1>1. NoRow \in Entity
    BY DEF NoRow, Entity
  <1>5. New \in Entity
    BY DEF New, NoRow, Entity, Status
  <1>2. ASSUME NEW e \in Entity PROVE MarkProcessing(e) \in Entity
    BY DEF MarkProcessing, Entity, Status
  <1>3. ASSUME NEW e \in Entity PROVE MarkSuccess(e) \in Entity
    BY DEF MarkSuccess, Entity, Status
  <1>4. ASSUME NEW e \in Entity PROVE RecordFailure(e) \in Entity
    <2>1. e.retryCount \in 0..MaxRetries
      BY DEF Entity
    <2>2. CanRetry(e) => e.retryCount + 1 \in 0..MaxRetries
      BY <2>1, MaxRetriesAssumption DEF CanRetry
    <2> QED BY <2>1, <2>2 DEF RecordFailure, Entity, Status
  <1> QED BY <1>1, <1>2, <1>3, <1>4, <1>5

-----------------------------------------------------------------------------
(* How MySQL rounds.                                                       *)

\* A stored time is within half a microsecond of the time that was written.
LEMMA StoredNear ==
    ASSUME NEW t \in Int
    PROVE  /\ Stored(t) \in Int
           /\ t - 500 < Stored(t)
           /\ Stored(t) <= t + 500
  BY DEF Stored, Microsecond

\* Rounding keeps the order of times.
LEMMA StoredMonotone ==
    ASSUME NEW s \in Int, NEW t \in Int, s <= t
    PROVE  Stored(s) <= Stored(t)
  BY DEF Stored, Microsecond

\* A time that was read from the table is written back as it is.
LEMMA StoredIdempotent ==
    ASSUME NEW t \in Int
    PROVE  Stored(Stored(t)) = Stored(t)
  BY DEF Stored, Microsecond

\* NULL stays NULL.
LEMMA StoredUnset == Stored(Unset) = Unset
  BY DEF Stored, Microsecond, Unset

-----------------------------------------------------------------------------
(* Types.                                                                  *)

\* A new entity, and none.
LEMMA NewTypes ==
    ASSUME NEW t \in Int
    PROVE  NewAt(t) \in Timed /\ NoTimedRow \in Timed
  <1>1. New \in Entity /\ NoRow \in Entity /\ Unset \in Int
    BY EntityTypes DEF Unset
  <1>2. NoTimedRow \in Timed
    BY <1>1 DEF NoTimedRow, Timed
  <1>3. NewAt(t) \in Timed
    BY <1>1 DEF NewAt, Timed
  <1> QED BY <1>2, <1>3

\* The transitions and the writes of a timed entity.
LEMMA TimedTypes ==
    ASSUME NEW e \in Timed, NEW r \in Timed, NEW t \in Int
    PROVE  /\ Processing(e, t) \in Timed
           /\ Succeeded(e, t) \in Timed
           /\ Failed(e, t) \in Timed
           /\ Inserted(e) \in Timed
           /\ Written(e, r, t) \in Timed
  <1>1. e.job \in Entity /\ Unset \in Int
    BY DEF Timed, Unset
  <1>2. Processing(e, t) \in Timed
    BY <1>1, EntityTypes DEF Processing, Timed
  <1>3. Succeeded(e, t) \in Timed
    BY <1>1, EntityTypes DEF Succeeded, Timed
  <1>4. Failed(e, t) \in Timed
    <2>1. RecordFailure(e.job) \in Entity
      BY <1>1, EntityTypes
    <2>2. (IF CanRetry(e.job) THEN Unset ELSE t) \in Int
      BY <1>1
    <2>3. ASSUME NEW f \in Entity, NEW c \in Int
          PROVE  [e EXCEPT !.job = f, !.updated = t, !.completed = c] \in Timed
      BY DEF Timed
    <2>4. [e EXCEPT !.job = RecordFailure(e.job), !.updated = t,
                    !.completed = IF CanRetry(e.job) THEN Unset ELSE t] \in Timed
      BY <2>1, <2>2, <2>3
    <2> QED BY <2>4 DEF Failed
  <1>5. /\ e.created \in Int /\ e.updated \in Int /\ e.started \in Int
        /\ e.completed \in Int /\ r.created \in Int
    BY DEF Timed
  <1>8. /\ Stored(e.created) \in Int /\ Stored(e.updated) \in Int
        /\ Stored(e.started) \in Int /\ Stored(e.completed) \in Int
        /\ Stored(t) \in Int
    BY <1>5, StoredNear
  <1>6. Inserted(e) \in Timed
    BY <1>8 DEF Inserted, Timed
  <1>7. Written(e, r, t) \in Timed
    BY <1>5, <1>8 DEF Written, Timed
  <1> QED BY <1>2, <1>3, <1>4, <1>6, <1>7

\* The readings of clocks are positive times.
LEMMA ClockReading ==
    ASSUME TimesInv, NEW h \in Hosts
    PROVE  Clock(h) \in Int /\ Clock(h) >= 1000 /\ offset[h] \in Int
  <1>1. offset[h] \in Offsets /\ now \in Int /\ now >= Epoch
    BY DEF TimesInv, TypeOK
  <1>2. /\ offset[h] \in Int /\ Epoch \in Int
        /\ Epoch + offset[h] >= Microsecond
    BY <1>1, TimeAssumption
  <1>3. Epoch + offset[h] >= 1000
    BY <1>2 DEF Microsecond
  <1> QED BY <1>1, <1>2, <1>3 DEF Clock

LEMMA TimesInit == Init => TimesInv
  <1> SUFFICES ASSUME Init PROVE TimesInv
    OBVIOUS
  <1>1. TypeOK
    <2>1. NoTimedRow \in Timed
      BY NewTypes
    <2>2. pc \in PC
      BY DEF Init, PC
    <2> QED BY <2>1, <2>2, HostsAssumption, TimeAssumption DEF Init, TypeOK
  <1>2. row.created = Stored(row.created)
    BY StoredUnset DEF Init, NoTimedRow
  <1> QED BY <1>1, <1>2, TimeAssumption
          DEF Init, TimesInv, TimesOrdered, NoTimedRow, Unset

-----------------------------------------------------------------------------
(* The order of the times.                                                 *)

\* Elapsed time keeps the clocks' types and does not go back.
LEMMA ElapseType ==
    ASSUME TimesInv, NEW d \in Nat, Elapse(d)
    PROVE  /\ now' \in Int /\ now' >= Epoch /\ now' = now + d
           /\ offset' \in [Hosts -> Offsets] /\ settings' \in 0..MaxSettings
  BY TimeAssumption DEF TimesInv, TypeOK, Elapse

\* One step of the job or of the clocks.
LEMMA TimesStep == TimesInv /\ [Next]_vars => TimesInv'
  <1> SUFFICES ASSUME TimesInv, [Next]_vars
               PROVE  TimesInv'
    OBVIOUS
  <1> USE DEF TimesInv
  <1>a. entity \in Timed /\ row \in Timed /\ host \in Hosts /\ writer \in Hosts
    BY DEF TypeOK
  <1>b. /\ Clock(host) \in Int /\ Clock(host) >= 1000
        /\ Clock(ApiHost) \in Int /\ Clock(ApiHost) >= 1000
    BY <1>a, ClockReading, HostsAssumption
  <1>c. /\ entity.created \in Int /\ entity.updated \in Int
        /\ entity.started \in Int /\ entity.completed \in Int
        /\ row.created \in Int /\ row.updated \in Int
        /\ row.started \in Int /\ row.completed \in Int
    BY <1>a DEF Timed
  <1>1. CASE Tick
    <2>1. Elapse(Quantum) /\ UNCHANGED <<pc, host, entity, row, writer>>
      BY <1>1 DEF Tick
    <2>2. TypeOK' /\ now' >= Epoch
      BY <2>1, ElapseType, TimeAssumption DEF TypeOK
    <2> QED BY <2>1, <2>2 DEF TimesOrdered, Restorable
  <1>2. ASSUME NEW h \in Hosts, SetClock(h)
        PROVE  TimesInv'
    <2>1. settings' = settings + 1 /\ settings < MaxSettings /\ now' = now
          /\ UNCHANGED <<pc, host, entity, row, writer>>
          /\ offset' \in [Hosts -> Offsets]
      BY <1>2 DEF SetClock, TypeOK
    <2>2. TypeOK' /\ now' >= Epoch
      BY <2>1, TimeAssumption DEF TypeOK
    <2> QED BY <2>1, <2>2 DEF TimesOrdered, Restorable
  <1>3. CASE Submit
    <2>1. /\ entity' = NewAt(Clock(ApiHost)) /\ row' = Inserted(NewAt(Clock(ApiHost)))
          /\ pc' = "queued" /\ writer' = ApiHost /\ host' = host /\ Elapse(CallTime)
      BY <1>3 DEF Submit
    <2>2. entity' \in Timed /\ row' \in Timed
      BY <2>1, <1>b, NewTypes, TimedTypes
    <2>3. TypeOK' /\ now' >= Epoch
      BY <2>1, <2>2, ElapseType, TimeAssumption, HostsAssumption DEF TypeOK, PC
    <2>4. /\ row'.created = Stored(Clock(ApiHost))
          /\ row'.started = Unset /\ row'.completed = Unset
      BY <2>1 DEF Inserted, NewAt
    <2>5. row'.created = Stored(row'.created)
      BY <2>4, <1>b, StoredIdempotent
    <2> QED BY <2>1, <2>3, <2>4, <2>5 DEF TimesOrdered
  <1>4. ASSUME NEW h \in Hosts, Load(h)
        PROVE  TimesInv'
    <2>1. /\ host' = h /\ Elapse(CallTime) /\ UNCHANGED <<row, writer>> /\ pc = "queued"
          /\ \/ Restorable(row) /\ entity' = row /\ pc' = "loaded"
             \/ pc' = "unreadable" /\ UNCHANGED entity
      BY <1>4 DEF Load
    <2>2. TypeOK' /\ now' >= Epoch
      BY <2>1, ElapseType, TimeAssumption DEF TypeOK, PC
    <2> QED BY <2>1, <2>2 DEF TimesOrdered, Restorable
  <1>5. CASE Mark
    <2>1. /\ pc = "loaded" /\ UNCHANGED <<clocks, host, row, writer>>
          /\ \/ /\ TimeAllowed(entity, Clock(host)) /\ pc' = "marked"
                /\ entity' = Processing(entity, Clock(host))
             \/ pc' = "refused" /\ UNCHANGED entity
      BY <1>5 DEF Mark, Transition
    <2>a. entity' \in Timed
      <3>1. Processing(entity, Clock(host)) \in Timed
        BY <1>a, <1>b, TimedTypes
      <3> QED BY <2>1, <1>a, <3>1
    <2>b. pc' \in PC /\ UNCHANGED <<now, offset, settings, host, row, writer>>
      BY <2>1 DEF PC, clocks
    <2>2. TypeOK' /\ now' >= Epoch
      BY <2>a, <2>b DEF TypeOK
    <2>3. CASE pc' = "refused"
      BY <2>1, <2>2, <2>3 DEF TimesOrdered
    <2>4. CASE pc' = "marked"
      <3>1. /\ entity'.started = Clock(host) /\ entity'.completed = Unset
            /\ entity'.updated = Clock(host)
        BY <2>1, <2>4, <1>a DEF Processing, Timed
      <3>2. row.created <= Clock(host)
        BY <2>1, <2>4, <1>b, <1>c DEF TimeAllowed, Restorable
      <3> QED BY <2>1, <2>2, <2>4, <3>1, <3>2, <1>b DEF TimesOrdered, Microsecond
    <2> QED BY <2>1, <2>3, <2>4
  <1>6. CASE Claim
    <2>1. /\ pc = "marked" /\ pc' = "execute" /\ row' = Written(entity, row, Clock(host))
          /\ writer' = host /\ Elapse(CallTime) /\ UNCHANGED <<host, entity>>
      BY <1>6 DEF Claim, Update
    <2>2. TypeOK' /\ now' >= Epoch
      BY <2>1, <1>a, <1>b, TimedTypes, ElapseType, TimeAssumption DEF TypeOK, PC
    <2>3. /\ row'.created = row.created /\ row'.started = Stored(entity.started)
          /\ row'.completed = Unset
      BY <2>1, <1>a, StoredUnset DEF Written, Timed
    <2>4. row.created <= Stored(entity.started)
      BY <2>1, <1>c, StoredMonotone
    <2> QED BY <2>1, <2>2, <2>3, <2>4 DEF TimesOrdered
  <1>7. CASE Finish
    <2>1. /\ pc = "execute" /\ UNCHANGED <<clocks, host, row, writer>>
          /\ \/ /\ TimeAllowed(entity, Clock(host)) /\ pc' = "finished"
                /\ \/ entity' = Succeeded(entity, Clock(host))
                   \/ entity' = Failed(entity, Clock(host))
             \/ pc' = "refused" /\ UNCHANGED entity
      BY <1>7 DEF Finish, Transition
    <2>a. entity' \in Timed
      <3>1. Succeeded(entity, Clock(host)) \in Timed /\ Failed(entity, Clock(host)) \in Timed
        BY <1>a, <1>b, TimedTypes
      <3> QED BY <2>1, <1>a, <3>1
    <2>b. pc' \in PC /\ UNCHANGED <<now, offset, settings, host, row, writer>>
      BY <2>1 DEF PC, clocks
    <2>2. TypeOK' /\ now' >= Epoch
      BY <2>a, <2>b DEF TypeOK
    <2>3. CASE pc' = "refused"
      BY <2>1, <2>2, <2>3 DEF TimesOrdered
    <2>4. CASE pc' = "finished"
      <3>1. /\ entity'.started = entity.started
            /\ entity'.completed \in {Unset, Clock(host)}
        BY <2>1, <2>4, <1>a DEF Succeeded, Failed, Timed
      <3>2. entity.started <= Clock(host)
        BY <2>1, <2>4 DEF TimeAllowed
      <3> QED BY <2>1, <2>2, <2>4, <3>1, <3>2 DEF TimesOrdered
    <2> QED BY <2>1, <2>3, <2>4
  <1>8. CASE Record
    <2>1. /\ pc = "finished" /\ pc' \in {"queued", "settled"}
          /\ row' = Written(entity, row, Clock(host))
          /\ writer' = host /\ Elapse(CallTime) /\ UNCHANGED <<host, entity>>
      BY <1>8 DEF Record, Update
    <2>a. row' \in Timed
      BY <2>1, <1>a, <1>b, TimedTypes
    <2>2. TypeOK' /\ now' >= Epoch
      BY <2>1, <2>a, ElapseType, TimeAssumption DEF TypeOK, PC
    <2>3. /\ row'.created = row.created /\ row'.started = Stored(entity.started)
          /\ row'.completed = Stored(entity.completed)
      BY <2>1, <1>a DEF Written, Timed
    <2>4. row.created <= Stored(entity.started)
      BY <2>1, <1>c, StoredMonotone
    <2>6. Stored(entity.started) # Unset
      <3>1. entity.started >= 1000
        BY <2>1 DEF Microsecond
      <3> QED BY <3>1, <1>c, StoredNear DEF Unset
    <2>5. Stored(entity.completed) # Unset =>
              Stored(entity.started) <= Stored(entity.completed)
      BY <2>1, <1>c, StoredMonotone, StoredUnset
    <2> QED BY <2>1, <2>2, <2>3, <2>4, <2>5, <2>6 DEF TimesOrdered
  <1>9. CASE UNCHANGED vars
    BY <1>9 DEF vars, clocks, TypeOK, TimesOrdered, Restorable
  <1> QED BY <1>1, <1>2, <1>3, <1>4, <1>5, <1>6, <1>7, <1>8, <1>9 DEF Next

\* Every time is an integer, every entity one of module Job's, for all constants.
THEOREM TimedTypeCorrect == Spec => []TypeOK
  <1>1. TimesInv => TypeOK
    BY DEF TimesInv
  <1> QED BY TimesInit, TimesStep, <1>1, PTL DEF Spec

\* README, "Job fields": created before started before completed, on whichever
\* hosts the job runs and however their clocks differ or are set.
THEOREM TimesAreOrdered == Spec => []TimesOrdered
  <1>1. TimesInv => TimesOrdered
    BY DEF TimesInv
  <1> QED BY TimesInit, TimesStep, <1>1, PTL DEF Spec

-----------------------------------------------------------------------------
(* What holds as long as no clock is set.                                  *)

\* Waiting only brings the clock that wrote the row further ahead of it.
LEMMA StoredLater ==
    ASSUME NEW r \in Int, NEW c \in Int, NEW d \in Int, c <= d, r <= Stored(c)
    PROVE  r <= Stored(d)
  <1>1. Stored(c) \in Int /\ Stored(d) \in Int /\ Stored(c) <= Stored(d)
    BY StoredNear, StoredMonotone
  <1> QED BY <1>1

\* An Update does not move updated_at back when the entity is at least as new as
\* the row it was loaded from.
LEMMA WrittenAdvances ==
    ASSUME NEW r \in Int, NEW u \in Int, NEW t \in Int, r = Stored(r), r <= u, u <= t
    PROVE  r <= Stored(t)
  <1>1. r <= t /\ Stored(r) <= Stored(t)
    BY StoredMonotone
  <1> QED BY <1>1

\* Neither of the two writes of an attempt moves it back.
LEMMA UpdateAdvances ==
    ASSUME TimesInv, SteadyInv, settings = 0, Claim \/ Record
    PROVE  row.updated <= row'.updated
  <1>1. row' = Written(entity, row, Clock(host)) /\ pc \in {"marked", "finished"}
    BY DEF Claim, Record, Update
  <1>2. entity \in Timed /\ row \in Timed /\ host \in Hosts
    BY DEF TimesInv, TypeOK
  <1>3. entity.updated \in Int /\ row.updated \in Int /\ Clock(host) \in Int
    BY <1>2, ClockReading DEF Timed
  <1>4. row'.updated = Stored(Clock(host))
    BY <1>1, <1>2 DEF Written, Timed
  <1>5. CASE pc = "marked"
    <2>1. /\ row.updated = Stored(row.updated) /\ row.updated <= entity.updated
          /\ entity.updated <= Clock(host)
      BY <1>5 DEF SteadyInv
    <2> QED BY <2>1, <1>3, <1>4, WrittenAdvances
  <1>6. CASE pc = "finished"
    <2>1. row.updated <= Stored(Clock(writer)) /\ writer = host
      BY <1>6 DEF SteadyInv
    <2> QED BY <2>1, <1>4
  <1> QED BY <1>1, <1>5, <1>6

LEMMA SteadyInit == Init => SteadyInv
  <1> SUFFICES ASSUME Init PROVE SteadyInv
    OBVIOUS
  <1>1. Clock(writer) >= 1000 /\ Clock(writer) \in Int
    BY TimesInit, ClockReading, HostsAssumption DEF Init
  <1>2. row.updated = Unset /\ pc = "submit"
    BY DEF Init, NoTimedRow
  <1>3. row.updated <= Stored(Clock(writer)) /\ row.updated = Stored(row.updated)
    BY <1>1, <1>2, StoredNear, StoredUnset DEF Unset
  <1> QED BY <1>2, <1>3 DEF SteadyInv, RowLoadable, RefusedOnlyBehind

LEMMA SteadyStep == TimesInv /\ SteadyInv /\ [Next]_vars => SteadyInv'
  <1> SUFFICES ASSUME TimesInv, SteadyInv, [Next]_vars, settings' = 0
               PROVE  SteadyInv'
    BY DEF SteadyInv
  <1>s. settings = 0 \/ \E h \in Hosts : SetClock(h)
    BY DEF Next, Tick, Submit, Load, Mark, Transition, Claim, Update, Finish, Record,
           Elapse, vars, clocks
  <1>t. settings = 0 /\ offset' = offset
    <2>1. settings \in Nat
      BY DEF TimesInv, TypeOK
    <2>2. ~\E h \in Hosts : SetClock(h)
      BY <2>1 DEF SetClock
    <2> QED BY <1>s, <2>2 DEF Next, Tick, Submit, Load, Mark, Transition, Claim,
                              Update, Finish, Record, Elapse, vars, clocks
  <1>a. /\ entity \in Timed /\ row \in Timed /\ host \in Hosts /\ writer \in Hosts
        /\ now \in Int
    BY DEF TimesInv, TypeOK
  <1>b. \A h \in Hosts : /\ Clock(h) \in Int /\ Clock(h) >= 1000
                         /\ offset[h] \in Int /\ Clock(h) = now + offset[h]
    BY <1>a, ClockReading DEF Clock
  <1>c. /\ entity.created \in Int /\ entity.updated \in Int
        /\ entity.started \in Int /\ entity.completed \in Int
        /\ row.created \in Int /\ row.updated \in Int
    BY <1>a DEF Timed
  <1>e. CallTime \in Nat /\ 2 * CallTime >= 500 /\ Quantum \in Nat
    BY CallsOutlastRounding, TimeAssumption DEF Microsecond
  <1>f. \A t \in Int : Stored(t) \in Int
    BY StoredNear
  <1>i. /\ RowLoadable /\ RefusedOnlyBehind
        /\ row.updated = Stored(row.updated)
        /\ row.updated <= Stored(Clock(writer))
        /\ pc = "queued" => row.updated <= Stored(Clock(writer) - CallTime)
        /\ pc = "loaded" => row.updated <= Stored(Clock(writer) - 2 * CallTime)
        /\ pc = "marked" => row.updated <= entity.updated
        /\ pc \in {"marked", "execute", "finished"} => entity.updated <= Clock(host)
        /\ pc \in {"execute", "finished"} => writer = host
    BY <1>t DEF SteadyInv
  <1>j. row.updated <= Stored(Clock(writer))
    BY <1>i
  <1>k. ASSUME NEW d \in Nat, NEW q \in Int,
               Clock(writer)' = Clock(writer) + d, row.updated <= Stored(Clock(writer) - q)
        PROVE  row.updated <= Stored(Clock(writer)' - q)
    <2>1. Clock(writer) - q \in Int /\ Clock(writer)' - q \in Int
          /\ Clock(writer) - q <= Clock(writer)' - q
      BY <1>a, <1>b, <1>k
    <2> QED BY <2>1, <1>c, <1>k, StoredLater
  <1>l. ASSUME NEW d \in Nat, Clock(writer)' = Clock(writer) + d
        PROVE  row.updated <= Stored(Clock(writer)')
    <2>1. Clock(writer) \in Int /\ Clock(writer)' \in Int /\ Clock(writer) <= Clock(writer)'
      BY <1>a, <1>b, <1>l
    <2> QED BY <2>1, <1>c, <1>j, StoredLater
  <1>1. CASE Tick
    <2>1. Elapse(Quantum) /\ UNCHANGED <<pc, host, entity, row, writer>>
      BY <1>1 DEF Tick
    <2>2. Clock(writer)' = Clock(writer) + Quantum /\ Clock(host)' = Clock(host) + Quantum
      BY <2>1, <1>a, <1>b, <1>e, <1>t DEF Clock, Elapse
    <2>3. row.updated <= Stored(Clock(writer)')
      BY <2>2, <1>a, <1>e, <1>l
    <2>4. pc = "queued" => row.updated <= Stored(Clock(writer)' - CallTime)
      BY <2>2, <1>a, <1>e, <1>i, <1>k
    <2>5. pc = "loaded" => row.updated <= Stored(Clock(writer)' - 2 * CallTime)
      <3>1. 2 * CallTime \in Int
        BY <1>e
      <3> QED BY <3>1, <2>2, <1>a, <1>e, <1>i, <1>k
    <2>6. pc \in {"marked", "execute", "finished"} => entity.updated <= Clock(host)'
      BY <2>2, <1>a, <1>b, <1>c, <1>e, <1>i
    <2> QED BY <2>1, <2>3, <2>4, <2>5, <2>6, <1>i, <1>t
            DEF SteadyInv, RowLoadable, RefusedOnlyBehind, Restorable, Clock
  <1>2. CASE Submit
    <2>1. /\ entity' = NewAt(Clock(ApiHost)) /\ row' = Inserted(NewAt(Clock(ApiHost)))
          /\ pc' = "queued" /\ writer' = ApiHost /\ host' = host /\ Elapse(CallTime)
      BY <1>2 DEF Submit
    <2>3. Clock(writer)' = Clock(ApiHost) + CallTime
      BY <2>1, <1>a, <1>b, <1>e, <1>t, HostsAssumption DEF Clock, Elapse
    <2>4. row'.created = Stored(Clock(ApiHost)) /\ row'.updated = Stored(Clock(ApiHost))
      BY <2>1 DEF Inserted, NewAt
    <2>5. Stored(Clock(ApiHost)) # Unset
      BY <1>b, HostsAssumption, StoredNear DEF Unset
    <2>6. row'.updated <= Stored(Clock(writer)')
      BY <2>3, <2>4, <1>b, <1>e, HostsAssumption, StoredMonotone
    <2>7. row'.updated <= Stored(Clock(writer)' - CallTime)
      <3>1. Clock(writer)' - CallTime = Clock(ApiHost)
        BY <2>3, <1>b, <1>e, HostsAssumption
      <3> QED BY <3>1, <2>4, <1>b, <1>f, HostsAssumption
    <2>8. row'.updated = Stored(row'.updated)
      BY <2>4, <1>b, HostsAssumption, StoredIdempotent
    <2>9. Restorable(row')
      BY <2>4, <2>5, <1>b, <1>f, HostsAssumption DEF Restorable
    <2> QED BY <2>1, <2>6, <2>7, <2>8, <2>9
            DEF SteadyInv, RowLoadable, RefusedOnlyBehind
  <1>3. ASSUME NEW h \in Hosts, Load(h)
        PROVE  SteadyInv'
    <2>1. /\ host' = h /\ Elapse(CallTime) /\ UNCHANGED <<row, writer>> /\ pc = "queued"
          /\ pc' \in {"loaded", "unreadable"}
      BY <1>3 DEF Load
    <2>2. Clock(writer)' = Clock(writer) + CallTime
      <3>1. Clock(writer)' = now' + offset'[writer]
        BY <2>1 DEF Clock
      <3> QED BY <2>1, <3>1, <1>a, <1>b, <1>e, <1>t DEF Elapse
    <2>3. row.updated <= Stored(Clock(writer)')
      BY <2>2, <1>e, <1>l
    <2>4. row.updated <= Stored(Clock(writer)' - 2 * CallTime)
      <3>1. Clock(writer)' - 2 * CallTime = Clock(writer) - CallTime
        BY <2>2, <1>a, <1>b, <1>e
      <3> QED BY <2>1, <3>1, <1>i
    <2> QED BY <2>1, <2>3, <2>4, <1>i, <1>t
            DEF SteadyInv, RowLoadable, RefusedOnlyBehind, Restorable
  <1>4. CASE Mark
    <2>1. /\ pc = "loaded" /\ UNCHANGED <<clocks, host, row, writer>>
          /\ \/ /\ TimeAllowed(entity, Clock(host)) /\ pc' = "marked"
                /\ entity' = Processing(entity, Clock(host))
             \/ /\ ~TimeAllowed(entity, Clock(host)) /\ pc' = "refused"
                /\ UNCHANGED entity
          /\ entity = row
      BY <1>4 DEF Mark, Transition, TimesInv
    <2>2. Clock(writer)' = Clock(writer) /\ Clock(host)' = Clock(host)
      BY <2>1 DEF Clock, clocks
    <2>3. row.updated <= Stored(Clock(writer)')
      BY <2>2, <1>a, <1>i
    <2>4. CASE pc' = "marked"
      <3>1. entity'.updated = Clock(host)
        BY <2>1, <2>4, <1>a DEF Processing, Timed
      <3>2. row.updated <= Clock(host)
        BY <2>1, <2>4, <1>a, <1>b, <1>c DEF TimeAllowed
      <3>3. entity'.updated <= Clock(host)'
        BY <3>1, <2>2, <1>a, <1>b
      <3> QED BY <2>1, <2>3, <2>4, <3>1, <3>2, <3>3, <1>i, <1>t
              DEF SteadyInv, RowLoadable, RefusedOnlyBehind, Restorable, clocks
    <2>5. CASE pc' = "refused"
      <3>1. Clock(host) < row.updated
        BY <2>1, <2>5, <1>a, <1>b, <1>c DEF TimeAllowed
      <3>2. row.updated <= Clock(writer) - 2 * CallTime + 500
        <4>1. Clock(writer) - 2 * CallTime \in Int
          BY <1>a, <1>b, <1>e
        <4>2. row.updated <= Stored(Clock(writer) - 2 * CallTime)
          BY <2>1, <1>i
        <4>3. Stored(Clock(writer) - 2 * CallTime) <= Clock(writer) - 2 * CallTime + 500
          BY <4>1, StoredNear
        <4> QED BY <4>1, <4>2, <4>3, <1>a, <1>b, <1>c, <1>e, <1>f
      <3>3. offset[host] < offset[writer]
        BY <3>1, <3>2, <1>a, <1>b, <1>c, <1>e
      <3> QED BY <2>1, <2>3, <2>5, <3>3, <1>i, <1>t
              DEF SteadyInv, RowLoadable, RefusedOnlyBehind
    <2> QED BY <2>1, <2>4, <2>5
  <1>5. CASE Claim
    <2>1. /\ pc = "marked" /\ pc' = "execute" /\ row' = Written(entity, row, Clock(host))
          /\ writer' = host /\ Elapse(CallTime) /\ UNCHANGED <<host, entity>>
      BY <1>5 DEF Claim, Update
    <2>2. row.updated <= entity.updated /\ entity.updated <= Clock(host)
      BY <2>1, <1>i
    <2>3. row'.updated = Stored(Clock(host)) /\ row'.created = row.created
      BY <2>1, <1>a DEF Written, Timed
    <2>4. Clock(writer)' = Clock(host) + CallTime /\ Clock(host)' = Clock(host) + CallTime
      BY <2>1, <1>a, <1>b, <1>e, <1>t DEF Clock, Elapse
    <2>5. row'.updated <= Stored(Clock(writer)') /\ entity'.updated <= Clock(host)'
      BY <2>1, <2>2, <2>3, <2>4, <1>a, <1>b, <1>c, <1>e, StoredMonotone
    <2>6. row'.updated = Stored(row'.updated)
      BY <2>3, <1>a, <1>b, StoredIdempotent
    <2>7. row.updated <= row'.updated
      BY <1>5, <1>t, UpdateAdvances
    <2>8. Restorable(row')
      BY <2>1, <2>3, <2>7, <1>a, <1>b, <1>c, <1>f, <1>i, <1>t DEF RowLoadable, Restorable
    <2> QED BY <2>1, <2>5, <2>6, <2>8, <1>t
            DEF SteadyInv, RowLoadable, RefusedOnlyBehind
  <1>6. CASE Finish
    <2>1. /\ pc = "execute" /\ UNCHANGED <<clocks, host, row, writer>>
          /\ \/ /\ TimeAllowed(entity, Clock(host)) /\ pc' = "finished"
                /\ \/ entity' = Succeeded(entity, Clock(host))
                   \/ entity' = Failed(entity, Clock(host))
             \/ /\ ~TimeAllowed(entity, Clock(host)) /\ pc' = "refused"
      BY <1>6 DEF Finish, Transition
    <2>2. Clock(writer)' = Clock(writer) /\ Clock(host)' = Clock(host)
      BY <2>1 DEF Clock, clocks
    <2>3. TimeAllowed(entity, Clock(host))
      BY <2>1, <1>a, <1>b, <1>c, <1>i DEF TimeAllowed
    <2>4. pc' = "finished"
      BY <2>1, <2>3
    <2>5. entity'.updated = Clock(host)
      BY <2>1, <2>4, <1>a DEF Succeeded, Failed, Timed
    <2>6. entity'.updated <= Clock(host)' /\ row.updated <= Stored(Clock(writer)')
      BY <2>2, <2>5, <1>a, <1>b, <1>i
    <2> QED BY <2>1, <2>4, <2>6, <1>i, <1>t
            DEF SteadyInv, RowLoadable, RefusedOnlyBehind, Restorable, clocks
  <1>7. CASE Record
    <2>1. /\ pc = "finished" /\ pc' \in {"queued", "settled"}
          /\ row' = Written(entity, row, Clock(host))
          /\ writer' = host /\ writer = host /\ Elapse(CallTime)
          /\ UNCHANGED <<host, entity>>
      BY <1>7, <1>i DEF Record, Update
    <2>3. row'.updated = Stored(Clock(host)) /\ row'.created = row.created
      BY <2>1, <1>a DEF Written, Timed
    <2>4. Clock(writer)' = Clock(host) + CallTime
      BY <2>1, <1>a, <1>b, <1>e, <1>t DEF Clock, Elapse
    <2>5. row'.updated <= Stored(Clock(writer)')
      BY <2>3, <2>4, <1>a, <1>b, <1>e, StoredMonotone
    <2>6. row'.updated <= Stored(Clock(writer)' - CallTime)
      <3>1. Clock(writer)' - CallTime = Clock(host)
        BY <2>4, <1>a, <1>b, <1>e
      <3> QED BY <3>1, <2>3, <1>a, <1>b, <1>f
    <2>7. row'.updated = Stored(row'.updated)
      BY <2>3, <1>a, <1>b, StoredIdempotent
    <2>8. row.updated <= row'.updated
      BY <1>7, <1>t, UpdateAdvances
    <2>9. Restorable(row')
      BY <2>1, <2>3, <2>8, <1>a, <1>b, <1>c, <1>f, <1>i, <1>t DEF RowLoadable, Restorable
    <2> QED BY <2>1, <2>5, <2>6, <2>7, <2>9, <1>t
            DEF SteadyInv, RowLoadable, RefusedOnlyBehind
  <1>8. ASSUME NEW h \in Hosts, SetClock(h)
        PROVE  SteadyInv'
    <2>1. settings' = settings + 1
      BY <1>8 DEF SetClock
    <2> QED BY <2>1, <1>t
  <1>9. CASE UNCHANGED vars
    <2>1. UNCHANGED vars /\ Clock(writer)' = Clock(writer) /\ Clock(host)' = Clock(host)
      BY <1>9 DEF vars, clocks, Clock
    <2> QED BY <2>1, <1>i, <1>t
            DEF vars, clocks, SteadyInv, RowLoadable, RefusedOnlyBehind, Restorable
  <1> QED BY <1>1, <1>2, <1>3, <1>4, <1>5, <1>6, <1>7, <1>8, <1>9 DEF Next

LEMMA SteadyAlways == Spec => [](TimesInv /\ SteadyInv)
  BY TimesInit, TimesStep, SteadyInit, SteadyStep, PTL DEF Spec

\* Clocks that differ, by whatever amount, never make a row unreadable; only a
\* clock that is set can.
THEOREM RowsStayLoadable == Spec => []RowLoadable
  <1>1. SteadyInv => RowLoadable
    BY DEF SteadyInv, RowLoadable
  <1> QED BY SteadyAlways, <1>1, PTL

\* Workers and API that share a steady clock never refuse a transition, although
\* MySQL may have rounded the row's time up into their future.
THEOREM RefusalsNeedASlowClock == Spec => []RefusedOnlyBehind
  <1>1. SteadyInv => RefusedOnlyBehind
    BY DEF SteadyInv, RefusedOnlyBehind
  <1> QED BY SteadyAlways, <1>1, PTL

\* updated_at does not move back unless a clock is set, on whichever hosts the
\* attempts run.
THEOREM UpdatedAtAdvances == Spec => UpdatesAdvance
  <1>1. ASSUME TimesInv, SteadyInv, [Next]_vars, settings = 0, row # NoTimedRow
        PROVE  row'.updated >= row.updated
    <2>1. row.updated \in Int
      BY <1>1 DEF TimesInv, TypeOK, Timed
    <2>2. CASE Claim \/ Record
      <3>1. row' \in Timed
        BY <1>1, TimesStep DEF TimesInv, TypeOK
      <3> QED BY <1>1, <2>1, <2>2, <3>1, UpdateAdvances DEF Timed
    <2>3. CASE ~(Claim \/ Record)
      <3>1. ~Submit
        BY <1>1 DEF Submit, TimesInv
      <3>2. UNCHANGED row
        BY <1>1, <2>3, <3>1
        DEF Next, Tick, SetClock, Load, Mark, Finish, Transition, vars
      <3> QED BY <2>1, <3>2
    <2> QED BY <2>2, <2>3
  <1>2. TimesInv /\ SteadyInv /\ [Next]_vars
            => [settings = 0 /\ row # NoTimedRow => row'.updated >= row.updated]_vars
    BY <1>1
  <1> QED BY <1>2, SteadyAlways, PTL DEF Spec, UpdatesAdvance

-----------------------------------------------------------------------------
(* The clocks and the lifecycle.  Module Job, and every proof about           *)
(* AsyncJobs, abstracts a time to whether it is set and leaves refused        *)
(* transitions to its faults.  Here both are derived.                        *)

\* The flags of an entity or a row say which of its times are set.
FlagsAreTimes(e) == /\ e.job.startedAt <=> e.started # Unset
                    /\ e.job.completedAt <=> e.completed # Unset

\* What is stored is the job of the entity, one transition ahead or none.
LifeInv ==
    /\ FlagsAreTimes(entity) /\ FlagsAreTimes(row)
    /\ pc \in {"queued", "loaded", "marked"} => row.job.status = "pending"
    /\ pc \in {"execute", "finished"} => row.job.status = "processing"
    /\ pc = "marked" => entity.job = MarkProcessing(row.job)
    /\ pc = "execute" => entity.job = row.job
    /\ pc = "finished" => entity.job \in {MarkSuccess(row.job), RecordFailure(row.job)}

\* The row as the one job of the abstract lifecycle.
Lifecycle == INSTANCE JobLifecycle WITH
    Jobs       <- {"job"},
    status     <- [j \in {"job"} |-> row.job.status],
    retryCount <- [j \in {"job"} |-> row.job.retryCount]

RowFlagsAreTimes == FlagsAreTimes(row)
TimedLifecycle   == Lifecycle!Spec

\* The transitions set a time and its flag together.
LEMMA FlagsTransition ==
    ASSUME NEW e \in Timed, NEW t \in Int, t # Unset
    PROVE  /\ Processing(e, t).job = MarkProcessing(e.job)
           /\ Succeeded(e, t).job = MarkSuccess(e.job)
           /\ Failed(e, t).job = RecordFailure(e.job)
           /\ FlagsAreTimes(Processing(e, t))
           /\ FlagsAreTimes(e) => FlagsAreTimes(Succeeded(e, t)) /\ FlagsAreTimes(Failed(e, t))
  <1>1. e.job \in Entity
    BY DEF Timed
  <1>2. Processing(e, t).job = MarkProcessing(e.job) /\ FlagsAreTimes(Processing(e, t))
    BY <1>1 DEF Timed, Entity, Processing, MarkProcessing, FlagsAreTimes
  <1>3. /\ Succeeded(e, t).job = MarkSuccess(e.job)
        /\ FlagsAreTimes(e) => FlagsAreTimes(Succeeded(e, t))
    BY <1>1 DEF Timed, Entity, Succeeded, MarkSuccess, FlagsAreTimes
  <1>4. /\ Failed(e, t).job = RecordFailure(e.job)
        /\ FlagsAreTimes(e) => FlagsAreTimes(Failed(e, t))
    <2>1. CASE CanRetry(e.job)
      BY <2>1, <1>1 DEF Timed, Entity, Failed, RecordFailure, FlagsAreTimes
    <2>2. CASE ~CanRetry(e.job)
      BY <2>2, <1>1 DEF Timed, Entity, Failed, RecordFailure, FlagsAreTimes
    <2> QED BY <2>1, <2>2
  <1> QED BY <1>2, <1>3, <1>4

\* No time that a clock reads is rounded to one that is not set.
LEMMA FlagsWritten ==
    ASSUME NEW e \in Timed, NEW r \in Timed, NEW t \in Int, FlagsAreTimes(e),
           e.started >= Microsecond,
           e.completed = Unset \/ e.completed >= Microsecond
    PROVE  Written(e, r, t).job = e.job /\ FlagsAreTimes(Written(e, r, t))
  <1>1. e.job \in Entity /\ e.started \in Int /\ e.completed \in Int
    BY DEF Timed
  <1>2. ASSUME NEW s \in Int, s >= Microsecond PROVE Stored(s) # Unset
    BY <1>2, StoredNear DEF Microsecond, Unset
  <1>3. Stored(e.started) # Unset /\ e.started # Unset
    BY <1>1, <1>2 DEF Microsecond, Unset
  <1>4. Stored(e.completed) # Unset <=> e.completed # Unset
    BY <1>1, <1>2, StoredUnset DEF Microsecond, Unset
  <1>5. /\ Written(e, r, t).job = e.job
        /\ Written(e, r, t).started = Stored(e.started)
        /\ Written(e, r, t).completed = Stored(e.completed)
    BY DEF Timed, Written
  <1> QED BY <1>3, <1>4, <1>5 DEF FlagsAreTimes

LEMMA LifeInit == Init => LifeInv
  BY DEF Init, LifeInv, NoTimedRow, NoRow, FlagsAreTimes, Unset

LEMMA LifeStep == TimesInv /\ LifeInv /\ [Next]_vars => LifeInv'
  <1> SUFFICES ASSUME TimesInv, LifeInv, [Next]_vars
               PROVE  LifeInv'
    OBVIOUS
  <1>a. /\ entity \in Timed /\ row \in Timed /\ host \in Hosts
        /\ FlagsAreTimes(entity) /\ FlagsAreTimes(row)
    BY DEF TimesInv, TypeOK, LifeInv
  <1>b. \A h \in Hosts : Clock(h) \in Int /\ Clock(h) >= Microsecond /\ Clock(h) # Unset
    BY ClockReading DEF Microsecond, Unset
  <1>1. CASE Submit
    <2>1. pc' = "queued" /\ entity' = NewAt(Clock(ApiHost)) /\ row' = Inserted(entity')
      BY <1>1 DEF Submit
    <2>2. entity'.job = New /\ entity'.started = Unset /\ entity'.completed = Unset
      BY <2>1 DEF NewAt
    <2>3. row'.job = New /\ row'.started = Unset /\ row'.completed = Unset
      BY <2>1 DEF Inserted, NewAt
    <2> QED BY <2>1, <2>2, <2>3 DEF LifeInv, FlagsAreTimes, New, NoRow
  <1>2. ASSUME NEW h \in Hosts, Load(h)
        PROVE  LifeInv'
    BY <1>a, <1>2 DEF Load, LifeInv, FlagsAreTimes
  <1>3. CASE Mark
    <2>1. /\ pc = "loaded" /\ row' = row /\ entity = row /\ row.job.status = "pending"
          /\ \/ entity' = Processing(entity, Clock(host)) /\ pc' = "marked"
             \/ entity' = entity /\ pc' = "refused"
      BY <1>3 DEF Mark, Transition, TimesInv, LifeInv
    <2>2. CASE entity' = entity /\ pc' = "refused"
      BY <2>1, <2>2, <1>a DEF LifeInv, FlagsAreTimes
    <2>3. CASE entity' = Processing(entity, Clock(host)) /\ pc' = "marked"
      <3>1. /\ Processing(entity, Clock(host)).job = MarkProcessing(entity.job)
            /\ FlagsAreTimes(Processing(entity, Clock(host)))
        BY <1>a, <1>b, FlagsTransition
      <3> QED BY <2>1, <2>3, <3>1, <1>a DEF LifeInv, FlagsAreTimes
    <2> QED BY <2>1, <2>2, <2>3
  <1>4. CASE Claim
    <2>1. /\ pc = "marked" /\ pc' = "execute" /\ entity' = entity
          /\ row' = Written(entity, row, Clock(host))
          /\ entity.job = MarkProcessing(row.job)
          /\ entity.started >= Microsecond /\ entity.completed = Unset
      BY <1>4 DEF Claim, Update, TimesInv, LifeInv
    <2>2. row'.job = entity.job /\ FlagsAreTimes(row')
      BY <2>1, <1>a, <1>b, FlagsWritten
    <2>3. entity.job.status = "processing"
      BY <2>1, <1>a DEF Timed, Entity, MarkProcessing
    <2> QED BY <2>1, <2>2, <2>3, <1>a DEF LifeInv, FlagsAreTimes
  <1>5. CASE Finish
    <2>1. /\ pc = "execute" /\ row' = row /\ entity.job = row.job
          /\ row.job.status = "processing"
          /\ \/ /\ pc' = "finished"
                /\ entity' \in {Succeeded(entity, Clock(host)), Failed(entity, Clock(host))}
             \/ pc' = "refused" /\ entity' = entity
      BY <1>5 DEF Finish, Transition, LifeInv
    <2>2. CASE pc' = "refused" /\ entity' = entity
      BY <2>1, <2>2, <1>a DEF LifeInv, FlagsAreTimes
    <2>3. CASE pc' = "finished" /\ entity' \in {Succeeded(entity, Clock(host)),
                                                Failed(entity, Clock(host))}
      <3>1. /\ entity'.job \in {MarkSuccess(row.job), RecordFailure(row.job)}
            /\ FlagsAreTimes(entity')
        BY <2>1, <2>3, <1>a, <1>b, FlagsTransition
      <3> QED BY <2>1, <2>3, <3>1, <1>a DEF LifeInv, FlagsAreTimes
    <2> QED BY <2>1, <2>2, <2>3
  <1>6. CASE Record
    <2>1. /\ pc = "finished" /\ entity' = entity
          /\ pc' = IF entity.job.status = "pending" THEN "queued" ELSE "settled"
          /\ row' = Written(entity, row, Clock(host))
          /\ entity.started >= Microsecond
          /\ entity.completed # Unset => entity.started <= entity.completed
      BY <1>6 DEF Record, Update, TimesInv
    <2>2. entity.completed = Unset \/ entity.completed >= Microsecond
      BY <2>1, <1>a DEF Timed, Microsecond
    <2>3. row'.job = entity.job /\ FlagsAreTimes(row')
      BY <2>1, <2>2, <1>a, <1>b, FlagsWritten
    <2> QED BY <2>1, <2>3, <1>a DEF LifeInv, FlagsAreTimes
  <1>7. CASE Tick \/ (\E h \in Hosts : SetClock(h)) \/ UNCHANGED vars
    <2>1. UNCHANGED <<pc, entity, row>>
      BY <1>7 DEF Tick, SetClock, vars
    <2> QED BY <2>1 DEF LifeInv, FlagsAreTimes
  <1> QED BY <1>1, <1>2, <1>3, <1>4, <1>5, <1>6, <1>7 DEF Next

LEMMA LifeAlways == Spec => [](TimesInv /\ LifeInv)
  BY TimesInit, TimesStep, LifeInit, LifeStep, PTL DEF Spec

\* started_at and completed_at are set exactly when module Job says so, whatever
\* the clocks read and MySQL rounds: the flags stand for the times.
THEOREM FlagsStandForTimes == Spec => []RowFlagsAreTimes
  <1>1. LifeInv => RowFlagsAreTimes
    BY DEF LifeInv, RowFlagsAreTimes
  <1> QED BY LifeAlways, <1>1, PTL

LEMMA LifecycleStep ==
    TimesInv /\ LifeInv /\ [Next]_vars => [Lifecycle!Next]_(Lifecycle!vars)
  <1> SUFFICES ASSUME TimesInv, LifeInv, [Next]_vars
               PROVE  [Lifecycle!Next]_(Lifecycle!vars)
    OBVIOUS
  <1> USE DEF Lifecycle!Next, Lifecycle!vars, Lifecycle!Move
  <1>a. row \in Timed /\ entity \in Timed /\ row.job \in Entity
    BY DEF TimesInv, TypeOK, Timed
  <1>1. CASE Submit
    <2>1. row = NoTimedRow /\ row'.job = New
      BY <1>1 DEF Submit, TimesInv, Inserted, NewAt
    <2>2. Lifecycle!Create("job")
      BY <2>1 DEF Lifecycle!Create, NoTimedRow, New, NoRow
    <2> QED BY <2>2
  <1>2. CASE Claim
    <2>1. row.job.status = "pending" /\ row'.job = MarkProcessing(row.job)
      BY <1>2, <1>a DEF Claim, Update, LifeInv, Written, Timed
    <2>2. Lifecycle!Start("job")
      BY <2>1, <1>a DEF Lifecycle!Start, MarkProcessing, Entity
    <2> QED BY <2>2
  <1>3. CASE Record
    <2>1. /\ row.job.status = "processing"
          /\ row'.job \in {MarkSuccess(row.job), RecordFailure(row.job)}
      BY <1>3, <1>a DEF Record, Update, LifeInv, Written, Timed
    <2>2. CASE row'.job = MarkSuccess(row.job)
      <3>1. Lifecycle!Succeed("job")
        BY <2>1, <2>2, <1>a DEF Lifecycle!Succeed, MarkSuccess, Entity
      <3> QED BY <3>1
    <2>3. CASE row'.job = RecordFailure(row.job) /\ CanRetry(row.job)
      <3>1. Lifecycle!Retry("job")
        BY <2>1, <2>3, <1>a DEF Lifecycle!Retry, RecordFailure, CanRetry, Entity
      <3> QED BY <3>1
    <2>4. CASE row'.job = RecordFailure(row.job) /\ ~CanRetry(row.job)
      <3>1. row.job.retryCount = MaxRetries
        BY <2>4, <1>a, MaxRetriesAssumption DEF CanRetry, Entity
      <3>2. Lifecycle!Exhaust("job")
        BY <2>1, <2>4, <3>1, <1>a DEF Lifecycle!Exhaust, RecordFailure, Entity
      <3> QED BY <3>2
    <2> QED BY <2>1, <2>2, <2>3, <2>4
  <1>4. CASE ~(Submit \/ Claim \/ Record)
    <2>1. UNCHANGED row
      BY <1>4 DEF Next, Tick, SetClock, Load, Mark, Finish, Transition, vars
    <2> QED BY <2>1
  <1> QED BY <1>1, <1>2, <1>3, <1>4

\* The clocks may hold a job up for good, by a refusal or an unreadable row, but
\* never take it off its lifecycle: with any hosts, offsets and settings the row
\* implements JobLifecycle.
THEOREM ClocksKeepTheLifecycle == Spec => TimedLifecycle
  <1>1. Init => Lifecycle!Init
    BY DEF Init, Lifecycle!Init, NoTimedRow, NoRow
  <1> QED BY LifeAlways, LifecycleStep, <1>1, PTL DEF Spec, TimedLifecycle, Lifecycle!Spec

=============================================================================
