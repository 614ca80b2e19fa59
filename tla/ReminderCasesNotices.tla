------------------------ MODULE ReminderCasesNotices ------------------------
(***************************************************************************)
(* Proofs about the notices of ReminderCases: that HR gets each once and   *)
(* in time, and what can make the commit of a scan fail.                   *)
(***************************************************************************)
EXTENDS ReminderCasesProofs

-----------------------------------------------------------------------------
(***************************************************************************)
(* The recorded notices E of one case                                      *)
(***************************************************************************)

\* FirstDay, of any set of notices.
FirstDays(E, k, stage) ==
    {d \in Days : /\ \E e \in E : e.case = k /\ e.stage = stage /\ e.day = d
                  /\ \A e \in E : e.case = k /\ e.stage = stage => d <= e.day}

Untold(E, k) == \A e \in E : e.case # k

\* OneNoticePerStage and NoticesAreSpaced of one case, and each stage it has reached
\* began on some day.
Once(E, k) ==
    \A e, f \in E : e.case = k /\ f.case = k /\ e.stage = f.stage /\ e.channel = f.channel
                    => e.day = f.day
Spaced(E, k) ==
    /\ \A e \in E : e.case = k /\ e.stage = "ESCALATION" =>
          \E d \in FirstDays(E, k, "SECOND_REMINDER") : d + EscalateAfter <= e.day
    /\ \A e \in E : e.case = k /\ e.stage = "SECOND_REMINDER" =>
          \A d \in FirstDays(E, k, "FIRST_REMINDER") : d + SecondAfter <= e.day
Begun(E, k) == \A e \in E : e.case = k => FirstDays(E, k, e.stage) # {}

Told(E, k) == Once(E, k) /\ Spaced(E, k) /\ Begun(E, k)

\* The due date dueDay of a case with this status leaves HR its days.
Punctual(E, k, status, dueDay) ==
    /\ status \in {"NONE", "PENDING"} => Untold(E, k)
    /\ status = "SECOND_SENT" =>
          \E d \in FirstDays(E, k, "SECOND_REMINDER") : d + EscalateAfter <= dueDay
    /\ \A d \in FirstDays(E, k, "FIRST_REMINDER") : d + SecondAfter <= dueDay

\* A notice n that went out on this day may be recorded.
Sound(E, k, n, day) ==
    /\ \A e \in E : e.case = k => e.day <= day
    /\ \A e \in E : e.case = k /\ e.stage = n.stage => e.channel \notin n.sent
    /\ ~n.moves => FirstDays(E, k, n.stage) # {}
    /\ n.stage = "FIRST_REMINDER" /\ n.moves => Untold(E, k)
    /\ n.stage = "SECOND_REMINDER" =>
          \A d \in FirstDays(E, k, "FIRST_REMINDER") : d + SecondAfter <= day
    /\ n.stage = "ESCALATION" =>
          \E d \in FirstDays(E, k, "SECOND_REMINDER") : d + EscalateAfter <= day

\* F has the same notices of k as E, or in addition those of n.
SameOf(E, F, k) == \A e \in Event : e.case = k => (e \in F <=> e \in E)
AddsTo(E, F, k, n, day) ==
    \A e \in Event : e.case = k => (e \in F <=> e \in E \/ e \in EventsOf(k, n, day))

LEMMA SameNotices ==
    ASSUME NEW E \in SUBSET Event, NEW F \in SUBSET Event, NEW k \in Cases, SameOf(E, F, k)
    PROVE  /\ \A stage : FirstDays(F, k, stage) = FirstDays(E, k, stage)
           /\ Untold(E, k) => Untold(F, k)
           /\ Told(E, k) => Told(F, k)
           /\ \A status, dueDay : Punctual(E, k, status, dueDay) => Punctual(F, k, status, dueDay)
           /\ \A n, day : Sound(E, k, n, day) => Sound(F, k, n, day)
<1>1. \A e : e \in F /\ e.case = k <=> e \in E /\ e.case = k
  BY DEF SameOf
<1>2. \A stage : FirstDays(F, k, stage) = FirstDays(E, k, stage)
  BY <1>1 DEF FirstDays
<1>3. Untold(E, k) => Untold(F, k)
  BY <1>1 DEF Untold
<1>4. Told(E, k) => Told(F, k)
  <2>1. Once(E, k) => Once(F, k)
    BY <1>1 DEF Once
  <2>2. Spaced(E, k) => Spaced(F, k)
    BY <1>1, <1>2 DEF Spaced
  <2>3. Begun(E, k) => Begun(F, k)
    BY <1>1, <1>2 DEF Begun
  <2> QED BY <2>1, <2>2, <2>3 DEF Told
<1>5. \A status, dueDay : Punctual(E, k, status, dueDay) => Punctual(F, k, status, dueDay)
  BY <1>2, <1>3 DEF Punctual
<1>6. \A n, day : Sound(E, k, n, day) => Sound(F, k, n, day)
  BY <1>1, <1>2, <1>3 DEF Sound
<1> QED BY <1>2, <1>3, <1>4, <1>5, <1>6

LEMMA EventTypes ==
    ASSUME NEW E \in SUBSET Event, NEW e \in E
    PROVE  /\ e.case \in Cases /\ e.stage \in Stages /\ e.channel \in Channels
           /\ e.day \in Days /\ e.day \in Nat
BY ReminderAssumption DEF Event, Days

LEMMA FirstDaysAreDays ==
    ASSUME NEW E, NEW k, NEW stage, NEW d \in FirstDays(E, k, stage)
    PROVE  d \in Nat /\ d \in Days /\ \A c \in FirstDays(E, k, stage) : c = d
BY ReminderAssumption DEF FirstDays, Days

\* A notice that was sent is one of a stage, and its rows are all of one day.
LEMMA RowsOf ==
    ASSUME NEW k \in Cases, NEW n \in Notice, NoticeOK(n), NEW day \in Days
    PROVE  /\ EventsOf(k, n, day) \subseteq Event
           /\ \A e \in EventsOf(k, n, day) :
                 /\ e.case = k /\ e.stage = n.stage /\ e.day = day /\ e.channel \in n.sent
           /\ n.sent = {} => EventsOf(k, n, day) = {}
           /\ n.sent # {} => n.stage \in Stages /\ EventsOf(k, n, day) # {}
<1>1. EventsOf(k, n, day) \subseteq Event
  BY EventsOfTyped
<1>2. \A e \in EventsOf(k, n, day) :
          /\ e.case = k /\ e.stage = n.stage /\ e.day = day /\ e.channel \in n.sent
  BY DEF EventsOf
<1>3. n.sent = {} => EventsOf(k, n, day) = {}
  BY DEF EventsOf
<1>4. ASSUME n.sent # {} PROVE n.stage \in Stages /\ EventsOf(k, n, day) # {}
  <2>1. n.stage \in Stages
    BY <1>4 DEF Notice, NoticeOK
  <2>2. PICK ch \in n.sent : TRUE
    BY <1>4
  <2>3. [case |-> k, stage |-> n.stage, channel |-> ch, day |-> day] \in EventsOf(k, n, day)
    BY <2>2 DEF EventsOf
  <2> QED BY <2>1, <2>3
<1> QED BY <1>1, <1>2, <1>3, <1>4

\* What recording a notice of stage n.stage does to the first days of the case.
LEMMA FirstDaysAfter ==
    ASSUME NEW E \in SUBSET Event, NEW F \in SUBSET Event, NEW k \in Cases, NEW n \in Notice,
           NoticeOK(n), NEW day \in Days, n.sent # {}, AddsTo(E, F, k, n, day),
           Sound(E, k, n, day), Begun(E, k)
    PROVE  /\ \A stage \in Stages : FirstDays(E, k, stage) # {} \/ stage # n.stage =>
                 FirstDays(F, k, stage) = FirstDays(E, k, stage)
           /\ FirstDays(E, k, n.stage) = {} => FirstDays(F, k, n.stage) = {day}
<1>0. day \in Nat
  BY ReminderAssumption DEF Days
<1>1. \A e : e \in F /\ e.case = k <=> (e \in E /\ e.case = k) \/ e \in EventsOf(k, n, day)
  BY RowsOf DEF AddsTo
<1>2. \A e \in E : e.case = k => e.day <= day /\ e.day \in Nat
  BY EventTypes DEF Sound
<1>3. ASSUME NEW stage \in Stages, stage # n.stage
      PROVE  FirstDays(F, k, stage) = FirstDays(E, k, stage)
  <2>1. \A e : e \in F /\ e.case = k /\ e.stage = stage <=> e \in E /\ e.case = k /\ e.stage = stage
    BY <1>1, <1>3, RowsOf
  <2> QED BY <2>1 DEF FirstDays
<1>4. ASSUME FirstDays(E, k, n.stage) # {}
      PROVE  FirstDays(F, k, n.stage) = FirstDays(E, k, n.stage)
  <2>1. PICK d \in FirstDays(E, k, n.stage) : TRUE
    BY <1>4
  <2>2. PICK e \in E : e.case = k /\ e.stage = n.stage /\ e.day = d
    BY <2>1 DEF FirstDays
  <2>3. d <= day /\ d \in Days /\ d \in Nat
    BY <1>2, <2>1, <2>2, FirstDaysAreDays
  <2>4. d \in FirstDays(F, k, n.stage)
    <3>1. e \in F /\ e.case = k /\ e.stage = n.stage /\ e.day = d
      BY <1>1, <2>2
    <3>2. \A f \in F : f.case = k /\ f.stage = n.stage => d <= f.day
      <4> SUFFICES ASSUME NEW f \in F, f.case = k, f.stage = n.stage PROVE d <= f.day
        OBVIOUS
      <4>1. CASE f \in E
        BY <2>1, <4>1 DEF FirstDays
      <4>2. CASE f \in EventsOf(k, n, day)
        <5>1. f.day = day
          BY <4>2, RowsOf
        <5> QED BY <2>3, <5>1
      <4> QED BY <1>1, <4>1, <4>2
    <3> QED BY <2>3, <3>1, <3>2 DEF FirstDays
  <2> QED BY <2>1, <2>4, FirstDaysAreDays
<1>5. ASSUME FirstDays(E, k, n.stage) = {}
      PROVE  FirstDays(F, k, n.stage) = {day}
  <2>1. \A e \in E : ~(e.case = k /\ e.stage = n.stage)
    BY <1>5 DEF Begun
  <2>2. \A e \in F : e.case = k /\ e.stage = n.stage => e.day = day
    BY <1>1, <2>1, RowsOf
  <2>3. \E e \in F : e.case = k /\ e.stage = n.stage /\ e.day = day
    BY <1>1, RowsOf
  <2>4. day \in FirstDays(F, k, n.stage)
    BY <1>0, <2>2, <2>3 DEF FirstDays
  <2> QED BY <2>4, FirstDaysAreDays
<1> QED BY <1>3, <1>4, <1>5

\* A sound notice that is recorded leaves the case told once and in time, and its new
\* due date punctual.
LEMMA Records ==
    ASSUME NEW E \in SUBSET Event, NEW F \in SUBSET Event, NEW k \in Cases, NEW n \in Notice,
           NoticeOK(n), NEW day \in Days, n.sent # {}, AddsTo(E, F, k, n, day),
           Sound(E, k, n, day), Told(E, k),
           NEW status, NEW dueDay \in 0..MaxDue, Punctual(E, k, status, dueDay),
           NEW status2, NEW dueDay2,
           IF n.moves THEN status2 = StatusAfter(n.stage) /\ dueDay2 = DueAfter(n.stage, day, dueDay)
                      ELSE status2 = status /\ dueDay2 = dueDay
    PROVE  Told(F, k) /\ Punctual(F, k, status2, dueDay2)
<1>0. day \in Nat /\ dueDay \in Nat /\ SecondAfter \in Nat /\ EscalateAfter \in Nat
  BY ReminderAssumption DEF Days, MaxDue
<1>1. \A e : e \in F /\ e.case = k <=> (e \in E /\ e.case = k) \/ e \in EventsOf(k, n, day)
  BY RowsOf DEF AddsTo
<1>2. n.stage \in Stages
  BY RowsOf
<1>3. /\ \A stage \in Stages : FirstDays(E, k, stage) # {} \/ stage # n.stage =>
            FirstDays(F, k, stage) = FirstDays(E, k, stage)
      /\ FirstDays(E, k, n.stage) = {} => FirstDays(F, k, n.stage) = {day}
  <2>1. Begun(E, k)
    BY DEF Told
  <2> QED BY <2>1, FirstDaysAfter, Z3
<1>4. Once(F, k)
  <2> SUFFICES ASSUME NEW e \in F, NEW f \in F, e.case = k, f.case = k, e.stage = f.stage,
                      e.channel = f.channel
               PROVE  e.day = f.day
    BY DEF Once
  <2>1. CASE e \in E /\ f \in E
    BY <2>1 DEF Told, Once
  <2>2. CASE e \in EventsOf(k, n, day) /\ f \in EventsOf(k, n, day)
    BY <2>2, RowsOf
  <2>3. ~(e \in E /\ f \in EventsOf(k, n, day)) /\ ~(f \in E /\ e \in EventsOf(k, n, day))
    BY RowsOf DEF Sound
  <2> QED BY <1>1, <2>1, <2>2, <2>3
<1>5. Begun(F, k)
  <2> SUFFICES ASSUME NEW e \in F, e.case = k PROVE FirstDays(F, k, e.stage) # {}
    BY DEF Begun
  <2>1. CASE e.stage = n.stage
    BY <1>2, <1>3, <2>1
  <2>2. CASE e.stage # n.stage
    <3>1. e \in E /\ e.stage \in Stages
      BY <1>1, <2>2, RowsOf, EventTypes
    <3> QED BY <1>3, <2>2, <3>1 DEF Told, Begun
  <2> QED BY <2>1, <2>2
<1>6. Spaced(F, k)
  <2>1. ASSUME NEW e \in F, e.case = k, e.stage = "ESCALATION"
        PROVE  \E d \in FirstDays(F, k, "SECOND_REMINDER") : d + EscalateAfter <= e.day
    <3>1. \E d \in FirstDays(E, k, "SECOND_REMINDER") : d + EscalateAfter <= e.day
      <4>1. CASE e \in E
        BY <2>1, <4>1 DEF Told, Spaced
      <4>2. CASE e \in EventsOf(k, n, day)
        BY <2>1, <4>2, RowsOf DEF Sound
      <4> QED BY <1>1, <2>1, <4>1, <4>2
    <3>2. FirstDays(F, k, "SECOND_REMINDER") = FirstDays(E, k, "SECOND_REMINDER")
      BY <1>3, <3>1 DEF Stages
    <3> QED BY <3>1, <3>2
  <2>2. ASSUME NEW e \in F, e.case = k, e.stage = "SECOND_REMINDER",
               NEW d \in FirstDays(F, k, "FIRST_REMINDER")
        PROVE  d + SecondAfter <= e.day
    <3>1. d \in FirstDays(E, k, "FIRST_REMINDER")
      <4>1. CASE n.stage = "FIRST_REMINDER" /\ FirstDays(E, k, "FIRST_REMINDER") = {}
        <5>1. n.moves /\ Untold(E, k)
          BY <4>1 DEF Sound
        <5>2. e \in EventsOf(k, n, day)
          BY <1>1, <2>2, <5>1 DEF Untold
        <5> QED BY <2>2, <4>1, <5>2, RowsOf
      <4>2. CASE ~(n.stage = "FIRST_REMINDER" /\ FirstDays(E, k, "FIRST_REMINDER") = {})
        BY <1>3, <2>2, <4>2 DEF Stages
      <4> QED BY <4>1, <4>2
    <3>2. CASE e \in E
      BY <2>2, <3>1, <3>2 DEF Told, Spaced
    <3>3. CASE e \in EventsOf(k, n, day)
      BY <2>2, <3>1, <3>3, RowsOf DEF Sound
    <3> QED BY <1>1, <2>2, <3>2, <3>3
  <2> QED BY <2>1, <2>2 DEF Spaced
<1>7. Punctual(F, k, status2, dueDay2)
  <2>1. CASE n.moves /\ n.stage = "FIRST_REMINDER"
    <3>1. Untold(E, k) /\ FirstDays(E, k, "FIRST_REMINDER") = {}
      BY <2>1 DEF Sound, Untold, FirstDays
    <3>2. FirstDays(F, k, "FIRST_REMINDER") = {day}
      BY <1>3, <2>1, <3>1
    <3>3. status2 = "WAITING_FEEDBACK" /\ dueDay2 = day + SecondAfter
      BY <2>1 DEF StatusAfter, DueAfter
    <3> QED BY <1>0, <3>2, <3>3 DEF Punctual
  <2>2. CASE n.moves /\ n.stage = "SECOND_REMINDER"
    <3>1. status2 = "SECOND_SENT" /\ dueDay2 = day + EscalateAfter
      BY <2>2 DEF StatusAfter, DueAfter
    <3>2. FirstDays(F, k, "FIRST_REMINDER") = FirstDays(E, k, "FIRST_REMINDER")
      BY <1>3, <2>2 DEF Stages
    <3>3. \A d \in FirstDays(F, k, "FIRST_REMINDER") : d + SecondAfter <= day + EscalateAfter
      <4> SUFFICES ASSUME NEW d \in FirstDays(F, k, "FIRST_REMINDER")
                   PROVE  d + SecondAfter <= day + EscalateAfter
        OBVIOUS
      <4>1. d \in Nat /\ d + SecondAfter <= day
        BY <2>2, <3>2, FirstDaysAreDays DEF Sound
      <4> QED BY <1>0, <4>1
    <3>4. \E d \in FirstDays(F, k, "SECOND_REMINDER") : d <= day
      <4>1. CASE FirstDays(E, k, "SECOND_REMINDER") = {}
        BY <1>0, <1>3, <2>2, <4>1
      <4>2. ASSUME NEW d \in FirstDays(E, k, "SECOND_REMINDER")
            PROVE  d <= day /\ d \in FirstDays(F, k, "SECOND_REMINDER")
        <5>1. PICK e \in E : e.case = k /\ e.day = d
          BY <4>2 DEF FirstDays
        <5> QED BY <1>2, <1>3, <2>2, <4>2, <5>1 DEF Sound
      <4> QED BY <4>1, <4>2
    <3>5. \E d \in FirstDays(F, k, "SECOND_REMINDER") : d + EscalateAfter <= day + EscalateAfter
      <4>1. PICK d \in FirstDays(F, k, "SECOND_REMINDER") : d <= day
        BY <3>4
      <4>2. d \in Nat
        BY <4>1, FirstDaysAreDays
      <4> QED BY <1>0, <4>1, <4>2
    <3> QED BY <3>1, <3>3, <3>5 DEF Punctual
  <2>3. CASE n.moves /\ n.stage = "ESCALATION"
    <3>1. status2 = "ESCALATED" /\ dueDay2 = dueDay
      BY <2>3 DEF StatusAfter, DueAfter
    <3>2. FirstDays(F, k, "FIRST_REMINDER") = FirstDays(E, k, "FIRST_REMINDER")
      BY <1>3, <2>3 DEF Stages
    <3> QED BY <3>1, <3>2 DEF Punctual
  <2>4. CASE ~n.moves
    <3>1. status2 = status /\ dueDay2 = dueDay
      BY <2>4
    <3>2. \A stage \in Stages : FirstDays(F, k, stage) = FirstDays(E, k, stage)
      BY <1>3, <2>4 DEF Sound
    <3>3. ~Untold(E, k)
      <4>1. PICK d \in FirstDays(E, k, n.stage) : TRUE
        BY <2>4 DEF Sound
      <4> QED BY <4>1 DEF FirstDays, Untold
    <3> QED BY <3>1, <3>2, <3>3 DEF Punctual, Stages
  <2> QED BY <1>2, <2>1, <2>2, <2>3, <2>4 DEF Stages
<1> QED BY <1>4, <1>5, <1>6, <1>7 DEF Told

-----------------------------------------------------------------------------
(***************************************************************************)
(* A notice that is sent is sound                                          *)
(***************************************************************************)

LEMMA NextStageIs ==
    ASSUME NEW k, NEW st \in Dispatchable, NEW dueDay \in Nat, NEW day \in Nat, NEW chs,
           NextStage(k, st, dueDay, day, chs) # None
    PROVE  LET stage == NextStage(k, st, dueDay, day, chs) IN
           \/ stage = "FIRST_REMINDER" /\ st = "PENDING"
           \/ stage = "SECOND_REMINDER" /\ st = "WAITING_FEEDBACK" /\ dueDay <= day
           \/ stage = "ESCALATION" /\ st = "SECOND_SENT" /\ dueDay <= day
           \/ stage = "FIRST_REMINDER" /\ Partly(k, stage, chs)
           \/ stage = "SECOND_REMINDER" /\ Partly(k, stage, chs)
BY DEF NextStage, Dispatchable

LEMMA SendIsSound ==
    ASSUME ReminderTypeOK, NEW k \in Cases, NEW st \in Dispatchable, NEW dueDay \in 0..MaxDue,
           NEW day \in Days, NEW chs \in SUBSET Channels, NEW ok \in SUBSET Channels,
           NEW stage, stage = NextStage(k, st, dueDay, day, chs), stage # None,
           ok # {}, ok \cap Done(k, stage) = {},
           \A e \in events : e.case = k => e.day <= day,
           Told(events, k), Punctual(events, k, st, dueDay)
    PROVE  Sound(events, k, Send(k, stage, chs, ok), day)
<1>0. /\ day \in Nat /\ dueDay \in Nat /\ SecondAfter \in Nat /\ EscalateAfter \in Nat
      /\ events \in SUBSET Event
  BY ReminderAssumption DEF Days, MaxDue, ReminderTypeOK
<1> DEFINE n == Send(k, stage, chs, ok)
<1>1. n.stage = stage /\ n.sent = ok /\ (n.moves <=> Done(k, stage) \cap chs = {})
  BY DEF Send
<1>2. \/ stage = "FIRST_REMINDER" /\ st = "PENDING"
      \/ stage = "SECOND_REMINDER" /\ st = "WAITING_FEEDBACK" /\ dueDay <= day
      \/ stage = "ESCALATION" /\ st = "SECOND_SENT" /\ dueDay <= day
      \/ stage = "FIRST_REMINDER" /\ Partly(k, stage, chs)
      \/ stage = "SECOND_REMINDER" /\ Partly(k, stage, chs)
  BY <1>0, NextStageIs
<1> HIDE DEF n
\* What was recorded of the stage has reached a channel of it.
<1>3. \A ch \in Done(k, stage) : \E e \in events : e.case = k /\ e.stage = stage /\ e.channel = ch
  BY DEF Done
<1>4. Done(k, stage) # {} => FirstDays(events, k, stage) # {}
  BY <1>3 DEF Told, Begun
<1>5. \A e \in events : e.case = k /\ e.stage = n.stage => e.channel \notin n.sent
  <2> SUFFICES ASSUME NEW e \in events, e.case = k, e.stage = stage, e.channel \in ok
               PROVE  FALSE
    BY <1>1
  <2>1. e.channel \in Done(k, stage)
    BY <1>0, EventTypes DEF Done
  <2> QED BY <2>1
<1>6. ~n.moves => FirstDays(events, k, n.stage) # {}
  BY <1>1, <1>4
<1>7. Partly(k, stage, chs) => ~n.moves
  BY <1>1 DEF Partly
<1>8. n.stage = "FIRST_REMINDER" /\ n.moves => Untold(events, k)
  BY <1>1, <1>2, <1>7 DEF Punctual
<1>9. ASSUME n.stage = "SECOND_REMINDER", NEW d \in FirstDays(events, k, "FIRST_REMINDER")
      PROVE  d + SecondAfter <= day
  <2>1. d \in Nat
    BY FirstDaysAreDays
  <2>2. CASE dueDay <= day
    <3>1. d + SecondAfter <= dueDay
      BY DEF Punctual
    <3> QED BY <1>0, <2>1, <2>2, <3>1
  <2>3. CASE Partly(k, stage, chs)
    <3>1. PICK e \in events : e.case = k /\ e.stage = stage
      BY <1>3, <2>3 DEF Partly
    <3>2. d + SecondAfter <= e.day
      BY <1>1, <1>9, <3>1 DEF Told, Spaced
    <3>3. e.day <= day /\ e.day \in Nat
      BY <1>0, <3>1, EventTypes
    <3> QED BY <1>0, <2>1, <3>2, <3>3
  <2> QED BY <1>1, <1>2, <1>9, <2>2, <2>3
<1>10. ASSUME n.stage = "ESCALATION"
       PROVE  \E d \in FirstDays(events, k, "SECOND_REMINDER") : d + EscalateAfter <= day
  <2>1. st = "SECOND_SENT" /\ dueDay <= day
    BY <1>1, <1>2, <1>10
  <2>2. PICK d \in FirstDays(events, k, "SECOND_REMINDER") : d + EscalateAfter <= dueDay
    BY <2>1 DEF Punctual
  <2>3. d \in Nat
    BY <2>2, FirstDaysAreDays
  <2> QED BY <1>0, <2>1, <2>2, <2>3
<1> QED BY <1>5, <1>6, <1>8, <1>9, <1>10 DEF Sound, n

-----------------------------------------------------------------------------
(***************************************************************************)
(* The invariant of the notices                                            *)
(***************************************************************************)

\* Notices come from requests only, or from one scan at a time only.
OneSender == Daily = {} \/ ("dispatch" \notin HrActions /\ \A p, r \in Scans : p = r)

\* What a dispatch r, and a scan n, have in flight about the notices E.
RequestSound(E, r) ==
    r.action = "dispatch" /\ r.notice.sent # {} => \A k \in r.held : Sound(E, k, r.notice, r.day)
ScanSound(E, n, daily) ==
    /\ \A k \in Cases : n.notice[k].sent # {} => Sound(E, k, n.notice[k], n.day)
    /\ \A k \in Cases : n.seen[k] # None => Punctual(E, k, n.seen[k], n.seenDue[k])
    /\ daily /\ n.pc # "idle" => \A e \in E : e.day <= n.day

SoFar ==
    /\ \A e \in events : e.day <= today
    /\ \A s \in Requests : request[s].day <= today
    /\ \A p \in Scans : scan[p].day <= today
CasesInOrder ==
    \A k \in Cases : Told(events, k) /\ Punctual(events, k, caseStatus[k], due[k])
InFlightSound ==
    /\ \A s \in Requests : RequestSound(events, request[s])
    /\ \A p \in Scans : ScanSound(events, scan[p], p \in Daily)

NoticeInv == FollowUpInv /\ SoFar /\ CasesInOrder /\ InFlightSound

LEMMA NoticeTypes ==
    ASSUME FollowUpInv
    PROVE  /\ today \in Nat /\ events \in SUBSET Event
           /\ \A s \in Requests : /\ request[s].day \in Days /\ request[s].day \in Nat
                                  /\ request[s].notice \in Notice /\ NoticeOK(request[s].notice)
           /\ \A p \in Scans : /\ scan[p].day \in Days /\ scan[p].day \in Nat
                               /\ \A k \in Cases : /\ scan[p].notice[k] \in Notice
                                                   /\ NoticeOK(scan[p].notice[k])
           /\ \A k \in Cases : due[k] \in 0..MaxDue
BY ReminderAssumption
   DEF FollowUpInv, WellTyped, ReminderTypeOK, RequestType, ScanType, RequestOK, ScanOK, Days

\* A status that says nothing of notices is punctual whenever its due date was.
LEMMA StaysPunctual ==
    ASSUME NEW E, NEW k, NEW st, NEW st2, NEW dueDay, Punctual(E, k, st, dueDay),
           st2 = st \/ st2 \notin {"NONE", "PENDING", "SECOND_SENT"}
    PROVE  Punctual(E, k, st2, dueDay)
BY DEF Punctual

\* A step that records no notice, and sends none.
LEMMA QuietRequest ==
    ASSUME NoticeInv, FollowUpInv', NEW s \in Requests,
           \A q \in Requests \ {s} : request'[q] = request[q],
           request'[s].action # "dispatch" \/ RequestSound(events, request'[s]),
           request'[s].day \in {0, today, request[s].day},
           UNCHANGED <<today, events, due, scan>>,
           \A k \in Cases : caseStatus'[k] \notin {"NONE", "PENDING", "SECOND_SENT"}
                            \/ caseStatus'[k] = caseStatus[k]
    PROVE  NoticeInv'
<1>1. SoFar'
  BY NoticeTypes DEF NoticeInv, SoFar
<1>2. CasesInOrder'
  BY StaysPunctual DEF NoticeInv, CasesInOrder
<1>3. InFlightSound'
  <2>1. RequestSound(events, request'[s])
    BY DEF RequestSound
  <2> QED BY <2>1 DEF NoticeInv, InFlightSound
<1> QED BY <1>1, <1>2, <1>3 DEF NoticeInv

LEMMA QuietScan ==
    ASSUME NoticeInv, FollowUpInv', NEW p \in Scans,
           \A r \in Scans \ {p} : scan'[r] = scan[r], ScanSound(events, scan'[p], p \in Daily),
           scan'[p].day \in {0, today, scan[p].day},
           UNCHANGED <<today, events, due, caseStatus, request>>
    PROVE  NoticeInv'
<1>1. SoFar'
  BY NoticeTypes DEF NoticeInv, SoFar
<1>2. CasesInOrder'
  BY DEF NoticeInv, CasesInOrder
<1>3. InFlightSound'
  <2>1. ASSUME NEW r \in Scans PROVE ScanSound(events, scan'[r], r \in Daily)
    BY DEF NoticeInv, InFlightSound
  <2> QED BY <2>1 DEF NoticeInv, InFlightSound
<1> QED BY <1>1, <1>2, <1>3 DEF NoticeInv

LEMMA NoticeRequestStep ==
    ASSUME NoticeInv, FollowUpInv', NEW s \in Requests,
           \/ LeaveBegin(s) \/ Return(s) \/ RequestClose(s) \/ RequestCommit(s) \/ RequestAbort(s)
           \/ \E action \in LedgerActions, c \in Certs, v \in ValidTos : LedgerBegin(s, action, c, v)
           \/ \E k \in Cases, answer \in Answers : Feedback(s, k, answer)
    PROVE  NoticeInv'
<1>0. WellTyped /\ "dispatch" \notin LedgerActions /\ None # "dispatch"
  BY Names DEF NoticeInv, FollowUpInv, AllActions
<1>1. CASE \/ LeaveBegin(s)
           \/ \E action \in LedgerActions, c \in Certs, v \in ValidTos : LedgerBegin(s, action, c, v)
  BY <1>0, <1>1, LedgerBegins, QuietRequest DEF caseVars
<1>2. CASE Return(s)
  <2>1. UNCHANGED <<today, events, due, caseStatus, request, scan>>
    BY <1>2 DEF Return, caseVars
  <2> QED BY <2>1 DEF NoticeInv, SoFar, CasesInOrder, InFlightSound
<1>3. CASE RequestClose(s)
  BY <1>0, <1>3, RequestCloses, QuietRequest DEF caseVars
<1>4. CASE RequestCommit(s)
  <2>1. ASSUME NEW k \in Cases
        PROVE  \/ caseStatus'[k] \notin {"NONE", "PENDING", "SECOND_SENT"}
               \/ caseStatus'[k] = caseStatus[k]
    BY <1>0, <1>4, LedgerCommits DEF Closed
  <2> QED BY <1>0, <1>4, <2>1, LedgerCommits, IdleFields, QuietRequest
<1>5. CASE RequestAbort(s)
  BY <1>0, <1>5, RequestEnds, IdleFields, QuietRequest DEF RequestAbort, caseVars
<1>6. ASSUME NEW k \in Cases, NEW answer \in Answers, Feedback(s, k, answer)
      PROVE  NoticeInv'
  <2>1. UNCHANGED <<today, events, due, request, scan>>
    BY <1>6 DEF Feedback
  <2>2. ASSUME NEW j \in Cases
        PROVE  \/ caseStatus'[j] \notin {"NONE", "PENDING", "SECOND_SENT"}
               \/ caseStatus'[j] = caseStatus[j]
    BY <1>0, <1>6, FeedbackTyped
  <2>3. RequestSound(events, request'[s])
    BY <2>1 DEF NoticeInv, InFlightSound
  <2> QED BY <2>1, <2>2, <2>3, QuietRequest
<1> QED BY <1>1, <1>2, <1>3, <1>4, <1>5, <1>6

LEMMA NoticeDispatchSend ==
    ASSUME NoticeInv, FollowUpInv', NEW s \in Requests, NEW k \in Cases, NEW chs \in SUBSET Channels,
           NEW ok \in SUBSET chs, DispatchSend(s, k, chs, ok)
    PROVE  NoticeInv'
<1>0. WellTyped /\ ReminderTypeOK
  BY DEF NoticeInv, FollowUpInv, WellTyped
<1> DEFINE stage == NextStage(k, caseStatus[k], due[k], today, chs)
<1>1. /\ request'[s].held = {k} /\ request'[s].day = today
      /\ request'[s].notice = Send(k, stage, chs, ok)
      /\ \A q \in Requests \ {s} : request'[q] = request[q]
      /\ UNCHANGED <<today, events, due, caseStatus, scan>>
  BY <1>0, DispatchSends DEF caseVars
<1>2. caseStatus[k] \in Dispatchable /\ stage # None /\ ok \cap Done(k, stage) = {}
  BY DEF DispatchSend
<1>3. today \in Days /\ due[k] \in 0..MaxDue /\ ok \in SUBSET Channels
  BY <1>0 DEF ReminderTypeOK
<1>4. Told(events, k) /\ Punctual(events, k, caseStatus[k], due[k])
      /\ \A e \in events : e.case = k => e.day <= today
  BY DEF NoticeInv, CasesInOrder, SoFar
<1> HIDE DEF stage
<1>5. ok # {} => Sound(events, k, Send(k, stage, chs, ok), today)
  BY <1>0, <1>2, <1>3, <1>4, SendIsSound DEF stage
<1>6. RequestSound(events, request'[s])
  BY <1>1, <1>5 DEF RequestSound, Send
<1> QED BY <1>1, <1>6, QuietRequest

LEMMA NoticeScanStep ==
    ASSUME NoticeInv, FollowUpInv', NEW p \in Scans,
           \/ ScanRefresh(p) \/ ScanRead(p) \/ ScanAbort(p)
           \/ \E date \in Days : ScanCreate(p, date)
           \/ \E k \in Cases : ScanClose(p, k) \/ \E ok \in SUBSET Channels : ScanSend(p, k, ok)
    PROVE  NoticeInv'
<1>0. WellTyped /\ ReminderTypeOK /\ ScanSound(events, scan[p], p \in Daily)
  BY DEF NoticeInv, FollowUpInv, WellTyped, InFlightSound
<1>1. CASE ScanRefresh(p)
  <2>1. ScanSound(events, scan'[p], p \in Daily)
    BY <1>0, <1>1, ScanRefreshes, IdleFields DEF ScanSound, NoticeInv, SoFar
  <2> QED BY <1>0, <1>1, <2>1, ScanRefreshes, QuietScan DEF caseVars
<1>2. ASSUME NEW date \in Days, ScanCreate(p, date) PROVE NoticeInv'
  <2>1. ScanSound(events, scan'[p], p \in Daily)
    BY <1>0, <1>2, ScanCreates DEF ScanSound
  <2> QED BY <1>0, <1>2, <2>1, ScanCreates, QuietScan DEF caseVars
<1>3. CASE ScanAbort(p)
  <2>1. /\ scan'[p] = IdleScan /\ \A r \in Scans \ {p} : scan'[r] = scan[r]
        /\ UNCHANGED <<today, events, due, caseStatus, request>>
    BY <1>0, <1>3, ScanEnds DEF ScanAbort, caseVars
  <2>2. ScanSound(events, scan'[p], p \in Daily)
    BY <2>1, IdleFields DEF ScanSound
  <2> QED BY <2>1, <2>2, IdleFields, QuietScan
<1>4. CASE ScanRead(p)
  <2>1. ASSUME NEW k \in Cases, scan'[p].seen[k] # None
        PROVE  Punctual(events, k, scan'[p].seen[k], scan'[p].seenDue[k])
    BY <1>0, <1>4, <2>1, ScanReads DEF NoticeInv, CasesInOrder
  <2>2. ScanSound(events, scan'[p], p \in Daily)
    BY <1>0, <1>4, <2>1, ScanReads, IdleFields DEF ScanSound
  <2> QED BY <1>0, <1>4, <2>2, ScanReads, QuietScan DEF caseVars
<1>5. ASSUME NEW k \in Cases, ScanClose(p, k) PROVE NoticeInv'
  <2>1. ScanSound(events, scan'[p], p \in Daily)
    BY <1>0, <1>5, ScanCloses DEF ScanSound
  <2> QED BY <1>0, <1>5, <2>1, ScanCloses, QuietScan DEF caseVars
<1>6. ASSUME NEW k \in Cases, NEW ok \in SUBSET Channels, ScanSend(p, k, ok) PROVE NoticeInv'
  <2> DEFINE stage == NextStage(k, scan[p].seen[k], scan[p].seenDue[k], scan[p].day, Channels)
  <2>1. scan[p].pc = "send" /\ p \in Daily /\ scan[p].seen[k] # None
    BY <1>0, <1>6, ScanSends DEF ScanSend
  <2>2. ok # {} => stage # None /\ ok \cap Done(k, stage) = {}
    BY <1>6 DEF ScanSend
  <2>3. scan[p].seen[k] \in Dispatchable /\ scan[p].seenDue[k] \in 0..MaxDue /\ scan[p].day \in Days
    BY <1>0, <2>1 DEF ReminderTypeOK, ScanType
  <2>4. /\ Told(events, k) /\ Punctual(events, k, scan[p].seen[k], scan[p].seenDue[k])
        /\ \A e \in events : e.case = k => e.day <= scan[p].day
    BY <1>0, <2>1 DEF NoticeInv, CasesInOrder, ScanSound
  <2> HIDE DEF stage
  <2>5. ok # {} => Sound(events, k, Send(k, stage, Channels, ok), scan[p].day)
    BY <1>0, <2>2, <2>3, <2>4, SendIsSound DEF stage
  <2>6. ScanNotice(p, k, ok).sent # {} => Sound(events, k, ScanNotice(p, k, ok), scan[p].day)
    BY <2>5, IdleFields DEF ScanNotice, stage
  <2>7. ScanSound(events, scan'[p], p \in Daily)
    BY <1>0, <1>6, <2>6, ScanSends DEF ScanSound
  <2> QED BY <1>0, <1>6, <2>7, ScanSends, QuietScan DEF caseVars
<1> QED BY <1>1, <1>2, <1>3, <1>4, <1>5, <1>6

\* A dispatch sends and a daily scan sends: not both (OneSender).
LEMMA OnlyRequestsSend ==
    ASSUME NoticeInv, OneSender, NEW s \in Requests, request[s].action = "dispatch"
    PROVE  Daily = {}
BY DEF NoticeInv, FollowUpInv, WellTyped, RequestOK, OneSender, None

LEMMA NoticeDispatchCommit ==
    ASSUME NoticeInv, OneSender, FollowUpInv', NEW s \in Requests, DispatchCommit(s)
    PROVE  NoticeInv'
<1>0. WellTyped /\ FollowUpInv
  BY DEF NoticeInv, FollowUpInv
<1> DEFINE n   == request[s].notice
           day == request[s].day
<1>1. /\ request[s].action = "dispatch" /\ request'[s] = IdleRequest
      /\ \A q \in Requests \ {s} : request'[q] = request[q]
      /\ UNCHANGED <<today, certVars, scan>>
  BY <1>0, DispatchCommits
<1>2. PICK k \in Cases :
         /\ request[s].held = {k}
         /\ events' = events \cup DispatchRows(s, k)
         /\ \A j \in Cases \ {k} : caseStatus'[j] = caseStatus[j] /\ due'[j] = due[j]
         /\ IF n.moves
            THEN caseStatus'[k] = StatusAfter(n.stage) /\ due'[k] = DueAfter(n.stage, day, due[k])
            ELSE caseStatus'[k] = caseStatus[k] /\ due'[k] = due[k]
  BY <1>0, DispatchCommits
<1>3. /\ n \in Notice /\ NoticeOK(n) /\ day \in Days /\ day <= today
      /\ events \in SUBSET Event /\ due[k] \in 0..MaxDue
  BY <1>0, NoticeTypes DEF NoticeInv, SoFar
<1>4. n.sent # {} => Sound(events, k, n, day)
  BY <1>1, <1>2 DEF NoticeInv, InFlightSound, RequestSound
<1> HIDE DEF n, day
<1>5. /\ DispatchRows(s, k) = EventsOf(k, n, day) /\ events' \in SUBSET Event
      /\ \A e \in DispatchRows(s, k) : e.case = k /\ e.day = day
  BY <1>2, <1>3, RowsOf DEF DispatchRows, n, day
<1>6. \A j \in Cases \ {k} : SameOf(events, events', j)
  BY <1>2, <1>5 DEF SameOf
<1>7. AddsTo(events, events', k, n, day)
  BY <1>2, <1>5 DEF AddsTo
<1>8. SoFar'
  <2>1. 0 <= today
    BY <1>0, NoticeTypes
  <2> QED BY <1>1, <1>2, <1>3, <1>5, <2>1, IdleFields DEF NoticeInv, SoFar
<1>9. CasesInOrder'
  <2>1. ASSUME NEW j \in Cases \ {k}
        PROVE  Told(events', j) /\ Punctual(events', j, caseStatus'[j], due'[j])
    <3>1. Told(events, j) /\ Punctual(events, j, caseStatus[j], due[j])
      BY DEF NoticeInv, CasesInOrder
    <3> QED BY <1>2, <1>3, <1>5, <1>6, <3>1, SameNotices
  <2>2. Told(events', k) /\ Punctual(events', k, caseStatus'[k], due'[k])
    <3>1. Told(events, k) /\ Punctual(events, k, caseStatus[k], due[k])
      BY DEF NoticeInv, CasesInOrder
    <3>2. CASE n.sent = {}
      <4>1. events' = events /\ ~n.moves
        BY <1>2, <1>3, <1>5, <3>2, RowsOf DEF NoticeOK
      <4> QED BY <1>2, <3>1, <4>1
    <3>3. CASE n.sent # {}
      <4>1. IF n.moves
            THEN caseStatus'[k] = StatusAfter(n.stage) /\ due'[k] = DueAfter(n.stage, day, due[k])
            ELSE caseStatus'[k] = caseStatus[k] /\ due'[k] = due[k]
        BY <1>2
      <4>2. events' \in SUBSET Event /\ Sound(events, k, n, day)
        BY <1>4, <1>5, <3>3
      <4> QED BY <1>3, <1>7, <3>1, <3>3, <4>1, <4>2, Records
    <3> QED BY <3>2, <3>3
  <2> QED BY <2>1, <2>2 DEF CasesInOrder
<1>10. InFlightSound'
  <2>1. ASSUME NEW q \in Requests PROVE RequestSound(events', request'[q])
    <3>1. CASE q = s
      BY <1>1, <3>1, IdleFields DEF RequestSound
    <3>2. CASE q # s
      <4> SUFFICES ASSUME request[q].action = "dispatch", request[q].notice.sent # {},
                          NEW j \in request[q].held
                   PROVE  Sound(events', j, request[q].notice, request[q].day)
        BY <1>1, <3>2 DEF RequestSound
      <4>1. j \in Cases /\ j # k
        BY <1>0, <1>2, <3>2 DEF FollowUpInv, CaseLocks, WellTyped, ReminderTypeOK, RequestType
      <4>2. Sound(events, j, request[q].notice, request[q].day)
        BY DEF NoticeInv, InFlightSound, RequestSound
      <4> QED BY <1>3, <1>5, <1>6, <4>1, <4>2, SameNotices
    <3> QED BY <3>1, <3>2
  <2>2. ASSUME NEW p \in Scans PROVE ScanSound(events', scan'[p], p \in Daily)
    <3>1. Daily = {}
      BY <1>1, OnlyRequestsSend
    <3>2. \A j \in Cases : scan[p].seen[j] = None /\ scan[p].notice[j].sent = {}
      BY <1>0, <3>1, ByHand, IdleFields
    <3> QED BY <1>1, <3>1, <3>2 DEF ScanSound
  <2> QED BY <2>1, <2>2 DEF InFlightSound
<1> QED BY <1>8, <1>9, <1>10 DEF NoticeInv

\* The rows a scan writes about one case.
LEMMA RowsWritten ==
    ASSUME FollowUpInv, NEW p \in Scans, NEW k \in Cases, NEW F, F = events \cup EventsWritten(p)
    PROVE  AddsTo(events, F, k, scan[p].notice[k], scan[p].day)
<1> DEFINE rows(j) == EventsOf(j, scan[p].notice[j], scan[p].day)
<1>1. \A j \in Cases : rows(j) \subseteq Event
                       /\ \A e \in rows(j) : e.case = j /\ e.day = scan[p].day
  BY NoticeTypes, RowsOf
<1>2. EventsWritten(p) = UNION {rows(j) : j \in Cases}
  BY DEF EventsWritten
<1> HIDE DEF rows
<1>3. \A e : e \in EventsWritten(p) <=> \E j \in Cases : e \in rows(j)
  BY <1>2
<1> QED BY <1>1, <1>3 DEF AddsTo, rows

LEMMA NoticeScanCommit ==
    ASSUME NoticeInv, OneSender, FollowUpInv', NEW p \in Scans, ScanCommit(p)
    PROVE  NoticeInv'
<1>0. WellTyped /\ FollowUpInv /\ ScanOK(scan[p], p \in Daily) /\ ScanSound(events, scan[p], p \in Daily)
  BY DEF NoticeInv, FollowUpInv, WellTyped, InFlightSound
<1> DEFINE day == scan[p].day
<1>1. /\ scan'[p] = IdleScan /\ \A r \in Scans \ {p} : scan'[r] = scan[r]
      /\ events' = events \cup EventsWritten(p) /\ UNCHANGED <<today, request>>
  BY <1>0, ScanCommits
<1>2. /\ day \in Days /\ day <= today /\ 0 <= today /\ events \in SUBSET Event
      /\ \A e \in EventsWritten(p) : e.day = day
      /\ events' \in SUBSET Event
      /\ \A k \in Cases : AddsTo(events, events', k, scan[p].notice[k], day)
  <2>1. day \in Days /\ day <= today /\ 0 <= today /\ events \in SUBSET Event
    BY <1>0, NoticeTypes DEF NoticeInv, SoFar
  <2>2. \A k \in Cases : AddsTo(events, events', k, scan[p].notice[k], day)
    BY <1>0, <1>1, RowsWritten
  <2>3. /\ events' \in SUBSET Event /\ \A e \in EventsWritten(p) : e.day = day
    <3>1. events' \subseteq Event
      BY DEF FollowUpInv, WellTyped, ReminderTypeOK
    <3>2. ASSUME NEW e \in EventsWritten(p) PROVE e.day = day
      <4>1. PICK k \in Cases : e \in EventsOf(k, scan[p].notice[k], day)
        BY <3>2 DEF EventsWritten
      <4> QED BY <4>1 DEF EventsOf
    <3> QED BY <3>1, <3>2
  <2> QED BY <2>1, <2>2, <2>3
<1> HIDE DEF day
<1>3. SoFar'
  BY <1>1, <1>2, IdleFields DEF NoticeInv, SoFar
<1>4. CasesInOrder'
  <2> SUFFICES ASSUME NEW k \in Cases
               PROVE  Told(events', k) /\ Punctual(events', k, caseStatus'[k], due'[k])
    BY DEF CasesInOrder
  <2> DEFINE n == scan[p].notice[k]
  <2>1. /\ n \in Notice /\ NoticeOK(n) /\ due[k] \in 0..MaxDue
        /\ Told(events, k) /\ Punctual(events, k, caseStatus[k], due[k])
        /\ n.sent # {} => Sound(events, k, n, day)
    BY <1>0, NoticeTypes DEF NoticeInv, CasesInOrder, ScanSound, day
  <2>2. n.sent = {} => SameOf(events, events', k)
    BY <1>2, <2>1, RowsOf DEF AddsTo, SameOf
  <2>3. due'[k] = IF k \in MovedBy(p) \ scan[p].held THEN DueAfter(n.stage, day, due[k])
                  ELSE IF k \in scan[p].new THEN scan[p].opened + SecondAfter ELSE due[k]
    BY DEF ScanCommit, day
  <2>4. k \in MovedBy(p) <=> n.moves
    BY DEF MovedBy
  <2>5. k \in scan[p].new => caseStatus[k] = "NONE"
    BY DEF ScanCommit, ScanFits
  <2>6. n.sent # {} => caseStatus[k] # "NONE"
    BY <1>0 DEF FollowUpInv, SeenExist, About
  <2>7. ASSUME k \in scan[p].held PROVE n.sent = {} /\ caseStatus[k] \in Open
    BY <1>0, <2>7 DEF ScanOK, FollowUpInv, HeldIsOpen
  <2>8. n.moves => n.sent # {}
    BY <2>1 DEF NoticeOK
  <2>9. \/ k \in scan[p].held /\ caseStatus'[k] \in Closed
        \/ k \in MovedBy(p) \ scan[p].held /\ caseStatus'[k] = StatusAfter(n.stage)
        \/ k \in scan[p].new \ (MovedBy(p) \cup scan[p].held)
           /\ caseStatus[k] = "NONE" /\ caseStatus'[k] = "PENDING"
        \/ k \notin scan[p].held \cup MovedBy(p) \cup scan[p].new /\ caseStatus'[k] = caseStatus[k]
    BY <1>0, ScanCommits
  <2> HIDE DEF n
  <2>10. CASE n.sent # {}
    <3>1. k \notin scan[p].held /\ k \notin scan[p].new
      BY <2>5, <2>6, <2>7, <2>10
    <3>2. IF n.moves THEN caseStatus'[k] = StatusAfter(n.stage) /\ due'[k] = DueAfter(n.stage, day, due[k])
                     ELSE caseStatus'[k] = caseStatus[k] /\ due'[k] = due[k]
      BY <2>3, <2>4, <2>9, <3>1
    <3>3. AddsTo(events, events', k, n, day)
      BY <1>2 DEF n
    <3> QED BY <1>2, <2>1, <2>10, <3>2, <3>3, Records
  <2>11. CASE n.sent = {}
    <3>1. k \notin MovedBy(p)
      BY <2>4, <2>8, <2>11
    <3>2. Told(events', k) /\ \A st, d : Punctual(events, k, st, d) => Punctual(events', k, st, d)
      BY <1>2, <2>1, <2>2, <2>11, SameNotices
    <3>3. CASE k \in scan[p].held
      <4>1. caseStatus'[k] \in Closed /\ due'[k] = due[k]
        BY <2>3, <2>5, <2>7, <2>9, <3>1, <3>3, Names
      <4> QED BY <2>1, <3>2, <4>1, StaysPunctual DEF Closed
    <3>4. CASE k \in scan[p].new
      <4>1. Untold(events, k) /\ caseStatus'[k] = "PENDING"
        BY <2>1, <2>5, <2>7, <2>9, <3>1, <3>4, Names DEF Punctual
      <4>2. Punctual(events, k, caseStatus'[k], due'[k])
        BY <4>1 DEF Punctual, Untold, FirstDays
      <4> QED BY <3>2, <4>2
    <3>5. CASE k \notin scan[p].held \cup scan[p].new
      BY <2>1, <2>3, <2>9, <3>1, <3>2, <3>5
    <3> QED BY <3>3, <3>4, <3>5
  <2> QED BY <2>10, <2>11
<1>5. InFlightSound'
  <2>1. CASE Daily = {}
    <3>1. events' = events
      BY <1>0, <1>1, <2>1, ByHand
    <3>2. ScanSound(events, IdleScan, p \in Daily)
      BY IdleFields DEF ScanSound
    <3>3. \A r \in Scans : ScanSound(events, scan'[r], r \in Daily)
      BY <1>1, <3>2 DEF NoticeInv, InFlightSound
    <3> QED BY <1>1, <3>1, <3>3 DEF NoticeInv, InFlightSound
  <2>2. CASE "dispatch" \notin HrActions /\ \A r \in Scans : r = p
    <3>1. \A s \in Requests : request[s].action # "dispatch"
      BY <1>0, <2>2 DEF WellTyped, RequestOK, None
    <3>2. ScanSound(events', scan'[p], p \in Daily)
      BY <1>1, IdleFields DEF ScanSound
    <3> QED BY <1>1, <2>2, <3>1, <3>2 DEF InFlightSound, RequestSound
  <2> QED BY <2>1, <2>2 DEF OneSender
<1> QED BY <1>3, <1>4, <1>5 DEF NoticeInv

LEMMA NoticeStep == ASSUME NoticeInv, OneSender, [Next]_vars PROVE NoticeInv'
<1>0. FollowUpInv'
  BY FollowUpStep DEF NoticeInv
<1>1. CASE NextDay
  <2>1. UNCHANGED <<events, due, caseStatus, request, scan>> /\ today' = today + 1
    BY <1>1 DEF NextDay, caseVars
  <2>2. SoFar'
    BY <2>1, NoticeTypes, EventTypes DEF NoticeInv, SoFar
  <2> QED BY <1>0, <2>1, <2>2 DEF NoticeInv, CasesInOrder, InFlightSound
<1>2. CASE UNCHANGED vars
  BY <1>0, <1>2 DEF vars, NoticeInv, SoFar, CasesInOrder, InFlightSound
<1>3. ASSUME NEW s \in Requests, NEW k \in Cases, NEW chs \in SUBSET Channels,
             NEW ok \in SUBSET chs, DispatchSend(s, k, chs, ok)
      PROVE  NoticeInv'
  BY <1>0, <1>3, NoticeDispatchSend
<1>4. ASSUME Next PROVE NoticeInv'
  BY <1>0, <1>1, <1>3, <1>4, NoticeRequestStep, NoticeDispatchCommit, NoticeScanStep,
     NoticeScanCommit DEF Next
<1> QED BY <1>2, <1>4

LEMMA NoticeInit == Init => NoticeInv
<1> SUFFICES ASSUME Init PROVE NoticeInv
  OBVIOUS
<1>1. /\ today = 0 /\ events = {} /\ \A s \in Requests : request[s] = IdleRequest
      /\ \A p \in Scans : scan[p] = IdleScan
  BY DEF Init
<1>2. SoFar
  BY <1>1, IdleFields DEF SoFar
<1>3. CasesInOrder
  <2>1. \A k \in Cases : caseStatus[k] = "NONE"
    BY DEF Init
  <2>2. \A k, stage : FirstDays({}, k, stage) = {}
    BY DEF FirstDays
  <2>3. \A k \in Cases : Told({}, k)
    BY DEF Told, Once, Spaced, Begun
  <2>4. \A k \in Cases : Punctual({}, k, "NONE", due[k])
    BY <2>2 DEF Punctual, Untold
  <2> QED BY <1>1, <2>1, <2>3, <2>4 DEF CasesInOrder
<1>4. InFlightSound
  BY <1>1, IdleFields DEF InFlightSound, RequestSound, ScanSound, None
<1> QED BY <1>2, <1>3, <1>4, FollowUpInit DEF NoticeInv

\* HR gets the notice of a stage once on each channel (OneNoticePerStage): while
\* requests are the only ones who send, however many, by the lock they hold from
\* looking until the commit; or while one scan at a time is.
THEOREM NoticesOnce ==
    ASSUME OneSender
    PROVE  Spec => []OneNoticePerStage
<1>1. NoticeInv /\ [Next]_vars => NoticeInv'
  BY NoticeStep
<1>2. ASSUME NoticeInv PROVE OneNoticePerStage
  <2> SUFFICES ASSUME NEW e \in events, NEW f \in events, e.case = f.case, e.stage = f.stage,
                      e.channel = f.channel
               PROVE  e.day = f.day
    BY DEF OneNoticePerStage
  <2>1. e.case \in Cases
    BY <1>2, NoticeTypes, EventTypes DEF NoticeInv
  <2> QED BY <1>2, <2>1 DEF NoticeInv, CasesInOrder, Told, Once
<1>3. NoticeInv => OneNoticePerStage
  BY <1>2
<1> QED BY <1>1, <1>3, NoticeInit, PTL DEF Spec

\* HR has the policy's days to answer before the second reminder and before the
\* escalation, under the same condition (NoticesAreSpaced).
THEOREM NoticesInTime ==
    ASSUME OneSender
    PROVE  Spec => []NoticesAreSpaced
<1>1. NoticeInv /\ [Next]_vars => NoticeInv'
  BY NoticeStep
<1>2. ASSUME NoticeInv PROVE NoticesAreSpaced
  <2>1. \A k, stage : FirstDay(k, stage) = FirstDays(events, k, stage)
    BY DEF FirstDay, FirstDays
  <2>2. \A k \in Cases : Spaced(events, k)
    BY <1>2 DEF NoticeInv, CasesInOrder, Told
  <2> QED BY <2>1, <2>2 DEF Spaced, NoticesAreSpaced
<1>3. NoticeInv => NoticesAreSpaced
  BY <1>2
<1> QED BY <1>1, <1>3, NoticeInit, PTL DEF Spec

-----------------------------------------------------------------------------
(***************************************************************************)
(* The commit of a scan                                                    *)
(***************************************************************************)

\* The unique indexes accept what a scan writes when it commits, unless another scan
\* is about to commit too.
LoneScanFits ==
    \A p \in Scans :
        /\ ScanFinished(p)
        /\ \A r \in Scans \ {p} : scan[r].pc = "idle"
        => ScanFits(p)

\* None of the three causes of a conflict: a dispatch by hand that records the notice
\* the scan has sent, an edit that leaves a case open for the old date, another scan.
Undisturbed ==
    /\ "dispatch" \notin HrActions /\ "valid_to" \notin HrActions
    /\ \A p, r \in Scans : p = r

\* There are cases for the valid_to of the records only, and those a scan opens do
\* not exist.
CasesAreDated ==
    /\ \A k \in Cases : caseStatus[k] # "NONE" => validTo[CertOf(k)] = ValidOf(k)
    /\ \A p \in Scans : \A k \in scan[p].new :
          caseStatus[k] = "NONE" /\ validTo[CertOf(k)] = ValidOf(k)

LoneInv == NoticeInv /\ CasesAreDated

\* A step that opens no case and finds none to open.
LEMMA DatesKept ==
    ASSUME LoneInv, NoticeInv', UNCHANGED validTo,
           \A k \in Cases : caseStatus'[k] = "NONE" <=> caseStatus[k] = "NONE",
           \A p \in Scans : scan'[p].new = {} \/ scan'[p].new = scan[p].new
    PROVE  LoneInv'
<1>1. \A p \in Scans : scan'[p].new \subseteq Cases
  BY DEF NoticeInv, FollowUpInv, WellTyped, ReminderTypeOK, ScanType
<1>2. CasesAreDated'
  BY <1>1 DEF LoneInv, CasesAreDated
<1> QED BY <1>2 DEF LoneInv

LEMMA LoneRequestStep ==
    ASSUME LoneInv, Undisturbed, NoticeInv', NEW s \in Requests,
           \/ LeaveBegin(s) \/ Return(s) \/ RequestClose(s) \/ RequestCommit(s) \/ RequestAbort(s)
           \/ DispatchCommit(s)
           \/ \E action \in LedgerActions, c \in Certs, v \in ValidTos : LedgerBegin(s, action, c, v)
           \/ \E k \in Cases, answer \in Answers : Feedback(s, k, answer)
    PROVE  LoneInv'
<1>0. FollowUpInv /\ WellTyped /\ RequestOK(request[s]) /\ request[s] \in RequestType
  BY DEF LoneInv, NoticeInv, FollowUpInv, WellTyped, ReminderTypeOK
<1>1. request[s].action \notin {"dispatch", "valid_to"}
  BY <1>0 DEF RequestOK, Undisturbed, None
<1>2. CASE \/ LeaveBegin(s)
           \/ \E action \in LedgerActions, c \in Certs, v \in ValidTos : LedgerBegin(s, action, c, v)
  BY <1>0, <1>2, LedgerBegins, DatesKept DEF caseVars, certVars
<1>3. CASE Return(s)
  <2>1. UNCHANGED <<validTo, caseStatus, scan>>
    BY <1>3 DEF Return, caseVars
  <2> QED BY <2>1, DatesKept
<1>4. CASE RequestClose(s)
  BY <1>0, <1>4, RequestCloses, DatesKept DEF caseVars, certVars
<1>5. CASE RequestCommit(s)
  <2>1. validTo' = validTo
    BY <1>0, <1>1, <1>5 DEF RequestCommit, WellTyped, ReminderTypeOK
  <2>2. \A k \in Cases : caseStatus'[k] = "NONE" <=> caseStatus[k] = "NONE"
    <3>1. \A k \in Cases : IF k \in request[s].held THEN caseStatus'[k] \in Closed
                                                  ELSE caseStatus'[k] = caseStatus[k]
      BY <1>0, <1>5, LedgerCommits
    <3>2. \A k \in request[s].held : caseStatus[k] # "NONE"
      BY <1>0, Names DEF FollowUpInv, HeldIsOpen
    <3> QED BY <3>1, <3>2, Names
  <2> QED BY <1>0, <1>5, <2>1, <2>2, LedgerCommits, DatesKept
<1>6. CASE RequestAbort(s)
  <2>1. UNCHANGED <<validTo, caseStatus, scan>>
    BY <1>6 DEF RequestAbort, caseVars, certVars
  <2> QED BY <2>1, DatesKept
<1>7. ~DispatchCommit(s)
  BY <1>1 DEF DispatchCommit
<1>8. ASSUME NEW k \in Cases, NEW answer \in Answers, Feedback(s, k, answer)
      PROVE  LoneInv'
  <2>1. UNCHANGED <<validTo, scan>>
    BY <1>8 DEF Feedback, certVars
  <2>2. \A j \in Cases : caseStatus'[j] = "NONE" <=> caseStatus[j] = "NONE"
    BY <1>0, <1>8, FeedbackTyped, Names
  <2> QED BY <2>1, <2>2, DatesKept
<1> QED BY <1>2, <1>3, <1>4, <1>5, <1>6, <1>7, <1>8

LEMMA LoneScanStep ==
    ASSUME LoneInv, Undisturbed, NoticeInv', NEW p \in Scans,
           \/ ScanRefresh(p) \/ ScanRead(p) \/ ScanCommit(p) \/ ScanAbort(p)
           \/ \E date \in Days : ScanCreate(p, date)
           \/ \E k \in Cases : ScanClose(p, k) \/ \E ok \in SUBSET Channels : ScanSend(p, k, ok)
    PROVE  LoneInv'
<1>0. FollowUpInv /\ WellTyped /\ ScanOK(scan[p], p \in Daily)
  BY DEF LoneInv, NoticeInv, FollowUpInv, WellTyped
<1>1. CASE ScanRefresh(p)
  BY <1>0, <1>1, ScanRefreshes, DatesKept DEF caseVars, certVars
<1>2. ASSUME NEW date \in Days, ScanCreate(p, date) PROVE LoneInv'
  <2>1. /\ scan'[p].new = NewCases(p, date) /\ \A r \in Scans \ {p} : scan'[r] = scan[r]
        /\ UNCHANGED <<validTo, caseStatus>>
    BY <1>0, <1>2, ScanCreates DEF caseVars, certVars
  <2>2. \A k \in NewCases(p, date) : caseStatus[k] = "NONE" /\ validTo[CertOf(k)] = ValidOf(k)
    BY DEF NewCases
  <2>3. CasesAreDated'
    BY <2>1, <2>2 DEF LoneInv, CasesAreDated
  <2> QED BY <2>3 DEF LoneInv
<1>3. CASE ScanRead(p)
  BY <1>0, <1>3, ScanReads, DatesKept DEF caseVars, certVars
<1>4. CASE ScanAbort(p)
  <2>1. /\ scan'[p].new = {} /\ \A r \in Scans \ {p} : scan'[r] = scan[r]
        /\ UNCHANGED <<validTo, caseStatus>>
    BY <1>0, <1>4, ScanEnds, IdleFields DEF ScanAbort, caseVars, certVars
  <2> QED BY <2>1, DatesKept
<1>5. ASSUME NEW k \in Cases, ScanClose(p, k) PROVE LoneInv'
  BY <1>0, <1>5, ScanCloses, DatesKept DEF caseVars, certVars
<1>6. ASSUME NEW k \in Cases, NEW ok \in SUBSET Channels, ScanSend(p, k, ok) PROVE LoneInv'
  BY <1>0, <1>6, ScanSends, DatesKept DEF caseVars, certVars
<1>7. CASE ScanCommit(p)
  <2>1. /\ scan'[p] = IdleScan /\ \A r \in Scans : r = p /\ UNCHANGED validTo
    BY <1>0, <1>7, ScanCommits DEF Undisturbed
  <2>2. \A r \in Scans : scan'[r].new = {}
    BY <2>1, IdleFields
  <2>3. ASSUME NEW k \in Cases, caseStatus'[k] # "NONE" PROVE validTo[CertOf(k)] = ValidOf(k)
    <3>1. \/ k \in scan[p].held \/ k \in MovedBy(p) \/ k \in scan[p].new
          \/ caseStatus'[k] = caseStatus[k]
      BY <1>0, <1>7, ScanCommits
    <3>2. k \in scan[p].held => caseStatus[k] # "NONE"
      BY <1>0, Names DEF FollowUpInv, HeldIsOpen
    <3>3. k \in MovedBy(p) => caseStatus[k] # "NONE"
      BY <1>0 DEF FollowUpInv, SeenExist, About, ScanOK, NoticeOK, MovedBy
    <3> QED BY <2>3, <3>1, <3>2, <3>3 DEF LoneInv, CasesAreDated
  <2>4. CasesAreDated'
    BY <2>1, <2>2, <2>3 DEF CasesAreDated
  <2> QED BY <2>4 DEF LoneInv
<1> QED BY <1>1, <1>2, <1>3, <1>4, <1>5, <1>6, <1>7

LEMMA LoneStep == ASSUME LoneInv, Undisturbed, [Next]_vars PROVE LoneInv'
<1>0. NoticeInv'
  BY NoticeStep DEF LoneInv, Undisturbed, OneSender
<1>1. CASE NextDay
  BY <1>0, <1>1, DatesKept DEF NextDay, caseVars, certVars
<1>2. CASE UNCHANGED vars
  BY <1>0, <1>2, DatesKept DEF vars
<1>3. ASSUME NEW s \in Requests, NEW k \in Cases, NEW chs, NEW ok, DispatchSend(s, k, chs, ok)
      PROVE  FALSE
  BY <1>3 DEF DispatchSend, Undisturbed
<1>4. ASSUME Next PROVE LoneInv'
  BY <1>0, <1>1, <1>3, <1>4, LoneRequestStep, LoneScanStep DEF Next
<1> QED BY <1>2, <1>4

LEMMA LoneInit == Init => LoneInv
<1> SUFFICES ASSUME Init PROVE LoneInv
  OBVIOUS
<1>1. \A p \in Scans : scan[p].new = {}
  BY IdleFields DEF Init
<1>2. CasesAreDated
  BY <1>1 DEF Init, CasesAreDated
<1> QED BY <1>2, NoticeInit DEF LoneInv

LEMMA LoneFits == ASSUME LoneInv, NEW p \in Scans PROVE ScanFits(p)
<1>0. FollowUpInv /\ WellTyped /\ ScanOK(scan[p], p \in Daily) /\ ScanSound(events, scan[p], p \in Daily)
      /\ scan[p] \in ScanType
  BY DEF LoneInv, NoticeInv, FollowUpInv, WellTyped, InFlightSound, ReminderTypeOK
<1>1. \A k \in scan[p].new : caseStatus[k] = "NONE"
  BY DEF LoneInv, CasesAreDated
<1>2. OneOpenIn(StatusWritten(p))
  <2>1. ASSUME NEW k \in Cases, StatusWritten(p)[k] \in Open PROVE validTo[CertOf(k)] = ValidOf(k)
    <3>1. \/ k \in scan[p].held \/ k \in MovedBy(p) \/ k \in scan[p].new
          \/ StatusWritten(p)[k] = caseStatus[k]
      BY DEF StatusWritten
    <3>2. k \in scan[p].held \/ k \in MovedBy(p) => caseStatus[k] # "NONE"
      BY <1>0, Names DEF FollowUpInv, HeldIsOpen, SeenExist, About, ScanOK, NoticeOK, MovedBy
    <3> QED BY <2>1, <3>1, <3>2, Names DEF LoneInv, CasesAreDated
  <2> SUFFICES ASSUME NEW j \in Cases, NEW k \in Cases, CertOf(j) = CertOf(k),
                      StatusWritten(p)[j] \in Open, StatusWritten(p)[k] \in Open
               PROVE  j = k
    BY DEF OneOpenIn
  <2>2. ValidOf(j) = ValidOf(k)
    BY <2>1
  <2> QED BY <2>2, CasesArePairs
<1>3. ASSUME NEW e \in EventsWritten(p), e \in events PROVE FALSE
  <2>1. PICK k \in Cases : e \in EventsOf(k, scan[p].notice[k], scan[p].day)
    BY <1>3 DEF EventsWritten
  <2>2. /\ e.case = k /\ e.stage = scan[p].notice[k].stage
        /\ e.channel \in scan[p].notice[k].sent
    BY <2>1 DEF EventsOf
  <2>3. Sound(events, k, scan[p].notice[k], scan[p].day)
    BY <1>0, <2>2 DEF ScanSound
  <2> QED BY <1>3, <2>2, <2>3 DEF Sound
<1> QED BY <1>1, <1>2, <1>3 DEF ScanFits

\* There are no other causes: while nobody dispatches by hand, moves a valid_to or
\* scans next to it, the commit of a scan is not refused, whatever else HR does
\* meanwhile.  In particular a closed case, of this or an earlier scan, is not inserted
\* again (scan_and_create_reminder_tasks, dispatch_due_reminder_notifications).
THEOREM LoneScansFit ==
    ASSUME Undisturbed
    PROVE  Spec => []LoneScanFits
<1>1. LoneInv /\ [Next]_vars => LoneInv'
  BY LoneStep
<1>2. LoneInv => LoneScanFits
  BY LoneFits DEF LoneScanFits
<1> QED BY <1>1, <1>2, LoneInit, PTL DEF Spec

=============================================================================
