-------------------------- MODULE MCScenarioEvidence --------------------------
(***************************************************************************)
(* One document with two review tasks, two records, two employees, of whom *)
(* the second has no department or one whose name contains that of the     *)
(* first; type 2 is created later.                                         *)
(***************************************************************************)
EXTENDS ScenarioEvidence

Says(e, t, m) == [employee |-> e, type |-> t, month |-> m]
ThreeFacts == {Says(1, 1, 1), Says(1, 1, 2), Says(2, 2, 1)}
NowFound == <<{"EXPIRING"}, {"ACTIVE"}>>

Names == <<{"ops"}, {"devops"}>>
Contains == {<<"ops", "ops">>, <<"ops", "devops">>, <<"devops", "devops">>}

With(f, x, y) == [z \in DOMAIN f |-> IF z = x THEN y ELSE f[z]]
Works(department) == [status |-> "ACTIVE", department |-> department]
\* Two employees and a type; the document was recognized; it was approved, an older
\* record was replaced by its record, and this one moved to its right expiry after the
\* case for the wrong one was opened; or the case for the right one was answered.  In
\* the last two the second employee is still to come.
Begun      == [NoData EXCEPT !.employee = <<Works("ops"), Works("")>>, !.types = {1}]
Recognized == [Begun EXCEPT !.document[1] = "PENDING_REVIEW", !.extracted = {1},
                            !.review = With(@, <<1, 1>>, [status |-> "PENDING", certificate |-> 0])]
Followed == [Recognized EXCEPT
    !.employee[2].status = "NONE",
    !.document[1] = "CONFIRMED",
    !.review = With(@, <<1, 1>>, [status |-> "APPROVED", certificate |-> 2]),
    !.certificate[1] = [status |-> "REPLACED", employee |-> 1, type |-> 1, doc |-> 0, by |-> 2, month |-> 1],
    !.certificate[2] = [status |-> "ACTIVE", employee |-> 1, type |-> 1, doc |-> 1, by |-> 0, month |-> 2],
    !.task = With(With(@, <<2, 1>>, [status |-> "CLOSED", events |-> TRUE, feedback |-> FALSE]),
                  <<2, 2>>, [status |-> "WAITING_FEEDBACK", events |-> TRUE, feedback |-> FALSE])]
Answered == [Followed EXCEPT
    !.task = With(@, <<2, 2>>, [status |-> "RESOLVED", events |-> TRUE, feedback |-> TRUE])]
FourStarts == {Begun, Recognized, Followed, Answered}

\* A number both employees' contain; a type code nobody has with a certificate's id.
Lines == {[Idle.select EXCEPT !.employees = {1, 2}],
          [Idle.select EXCEPT !.types = {1}],
          [Idle.select EXCEPT !.certificate = 2, !.task = <<1, 1>>]}
==============================================================================
