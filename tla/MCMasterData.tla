----------------------------- MODULE MCMasterData -----------------------------
(***************************************************************************)
(* Small instances of MasterData.                                          *)
(***************************************************************************)
EXTENDS MasterData

Line3(key, name, text) == [key |-> key, name |-> name, text |-> text]

ImportOf(t, file)   == [kind |-> "import", table |-> t, file |-> file]
CreateOf(t, k, cells, terms) ==
    [kind |-> "create", table |-> t, row |-> [key |-> k, cells |-> cells], terms |-> terms]
UpdateOf(t, k, cells, terms) ==
    [kind |-> "update", table |-> t, row |-> [key |-> k, cells |-> cells], terms |-> terms]
CreatePolicyFor(k)  == [kind |-> "createPolicy", table |-> "certificate_type", type |-> k]
MovePolicyTo(k)     == [kind |-> "updatePolicy", table |-> "certificate_type", type |-> k]
FeedbackOn(e, page) == [kind |-> "feedback", table |-> "employee", key |-> e, page |-> page]

\* Every file of up to three lines: empty, without number, with a status that is
\* none, and numbers that come twice.
EmployeeLines == {Line3(0, 0, ""), Line3(0, 1, ""), Line3(1, 1, "?"), Line3(1, 1, "LEFT"),
                  Line3(1, 2, ""), Line3(3, 1, "LEFT")}
TypeLines     == {Line3(1, 1, "?"), Line3(1, 1, "N"), Line3(2, 2, ""), Line3(2, 1, ""), Line3(2, 0, "Y")}
Files(lines)  == UNION {[1..n -> lines] : n \in 1..3}
FileCasts ==
    {[job |-> <<ImportOf("employee", f)>>, existing |-> {1, 2}, open |-> {1}, scan |-> FALSE] :
        f \in Files(EmployeeLines)}
    \cup {[job |-> <<ImportOf("certificate_type", f)>>, existing |-> {1}, open |-> {}, scan |-> FALSE] :
        f \in Files(TypeLines)}

\* Leavers imported next to the scan, to edits of the same employees and to
\* feedback from a page that may be stale.
Left(e)  == Line3(e, 1, "LEFT")
Status(s) == [employment_status |-> s]
LeaverFiles == {<<Left(1), Left(2)>>, <<Left(2), Line3(3, 1, ""), Left(1)>>}
Partners ==
    <<FeedbackOn(1, 0), FeedbackOn(2, 1),
      UpdateOf("employee", 1, Status("LEFT"), FALSE), UpdateOf("employee", 1, Status("ON_LEAVE"), FALSE),
      CreateOf("employee", 3, [name |-> 2, employment_status |-> "ACTIVE"], FALSE),
      ImportOf("employee", <<Line3(3, 2, ""), Line3(1, 0, ""), Line3(1, 2, "")>>)>>
LeaverCasts ==
    {[job |-> <<ImportOf("employee", f), Partners[a]>>, existing |-> {1, 2}, open |-> {1, 2}, scan |-> TRUE] :
        f \in LeaverFiles, a \in DOMAIN Partners}
    \cup
    {[job |-> <<ImportOf("employee", f), Partners[p[1]], Partners[p[2]]>>,
      existing |-> {1, 2}, open |-> {1}, scan |-> s] :
        f \in LeaverFiles, s \in BOOLEAN, p \in {x \in (1..6) \X (1..6) : x[1] < x[2]}}

\* Forms and imports of certificate types with their default policies.
TypeJobs ==
    <<UpdateOf("certificate_type", 1, [name |-> 1], TRUE), UpdateOf("certificate_type", 1, [name |-> 2], TRUE),
      UpdateOf("certificate_type", 1, <<>>, TRUE), UpdateOf("certificate_type", 2, [name |-> 2], TRUE),
      CreateOf("certificate_type", 2, [name |-> 1, force_manual_review |-> TRUE], TRUE),
      ImportOf("certificate_type", <<Line3(1, 2, "N"), Line3(2, 1, "")>>),
      CreatePolicyFor(1), CreatePolicyFor(2), MovePolicyTo(0)>>
TypeCasts ==
    {[job |-> <<TypeJobs[p[1]], TypeJobs[p[2]], TypeJobs[p[3]]>>,
      existing |-> {1}, open |-> {}, scan |-> FALSE] :
        p \in {x \in (1..9) \X (1..9) \X (1..9) :
                   x[1] <= x[2] /\ x[2] < x[3] /\ x[1] <= 3}}

\* Two types of which one is to have the name of the other.
Rename(k, name) == UpdateOf("certificate_type", k, [name |-> name], FALSE)
SwapCasts ==
    {[job |-> <<Rename(2, 11), other>>, existing |-> {1, 2}, open |-> {}, scan |-> FALSE] :
        other \in {Rename(1, 12), ImportOf("certificate_type", <<Line3(1, 3, ""), Line3(2, 4, "")>>)}}

AllCasts == FileCasts \cup LeaverCasts \cup TypeCasts \cup SwapCasts
==============================================================================
