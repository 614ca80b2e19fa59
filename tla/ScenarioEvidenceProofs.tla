------------------------ MODULE ScenarioEvidenceProofs ------------------------
(***************************************************************************)
(* Proofs about ScenarioEvidence and the lists and numbers of HrConsole,   *)
(* for any employees, documents, records and command lines.                *)
(***************************************************************************)
EXTENDS ScenarioEvidence, FiniteSetTheorems, WellFoundedInduction, TLAPS

-----------------------------------------------------------------------------
(***************************************************************************)
(* Sums of counts                                                          *)
(***************************************************************************)

\* Proofs by induction look at the least number that is an exception.
LEMMA LeastNumber ==
    ASSUME NEW S \in SUBSET Nat, S # {}
    PROVE  \E n \in S : \A m \in S : n <= m
<1> DEFINE R == {ss \in Nat \X Nat : ss[1] < ss[2]}
<1>1. IsWellFoundedOn(R, Nat)
  BY NatLessThanWellFounded DEF OpToRel
<1>2. PICK n \in S : \A m \in S : <<m, n>> \notin R
  <2> HIDE DEF R
  <2> QED BY <1>1, WFMin
<1>3. \A m \in S : ~(m < n)
  BY <1>2
<1> HIDE DEF R
<1> QED BY <1>2, <1>3

Pick(s) == CHOOSE x \in s : TRUE

\* g is the recursive function behind SumFunction, on the subsets in U.
SumsOn(f, U, g) ==
    g = [s \in U |-> IF s = {} THEN 0 ELSE f[Pick(s)] + g[s \ {Pick(s)}]]

LEMMA SumFolds ==
    ASSUME NEW f
    PROVE  SumFunction(f) = (CHOOSE g : SumsOn(f, SUBSET DOMAIN f, g))[DOMAIN f]
BY Zenon DEF SumFunction, SumFunctionOnSet, FoldFunctionOnSet, MapThenFoldSet, SumsOn, Pick

LEMMA PickOut ==
    ASSUME NEW s, IsFiniteSet(s), s # {}
    PROVE  /\ Pick(s) \in s /\ IsFiniteSet(s \ {Pick(s)})
           /\ Cardinality(s) \in Nat /\ Cardinality(s \ {Pick(s)}) = Cardinality(s) - 1
<1>1. Pick(s) \in s
  BY DEF Pick
<1> QED BY <1>1, FS_RemoveElement, FS_CardinalityType

\* There is one.
LEMMA SumExists ==
    ASSUME NEW f, NEW S, IsFiniteSet(S)
    PROVE  \E g : SumsOn(f, SUBSET S, g)
<1> DEFINE U(n) == {s \in SUBSET S : Cardinality(s) <= n}
           T    == {n \in Nat : ~ \E g : SumsOn(f, U(n), g)}
<1>0. \A s \in SUBSET S : IsFiniteSet(s) /\ Cardinality(s) \in Nat /\ Cardinality(s) <= Cardinality(S)
  BY FS_Subset, FS_CardinalityType
<1>1. T = {}
  <2> SUFFICES ASSUME T # {} PROVE FALSE
    OBVIOUS
  <2>1. PICK n \in T : \A m \in T : n <= m
    BY LeastNumber
  <2>2. n # 0
    <3> SUFFICES \E g : SumsOn(f, U(0), g)
      BY <2>1
    <3>1. \A s \in U(0) : s = {}
      BY <1>0, FS_EmptySet
    <3>2. SumsOn(f, U(0), [s \in U(0) |-> 0])
      BY <3>1 DEF SumsOn
    <3> QED BY <3>2
  <2>3. n - 1 \in Nat /\ n - 1 \notin T
    <3>1. n \in Nat
      OBVIOUS
    <3>2. n - 1 \in Nat /\ ~(n <= n - 1)
      BY <2>2, <3>1
    <3> HIDE DEF T
    <3> QED BY <2>1, <3>2
  <2>4. PICK g : SumsOn(f, U(n - 1), g)
    BY <2>3
  <2> DEFINE h == [s \in U(n) |-> IF s = {} THEN 0 ELSE f[Pick(s)] + g[s \ {Pick(s)}]]
  <2>5. \A s \in U(n - 1) : s \in U(n) /\ h[s] = g[s]
    <3>1. \A s \in U(n - 1) : s \in U(n)
      BY <1>0, <2>3
    <3>2. \A s \in U(n - 1) : g[s] = IF s = {} THEN 0 ELSE f[Pick(s)] + g[s \ {Pick(s)}]
      <4> HIDE DEF U
      <4> QED BY <2>4 DEF SumsOn
    <3> HIDE DEF U
    <3> QED BY <3>1, <3>2
  <2>6. \A s \in U(n) : s # {} => s \ {Pick(s)} \in U(n - 1)
    BY <1>0, PickOut
  <2>7. h = [s \in U(n) |-> IF s = {} THEN 0 ELSE f[Pick(s)] + h[s \ {Pick(s)}]]
    <3> HIDE DEF U
    <3> QED BY <2>5, <2>6
  <2> HIDE DEF h
  <2>8. SumsOn(f, U(n), h)
    BY <2>7 DEF SumsOn
  <2> QED BY <2>1, <2>8
<1>2. Cardinality(S) \in Nat /\ U(Cardinality(S)) = SUBSET S
  BY <1>0
<1> QED BY <1>1, <1>2

\* The counts of the parts of a finite set add up to its count.
LEMMA CountsAddUp ==
    ASSUME NEW f, NEW A, NEW p, IsFiniteSet(DOMAIN f), IsFiniteSet(A),
           \A a \in A : p[a] \in DOMAIN f,
           \A d \in DOMAIN f : f[d] = Cardinality({a \in A : p[a] = d})
    PROVE  SumFunction(f) = Cardinality(A)
<1> DEFINE S    == DOMAIN f
           g    == CHOOSE g : SumsOn(f, SUBSET S, g)
           P(s) == {a \in A : p[a] \in s}
           T    == {n \in Nat : \E s \in SUBSET S : Cardinality(s) = n /\ g[s] # Cardinality(P(s))}
<1>0. /\ \A s \in SUBSET S : IsFiniteSet(s) /\ Cardinality(s) \in Nat
      /\ \A B \in SUBSET A : IsFiniteSet(B) /\ Cardinality(B) \in Nat
  BY FS_Subset, FS_CardinalityType
<1>1. SumFunction(f) = g[S]
  BY SumFolds
<1>2. SumsOn(f, SUBSET S, g)
  BY SumExists
<1>3. \A s \in SUBSET S : g[s] = IF s = {} THEN 0 ELSE f[Pick(s)] + g[s \ {Pick(s)}]
  <2> HIDE DEF g
  <2> QED BY <1>2 DEF SumsOn
<1> HIDE DEF g
<1>4. T = {}
  <2> SUFFICES ASSUME T # {} PROVE FALSE
    OBVIOUS
  <2>1. PICK n \in T : \A m \in T : n <= m
    BY LeastNumber
  <2>2. PICK s \in SUBSET S : Cardinality(s) = n /\ g[s] # Cardinality(P(s))
    BY <2>1
  <2>3. s # {}
    <3> SUFFICES ASSUME s = {} PROVE FALSE
      OBVIOUS
    <3>1. P(s) = {}
      OBVIOUS
    <3>2. g[s] = 0
      BY <1>3
    <3> QED BY <2>2, <3>1, <3>2, FS_EmptySet
  <2> DEFINE x == Pick(s)
             r == s \ {x}
             B == {a \in A : p[a] = x}
  <2>4. x \in s /\ r \in SUBSET S /\ Cardinality(r) = n - 1 /\ n \in Nat /\ n - 1 \in Nat
    BY <1>0, <2>2, <2>3, PickOut
  <2>5. g[r] = Cardinality(P(r))
    <3>1. n - 1 \notin T
      BY <2>1, <2>4
    <3> HIDE DEF r, P
    <3> QED BY <2>4, <3>1
  <2>6. g[s] = f[x] + g[r]
    BY <1>3, <2>3
  <2>7. f[x] = Cardinality(B)
    BY <2>4
  <2>8. P(s) = P(r) \cup B /\ P(r) \cap B = {} /\ P(r) \in SUBSET A /\ B \in SUBSET A
    BY <2>4
  <2>9. Cardinality(P(s)) = Cardinality(P(r)) + Cardinality(B)
    <3> HIDE DEF P, B, r, x
    <3>1. Cardinality(P(r) \cup B) = Cardinality(P(r)) + Cardinality(B) - Cardinality(P(r) \cap B)
      BY <1>0, <2>8, FS_Union
    <3>2. Cardinality(P(r) \cap B) = 0
      BY <2>8, FS_EmptySet
    <3> QED BY <1>0, <2>8, <3>1, <3>2
  <2> HIDE DEF P, B, r, x
  <2>10. Cardinality(P(r)) \in Nat /\ Cardinality(B) \in Nat
    BY <1>0, <2>8
  <2> QED BY <2>2, <2>5, <2>6, <2>7, <2>9, <2>10
<1>5. g[S] = Cardinality(P(S))
  <2>1. S \in SUBSET S /\ Cardinality(S) \in Nat
    BY <1>0
  <2> HIDE DEF P
  <2> QED BY <1>4, <2>1
<1>6. P(S) = A
  OBVIOUS
<1> QED BY <1>1, <1>5, <1>6

\* Of finitely many things one reaches furthest.
LEMMA Furthest ==
    ASSUME NEW S, IsFiniteSet(S), S # {}, NEW w, \A o \in S : w[o] \in Nat
    PROVE  \E o \in S : \A p \in S : w[p] <= w[o]
<1> DEFINE Beyond(o) == {p \in S : w[p] > w[o]}
           T == {Cardinality(Beyond(o)) : o \in S}
<1>1. \A o \in S : IsFiniteSet(Beyond(o)) /\ Cardinality(Beyond(o)) \in Nat
  BY FS_Subset, FS_CardinalityType
<1>2. T \in SUBSET Nat /\ T # {}
  <2> HIDE DEF Beyond
  <2> QED BY <1>1
<1>3. PICK n \in T : \A m \in T : n <= m
  <2> HIDE DEF T
  <2> QED BY <1>2, LeastNumber
<1>4. PICK o \in S : n = Cardinality(Beyond(o))
  BY <1>3
<1>5. \A p \in S : w[p] <= w[o]
  <2> SUFFICES ASSUME NEW p \in S, ~(w[p] <= w[o]) PROVE FALSE
    OBVIOUS
  <2>1. Beyond(p) \subseteq Beyond(o) /\ Beyond(p) # Beyond(o)
    <3>1. w[p] \in Nat /\ w[o] \in Nat /\ w[p] > w[o]
      OBVIOUS
    <3>2. p \in Beyond(o) /\ p \notin Beyond(p)
      BY <3>1
    <3>3. \A q \in Beyond(p) : q \in Beyond(o)
      BY <3>1
    <3> QED BY <3>2, <3>3
  <2> HIDE DEF Beyond
  <2>2. Cardinality(Beyond(p)) < Cardinality(Beyond(o))
    BY <1>1, <2>1, FS_Subset
  <2>3. Cardinality(Beyond(p)) \in T
    OBVIOUS
  <2> HIDE DEF T
  <2> QED BY <1>1, <1>3, <1>4, <2>2, <2>3
<1> QED BY <1>5

-----------------------------------------------------------------------------
(***************************************************************************)
(* The data: what every commit keeps, and what it never takes back.  A     *)
(* commit changes whole tables, one after another.                         *)
(***************************************************************************)

\* The tables of x, in this order of dependence.
ReviewsOk(x) ==
    \A r \in Reviews : LET row == x.review[r] IN
        /\ row.status # "NONE" => r[1] \in x.extracted
        /\ row.status = "APPROVED" => row.certificate # 0
RowOk(x, row) ==
    /\ row.status # "NONE" => row.employee \in Employees /\ row.type \in x.types /\ row.month \in Months
    /\ row.status = "REPLACED" => row.by # 0
    /\ row.by # 0 => row.status # "NONE"
TaskOk(row) == row.status \notin {"NONE", "PENDING"} \/ row.feedback => row.events

LEMMA Parts ==
    ASSUME NEW x
    PROVE  Consistent(x) <=> /\ x \in Data /\ ReviewsOk(x)
                             /\ \A c \in Certificates : RowOk(x, x.certificate[c])
                             /\ \A k \in Cases : TaskOk(x.task[k])
BY Zenon DEF Consistent, ReviewsOk, RowOk, TaskOk

ClosedReviews == {"APPROVED", "REJECTED"}

RowGrows(old, new) ==
    /\ old.status # "NONE" => new.status # "NONE"
    /\ old.by # 0 => new.by # 0
TaskGrows(old, new) == (old.events => new.events) /\ (old.feedback => new.feedback)
ReviewGrows(old, new) ==
    old.status \in ClosedReviews => /\ new.status \in ClosedReviews
                                    /\ old.certificate # 0 => new.certificate # 0

Grows(x, y) ==
    /\ x.types \subseteq y.types /\ x.extracted \subseteq y.extracted
    /\ \A r \in Reviews : ReviewGrows(x.review[r], y.review[r])
    /\ \A c \in Certificates : RowGrows(x.certificate[c], y.certificate[c])
    /\ \A k \in Cases : TaskGrows(x.task[k], y.task[k])

Kept(x, y) == Consistent(y) /\ Grows(x, y)

LEMMA KeptTwice ==
    ASSUME NEW x, NEW y, NEW z, Kept(x, y), Kept(y, z)
    PROVE  Kept(x, z)
BY DEF Kept, Grows, RowGrows, TaskGrows, ReviewGrows

LEMMA EmployeeTable ==
    ASSUME NEW x, Consistent(x), NEW F \in [Employees -> EmployeeRow]
    PROVE  Kept(x, [x EXCEPT !.employee = F])
<1> DEFINE y == [x EXCEPT !.employee = F]
<1>1. x \in Data
  BY DEF Consistent
<1>2. /\ y \in Data /\ y.types = x.types /\ y.extracted = x.extracted
      /\ y.review = x.review /\ y.certificate = x.certificate /\ y.task = x.task
  BY <1>1 DEF Data
<1> HIDE DEF y
<1>3. Kept(x, y)
  BY <1>2, Parts DEF Kept, Grows, RowGrows, TaskGrows, ReviewGrows, ReviewsOk, RowOk
<1> QED BY <1>3 DEF y

LEMMA TypeTable ==
    ASSUME NEW x, Consistent(x), NEW T \in SUBSET Types
    PROVE  Kept(x, [x EXCEPT !.types = @ \cup T])
<1> DEFINE y == [x EXCEPT !.types = @ \cup T]
<1>1. x \in Data
  BY DEF Consistent
<1>2. /\ y \in Data /\ y.types = x.types \cup T /\ y.extracted = x.extracted
      /\ y.review = x.review /\ y.certificate = x.certificate /\ y.task = x.task
  BY <1>1 DEF Data
<1> HIDE DEF y
<1>3. Kept(x, y)
  BY <1>2, Parts DEF Kept, Grows, RowGrows, TaskGrows, ReviewGrows, ReviewsOk, RowOk
<1> QED BY <1>3 DEF y

LEMMA DocumentTable ==
    ASSUME NEW x, Consistent(x), NEW d \in Documents, NEW s \in DocumentStatus
    PROVE  Kept(x, [x EXCEPT !.document[d] = s])
<1> DEFINE y == [x EXCEPT !.document[d] = s]
<1>1. x \in Data
  BY DEF Consistent
<1>2. /\ y \in Data /\ y.types = x.types /\ y.extracted = x.extracted
      /\ y.review = x.review /\ y.certificate = x.certificate /\ y.task = x.task
  BY <1>1 DEF Data
<1> HIDE DEF y
<1>3. Kept(x, y)
  BY <1>2, Parts DEF Kept, Grows, RowGrows, TaskGrows, ReviewGrows, ReviewsOk, RowOk
<1> QED BY <1>3 DEF y

LEMMA ExtractionTable ==
    ASSUME NEW x, Consistent(x), NEW d \in Documents
    PROVE  Kept(x, [x EXCEPT !.extracted = @ \cup {d}])
<1> DEFINE y == [x EXCEPT !.extracted = @ \cup {d}]
<1>1. x \in Data
  BY DEF Consistent
<1>2. /\ y \in Data /\ y.types = x.types /\ y.extracted = x.extracted \cup {d}
      /\ y.review = x.review /\ y.certificate = x.certificate /\ y.task = x.task
  BY <1>1 DEF Data
<1> HIDE DEF y
<1>3. Kept(x, y)
  BY <1>2, Parts DEF Kept, Grows, RowGrows, TaskGrows, ReviewGrows, ReviewsOk, RowOk
<1> QED BY <1>3 DEF y

LEMMA ReviewTable ==
    ASSUME NEW x, Consistent(x), NEW F \in [Reviews -> ReviewRow],
           \A r \in Reviews : /\ F[r].status # "NONE" => r[1] \in x.extracted
                              /\ F[r].status = "APPROVED" => F[r].certificate # 0
                              /\ ReviewGrows(x.review[r], F[r])
    PROVE  Kept(x, [x EXCEPT !.review = F])
<1> DEFINE y == [x EXCEPT !.review = F]
<1>1. x \in Data
  BY DEF Consistent
<1>2. /\ y \in Data /\ y.types = x.types /\ y.extracted = x.extracted
      /\ y.review = F /\ y.certificate = x.certificate /\ y.task = x.task
  BY <1>1 DEF Data
<1> HIDE DEF y
<1>3. Kept(x, y)
  BY <1>2, Parts DEF Kept, Grows, RowGrows, TaskGrows, ReviewsOk, RowOk
<1> QED BY <1>3 DEF y

LEMMA CertificateTable ==
    ASSUME NEW x, Consistent(x), NEW F \in [Certificates -> CertificateRow],
           \A c \in Certificates : RowOk(x, F[c]) /\ RowGrows(x.certificate[c], F[c])
    PROVE  Kept(x, [x EXCEPT !.certificate = F])
<1> DEFINE y == [x EXCEPT !.certificate = F]
<1>1. x \in Data
  BY DEF Consistent
<1>2. /\ y \in Data /\ y.types = x.types /\ y.extracted = x.extracted
      /\ y.review = x.review /\ y.certificate = F /\ y.task = x.task
  BY <1>1 DEF Data
<1> HIDE DEF y
<1>3. Kept(x, y)
  BY <1>2, Parts DEF Kept, Grows, TaskGrows, ReviewGrows, ReviewsOk, RowOk
<1> QED BY <1>3 DEF y

LEMMA TaskTable ==
    ASSUME NEW x, Consistent(x), NEW F \in [Cases -> TaskRow],
           \A k \in Cases : TaskOk(F[k]) /\ TaskGrows(x.task[k], F[k])
    PROVE  Kept(x, [x EXCEPT !.task = F])
<1> DEFINE y == [x EXCEPT !.task = F]
<1>1. x \in Data
  BY DEF Consistent
<1>2. /\ y \in Data /\ y.types = x.types /\ y.extracted = x.extracted
      /\ y.review = x.review /\ y.certificate = x.certificate /\ y.task = F
  BY <1>1 DEF Data
<1> HIDE DEF y
<1>3. Kept(x, y)
  BY <1>2, Parts DEF Kept, Grows, RowGrows, ReviewGrows, ReviewsOk, RowOk
<1> QED BY <1>3 DEF y

\* One row of a table.
LEMMA TaskRowChange ==
    ASSUME NEW x, Consistent(x), NEW k \in Cases, NEW row \in TaskRow,
           TaskOk(row), TaskGrows(x.task[k], row)
    PROVE  Kept(x, [x EXCEPT !.task[k] = row])
<1> DEFINE F == [x.task EXCEPT ![k] = row]
<1>1. x \in Data /\ x.task \in [Cases -> TaskRow] /\ \A j \in Cases : TaskOk(x.task[j])
  BY Parts DEF Data
<1>2. F \in [Cases -> TaskRow] /\ F[k] = row /\ \A j \in Cases \ {k} : F[j] = x.task[j]
  BY <1>1
<1>3. [x EXCEPT !.task[k] = row] = [x EXCEPT !.task = F]
  BY <1>1 DEF Data
<1> HIDE DEF F
<1>4. Kept(x, [x EXCEPT !.task = F])
  BY <1>1, <1>2, TaskTable DEF TaskGrows
<1> QED BY <1>3, <1>4

LEMMA ReviewRowChange ==
    ASSUME NEW x, Consistent(x), NEW r \in Reviews, NEW row \in ReviewRow,
           x.review[r].status # "NONE", row.status = "APPROVED" => row.certificate # 0,
           ReviewGrows(x.review[r], row)
    PROVE  Kept(x, [x EXCEPT !.review[r] = row])
<1> DEFINE F == [x.review EXCEPT ![r] = row]
<1>1. x \in Data /\ x.review \in [Reviews -> ReviewRow] /\ ReviewsOk(x)
  BY Parts DEF Data
<1>2. F \in [Reviews -> ReviewRow] /\ F[r] = row /\ \A q \in Reviews \ {r} : F[q] = x.review[q]
  BY <1>1
<1>3. [x EXCEPT !.review[r] = row] = [x EXCEPT !.review = F]
  BY <1>1 DEF Data
<1> HIDE DEF F
<1>4. Kept(x, [x EXCEPT !.review = F])
  BY <1>1, <1>2, ReviewTable DEF ReviewGrows, ReviewsOk
<1> QED BY <1>3, <1>4

LEMMA CertificateRowChange ==
    ASSUME NEW x, Consistent(x), NEW c \in Certificates, NEW row \in CertificateRow,
           RowOk(x, row), RowGrows(x.certificate[c], row)
    PROVE  Kept(x, [x EXCEPT !.certificate[c] = row])
<1> DEFINE F == [x.certificate EXCEPT ![c] = row]
<1>1. /\ x \in Data /\ x.certificate \in [Certificates -> CertificateRow]
      /\ \A o \in Certificates : RowOk(x, x.certificate[o])
  BY Parts DEF Data
<1>2. /\ F \in [Certificates -> CertificateRow] /\ F[c] = row
      /\ \A o \in Certificates \ {c} : F[o] = x.certificate[o]
  BY <1>1
<1>3. [x EXCEPT !.certificate[c] = row] = [x EXCEPT !.certificate = F]
  BY <1>1 DEF Data
<1> HIDE DEF F
<1>4. Kept(x, [x EXCEPT !.certificate = F])
  BY <1>1, <1>2, CertificateTable DEF RowGrows
<1> QED BY <1>3, <1>4

LEMMA ClosedKeeps ==
    ASSUME NEW x, Consistent(x), NEW S, NEW status \in {"RESOLVED", "CLOSED"}
    PROVE  Kept(x, Closed(x, S, status))
<1> DEFINE F == [k \in Cases |-> IF k[1] \in S /\ x.task[k].status \in OpenTasks
                                 THEN [x.task[k] EXCEPT !.status = status, !.events = TRUE]
                                 ELSE x.task[k]]
<1>1. x \in Data /\ x.task \in [Cases -> TaskRow] /\ \A j \in Cases : TaskOk(x.task[j])
  BY Parts DEF Data
<1>2. ASSUME NEW k \in Cases
      PROVE  F[k] \in TaskRow /\ TaskOk(F[k]) /\ TaskGrows(x.task[k], F[k])
  <2>1. x.task[k] \in TaskRow /\ TaskOk(x.task[k])
    BY <1>1
  <2>2. CASE F[k] = x.task[k]
    BY <2>1, <2>2 DEF TaskGrows
  <2>3. CASE F[k] = [x.task[k] EXCEPT !.status = status, !.events = TRUE]
    BY <2>1, <2>3 DEF TaskRow, TaskStatus, TaskOk, TaskGrows
  <2> QED BY <2>2, <2>3
<1>3. F \in [Cases -> TaskRow]
  BY <1>2
<1>4. Closed(x, S, status) = [x EXCEPT !.task = F]
  BY DEF Closed
<1> HIDE DEF F
<1> QED BY <1>2, <1>3, <1>4, TaskTable

-----------------------------------------------------------------------------
(***************************************************************************)
(* The commits                                                             *)
(***************************************************************************)

LEMMA FreeId ==
    ASSUME FreeIds # {}
    PROVE  NextId \in Certificates /\ db.certificate[NextId].status = "NONE" /\ NextId # 0
<1>1. FreeIds \subseteq Nat \ {0} /\ FreeIds \subseteq Certificates
  BY EvidenceAssumption DEF EvidenceAssumption, FreeIds
<1>2. PICK c \in FreeIds : \A x \in FreeIds : c <= x
  BY <1>1, LeastNumber
<1>3. NextId \in FreeIds
  BY <1>2 DEF NextId
<1> QED BY <1>1, <1>3 DEF FreeIds

LEMMA ReplacedGrows ==
    ASSUME NEW x, NEW row \in CertificateRow, NEW by \in Certificates,
           row.status # "NONE", RowOk(x, row)
    PROVE  /\ Replaced(row, by) \in CertificateRow /\ RowOk(x, Replaced(row, by))
           /\ \A old : RowGrows(old, row) => RowGrows(old, Replaced(row, by))
<1>1. by # 0
  BY EvidenceAssumption DEF EvidenceAssumption
<1>2. /\ Replaced(row, by) \in CertificateRow
      /\ Replaced(row, by).status = "REPLACED" /\ Replaced(row, by).by = by
      /\ Replaced(row, by).employee = row.employee /\ Replaced(row, by).type = row.type
      /\ Replaced(row, by).month = row.month
  BY DEF Replaced, CertificateRow, CertificateStatus
<1> QED BY <1>1, <1>2 DEF RowOk, RowGrows

LEMMA RegisteredKeeps ==
    ASSUME Consistent(db), NEW c \in Certificates, NEW row \in CertificateRow,
           row.status # "NONE", RowOk(db, row), RowGrows(db.certificate[c], row)
    PROVE  Kept(db, Registered(c, row))
<1> DEFINE old   == IF row.status \in FollowUp THEN Current(row.employee, row.type) \ {c} ELSE {}
           newer == {o \in old : db.certificate[o].month > row.month}
<1>0. /\ db \in Data /\ db.certificate \in [Certificates -> CertificateRow]
      /\ \A o \in Certificates : RowOk(db, db.certificate[o])
  BY Parts DEF Data
<1>1. \A o \in old : o \in Certificates /\ db.certificate[o].status # "NONE"
  BY DEF Current, FollowUp, CoverageStatuses
<1>2. CASE newer # {}
  <2> DEFINE latest == CHOOSE o \in newer : \A p \in newer : db.certificate[p].month <= db.certificate[o].month
             w == [o \in newer |-> db.certificate[o].month]
             new == Replaced(row, latest)
  <2>1. latest \in newer
    <3>1. IsFiniteSet(newer)
      <4>1. newer \subseteq Certificates
        BY <1>1
      <4> QED BY <4>1, EvidenceAssumption, FS_Subset DEF EvidenceAssumption
    <3>2. \A o \in newer : w[o] \in Nat
      <4> SUFFICES ASSUME NEW o \in newer PROVE db.certificate[o].month \in Nat
        OBVIOUS
      <4>1. o \in Certificates /\ db.certificate[o].status # "NONE"
        BY <1>1
      <4> HIDE DEF newer
      <4>2. db.certificate[o].month \in Months
        BY <1>0, <4>1 DEF RowOk
      <4> QED BY <4>2, EvidenceAssumption DEF EvidenceAssumption
    <3> HIDE DEF w
    <3>3. \E o \in newer : \A p \in newer : w[p] <= w[o]
      BY <1>2, <3>1, <3>2, Furthest
    <3> HIDE DEF newer
    <3>4. \E o \in newer : \A p \in newer : db.certificate[p].month <= db.certificate[o].month
      BY <3>3 DEF w
    <3> QED BY <3>4
  <2>2. latest \in Certificates
    BY <1>1, <2>1
  <2> HIDE DEF latest
  <2>3. Kept(db, [db EXCEPT !.certificate[c] = new])
    BY <2>2, ReplacedGrows, CertificateRowChange
  <2> DEFINE y == [db EXCEPT !.certificate[c] = new]
  <2>4. Registered(c, row) = Closed(y, {c}, "RESOLVED")
    BY <1>2 DEF Registered, latest
  <2>5. Kept(y, Closed(y, {c}, "RESOLVED"))
    BY <2>3, ClosedKeeps DEF Kept
  <2> HIDE DEF y
  <2> QED BY <2>3, <2>4, <2>5, KeptTwice DEF y
<1>3. CASE newer = {}
  <2> DEFINE F == [o \in Certificates |-> IF o = c THEN row
                                          ELSE IF o \in old THEN Replaced(db.certificate[o], c)
                                          ELSE db.certificate[o]]
             y == [db EXCEPT !.certificate = F]
  <2>1. ASSUME NEW o \in Certificates
        PROVE  /\ F[o] \in CertificateRow /\ RowOk(db, F[o])
               /\ RowGrows(db.certificate[o], F[o])
    <3>1. db.certificate[o] \in CertificateRow /\ RowOk(db, db.certificate[o])
      BY <1>0
    <3>2. RowGrows(db.certificate[o], db.certificate[o])
      BY DEF RowGrows
    <3>3. CASE F[o] = row /\ o = c
      BY <3>3
    <3>4. CASE F[o] = db.certificate[o]
      BY <3>1, <3>2, <3>4
    <3>5. CASE F[o] = Replaced(db.certificate[o], c) /\ o \in old
      <4> DEFINE r == db.certificate[o]
      <4>1. r.status # "NONE"
        BY <1>1, <3>5
      <4> HIDE DEF r, F, old
      <4>2. /\ Replaced(r, c) \in CertificateRow /\ RowOk(db, Replaced(r, c))
            /\ RowGrows(r, Replaced(r, c))
        BY <3>1, <3>2, <4>1, ReplacedGrows DEF r
      <4> QED BY <3>5, <4>2 DEF r
    <3> QED BY <3>3, <3>4, <3>5
  <2>2. F \in [Certificates -> CertificateRow]
    BY <2>1
  <2>3. Registered(c, row) = Closed(y, old, "RESOLVED")
    BY <1>3 DEF Registered
  <2> HIDE DEF F, old
  <2>4. Kept(db, y)
    BY <2>1, <2>2, CertificateTable
  <2>5. Kept(y, Closed(y, old, "RESOLVED"))
    BY <2>4, ClosedKeeps DEF Kept
  <2> HIDE DEF y
  <2> QED BY <2>3, <2>4, <2>5, KeptTwice
<1> QED BY <1>2, <1>3

\* The requests and tasks, one by one.
LEMMA SaveEmployeeKeeps ==
    ASSUME Consistent(db), NEW e \in Employees, SaveEmployee(e)
    PROVE  Kept(db, db')
<1>1. PICK status \in {"ACTIVE", "LEFT"}, department \in Offices[e] :
         LET saved == [db EXCEPT !.employee[e] = [status |-> status, department |-> department]]
             own   == {c \in Certificates : db.certificate[c].employee = e} IN
         db' = IF status = "LEFT" /\ e \in OnRoll(db) THEN Closed(saved, own, "CLOSED") ELSE saved
  BY DEF SaveEmployee, Commit
<1> DEFINE row   == [status |-> status, department |-> department]
           F     == [db.employee EXCEPT ![e] = row]
           saved == [db EXCEPT !.employee = F]
           own   == {c \in Certificates : db.certificate[c].employee = e}
<1>2. db \in Data /\ db.employee \in [Employees -> EmployeeRow]
  BY DEF Consistent, Data
<1>3. row \in EmployeeRow
  BY EvidenceAssumption DEF EvidenceAssumption, EmployeeRow, EmploymentStatus
<1>4. F \in [Employees -> EmployeeRow]
  BY <1>2, <1>3
<1>5. [db EXCEPT !.employee[e] = [status |-> status, department |-> department]] = saved
  BY <1>2 DEF Data
<1> HIDE DEF F, own
<1>6. Kept(db, saved)
  BY <1>4, EmployeeTable
<1>7. Kept(saved, Closed(saved, own, "CLOSED"))
  BY <1>6, ClosedKeeps DEF Kept
<1>8. db' = saved \/ db' = Closed(saved, own, "CLOSED")
  BY <1>1, <1>5 DEF own
<1> HIDE DEF saved
<1> QED BY <1>6, <1>7, <1>8, KeptTwice

LEMMA NewTypeKeeps ==
    ASSUME Consistent(db), NEW t \in Types, NewType(t)
    PROVE  Kept(db, db')
<1>1. db' = [db EXCEPT !.types = @ \cup {t}]
  BY DEF NewType, Commit
<1> QED BY <1>1, TypeTable

LEMMA DocumentKeeps ==
    ASSUME Consistent(db), NEW d \in Documents, Upload(d) \/ StartParsing(d) \/ RecognizeFails(d)
    PROVE  Kept(db, db')
<1>1. PICK s \in {"UPLOADED", "PARSING", "FAILED"} : db' = [db EXCEPT !.document[d] = s]
  BY DEF Upload, StartParsing, RecognizeFails, Commit
<1>2. s \in DocumentStatus
  BY DEF DocumentStatus
<1> QED BY <1>1, <1>2, DocumentTable

LEMMA RecognizeKeeps ==
    ASSUME Consistent(db), NEW d \in Documents, Recognize(d)
    PROVE  Kept(db, db')
<1> DEFINE next == CHOOSE n \in Unused(d) : \A m \in Unused(d) : n <= m
<1>1. PICK found \in SUBSET ReviewsOf(db, d) :
         db' = [db EXCEPT !.document[d] = "PENDING_REVIEW", !.extracted = @ \cup {d},
                          !.review = [r \in Reviews |->
                              IF r \in found THEN [db.review[r] EXCEPT !.status = "REJECTED"]
                              ELSE IF r = <<d, next>> THEN [status |-> "PENDING", certificate |-> 0]
                              ELSE db.review[r]]]
  BY DEF Recognize, Commit
<1>2. next \in Unused(d)
  <2>1. Unused(d) \subseteq Nat /\ Unused(d) # {}
    BY EvidenceAssumption DEF EvidenceAssumption, Unused, Recognize
  <2>2. \E n \in Unused(d) : \A m \in Unused(d) : n <= m
    BY <2>1, LeastNumber
  <2> QED BY <2>2
<1>3. db.review[<<d, next>>].status = "NONE"
  BY <1>2 DEF Unused
<1> HIDE DEF next
<1> DEFINE F == [r \in Reviews |->
                    IF r \in found THEN [db.review[r] EXCEPT !.status = "REJECTED"]
                    ELSE IF r = <<d, next>> THEN [status |-> "PENDING", certificate |-> 0]
                    ELSE db.review[r]]
           x == [db EXCEPT !.document[d] = "PENDING_REVIEW"]
           y == [x EXCEPT !.extracted = @ \cup {d}]
           z == [y EXCEPT !.review = F]
<1>4. /\ db \in Data /\ db.review \in [Reviews -> ReviewRow] /\ ReviewsOk(db)
      /\ db.extracted \subseteq Documents
  BY Parts DEF Data
<1>5. y.review = db.review /\ y.extracted = db.extracted \cup {d}
  BY <1>4 DEF Data
<1>6. ASSUME NEW r \in Reviews
      PROVE  /\ F[r] \in ReviewRow
             /\ F[r].status # "NONE" => r[1] \in db.extracted \cup {d}
             /\ F[r].status = "APPROVED" => F[r].certificate # 0
             /\ ReviewGrows(db.review[r], F[r])
  <2>1. /\ db.review[r] \in ReviewRow
        /\ db.review[r].status # "NONE" => r[1] \in db.extracted
        /\ db.review[r].status = "APPROVED" => db.review[r].certificate # 0
    BY <1>4 DEF ReviewsOk
  <2>2. CASE r \in found
    <3>1. db.review[r].status # "NONE"
      BY <2>2 DEF ReviewsOf
    <3>2. F[r] = [db.review[r] EXCEPT !.status = "REJECTED"]
      BY <2>2
    <3> HIDE DEF F
    <3> QED BY <2>1, <3>1, <3>2 DEF ReviewRow, ReviewStatus, ReviewGrows, ClosedReviews
  <2>3. CASE r \notin found /\ r = <<d, next>>
    <3>1. F[r] = [status |-> "PENDING", certificate |-> 0] /\ r[1] = d
      BY <2>3
    <3>2. db.review[r].status = "NONE"
      BY <1>3, <2>3
    <3> HIDE DEF F
    <3> QED BY <2>1, <3>1, <3>2 DEF ReviewRow, ReviewStatus, ReviewGrows, ClosedReviews
  <2>4. CASE r \notin found /\ r # <<d, next>>
    <3>1. F[r] = db.review[r]
      BY <2>4
    <3> HIDE DEF F
    <3> QED BY <2>1, <3>1 DEF ReviewGrows
  <2> QED BY <2>2, <2>3, <2>4
<1>7. F \in [Reviews -> ReviewRow]
  BY <1>6
<1>8. db' = z
  BY <1>1, <1>4 DEF Data
<1>9. Kept(db, x)
  BY DocumentTable DEF DocumentStatus
<1>10. Kept(x, y)
  BY <1>9, ExtractionTable DEF Kept
<1> HIDE DEF F, x
<1>11. Kept(y, z)
  <2>1. Consistent(y)
    BY <1>10 DEF Kept
  <2> HIDE DEF y
  <2> QED BY <1>5, <1>6, <1>7, <2>1, ReviewTable
<1> HIDE DEF y, z
<1> QED BY <1>8, <1>9, <1>10, <1>11, KeptTwice

\* A review is decided: its row and the document's status change.
LEMMA DecisionKeeps ==
    ASSUME NEW x, Consistent(x), NEW r \in Reviews, NEW row \in ReviewRow, NEW s \in DocumentStatus,
           x.review[r].status # "NONE", row.status = "APPROVED" => row.certificate # 0,
           ReviewGrows(x.review[r], row)
    PROVE  Kept(x, [x EXCEPT !.review[r] = row, !.document[r[1]] = s])
<1> DEFINE y == [x EXCEPT !.review[r] = row]
           z == [y EXCEPT !.document[r[1]] = s]
<1>1. r[1] \in Documents /\ x \in Data
  BY DEF Reviews, Consistent
<1>2. [x EXCEPT !.review[r] = row, !.document[r[1]] = s] = z
  BY <1>1 DEF Data
<1>3. Kept(x, y)
  BY ReviewRowChange
<1> HIDE DEF y
<1>4. Kept(y, z)
  BY <1>1, <1>3, DocumentTable DEF Kept
<1> HIDE DEF z
<1> QED BY <1>2, <1>3, <1>4, KeptTwice

LEMMA RejectKeeps ==
    ASSUME Consistent(db), NEW r \in Reviews, Reject(r)
    PROVE  Kept(db, db')
<1>1. PICK status \in {"REJECTED", "NEEDS_INFO"}, s \in {"FAILED", "PENDING_REVIEW"} :
         db' = [db EXCEPT !.review[r].status = status, !.document[r[1]] = s]
  BY DEF Reject, Commit
<1> DEFINE row == [db.review[r] EXCEPT !.status = status]
<1>2. db \in Data /\ db.review[r] \in ReviewRow /\ db.review[r].status \in PendingReviews
  BY DEF Reject, Consistent, Data
<1>3. db' = [db EXCEPT !.review[r] = row, !.document[r[1]] = s]
  BY <1>1, <1>2 DEF Data
<1>4. row \in ReviewRow /\ row.status # "APPROVED" /\ s \in DocumentStatus
  BY <1>2 DEF ReviewRow, ReviewStatus, DocumentStatus
<1>5. db.review[r].status # "NONE" /\ ReviewGrows(db.review[r], row)
  BY <1>2 DEF PendingReviews, ReviewGrows, ClosedReviews
<1> HIDE DEF row
<1> QED BY <1>3, <1>4, <1>5, DecisionKeeps

\* What a form or a candidate says makes a row.
LEMMA RowOfFact ==
    ASSUME Consistent(db), NEW fact \in Facts, NEW d \in Documents \cup {0}, Valid(fact),
           NEW status \in Derived[fact.month] \cup {"ARCHIVED"}
    PROVE  /\ NewRow(fact, status, d) \in CertificateRow
           /\ NewRow(fact, status, d).status = status /\ status \notin {"NONE", "REPLACED"}
           /\ RowOk(db, NewRow(fact, status, d))
<1>1. fact.employee \in Employees /\ fact.type \in db.types /\ fact.type \in Types /\ fact.month \in Months
  BY EvidenceAssumption DEF EvidenceAssumption, Fact, Valid
<1>2. status \in {"ACTIVE", "EXPIRING", "EXPIRED", "ARCHIVED"}
  BY <1>1, EvidenceAssumption DEF EvidenceAssumption
<1>3. NewRow(fact, status, d) \in CertificateRow
  BY <1>1, <1>2 DEF NewRow, CertificateRow, CertificateStatus
<1> QED BY <1>1, <1>2, <1>3 DEF NewRow, RowOk

LEMMA RegisterKeeps ==
    ASSUME Consistent(db), Register
    PROVE  Kept(db, db')
<1>1. PICK fact \in Facts, d \in Sources : \E status \in Derived[fact.month] :
         Valid(fact) /\ db' = Registered(NextId, NewRow(fact, status, d))
  BY DEF Register, Commit
<1>2. PICK status \in Derived[fact.month] :
         Valid(fact) /\ db' = Registered(NextId, NewRow(fact, status, d))
  BY <1>1
<1> DEFINE row == NewRow(fact, status, d)
<1>3. row \in CertificateRow /\ row.status # "NONE" /\ RowOk(db, row)
  BY <1>2, RowOfFact DEF Sources
<1>4. NextId \in Certificates /\ db.certificate[NextId].status = "NONE"
  BY FreeId DEF Register
<1>5. db.certificate[NextId].by = 0
  <2>1. RowOk(db, db.certificate[NextId])
    BY <1>4, Parts
  <2> QED BY <1>4, <2>1 DEF RowOk
<1>6. RowGrows(db.certificate[NextId], row)
  BY <1>3, <1>4, <1>5 DEF RowGrows
<1> HIDE DEF row
<1> QED BY <1>2, <1>3, <1>4, <1>6, RegisteredKeeps DEF row


LEMMA RegisteredReviews ==
    ASSUME NEW c, NEW row, db \in Data
    PROVE  Registered(c, row).review = db.review
BY DEF Registered, Closed, Data

LEMMA ApproveKeeps ==
    ASSUME Consistent(db), NEW r \in Reviews, Approve(r)
    PROVE  Kept(db, db')
<1>1. PICK fact \in Facts : \E status \in Derived[fact.month] :
         /\ Valid(fact)
         /\ db' = [Registered(NextId, NewRow(fact, status, r[1]))
                   EXCEPT !.review[r] = [status |-> "APPROVED", certificate |-> NextId],
                          !.document[r[1]] = "CONFIRMED"]
  BY DEF Approve, Commit
<1>2. PICK status \in Derived[fact.month] :
         /\ Valid(fact)
         /\ db' = [Registered(NextId, NewRow(fact, status, r[1]))
                   EXCEPT !.review[r] = [status |-> "APPROVED", certificate |-> NextId],
                          !.document[r[1]] = "CONFIRMED"]
  BY <1>1
<1> DEFINE row    == NewRow(fact, status, r[1])
           x      == Registered(NextId, row)
           review == [status |-> "APPROVED", certificate |-> NextId]
<1>3. row \in CertificateRow /\ row.status # "NONE" /\ RowOk(db, row)
  BY <1>2, RowOfFact DEF Reviews
<1>4. NextId \in Certificates /\ db.certificate[NextId].status = "NONE" /\ NextId # 0
  BY FreeId DEF Approve
<1>5. RowGrows(db.certificate[NextId], row)
  <2>1. RowOk(db, db.certificate[NextId])
    BY <1>4, Parts
  <2> QED BY <1>3, <1>4, <2>1 DEF RowGrows, RowOk
<1> HIDE DEF row
<1>6. Kept(db, x)
  BY <1>3, <1>4, <1>5, RegisteredKeeps
<1>7. x.review = db.review
  BY RegisteredReviews DEF Consistent
<1>8. review \in ReviewRow /\ review.status = "APPROVED" /\ review.certificate # 0
  BY <1>4 DEF ReviewRow, ReviewStatus
<1>9. db.review[r].status \in PendingReviews
  BY DEF Approve
<1>10. db.review[r].status # "NONE" /\ ReviewGrows(db.review[r], review)
  BY <1>9 DEF PendingReviews, ReviewGrows, ClosedReviews
<1>11. db' = [x EXCEPT !.review[r] = review, !.document[r[1]] = "CONFIRMED"]
  BY <1>2 DEF row
<1> HIDE DEF x, review
<1>12. Kept(x, db')
  <2>1. "CONFIRMED" \in DocumentStatus /\ Consistent(x)
    BY <1>6 DEF DocumentStatus, Kept
  <2>2. x.review[r].status # "NONE" /\ ReviewGrows(x.review[r], review)
    BY <1>7, <1>10
  <2> QED BY <1>8, <1>11, <2>1, <2>2, DecisionKeeps
<1> QED BY <1>6, <1>12, KeptTwice

LEMMA EditKeeps ==
    ASSUME Consistent(db), NEW c \in Certificates, Edit(c)
    PROVE  Kept(db, db')
<1> DEFINE old == db.certificate[c]
           Edited(fact, status, d) == [NewRow(fact, status, d) EXCEPT !.by = old.by]
<1>1. PICK fact \in Facts, d \in Sources : \E status \in Derived[fact.month] \cup {"ARCHIVED", "REPLACED"} :
         LET new == Registered(c, Edited(fact, status, d)) IN
         /\ Valid(fact)
         /\ status = "REPLACED" => old.status = "REPLACED"
         /\ db' = new \/ db' = Closed(new, {c}, "CLOSED")
  BY DEF Edit, Commit
<1>2. PICK status \in Derived[fact.month] \cup {"ARCHIVED", "REPLACED"} :
         LET new == Registered(c, Edited(fact, status, d)) IN
         /\ Valid(fact)
         /\ status = "REPLACED" => old.status = "REPLACED"
         /\ db' = new \/ db' = Closed(new, {c}, "CLOSED")
  BY <1>1
<1> DEFINE plain == NewRow(fact, "ARCHIVED", d)
           row   == Edited(fact, status, d)
           new   == Registered(c, row)
<1>3. old \in CertificateRow /\ RowOk(db, old) /\ old.status # "NONE"
  <2>1. db \in Data /\ RowOk(db, db.certificate[c])
    BY Parts
  <2> QED BY <2>1 DEF Data, Edit
<1>4. plain \in CertificateRow /\ RowOk(db, plain) /\ plain.status = "ARCHIVED"
  BY <1>2, RowOfFact DEF Sources
<1>5. status \in {"ACTIVE", "EXPIRING", "EXPIRED", "ARCHIVED", "REPLACED"}
  <2>1. fact.month \in Months
    BY EvidenceAssumption DEF EvidenceAssumption, Fact
  <2> QED BY <2>1, EvidenceAssumption DEF EvidenceAssumption
<1>6. /\ plain = [status |-> "ARCHIVED", employee |-> fact.employee, type |-> fact.type,
                   doc |-> d, by |-> 0, month |-> fact.month]
      /\ row = [status |-> status, employee |-> fact.employee, type |-> fact.type,
                 doc |-> d, by |-> old.by, month |-> fact.month]
  BY DEF NewRow
<1> HIDE DEF plain, row, old
<1>7. /\ row \in CertificateRow /\ row.status = status /\ row.by = old.by
      /\ row.employee = plain.employee /\ row.type = plain.type /\ row.month = plain.month
  <2>1. /\ fact.employee \in Employees \cup {0} /\ fact.type \in Types \cup {0} /\ d \in Documents \cup {0}
        /\ fact.month \in Months \cup {0} /\ old.by \in Certificates \cup {0}
    BY <1>3, <1>4, <1>6 DEF CertificateRow
  <2>2. status \in CertificateStatus
    BY <1>5 DEF CertificateStatus
  <2>3. row \in CertificateRow
    BY <1>6, <2>1, <2>2 DEF CertificateRow
  <2> QED BY <1>6, <2>3
<1>8. row.status # "NONE" /\ RowOk(db, row) /\ RowGrows(old, row)
  BY <1>2, <1>3, <1>4, <1>5, <1>7 DEF RowOk, RowGrows
<1>9. Kept(db, new)
  BY <1>7, <1>8, RegisteredKeeps DEF old
<1>10. db' = new \/ db' = Closed(new, {c}, "CLOSED")
  BY <1>2 DEF row
<1> HIDE DEF new
<1>11. Kept(new, Closed(new, {c}, "CLOSED"))
  BY <1>9, ClosedKeeps DEF Kept
<1> QED BY <1>9, <1>10, <1>11, KeptTwice

LEMMA ExpireKeeps ==
    ASSUME Consistent(db), NEW c \in Certificates, Expire(c)
    PROVE  Kept(db, db')
<1>1. PICK status \in {"EXPIRING", "EXPIRED"} : db' = [db EXCEPT !.certificate[c].status = status]
  BY DEF Expire, Commit
<1> DEFINE row == [db.certificate[c] EXCEPT !.status = status]
<1>2. /\ db \in Data /\ db.certificate[c] \in CertificateRow /\ RowOk(db, db.certificate[c])
      /\ db.certificate[c].status \in CoverageStatuses
  <2>1. db \in Data /\ RowOk(db, db.certificate[c])
    BY Parts
  <2> QED BY <2>1 DEF Data, Expire
<1>3. db' = [db EXCEPT !.certificate[c] = row]
  BY <1>1, <1>2 DEF Data
<1>4. row \in CertificateRow /\ RowOk(db, row) /\ RowGrows(db.certificate[c], row)
  BY <1>2 DEF CertificateRow, CertificateStatus, CoverageStatuses, RowOk, RowGrows
<1> HIDE DEF row
<1> QED BY <1>3, <1>4, CertificateRowChange

LEMMA TaskKeeps ==
    ASSUME Consistent(db), NEW k \in Cases, OpenTask(k) \/ Remind(k) \/ Feedback(k)
    PROVE  Kept(db, db')
<1>1. /\ db \in Data /\ db.task[k] \in TaskRow /\ TaskOk(db.task[k])
  <2>1. db \in Data /\ TaskOk(db.task[k])
    BY Parts
  <2> QED BY <2>1 DEF Data
<1>2. CASE OpenTask(k)
  <2> DEFINE row == [db.task[k] EXCEPT !.status = "PENDING"]
  <2>1. db' = [db EXCEPT !.task[k] = row]
    BY <1>1, <1>2 DEF OpenTask, Commit, Data
  <2>2. row \in TaskRow /\ TaskOk(row) /\ TaskGrows(db.task[k], row)
    BY <1>1 DEF TaskRow, TaskStatus, TaskOk, TaskGrows
  <2> HIDE DEF row
  <2> QED BY <2>1, <2>2, TaskRowChange
<1>3. CASE Remind(k)
  <2>1. PICK seen \in DOMAIN NextStage, sent \in BOOLEAN :
           db' = [db EXCEPT !.task[k].events = TRUE,
                            !.task[k].status = IF sent THEN NextStage[seen] ELSE @]
    BY <1>3 DEF Remind, Commit
  <2> DEFINE status == IF sent THEN NextStage[seen] ELSE db.task[k].status
             row    == [db.task[k] EXCEPT !.events = TRUE, !.status = status]
  <2>2. db' = [db EXCEPT !.task[k] = row]
    BY <1>1, <2>1 DEF Data
  <2>3. status \in TaskStatus
    <3>1. NextStage[seen] \in {"WAITING_FEEDBACK", "SECOND_SENT", "ESCALATED"}
      BY DEF NextStage
    <3>2. db.task[k].status \in TaskStatus
      BY <1>1 DEF TaskRow
    <3> QED BY <3>1, <3>2 DEF TaskStatus
  <2> HIDE DEF status
  <2>4. row \in TaskRow /\ TaskOk(row) /\ TaskGrows(db.task[k], row)
    BY <1>1, <2>3 DEF TaskRow, TaskOk, TaskGrows
  <2> HIDE DEF row
  <2> QED BY <2>2, <2>4, TaskRowChange
<1>4. CASE Feedback(k)
  <2>1. PICK status \in {"WAITING_FEEDBACK", "RESOLVED", "CLOSED", "ESCALATED"} :
           db' = [db EXCEPT !.task[k] = [status |-> status, events |-> TRUE, feedback |-> TRUE]]
    BY <1>4 DEF Feedback, Commit
  <2> DEFINE row == [status |-> status, events |-> TRUE, feedback |-> TRUE]
  <2>2. row \in TaskRow /\ TaskOk(row) /\ TaskGrows(db.task[k], row)
    BY DEF TaskRow, TaskStatus, TaskOk, TaskGrows
  <2> HIDE DEF row
  <2>3. db' = [db EXCEPT !.task[k] = row]
    BY <2>1 DEF row
  <2> QED BY <2>2, <2>3, TaskRowChange
<1> QED BY <1>2, <1>3, <1>4

LEMMA CloseStaleKeeps ==
    ASSUME Consistent(db), NEW k \in Cases, CloseStale(k)
    PROVE  Kept(db, db')
<1>1. PICK status \in {"RESOLVED", "CLOSED"} : db' = Closed(db, {k[1]}, status)
  BY DEF CloseStale, Commit
<1> QED BY <1>1, ClosedKeeps

LEMMA WorldKeeps ==
    ASSUME Consistent(db), World
    PROVE  Kept(db, db')
<1>1. CASE \E e \in Employees : SaveEmployee(e)
  BY <1>1, SaveEmployeeKeeps
<1>2. CASE \E t \in Types : NewType(t)
  BY <1>2, NewTypeKeeps
<1>3. CASE \E d \in Documents : Upload(d) \/ StartParsing(d) \/ Recognize(d) \/ RecognizeFails(d)
  BY <1>3, DocumentKeeps, RecognizeKeeps
<1>4. CASE \E r \in Reviews : Reject(r) \/ Approve(r)
  BY <1>4, RejectKeeps, ApproveKeeps
<1>5. CASE \E c \in Certificates : Edit(c) \/ Expire(c)
  BY <1>5, EditKeeps, ExpireKeeps
<1>6. CASE \E k \in Cases : OpenTask(k) \/ Remind(k) \/ CloseStale(k) \/ Feedback(k)
  BY <1>6, TaskKeeps, CloseStaleKeeps
<1>7. CASE Register
  BY <1>7, RegisterKeeps
<1> QED BY <1>1, <1>2, <1>3, <1>4, <1>5, <1>6, <1>7 DEF World


\* The script only reads.
LEMMA ScriptReads ==
    ASSUME Script
    PROVE  db' = db
BY DEF Script, Start, Summary, Report, ReportTypes, ReportRest, TraceRisk, Exports, FindPerson,
       FindKind, FindCertificate, FindAny, OpenTrace, OpenTraceRest, Replacement, DocumentCheck,
       ReviewCheck, TimelineCheck, RequestFails, At

LEMMA NextKeeps ==
    ASSUME Consistent(db), [Next]_vars
    PROVE  Consistent(db')
<1>1. CASE World
  BY <1>1, WorldKeeps DEF Kept
<1>2. CASE db' = db
  BY <1>2
<1> QED BY <1>1, <1>2, ScriptReads DEF Next, vars

LEMMA AlwaysConsistent == Spec => []Consistent(db)
<1>1. Init => Consistent(db)
  BY EvidenceAssumption DEF Init, EvidenceAssumption
<1>2. Consistent(db) /\ [Next]_vars => Consistent(db)'
  <2> SUFFICES ASSUME Consistent(db), [Next]_vars PROVE Consistent(db)'
    OBVIOUS
  <2>1. PICK new : new = db'
    OBVIOUS
  <2>2. Consistent(new)
    BY <2>1, NextKeeps
  <2> QED BY <2>1, <2>2 DEF Consistent, Data
<1> QED BY <1>1, <1>2, PTL DEF Spec

\* Whatever HR, the worker and the scans commit, in any order and although some of it is
\* checked before another commit, a replaced record names its successor, a review has its
\* extraction and an approved one its certificate, a record has an employee and a type,
\* and a case that was moved on or answered has events (services/certificates.py,
\* services/review_service.py, services/recognition_service.py, routes/reminders.py).
THEOREM ConsoleTyped == Spec => []ConsoleTypeOK
<1>1. Consistent(db) => ConsoleTypeOK
  BY DEF ConsoleTypeOK
<1> QED BY <1>1, AlwaysConsistent, PTL

-----------------------------------------------------------------------------
(***************************************************************************)
(* The numbers and their pages                                             *)
(***************************************************************************)

Agrees(row) == row.count = Cardinality(Opens(db, row.path))

\* What the rows of the dashboard and of the report open.
LEMMA CertificatePages ==
    ASSUME NEW f, NEW S, f.page = "certificates", f.on_roll = TRUE, f.type = {}, f.month = {},
           GroupStatuses(f) = S, "NONE" \notin S
    PROVE  Cardinality(Opens(db, f)) = CountCertificates(db, S)
<1>1. Opens(db, f) = {c \in Certificates : /\ db.certificate[c].status \in S
                                           /\ db.certificate[c].employee \in OnRoll(db)}
  BY DEF Opens, CertificateStatement
<1> QED BY <1>1 DEF CountCertificates

LEMMA StatusRowsAgree == \A row \in StatusRows(db) : Agrees(row)
<1> SUFFICES ASSUME NEW s \in CertificateStatus \ {"NONE"}
             PROVE  Agrees(Row(CountCertificates(db, {s}), Certs(s)))
  BY DEF StatusRows
<1>1. /\ Certs(s).page = "certificates" /\ Certs(s).on_roll = TRUE /\ Certs(s).type = {}
      /\ Certs(s).month = {} /\ GroupStatuses(Certs(s)) = {s}
  BY DEF Certs, Everything, GroupStatuses
<1>2. Cardinality(Opens(db, Certs(s))) = CountCertificates(db, {s})
  BY <1>1, CertificatePages
<1> QED BY <1>2 DEF Agrees, Row

LEMMA DocumentRowsAgree ==
    ASSUME NEW s \in DocumentStatus \ {"NONE"}
    PROVE  Agrees(Row(CountDocuments(db, s), Docs(s)))
<1>1. Docs(s).page = "documents" /\ Docs(s).status = {s}
  BY DEF Docs, Everything
<1>2. Opens(db, Docs(s)) = {d \in Documents : db.document[d] = s}
  BY <1>1 DEF Opens, DocumentStatement
<1> QED BY <1>2 DEF Agrees, Row, CountDocuments

LEMMA ReviewRowsAgree == Agrees(Row(CountReviews(db, PendingReviews), Everything("reviews")))
<1>1. Everything("reviews").page = "reviews" /\ Everything("reviews").status = {}
  BY DEF Everything
<1>2. Opens(db, Everything("reviews")) = {r \in Reviews : db.review[r].status \in PendingReviews}
  BY <1>1 DEF Opens, ReviewStatement
<1> QED BY <1>2 DEF Agrees, Row, CountReviews

LEMMA ReminderRowsAgree ==
    /\ Agrees(Row(CountReminders(db, SecondReminders), Reminders("attention")))
    /\ Agrees(Row(CountReminders(db, OpenTasks), Reminders("open")))
<1>1. /\ Reminders("attention").page = "reminders" /\ Reminders("open").page = "reminders"
      /\ TaskStatuses(Reminders("attention")) = SecondReminders
      /\ TaskStatuses(Reminders("open")) = OpenTasks
  BY DEF Reminders, Everything, TaskStatuses
<1>2. /\ Opens(db, Reminders("attention")) = {k \in Cases : db.task[k].status \in SecondReminders}
      /\ Opens(db, Reminders("open")) = {k \in Cases : db.task[k].status \in OpenTasks}
  BY <1>1 DEF Opens, ReminderStatement, SecondReminders, OpenTasks
<1> QED BY <1>2 DEF Agrees, Row, CountReminders

LEMMA WorkloadRowsAgree == \A row \in WorkloadRows(db) : Agrees(row)
<1>1. \A s \in {"EXPIRING", "EXPIRED"} : Agrees(Row(CountCertificates(db, {s}), Certs(s)))
  BY StatusRowsAgree DEF StatusRows, CertificateStatus
<1>2. Agrees(Row(CountDocuments(db, "FAILED"), Docs("FAILED")))
  BY DocumentRowsAgree DEF DocumentStatus
<1> HIDE DEF Agrees
<1> QED BY <1>1, <1>2, ReviewRowsAgree, ReminderRowsAgree DEF WorkloadRows

LEMMA PipelineStepsAgree == \A row \in PipelineSteps(db) : Agrees(row)
<1>1. \A s \in {"UPLOADED", "PARSING"} : Agrees(Row(CountDocuments(db, s), Docs(s)))
  BY DocumentRowsAgree DEF DocumentStatus
<1>2. Agrees(Row(CountCertificates(db, CoverageStatuses), CertsOf("current")))
  <2>1. /\ CertsOf("current").page = "certificates" /\ CertsOf("current").on_roll = TRUE
        /\ CertsOf("current").type = {} /\ CertsOf("current").month = {}
        /\ GroupStatuses(CertsOf("current")) = CoverageStatuses
    BY DEF CertsOf, Everything, GroupStatuses
  <2>2. "NONE" \notin CoverageStatuses
    BY DEF CoverageStatuses
  <2>3. Cardinality(Opens(db, CertsOf("current"))) = CountCertificates(db, CoverageStatuses)
    BY <2>1, <2>2, CertificatePages
  <2> QED BY <2>3 DEF Agrees, Row
<1> HIDE DEF Agrees
<1> QED BY <1>1, <1>2, ReviewRowsAgree, ReminderRowsAgree DEF PipelineSteps

\* The parts of the report.
Issued(emp, cert)       == {c \in Certificates : cert[c].status # "NONE" /\ cert[c].employee \in ActiveEmployees(emp)}
OfType(emp, cert, t, S) == {c \in Issued(emp, cert) : cert[c].type = t /\ cert[c].status \in S}
Due(emp, cert, m)       == {c \in Issued(emp, cert) : cert[c].month = m /\ cert[c].status \in RiskStatuses}
Members(emp, d)         == {e \in ActiveEmployees(emp) : Label(emp, e) = d}
Named(emp)              == {Label(emp, e) : e \in ActiveEmployees(emp)}

LEMMA ReportParts ==
    ASSUME NEW emp, NEW types, NEW cert
    PROVE  LET report == CoverageReport(emp, types, cert) IN
           /\ report.employees = Cardinality(ActiveEmployees(emp))
           /\ report.covered = Cardinality(CoveredEmployees(emp, cert))
           /\ DOMAIN report.departments = Named(emp)
           /\ \A d \in Named(emp) :
                 /\ report.departments[d].employees = Cardinality(Members(emp, d))
                 /\ report.departments[d].covered = Cardinality(Members(emp, d) \cap CoveredEmployees(emp, cert))
           /\ \A t \in types :
                 /\ report.types[t].active = Cardinality(OfType(emp, cert, t, CoverageStatuses))
                 /\ report.types[t].expiring = Cardinality(OfType(emp, cert, t, {"EXPIRING"}))
                 /\ report.types[t].expired = Cardinality(OfType(emp, cert, t, {"EXPIRED"}))
           /\ report.months = [m \in Months |-> Cardinality(Due(emp, cert, m))]
           /\ \A m \in Months : report.months[m] = Cardinality(Due(emp, cert, m))
BY DEF CoverageReport, Issued, OfType, Due, Members, Named

LEMMA DepartmentPart ==
    ASSUME NEW emp, NEW types, NEW cert, NEW d \in DOMAIN CoverageReport(emp, types, cert).departments
    PROVE  /\ d \in Named(emp)
           /\ CoverageReport(emp, types, cert).departments[d].employees = Cardinality(Members(emp, d))
BY DEF CoverageReport, Members, Named

LEMMA TypePart ==
    ASSUME NEW emp, NEW types, NEW cert, NEW t \in types
    PROVE  LET row == CoverageReport(emp, types, cert).types[t] IN
           /\ row.active = Cardinality(OfType(emp, cert, t, CoverageStatuses))
           /\ row.expiring = Cardinality(OfType(emp, cert, t, {"EXPIRING"}))
           /\ row.expired = Cardinality(OfType(emp, cert, t, {"EXPIRED"}))
BY DEF CoverageReport, Issued, OfType

LEMMA MonthPart ==
    ASSUME NEW emp, NEW types, NEW cert, NEW m \in Months
    PROVE  CoverageReport(emp, types, cert).months[m] = Cardinality(Due(emp, cert, m))
BY DEF CoverageReport, Issued, Due

LEMMA Partitions ==
    ASSUME NEW emp, NEW cert, NEW t
    PROVE  /\ IsFiniteSet(Issued(emp, cert)) /\ IsFiniteSet(ActiveEmployees(emp))
           /\ Cardinality(OfType(emp, cert, t, {"EXPIRING"})) + Cardinality(OfType(emp, cert, t, {"EXPIRED"}))
                 = Cardinality(OfType(emp, cert, t, RiskStatuses))
<1> DEFINE A == OfType(emp, cert, t, {"EXPIRING"})
           B == OfType(emp, cert, t, {"EXPIRED"})
<1>1. /\ Issued(emp, cert) \subseteq Certificates /\ ActiveEmployees(emp) \subseteq Employees
      /\ A \subseteq Issued(emp, cert) /\ B \subseteq Issued(emp, cert)
  BY DEF Issued, ActiveEmployees, OfType
<1>2. IsFiniteSet(Issued(emp, cert)) /\ IsFiniteSet(ActiveEmployees(emp))
  BY <1>1, EvidenceAssumption, FS_Subset DEF EvidenceAssumption
<1>3. A \cap B = {} /\ OfType(emp, cert, t, RiskStatuses) = A \cup B
  BY DEF OfType, RiskStatuses
<1> HIDE DEF A, B
<1>4. IsFiniteSet(A) /\ IsFiniteSet(B) /\ Cardinality(A) \in Nat /\ Cardinality(B) \in Nat
  BY <1>1, <1>2, FS_Subset, FS_CardinalityType
<1>5. Cardinality(A \cup B) = Cardinality(A) + Cardinality(B) - Cardinality(A \cap B)
  BY <1>4, FS_Union
<1>6. Cardinality(A \cap B) = 0
  BY <1>3, FS_EmptySet
<1>7. Cardinality(A) + Cardinality(B) = Cardinality(OfType(emp, cert, t, RiskStatuses))
  BY <1>3, <1>4, <1>5, <1>6
<1> QED BY <1>2, <1>7 DEF A, B

LEMMA TypedPages ==
    ASSUME NEW f, NEW S, NEW t, f.page = "certificates", f.on_roll = TRUE, f.type = {t}, f.month = {},
           GroupStatuses(f) = S, "NONE" \notin S
    PROVE  Opens(db, f) = OfType(db.employee, db.certificate, t, S)
BY DEF Opens, CertificateStatement, OfType, Issued, ActiveEmployees, OnRoll

LEMMA TypeRowsAgree == \A row \in TypeRows(db) : Agrees(row)
<1> DEFINE report == CoverageReport(db.employee, db.types, db.certificate)
           Typed(t, f) == [f EXCEPT !.type = {t}]
           Rows(t) == {Row(report.types[t].active, Typed(t, CertsOf("current"))),
                       Row(report.types[t].expiring, Typed(t, Certs("EXPIRING"))),
                       Row(report.types[t].expired, Typed(t, Certs("EXPIRED"))),
                       Row(report.types[t].expiring + report.types[t].expired, Typed(t, CertsOf("risk")))}
<1>1. TypeRows(db) = UNION {Rows(t) : t \in db.types}
  BY DEF TypeRows, ReportNow
<1> HIDE DEF report
<1>2. ASSUME NEW t \in db.types PROVE \A row \in Rows(t) : Agrees(row)
  <2>1. /\ report.types[t].active = Cardinality(OfType(db.employee, db.certificate, t, CoverageStatuses))
        /\ report.types[t].expiring = Cardinality(OfType(db.employee, db.certificate, t, {"EXPIRING"}))
        /\ report.types[t].expired = Cardinality(OfType(db.employee, db.certificate, t, {"EXPIRED"}))
    BY TypePart DEF report
  <2>2. report.types[t].expiring + report.types[t].expired
           = Cardinality(OfType(db.employee, db.certificate, t, RiskStatuses))
    BY <2>1, Partitions
  <2>3. Opens(db, Typed(t, CertsOf("current"))) = OfType(db.employee, db.certificate, t, CoverageStatuses)
    <3> DEFINE f == Typed(t, CertsOf("current"))
    <3>1. /\ f.page = "certificates" /\ f.on_roll = TRUE /\ f.type = {t} /\ f.month = {}
          /\ GroupStatuses(f) = CoverageStatuses /\ "NONE" \notin CoverageStatuses
      BY DEF CertsOf, Everything, GroupStatuses, CoverageStatuses
    <3> HIDE DEF f
    <3> QED BY <3>1, TypedPages DEF f
  <2>4. Opens(db, Typed(t, CertsOf("risk"))) = OfType(db.employee, db.certificate, t, RiskStatuses)
    <3> DEFINE f == Typed(t, CertsOf("risk"))
    <3>1. /\ f.page = "certificates" /\ f.on_roll = TRUE /\ f.type = {t} /\ f.month = {}
          /\ GroupStatuses(f) = RiskStatuses /\ "NONE" \notin RiskStatuses
      BY DEF CertsOf, Everything, GroupStatuses, RiskStatuses
    <3> HIDE DEF f
    <3> QED BY <3>1, TypedPages DEF f
  <2>5. ASSUME NEW s \in {"EXPIRING", "EXPIRED"}
        PROVE  Opens(db, Typed(t, Certs(s))) = OfType(db.employee, db.certificate, t, {s})
    <3> DEFINE f == Typed(t, Certs(s))
    <3>1. /\ f.page = "certificates" /\ f.on_roll = TRUE /\ f.type = {t} /\ f.month = {}
          /\ GroupStatuses(f) = {s} /\ "NONE" \notin {s}
      BY DEF Certs, Everything, GroupStatuses
    <3> HIDE DEF f
    <3> QED BY <3>1, TypedPages DEF f
  <2> HIDE DEF Typed
  <2> QED BY <2>1, <2>2, <2>3, <2>4, <2>5 DEF Agrees, Row
<1> HIDE DEF Rows
<1> QED BY <1>1, <1>2

LEMMA MonthRowsAgree == \A row \in MonthRows(db) : Agrees(row)
<1> SUFFICES ASSUME NEW m \in Months
             PROVE  Agrees(Row(ReportNow(db).months[m], [CertsOf("risk") EXCEPT !.month = {m}]))
  BY DEF MonthRows
<1> DEFINE f == [CertsOf("risk") EXCEPT !.month = {m}]
<1>1. /\ f.page = "certificates" /\ f.on_roll = TRUE /\ f.type = {} /\ f.month = {m}
      /\ GroupStatuses(f) = RiskStatuses /\ "NONE" \notin RiskStatuses
  BY DEF CertsOf, Everything, GroupStatuses, RiskStatuses
<1> HIDE DEF f
<1>2. Opens(db, f) = Due(db.employee, db.certificate, m)
  BY <1>1 DEF Opens, CertificateStatement, Due, Issued, ActiveEmployees, OnRoll
<1>3. ReportNow(db).months[m] = Cardinality(Due(db.employee, db.certificate, m))
  BY MonthPart DEF ReportNow
<1> QED BY <1>2, <1>3 DEF Agrees, Row, f

\* The departments: who is counted and not listed has none, who is listed and not counted
\* has one whose name contains the one asked for.
LEMMA DepartmentRowsAgree ==
    ASSUME Consistent(db)
    PROVE  \A row \in DepartmentRows(db) : DepartmentAgrees(row)
<1> DEFINE Link(d) == [Everything("employees") EXCEPT !.on_roll = TRUE, !.department = {d}]
<1> SUFFICES ASSUME NEW d \in DOMAIN ReportNow(db).departments
             PROVE  DepartmentAgrees(Row(ReportNow(db).departments[d].employees, Link(d)))
  BY DEF DepartmentRows
<1> DEFINE row     == Row(ReportNow(db).departments[d].employees, Link(d))
           counted == {e \in OnRoll(db) : Label(db.employee, e) = d}
           shown   == Opens(db, row.path)
<1>1. d \in Named(db.employee) /\ row.count = Cardinality(Members(db.employee, d))
  BY DepartmentPart DEF ReportNow, Row
<1>2. Members(db.employee, d) = counted
  BY DEF Members, ActiveEmployees, OnRoll
<1>3. shown = {e \in OnRoll(db) : <<d, db.employee[e].department>> \in PartOf}
  BY DEF Row, Opens, EmployeeStatement, Everything, OnRoll
<1>4. (CHOOSE x \in row.path.department : TRUE) = d
  BY DEF Row, Everything
<1>5. \A e \in OnRoll(db) : db.employee[e].department \in Departments \cup {""}
  BY DEF Consistent, Data, EmployeeRow, OnRoll
<1>6. d \in Departments \cup {Unset} /\ (d # Unset => d # "")
  <2>1. PICK e \in OnRoll(db) : d = Label(db.employee, e)
    BY <1>1 DEF Named, ActiveEmployees, OnRoll
  <2> QED BY <1>5, <2>1 DEF Label
<1>7. <<d, "">> \notin PartOf /\ (d \in Departments => <<d, d>> \in PartOf)
  BY <1>6, LabelAssumption DEF LabelAssumption
<1>8. \A e \in counted \ shown : db.employee[e].department = ""
  BY <1>3, <1>5, <1>7 DEF Label
<1>9. \A e \in shown \ counted : /\ e \in OnRoll(db) /\ db.employee[e].department # d
                                 /\ <<d, db.employee[e].department>> \in PartOf
  BY <1>3, <1>7 DEF Label
<1> HIDE DEF row
<1> QED BY <1>1, <1>2, <1>4, <1>8, <1>9 DEF DepartmentAgrees, row

\* Every number of the dashboard and of the report counts exactly the rows of the page
\* its link opens, whatever the data and however departments are named; only the number
\* of a department and its list may differ, by the employees without one and by those of
\* a department that contains its name (routes/dashboard.py, routes/reports.py and the
\* statements of the list endpoints).
THEOREM EveryNumberOpensItsRows == Spec => []DrilldownAgrees
<1>1. Consistent(db) => DrilldownAgrees
  BY StatusRowsAgree, WorkloadRowsAgree, PipelineStepsAgree, TypeRowsAgree, MonthRowsAgree,
     DepartmentRowsAgree DEF DrilldownAgrees, Agrees
<1> QED BY <1>1, AlwaysConsistent, PTL

\* Any roll and types read before, and the records as they are now.
LEMMA AddsUp ==
    ASSUME NEW emp, NEW types, types \subseteq db.types, Consistent(db)
    PROVE  LET report == CoverageReport(emp, types, db.certificate)
               rows   == DOMAIN report.departments IN
           /\ report.covered <= report.employees
           /\ \A d \in rows : report.departments[d].covered <= report.departments[d].employees
           /\ report.employees = SumFunction([d \in rows |-> report.departments[d].employees])
           /\ report.covered = SumFunction([d \in rows |-> report.departments[d].covered])
           /\ SumFunction([t \in types |-> report.types[t].expiring + report.types[t].expired])
                 <= SumFunction(report.months)
           /\ types = db.types =>
                 SumFunction([t \in types |-> report.types[t].expiring + report.types[t].expired])
                    = SumFunction(report.months)
<1> DEFINE cert    == db.certificate
           report  == CoverageReport(emp, types, cert)
           rows    == DOMAIN report.departments
           active  == ActiveEmployees(emp)
           covered == CoveredEmployees(emp, cert)
           p       == [e \in active |-> Label(emp, e)]
           risky   == {c \in Issued(emp, cert) : cert[c].status \in RiskStatuses}
           named   == {c \in risky : cert[c].type \in types}
<1>1. /\ report.employees = Cardinality(active) /\ report.covered = Cardinality(covered)
      /\ rows = Named(emp)
      /\ \A d \in rows :
            /\ report.departments[d].employees = Cardinality(Members(emp, d))
            /\ report.departments[d].covered = Cardinality(Members(emp, d) \cap covered)
      /\ \A t \in types :
            /\ report.types[t].expiring = Cardinality(OfType(emp, cert, t, {"EXPIRING"}))
            /\ report.types[t].expired = Cardinality(OfType(emp, cert, t, {"EXPIRED"}))
      /\ report.months = [m \in Months |-> Cardinality(Due(emp, cert, m))]
  <2> DEFINE k == db.certificate
  <2> HIDE DEF k
  <2>1. LET r == CoverageReport(emp, types, k) IN
           /\ r.employees = Cardinality(ActiveEmployees(emp))
           /\ r.covered = Cardinality(CoveredEmployees(emp, k))
           /\ DOMAIN r.departments = Named(emp)
           /\ \A d \in Named(emp) :
                 /\ r.departments[d].employees = Cardinality(Members(emp, d))
                 /\ r.departments[d].covered = Cardinality(Members(emp, d) \cap CoveredEmployees(emp, k))
           /\ \A t \in types :
                 /\ r.types[t].expiring = Cardinality(OfType(emp, k, t, {"EXPIRING"}))
                 /\ r.types[t].expired = Cardinality(OfType(emp, k, t, {"EXPIRED"}))
           /\ r.months = [m \in Months |-> Cardinality(Due(emp, k, m))]
    BY ReportParts
  <2> QED BY <2>1 DEF k
<1> HIDE DEF report, rows
<1>2. /\ IsFiniteSet(active) /\ Cardinality(active) \in Nat
      /\ covered \subseteq active /\ IsFiniteSet(covered)
      /\ Cardinality(covered) \in Nat /\ Cardinality(covered) <= Cardinality(active)
  <2>1. covered \subseteq active
    BY DEF CoveredEmployees
  <2>2. IsFiniteSet(active)
    BY Partitions
  <2> HIDE DEF active, covered
  <2> QED BY <2>1, <2>2, FS_Subset, FS_CardinalityType
<1>3. rows = {p[e] : e \in active} /\ IsFiniteSet(rows)
  <2>1. rows = {p[e] : e \in active}
    BY <1>1 DEF Named
  <2>2. p \in Surjection(active, rows)
    <3>1. p \in [active -> rows]
      BY <2>1
    <3>2. \A d \in rows : \E e \in active : p[e] = d
      BY <2>1
    <3> HIDE DEF active, p
    <3> QED BY <3>1, <3>2 DEF Surjection
  <2>3. IsFiniteSet(rows)
    <3> HIDE DEF active, p
    <3> QED BY <1>2, <2>2, FS_Surjection
  <2> QED BY <2>1, <2>3
<1>4. ASSUME NEW d \in rows
      PROVE  /\ Members(emp, d) = {e \in active : p[e] = d}
             /\ Members(emp, d) \cap covered = {e \in covered : p[e] = d}
             /\ report.departments[d].covered <= report.departments[d].employees
  <2>1. /\ Members(emp, d) = {e \in active : p[e] = d}
        /\ Members(emp, d) \cap covered = {e \in covered : p[e] = d}
    BY <1>2 DEF Members
  <2>2. IsFiniteSet(Members(emp, d)) /\ Members(emp, d) \cap covered \subseteq Members(emp, d)
    <3>1. Members(emp, d) \subseteq active
      BY DEF Members
    <3> HIDE DEF active
    <3> QED BY <1>2, <3>1, FS_Subset
  <2>3. Cardinality(Members(emp, d) \cap covered) <= Cardinality(Members(emp, d))
    <3> HIDE DEF covered
    <3> QED BY <2>2, FS_Subset
  <2> QED BY <1>1, <2>1, <2>3
<1>5. report.employees = SumFunction([d \in rows |-> report.departments[d].employees])
  <2> DEFINE f == [d \in rows |-> report.departments[d].employees]
  <2>1. \A d \in DOMAIN f : f[d] = Cardinality({e \in active : p[e] = d})
    BY <1>1, <1>4
  <2>2. DOMAIN f = rows
    OBVIOUS
  <2> HIDE DEF f, active, p
  <2>3. SumFunction(f) = Cardinality(active)
    BY <1>2, <1>3, <2>1, <2>2, CountsAddUp
  <2> QED BY <1>1, <2>3 DEF f
<1>6. report.covered = SumFunction([d \in rows |-> report.departments[d].covered])
  <2> DEFINE f == [d \in rows |-> report.departments[d].covered]
  <2>1. \A d \in DOMAIN f : f[d] = Cardinality({e \in covered : p[e] = d})
    BY <1>1, <1>4
  <2>2. DOMAIN f = rows
    OBVIOUS
  <2> HIDE DEF f, active, covered, p
  <2>3. SumFunction(f) = Cardinality(covered)
    BY <1>2, <1>3, <2>1, <2>2, CountsAddUp
  <2> QED BY <1>1, <2>3 DEF f
<1>7. /\ IsFiniteSet(risky) /\ IsFiniteSet(named) /\ IsFiniteSet(types)
      /\ \A c \in risky : cert[c].month \in Months
      /\ Cardinality(named) <= Cardinality(risky) /\ (types = db.types => named = risky)
  <2>1. risky \subseteq Issued(emp, cert) /\ named \subseteq risky
    OBVIOUS
  <2>2. IsFiniteSet(risky) /\ IsFiniteSet(types)
    <3>1. types \subseteq Types
      BY DEF Consistent, Data
    <3> HIDE DEF risky
    <3> QED BY <2>1, <3>1, Partitions, EvidenceAssumption, FS_Subset DEF EvidenceAssumption
  <2>3. IsFiniteSet(named) /\ Cardinality(named) <= Cardinality(risky)
    <3> HIDE DEF risky, named
    <3> QED BY <2>1, <2>2, FS_Subset
  <2>4. \A c \in Issued(emp, cert) : cert[c].type \in db.types /\ cert[c].month \in Months
    <3>1. \A c \in Certificates : RowOk(db, cert[c])
      BY Parts
    <3> QED BY <3>1 DEF Issued, RowOk
  <2> QED BY <2>2, <2>3, <2>4
<1>8. SumFunction(report.months) = Cardinality(risky)
  <2> DEFINE f == report.months
             q == [c \in risky |-> cert[c].month]
  <2>1. DOMAIN f = Months /\ IsFiniteSet(Months)
    BY <1>1, EvidenceAssumption DEF EvidenceAssumption
  <2>2. \A m \in Months : f[m] = Cardinality({c \in risky : q[c] = m})
    <3> SUFFICES ASSUME NEW m \in Months PROVE f[m] = Cardinality({c \in risky : q[c] = m})
      OBVIOUS
    <3>1. Due(emp, cert, m) = {c \in risky : q[c] = m}
      BY DEF Due
    <3> QED BY <1>1, <3>1
  <2>3. \A c \in risky : q[c] \in Months
    BY <1>7
  <2> HIDE DEF f, q, risky
  <2>4. SumFunction(f) = Cardinality(risky)
    BY <1>7, <2>1, <2>2, <2>3, CountsAddUp
  <2> QED BY <2>4 DEF f
<1>9. SumFunction([t \in types |-> report.types[t].expiring + report.types[t].expired]) = Cardinality(named)
  <2> DEFINE f == [t \in types |-> report.types[t].expiring + report.types[t].expired]
             q == [c \in named |-> cert[c].type]
  <2>1. DOMAIN f = types
    OBVIOUS
  <2>2. \A t \in types : f[t] = Cardinality({c \in named : q[c] = t})
    <3> SUFFICES ASSUME NEW t \in types PROVE f[t] = Cardinality({c \in named : q[c] = t})
      OBVIOUS
    <3>1. OfType(emp, cert, t, RiskStatuses) = {c \in named : q[c] = t}
      BY DEF OfType
    <3>2. f[t] = Cardinality(OfType(emp, cert, t, {"EXPIRING"})) + Cardinality(OfType(emp, cert, t, {"EXPIRED"}))
      BY <1>1
    <3>3. f[t] = Cardinality(OfType(emp, cert, t, RiskStatuses))
      <4> HIDE DEF f
      <4> QED BY <3>2, Partitions
    <3> QED BY <3>1, <3>3
  <2>3. \A c \in named : q[c] \in types
    OBVIOUS
  <2> HIDE DEF f, q, named
  <2>4. SumFunction(f) = Cardinality(named)
    BY <1>7, <2>1, <2>2, <2>3, CountsAddUp
  <2> QED BY <2>4 DEF f
<1>10. report.covered <= report.employees
  BY <1>1, <1>2
<1> HIDE DEF cert
<1>11. /\ report.covered <= report.employees
       /\ \A d \in rows : report.departments[d].covered <= report.departments[d].employees
       /\ report.employees = SumFunction([d \in rows |-> report.departments[d].employees])
       /\ report.covered = SumFunction([d \in rows |-> report.departments[d].covered])
       /\ SumFunction([t \in types |-> report.types[t].expiring + report.types[t].expired])
             <= SumFunction(report.months)
       /\ types = db.types =>
             SumFunction([t \in types |-> report.types[t].expiring + report.types[t].expired])
                = SumFunction(report.months)
  BY <1>4, <1>5, <1>6, <1>7, <1>8, <1>9, <1>10
<1> QED BY <1>11, Zenon DEF report, rows, cert

-----------------------------------------------------------------------------
(***************************************************************************)
(* The script: what it remembers still holds when it is used.  What it     *)
(* says of the data is written with the data x and the state s of the      *)
(* script as parameters.                                                   *)
(***************************************************************************)

Early     == {"summary", "report", "report2", "report3", "risk", "exports", "person", "kind", "find", "find2"}
Succeeded == {"document", "review", "timeline"}
Seen      == {"replacement"} \cup Succeeded
Opened    == {"trace2"} \cup Seen
Follows   == {"trace"} \cup Opened

Collector == [pc : {"idle", "done"} \cup Early \cup Follows, select : Selection, commits : Nat,
              ok : BOOLEAN, down : BOOLEAN, risks : SUBSET DOMAIN Risks, traced : BOOLEAN,
              employee : {NoEmployees} \cup [Employees -> EmployeeRow], types : SUBSET Types,
              person : Employees \cup {0}, kind : Types \cup {0}, certificate : Certificates \cup {0},
              row : CertificateRow, document : DocumentStatus, review : Reviews \cup {NoReview},
              task : Cases \cup {NoCase}]

\* The definitions of the verdict, of any data.
FoundIn(x, s)      == {e \in s.select.employees : x.employee[e].status # "NONE"}
KindsIn(x, s)      == s.select.types \cap x.types
PageIn(x, person, kind) ==
    {c \in CertificateStatement(x, [Everything("certificates") EXCEPT
                 !.group = "", !.type = IF kind = 0 THEN {} ELSE {kind}]) :
        person # 0 => x.certificate[c].employee = person}
ReplacedIn(x, row, self) ==
    {c \in Certificates \ {self} : /\ x.certificate[c].employee = row.employee
                                   /\ x.certificate[c].type = row.type
                                   /\ (x.certificate[c].by = self \/ x.certificate[c].status = "REPLACED")}
ChainIn(x, c) ==
    LET row == x.certificate[c] IN
    /\ row.status # "NONE" /\ row.doc # 0
    /\ x.document[row.doc] = "CONFIRMED" /\ row.doc \in x.extracted
    /\ \E r \in ReviewsOf(x, row.doc) : x.review[r].status = "APPROVED"
    /\ row.by # 0 \/ ReplacedIn(x, row, c) # {}
ClosedIn(x, c)   == {k \in CasesOf(x, c) : x.task[k].status \in ClosedTasks}
AnsweredIn(x, c) == {k \in ClosedIn(x, c) : x.task[k].feedback /\ x.task[k].events}
AskedIn(x, s) ==
    LET row == x.certificate[s.certificate] IN
    \/ s.select.certificate # 0
    \/ /\ FoundIn(x, s) # {} => row.employee = Newest(FoundIn(x, s))
       /\ KindsIn(x, s) # {} => row.type = Newest(KindsIn(x, s))
Plain(s) == s.select.document = 0 /\ s.select.review = NoReview /\ s.select.task = NoCase

Verdict(x, s) ==
    s.pc = "done" /\ s.commits = 0 /\ ~s.down /\ Plain(s) =>
        LET c == s.certificate IN
        IF s.ok THEN c # 0 /\ ChainIn(x, c) /\ AnsweredIn(x, c) # {} /\ AskedIn(x, s)
        ELSE \/ c = 0 /\ PageIn(x, Newest(FoundIn(x, s)), Newest(KindsIn(x, s))) = {}
             \/ c # 0 /\ ~(ChainIn(x, c) /\ ClosedIn(x, c) # {} /\ ClosedIn(x, c) = AnsweredIn(x, c))

\* Past a check, or through all of them.
Past(s, pcs) == s.pc \in pcs \/ (s.pc = "done" /\ s.ok)

\* It is on the trail of one record, from the certificate list on.
Anchored(s) ==
    /\ s.pc \in {"idle"} \cup Early => s.certificate = 0
    /\ Past(s, Follows) => s.certificate \in Certificates
Counting(x, s) == /\ s.pc = "risk" => s.risks # {}
                  /\ s.pc = "report3" => s.types \subseteq x.types
\* What it has read of that record can only have become more.
Linked(x, s) ==
    Past(s, Opened) =>
        /\ x.certificate[s.certificate].status # "NONE"
        /\ s.row.by # 0 => x.certificate[s.certificate].by # 0
        /\ s.task # NoCase => s.task[1] = s.certificate
Sourced(x, s) ==
    Past(s, Seen) =>
        /\ s.row.doc \in x.extracted /\ s.review \in Reviews /\ s.review[1] = s.row.doc
        /\ x.review[s.review].status \in ClosedReviews /\ x.review[s.review].certificate # 0
Succession(x, s) == Past(s, Succeeded) => \E c \in Certificates : x.certificate[c].by # 0
Answered(x, s) ==
    s.pc = "done" /\ s.ok /\ Plain(s) => /\ s.task \in Cases /\ s.task # NoCase
                                         /\ x.task[s.task].feedback /\ x.task[s.task].events

\* Until something is committed it knows the data.
ChosenIn(x, k, c) ==
    LET closed == ClosedIn(x, c) IN
    IF CasesOf(x, c) = {} THEN k = NoCase ELSE k \in IF closed # {} THEN closed ELSE CasesOf(x, c)
Remembers(x, s) ==
    /\ s.pc \in Opened => s.row = x.certificate[s.certificate] /\ ChosenIn(x, s.task, s.certificate)
    /\ s.pc = "trace2" => s.document = IF s.row.doc = 0 THEN "NONE" ELSE x.document[s.row.doc]
    /\ s.pc \in Seen => /\ s.row.doc # 0 /\ x.document[s.row.doc] = "CONFIRMED"
                        /\ x.review[s.review].status = "APPROVED"
    /\ s.pc \in Succeeded => s.row.by # 0 \/ ReplacedIn(x, s.row, s.certificate) # {}
Knows(x, s) ==
    s.commits = 0 =>
        /\ s.pc \in {"report", "report2", "report3", "risk"} => \A i \in s.risks : RiskTrace(x, Risks[i]) # {}
        /\ s.pc \in {"kind", "find", "find2"} => s.person = Newest(FoundIn(x, s))
        /\ s.pc \in {"find", "find2"} => s.kind = Newest(KindsIn(x, s))
        /\ s.pc \in Follows => AskedIn(x, s)
        /\ Remembers(x, s)

ScriptInv(x, s) ==
    /\ s \in Collector
    /\ Anchored(s) /\ Counting(x, s) /\ Linked(x, s) /\ Sourced(x, s)
    /\ Succession(x, s) /\ Answered(x, s) /\ Knows(x, s) /\ Verdict(x, s)

LEMMA IdleIsACollector ==
    Idle \in Collector /\ Idle.pc = "idle" /\ Idle.certificate = 0 /\ Idle.commits = 0
<1>1. NoRow \in CertificateRow /\ "NONE" \in DocumentStatus
  BY DEF NoRow, CertificateRow, CertificateStatus, DocumentStatus
<1>2. Idle.select \in Selection
  BY DEF Idle, Selection
<1> QED BY <1>1, <1>2 DEF Idle, Collector

\* Going on, before a record is chosen.
LEMMA EarlyScript ==
    ASSUME NEW x, NEW s \in Collector, s.pc \in {"idle"} \cup Early, s.certificate = 0, Counting(x, s), Knows(x, s)
    PROVE  ScriptInv(x, s)
<1>1. s.pc \notin Follows \cup Opened \cup Seen \cup Succeeded /\ s.pc # "done"
  BY DEF Early, Follows, Opened, Seen, Succeeded
<1> QED BY <1>1 DEF ScriptInv, Anchored, Linked, Sourced, Succession, Answered, Verdict, Past

LEMMA InitScript ==
    ASSUME Init
    PROVE  ScriptInv(db, script)
<1>1. script \in Collector /\ script.pc = "idle" /\ script.certificate = 0
  BY IdleIsACollector DEF Init
<1>2. Counting(db, script) /\ Knows(db, script)
  BY <1>1 DEF Counting, Knows, Remembers, Follows, Opened, Seen, Succeeded
<1> QED BY <1>1, <1>2, EarlyScript

LEMMA WorldCommits ==
    ASSUME World
    PROVE  \E new : Commit(new)
<1>1. CASE \E e \in Employees : SaveEmployee(e)
  BY <1>1 DEF SaveEmployee
<1>2. CASE \E t \in Types : NewType(t)
  BY <1>2 DEF NewType
<1>3. CASE \E d \in Documents : Upload(d) \/ StartParsing(d) \/ Recognize(d) \/ RecognizeFails(d)
  BY <1>3 DEF Upload, StartParsing, Recognize, RecognizeFails
<1>4. CASE \E r \in Reviews : Reject(r) \/ Approve(r)
  BY <1>4 DEF Reject, Approve
<1>5. CASE \E c \in Certificates : Edit(c) \/ Expire(c)
  <2>1. ASSUME NEW c \in Certificates, Edit(c) PROVE \E new : Commit(new)
    BY <2>1, Zenon DEF Edit
  <2>2. ASSUME NEW c \in Certificates, Expire(c) PROVE \E new : Commit(new)
    BY <2>2 DEF Expire
  <2> QED BY <1>5, <2>1, <2>2
<1>6. CASE \E k \in Cases : OpenTask(k) \/ Remind(k) \/ CloseStale(k) \/ Feedback(k)
  BY <1>6 DEF OpenTask, Remind, CloseStale, Feedback
<1>7. CASE Register
  BY <1>7 DEF Register
<1> QED BY <1>1, <1>2, <1>3, <1>4, <1>5, <1>6, <1>7 DEF World

LEMMA WorldScript ==
    ASSUME Consistent(db), ScriptInv(db, script), World
    PROVE  ScriptInv(db', script')
<1>1. Grows(db, db')
  BY WorldKeeps DEF Kept
<1>2. /\ script.pc # "done"
      /\ script' = IF script.pc = "idle" THEN script ELSE [script EXCEPT !.commits = script.commits + 1]
  BY WorldCommits DEF Commit
<1>3. script \in Collector
  BY DEF ScriptInv
<1> DEFINE s == script
           t == script'
<1>4. /\ t \in Collector /\ t.pc = s.pc /\ t.select = s.select /\ t.certificate = s.certificate
      /\ t.types = s.types /\ t.risks = s.risks /\ t.row = s.row /\ t.review = s.review /\ t.task = s.task
      /\ t.ok = s.ok
      /\ s.pc # "idle" => t.commits # 0
  BY <1>2, <1>3 DEF Collector
<1>5. \A pcs : Past(t, pcs) <=> s.pc \in pcs
  BY <1>2, <1>4 DEF Past
<1>6. \A pcs : Past(s, pcs) <=> s.pc \in pcs
  BY <1>2 DEF Past
<1>7. Anchored(t)
  BY <1>4, <1>5, <1>6 DEF ScriptInv, Anchored
<1>8. Counting(db', t)
  BY <1>1, <1>4 DEF ScriptInv, Counting, Grows
<1>9. Linked(db', t)
  <2> SUFFICES ASSUME s.pc \in Opened
               PROVE  /\ db'.certificate[s.certificate].status # "NONE"
                      /\ s.row.by # 0 => db'.certificate[s.certificate].by # 0
                      /\ s.task # NoCase => s.task[1] = s.certificate
    BY <1>4, <1>5 DEF Linked
  <2>1. s.certificate \in Certificates
    BY <1>6 DEF ScriptInv, Anchored, Follows
  <2>2. RowGrows(db.certificate[s.certificate], db'.certificate[s.certificate])
    BY <1>1, <2>1 DEF Grows
  <2> QED BY <1>6, <2>2 DEF ScriptInv, Linked, RowGrows
<1>10. Sourced(db', t)
  BY <1>1, <1>4, <1>5, <1>6 DEF ScriptInv, Sourced, Grows, ReviewGrows
<1>11. Succession(db', t)
  BY <1>1, <1>4, <1>5, <1>6 DEF ScriptInv, Succession, Grows, RowGrows
<1>12. Answered(db', t) /\ Verdict(db', t)
  BY <1>2, <1>4 DEF Answered, Verdict
<1>13. Knows(db', t)
  BY <1>4 DEF Knows, Remembers, Follows, Opened, Seen, Succeeded
<1> QED BY <1>4, <1>7, <1>8, <1>9, <1>10, <1>11, <1>12, <1>13 DEF ScriptInv


\* The report of a run with a FAIL.
LEMMA FailScript ==
    ASSUME ScriptInv(db, script), db' = db, NEW down \in BOOLEAN, Finish(FALSE, down),
           script.commits = 0 /\ ~down /\ Plain(script) =>
               LET c == script.certificate IN
               \/ c = 0 /\ PageIn(db, Newest(FoundIn(db, script)), Newest(KindsIn(db, script))) = {}
               \/ c # 0 /\ ~(ChainIn(db, c) /\ ClosedIn(db, c) # {} /\ ClosedIn(db, c) = AnsweredIn(db, c))
    PROVE  ScriptInv(db, script')
<1> DEFINE t == script'
<1>1. script \in Collector
  BY DEF ScriptInv
<1>2. /\ t \in Collector /\ t.pc = "done" /\ t.select = script.select /\ t.commits = script.commits
      /\ t.certificate = script.certificate /\ t.ok = FALSE /\ t.down = down
  BY <1>1, IdleIsACollector DEF Finish, Goes, Collector
<1>3. t.pc \notin {"idle"} \cup Early \cup Follows \cup Opened \cup Seen \cup Succeeded
  BY <1>2 DEF Early, Follows, Opened, Seen, Succeeded
<1>4. Verdict(db, t)
  BY <1>2 DEF Verdict, FoundIn, KindsIn, Plain
<1>5. /\ Anchored(t) /\ Linked(db, t) /\ Sourced(db, t) /\ Succession(db, t) /\ Answered(db, t)
      /\ Counting(db, t)
  BY <1>2, <1>3 DEF Anchored, Linked, Sourced, Succession, Answered, Counting, Past
<1>6. Knows(db, t)
  BY <1>2, <1>3 DEF Knows, Remembers
<1> QED BY <1>2, <1>4, <1>5, <1>6 DEF ScriptInv

LEMMA StartScript ==
    ASSUME Start
    PROVE  ScriptInv(db, script')
<1>1. /\ script' \in Collector /\ script'.pc = "summary" /\ script'.certificate = 0
  BY IdleIsACollector DEF Start, Goes, Collector, Early
<1>2. Counting(db, script') /\ Knows(db, script')
  BY <1>1 DEF Counting, Knows, Remembers, Follows, Opened, Seen, Succeeded
<1> QED BY <1>1, <1>2, EarlyScript DEF Early

LEMMA RiskRows ==
    ASSUME NEW i \in DOMAIN Risks
    PROVE  RiskCount(db, Risks[i]) = Cardinality(RiskTrace(db, Risks[i])) /\ i \in Nat
<1>1. i \in 1..4
  BY DEF Risks
<1>2. Risks[i] \in {"expired-certificates", "failed-documents", "pending-reviews", "second-reminders"}
  BY <1>1 DEF Risks
<1> QED BY <1>1, <1>2 DEF RiskCount, RiskTrace, CountCertificates, CountDocuments, CountReviews, CountReminders

LEMMA SummaryScript ==
    ASSUME ScriptInv(db, script), Summary
    PROVE  ScriptInv(db, script')
<1>1. script' = [script EXCEPT !.pc = "report", !.risks = Nonzero] /\ script.pc = "summary"
  BY DEF Summary, Goes, At
<1>2. script \in Collector /\ script.certificate = 0
  BY <1>1 DEF ScriptInv, Anchored, Early
<1>3. Nonzero \subseteq DOMAIN Risks /\ \A i \in Nonzero : RiskCount(db, Risks[i]) > 0
  BY DEF Nonzero
<1>4. \A i \in Nonzero : RiskTrace(db, Risks[i]) # {}
  BY <1>3, RiskRows, FS_EmptySet
<1>5. /\ script' \in Collector /\ script'.pc = "report" /\ script'.certificate = 0
      /\ script'.risks = Nonzero
  BY <1>1, <1>2, <1>3, ZenonT(60) DEF Collector, Early
<1>6. Counting(db, script') /\ Knows(db, script')
  BY <1>4, <1>5 DEF Counting, Knows, Remembers, Follows, Opened, Seen, Succeeded
<1> QED BY <1>5, <1>6, EarlyScript DEF Early

LEMMA ReportScript ==
    ASSUME Consistent(db), ScriptInv(db, script), Report \/ ReportTypes \/ ReportRest
    PROVE  ScriptInv(db, script')
<1>1. script \in Collector /\ script.pc \in {"report", "report2", "report3"} /\ script.certificate = 0
  BY DEF Report, ReportTypes, ReportRest, At, ScriptInv, Anchored, Early
<1>2. script.commits = 0 => \A i \in script.risks : RiskTrace(db, Risks[i]) # {}
  BY <1>1 DEF ScriptInv, Knows
<1>3. db.employee \in [Employees -> EmployeeRow] /\ db.types \in SUBSET Types
  BY DEF Consistent, Data
<1>4. /\ script' \in Collector /\ script'.pc \in {"report2", "report3", "exports", "risk"}
      /\ script'.certificate = 0 /\ script'.risks = script.risks /\ script'.commits = script.commits
      /\ script'.pc = "risk" => script.risks # {}
      /\ script'.pc = "report3" => script'.types = db.types
  <2>1. CASE Report
    <3>1. script' = [script EXCEPT !.pc = "report2", !.employee = db.employee]
      BY <2>1 DEF Report, Goes
    <3> QED BY <1>1, <1>3, <3>1, ZenonT(60) DEF Collector, Early
  <2>2. CASE ReportTypes
    <3>1. script' = [script EXCEPT !.pc = "report3", !.types = db.types]
      BY <2>2 DEF ReportTypes, Goes
    <3> QED BY <1>1, <1>3, <3>1, ZenonT(60) DEF Collector, Early
  <2>3. CASE ReportRest
    <3>1. PICK pc \in {"exports", "risk"} :
             /\ script' = [script EXCEPT !.pc = pc, !.employee = NoEmployees, !.types = {}]
             /\ pc = "risk" => script.risks # {}
      BY <2>3 DEF ReportRest, Goes
    <3> QED BY <1>1, <3>1, ZenonT(60) DEF Collector, Early
  <2> QED BY <2>1, <2>2, <2>3
<1>5. Counting(db, script') /\ Knows(db, script')
  BY <1>2, <1>4 DEF Counting, Knows, Remembers, Follows, Opened, Seen, Succeeded
<1>6. script'.pc \in Early
  BY <1>4 DEF Early
<1> QED BY <1>4, <1>5, <1>6, EarlyScript

\* The risk rows: one that was counted has a source row unless something was committed.
LEMMA TracedRiskScript ==
    ASSUME ScriptInv(db, script), script.pc = "risk", db' = db, NEW found \in BOOLEAN, NEW fails \in BOOLEAN,
           TracedRisk(found, fails), script.commits = 0 /\ ~fails => found
    PROVE  ScriptInv(db, script')
<1> DEFINE left   == script.risks \ {NextRisk}
           traced == script.traced \/ found
           down   == script.down \/ fails
           rest   == [script EXCEPT !.risks = left, !.traced = traced, !.down = down]
<1>1. /\ script \in Collector /\ script.certificate = 0
      /\ script.commits = 0 => \A i \in script.risks : RiskTrace(db, Risks[i]) # {}
  BY DEF ScriptInv, Anchored, Knows, Early
<1>2. /\ rest \in Collector /\ rest.pc = "risk" /\ rest.certificate = 0 /\ rest.commits = script.commits
      /\ rest.risks \subseteq script.risks /\ rest.select = script.select
      /\ rest.traced = traced /\ rest.down = down
  <2>1. left \in SUBSET DOMAIN Risks /\ left \subseteq script.risks /\ traced \in BOOLEAN /\ down \in BOOLEAN
    BY <1>1 DEF Collector
  <2> HIDE DEF left, traced, down
  <2>2. rest \in Collector
    <3>1. \A x \in Collector : /\ [x EXCEPT !.risks = left] \in Collector
                               /\ [x EXCEPT !.traced = traced] \in Collector
                               /\ [x EXCEPT !.down = down] \in Collector
      BY <2>1 DEF Collector
    <3>2. rest = [[[script EXCEPT !.risks = left] EXCEPT !.traced = traced] EXCEPT !.down = down]
      BY <1>1 DEF Collector
    <3> QED BY <1>1, <3>1, <3>2
  <2>3. /\ rest.pc = "risk" /\ rest.certificate = 0 /\ rest.commits = script.commits
        /\ rest.risks = left /\ rest.select = script.select
    BY <1>1 DEF Collector
  <2>4. rest.traced = traced /\ rest.down = down
    BY <1>1 DEF Collector
  <2> QED BY <2>1, <2>2, <2>3, <2>4
<1>3. IF rest.risks # {} THEN script' = rest
      ELSE IF rest.traced THEN script' = [rest EXCEPT !.pc = "exports", !.traced = FALSE]
      ELSE Finish(FALSE, rest.down)
  BY DEF TracedRisk, Goes
<1> HIDE DEF rest
<1>4. CASE rest.risks # {}
  <2>1. Counting(db, rest) /\ Knows(db, rest)
    BY <1>1, <1>2, <1>4 DEF Counting, Knows, Remembers, Follows, Opened, Seen, Succeeded
  <2>2. ScriptInv(db, rest)
    BY <1>2, <2>1, EarlyScript DEF Early
  <2> QED BY <1>3, <1>4, <2>2
<1>5. CASE rest.risks = {} /\ rest.traced
  <2>1. script' = [rest EXCEPT !.pc = "exports", !.traced = FALSE]
    BY <1>3, <1>5
  <2>2. script' \in Collector /\ script'.pc = "exports" /\ script'.certificate = 0
    BY <1>2, <2>1, ZenonT(60) DEF Collector, Early
  <2>3. Counting(db, script') /\ Knows(db, script')
    BY <2>2 DEF Counting, Knows, Remembers, Follows, Opened, Seen, Succeeded
  <2> QED BY <2>2, <2>3, EarlyScript DEF Early
<1>6. CASE rest.risks = {} /\ ~rest.traced
  <2>1. Finish(FALSE, rest.down) /\ rest.down \in BOOLEAN
    BY <1>2, <1>3, <1>6 DEF Collector
  <2>2. ~(script.commits = 0 /\ ~rest.down)
    BY <1>2, <1>6
  <2> QED BY <2>1, <2>2, FailScript
<1> QED BY <1>4, <1>5, <1>6

LEMMA TraceRiskScript ==
    ASSUME ScriptInv(db, script), TraceRisk
    PROVE  ScriptInv(db, script')
<1>1. script.pc = "risk" /\ db' = db /\ TracedRisk(RiskTrace(db, Risks[NextRisk]) # {}, FALSE)
  BY DEF TraceRisk, At
<1>2. script \in Collector /\ script.risks # {}
      /\ (script.commits = 0 => \A i \in script.risks : RiskTrace(db, Risks[i]) # {})
  BY <1>1 DEF ScriptInv, Counting, Knows
<1>3. NextRisk \in script.risks
  <2>1. script.risks \in SUBSET Nat
    BY <1>2, RiskRows DEF Collector
  <2>2. \E i \in script.risks : \A j \in script.risks : i <= j
    BY <1>2, <2>1, LeastNumber
  <2> QED BY <2>2 DEF NextRisk
<1> DEFINE found == RiskTrace(db, Risks[NextRisk]) # {}
<1>4. found \in BOOLEAN /\ (script.commits = 0 => found)
  BY <1>2, <1>3
<1> HIDE DEF found
<1>5. TracedRisk(found, FALSE)
  BY <1>1 DEF found
<1> QED BY <1>1, <1>4, <1>5, TracedRiskScript


LEMMA NewestOne ==
    ASSUME NEW S, IsFiniteSet(S), S \subseteq Nat, S # {}
    PROVE  Newest(S) \in S
<1> DEFINE w == [c \in S |-> c]
<1>1. \A c \in S : w[c] = c /\ w[c] \in Nat
  OBVIOUS
<1> HIDE DEF w
<1>2. \E c \in S : \A x \in S : w[x] <= w[c]
  BY <1>1, Furthest
<1>3. \E c \in S : \A x \in S : x <= c
  BY <1>1, <1>2
<1> QED BY <1>3 DEF Newest

\* The rows the selectors find.
LEMMA SelectedOnes ==
    ASSUME NEW x, NEW s, s.select \in Selection
    PROVE  /\ Newest(FoundIn(x, s)) \in FoundIn(x, s) \/ (FoundIn(x, s) = {} /\ Newest(FoundIn(x, s)) = 0)
           /\ Newest(KindsIn(x, s)) \in KindsIn(x, s) \/ (KindsIn(x, s) = {} /\ Newest(KindsIn(x, s)) = 0)
           /\ FoundIn(x, s) \subseteq Employees /\ KindsIn(x, s) \subseteq Types
           /\ 0 \notin FoundIn(x, s) /\ 0 \notin KindsIn(x, s)
<1> DEFINE A == FoundIn(x, s)
           B == KindsIn(x, s)
<1>1. A \subseteq Employees /\ B \subseteq Types
  BY DEF Selection, FoundIn, KindsIn
<1>2. IsFiniteSet(A) /\ IsFiniteSet(B) /\ A \subseteq Nat /\ B \subseteq Nat /\ 0 \notin A /\ 0 \notin B
  <2> HIDE DEF A, B
  <2> QED BY <1>1, EvidenceAssumption, FS_Subset DEF EvidenceAssumption
<1> HIDE DEF A, B
<1>3. Newest(A) \in A \/ (A = {} /\ Newest(A) = 0)
  BY <1>2, NewestOne DEF Newest
<1>4. Newest(B) \in B \/ (B = {} /\ Newest(B) = 0)
  BY <1>2, NewestOne DEF Newest
<1> QED BY <1>1, <1>2, <1>3, <1>4 DEF A, B

LEMMA ExportsScript ==
    ASSUME ScriptInv(db, script), Exports
    PROVE  ScriptInv(db, script')
<1>1. PICK s \in Selections : script' = [script EXCEPT !.pc = "person", !.select = s]
  BY DEF Exports, Goes
<1>2. script \in Collector /\ script.certificate = 0
  BY DEF Exports, At, ScriptInv, Anchored, Early
<1>3. s \in Selection
  BY EvidenceAssumption DEF EvidenceAssumption
<1>4. script' \in Collector /\ script'.pc = "person" /\ script'.certificate = 0
  BY <1>1, <1>2, <1>3, ZenonT(60) DEF Collector, Early
<1>5. Counting(db, script') /\ Knows(db, script')
  BY <1>4 DEF Counting, Knows, Remembers, Follows, Opened, Seen, Succeeded
<1> QED BY <1>4, <1>5, EarlyScript DEF Early

LEMMA FindPersonScript ==
    ASSUME ScriptInv(db, script), FindPerson
    PROVE  ScriptInv(db, script')
<1> DEFINE one == Newest(FoundIn(db, script))
<1>1. script \in Collector /\ script.certificate = 0 /\ script.select \in Selection
  BY DEF FindPerson, At, ScriptInv, Anchored, Early, Collector
<1>2. script' = [script EXCEPT !.pc = "kind", !.person = one]
  BY DEF FindPerson, Goes, Matching, FoundIn
<1>3. one \in Employees \cup {0}
  BY <1>1, SelectedOnes
<1> HIDE DEF one
<1>4. /\ script' \in Collector /\ script'.pc = "kind" /\ script'.certificate = 0 /\ script'.person = one
      /\ script'.select = script.select
  BY <1>1, <1>2, <1>3, ZenonT(60) DEF Collector, Early
<1>5. one = Newest(FoundIn(db, script'))
  BY <1>4 DEF one, FoundIn
<1>6. Counting(db, script') /\ Knows(db, script')
  BY <1>4, <1>5 DEF Counting, Knows, Remembers, Follows, Opened, Seen, Succeeded
<1> QED BY <1>4, <1>6, EarlyScript DEF Early

LEMMA FindKindScript ==
    ASSUME ScriptInv(db, script), FindKind
    PROVE  ScriptInv(db, script')
<1> DEFINE one == Newest(KindsIn(db, script))
<1>1. /\ script \in Collector /\ script.certificate = 0 /\ script.select \in Selection
      /\ script.commits = 0 => script.person = Newest(FoundIn(db, script))
  BY DEF FindKind, At, ScriptInv, Anchored, Early, Collector, Knows
<1>2. script' = [script EXCEPT !.pc = "find", !.kind = one]
  BY DEF FindKind, Goes, KindsIn
<1>3. one \in Types \cup {0}
  BY <1>1, SelectedOnes
<1> HIDE DEF one
<1>4. /\ script' \in Collector /\ script'.pc = "find" /\ script'.certificate = 0 /\ script'.kind = one
      /\ script'.select = script.select /\ script'.person = script.person /\ script'.commits = script.commits
  BY <1>1, <1>2, <1>3, ZenonT(60) DEF Collector, Early
<1>5. one = Newest(KindsIn(db, script')) /\ FoundIn(db, script') = FoundIn(db, script)
  BY <1>4 DEF one, FoundIn, KindsIn
<1>6. Counting(db, script') /\ Knows(db, script')
  BY <1>1, <1>4, <1>5 DEF Counting, Knows, Remembers, Follows, Opened, Seen, Succeeded
<1> QED BY <1>4, <1>6, EarlyScript DEF Early

LEMMA Preferred ==
    ASSUME NEW rows \in SUBSET Certificates, rows # {}
    PROVE  Prefer(rows) \in rows
<1> DEFINE linked  == {c \in rows : db.certificate[c].doc # 0}
           current == {c \in linked : db.certificate[c].status \in CoverageStatuses}
           pool    == IF current # {} THEN current ELSE IF linked # {} THEN linked ELSE rows
<1>1. pool # {} /\ pool \subseteq rows
  OBVIOUS
<1>2. Prefer(rows) = Newest(pool)
  BY DEF Prefer
<1> HIDE DEF pool
<1>3. IsFiniteSet(pool) /\ pool \subseteq Nat
  BY <1>1, EvidenceAssumption, FS_Subset DEF EvidenceAssumption
<1> QED BY <1>1, <1>2, <1>3, NewestOne

LEMMA PageRows ==
    ASSUME NEW group, NEW person, NEW kind
    PROVE  /\ Page(group, person, kind) \subseteq Certificates
           /\ \A c \in Page(group, person, kind) :
                 /\ person # 0 => db.certificate[c].employee = person
                 /\ kind # 0 => db.certificate[c].type = kind
BY DEF Page, CertificateStatement, Everything

LEMMA AnchorScript ==
    ASSUME ScriptInv(db, script), script.pc \in {"find", "find2"}, NEW c \in Certificates, Anchor(c),
           NEW group, c = script.select.certificate \/ c \in Page(group, script.person, script.kind)
    PROVE  ScriptInv(db, script')
<1> DEFINE s == script
           t == script'
<1>1. /\ s \in Collector /\ s.select \in Selection /\ c # 0
      /\ s.commits = 0 => s.person = Newest(FoundIn(db, s)) /\ s.kind = Newest(KindsIn(db, s))
  BY EvidenceAssumption DEF EvidenceAssumption, ScriptInv, Collector, Knows
<1>2. /\ t \in Collector /\ t.pc = "trace" /\ t.certificate = c /\ t.select = s.select
      /\ t.commits = s.commits
  BY <1>1 DEF Anchor, Goes, Collector, Follows
<1>3. t.commits = 0 => AskedIn(db, t)
  <2> SUFFICES ASSUME s.commits = 0, s.select.certificate = 0
               PROVE  /\ FoundIn(db, s) # {} => db.certificate[c].employee = Newest(FoundIn(db, s))
                      /\ KindsIn(db, s) # {} => db.certificate[c].type = Newest(KindsIn(db, s))
    BY <1>2 DEF AskedIn, FoundIn, KindsIn
  <2>1. c \in Page(group, s.person, s.kind)
    BY <1>1
  <2>2. /\ s.person # 0 => db.certificate[c].employee = s.person
        /\ s.kind # 0 => db.certificate[c].type = s.kind
    BY <2>1, PageRows
  <2> QED BY <1>1, <2>2, SelectedOnes
<1>4. t.pc \notin {"idle", "done", "risk", "report3"} \cup Early \cup Opened \cup Seen \cup Succeeded
  BY <1>2 DEF Early, Opened, Seen, Succeeded
<1>5. Knows(db, t)
  BY <1>2, <1>3, <1>4 DEF Knows, Remembers, Early
<1> QED BY <1>2, <1>4, <1>5 DEF ScriptInv, Anchored, Counting, Linked, Sourced, Succession, Answered, Verdict, Past

LEMMA FindCertificateScript ==
    ASSUME ScriptInv(db, script), FindCertificate
    PROVE  ScriptInv(db, script')
<1> DEFINE rows == Page("current", script.person, script.kind)
<1>1. /\ script \in Collector /\ script.pc = "find" /\ script.certificate = 0
  BY DEF ScriptInv, FindCertificate, At, Anchored, Early
<1>2. CASE script.select.certificate # 0
  <2>1. Anchor(script.select.certificate)
    BY <1>2 DEF FindCertificate
  <2>2. script.select.certificate \in Certificates
    BY <1>1, <1>2 DEF Collector, Selection
  <2> QED BY <1>1, <2>1, <2>2, AnchorScript
<1>3. CASE script.select.certificate = 0 /\ rows # {}
  <2>1. Anchor(Prefer(rows))
    BY <1>3 DEF FindCertificate
  <2>2. rows \subseteq Certificates
    BY PageRows
  <2>3. Prefer(rows) \in rows /\ Prefer(rows) \in Certificates
    <3> HIDE DEF rows
    <3> QED BY <1>3, <2>2, Preferred
  <2> QED BY <1>1, <2>1, <2>3, AnchorScript
<1>4. CASE script.select.certificate = 0 /\ rows = {}
  <2>1. script' = [script EXCEPT !.pc = "find2"]
    BY <1>4 DEF FindCertificate, Goes
  <2>2. /\ script' \in Collector /\ script'.pc = "find2" /\ script'.certificate = 0
        /\ script'.select = script.select /\ script'.person = script.person /\ script'.kind = script.kind
        /\ script'.commits = script.commits
    BY <1>1, <2>1 DEF Collector, Early
  <2>3. Counting(db, script') /\ Knows(db, script')
    BY <1>1, <2>2 DEF ScriptInv, Counting, Knows, Remembers, FoundIn, KindsIn, Follows, Opened, Seen, Succeeded
  <2> QED BY <2>2, <2>3, EarlyScript DEF Early
<1> QED BY <1>2, <1>3, <1>4

LEMMA FindAnyScript ==
    ASSUME ScriptInv(db, script), FindAny
    PROVE  ScriptInv(db, script')
<1> DEFINE rows == Page("", script.person, script.kind)
<1>1. /\ script \in Collector /\ script.pc = "find2" /\ script.certificate = 0 /\ db' = db
      /\ script.commits = 0 => /\ script.person = Newest(FoundIn(db, script))
                               /\ script.kind = Newest(KindsIn(db, script))
  BY DEF ScriptInv, FindAny, At, Anchored, Early, Knows
<1>2. CASE rows = {}
  <2>1. Finish(FALSE, script.down)
    BY <1>2 DEF FindAny
  <2>2. script.down \in BOOLEAN
    BY <1>1 DEF Collector
  <2>3. PageIn(db, script.person, script.kind) = {}
    BY <1>2 DEF Page, PageIn
  <2> QED BY <1>1, <2>1, <2>2, <2>3, FailScript
<1>3. CASE rows # {}
  <2>1. Anchor(Prefer(rows))
    BY <1>3 DEF FindAny
  <2>2. rows \subseteq Certificates
    BY PageRows
  <2>3. Prefer(rows) \in rows /\ Prefer(rows) \in Certificates
    <3> HIDE DEF rows
    <3> QED BY <1>3, <2>2, Preferred
  <2> QED BY <1>1, <2>1, <2>3, AnchorScript
<1> QED BY <1>2, <1>3


\* A check that passes.
LEMMA PassScript ==
    ASSUME ScriptInv(db, script), script.pc \in Follows, NEW t \in Collector, t.pc \in Follows,
           t.certificate = script.certificate, t.select = script.select, t.commits = script.commits,
           Linked(db, t), Sourced(db, t), Succession(db, t), t.commits = 0 => Remembers(db, t)
    PROVE  ScriptInv(db, t)
<1>1. t.pc \notin {"idle", "done"} \cup Early
  BY DEF Follows, Opened, Seen, Succeeded, Early
<1>2. script.certificate \in Certificates /\ (script.commits = 0 => AskedIn(db, script))
  BY DEF ScriptInv, Anchored, Knows, Past
<1>3. AskedIn(db, t) <=> AskedIn(db, script)
  BY DEF AskedIn, FoundIn, KindsIn
<1>4. Knows(db, t)
  BY <1>1, <1>2, <1>3 DEF Knows, Early
<1>5. Anchored(t) /\ Counting(db, t) /\ Answered(db, t) /\ Verdict(db, t)
  BY <1>1, <1>2 DEF Anchored, Counting, Answered, Verdict, Early
<1> QED BY <1>4, <1>5 DEF ScriptInv

LEMMA Trail ==
    ASSUME ScriptInv(db, script), script.pc \in Follows
    PROVE  /\ script \in Collector /\ script.certificate \in Certificates /\ script.certificate # 0
           /\ script.down \in BOOLEAN
BY EvidenceAssumption DEF EvidenceAssumption, ScriptInv, Collector, Anchored, Past

LEMMA OpenTraceScript ==
    ASSUME Consistent(db), ScriptInv(db, script), OpenTrace
    PROVE  ScriptInv(db, script')
<1> DEFINE c    == script.certificate
           row  == db.certificate[c]
           doc  == IF row.doc = 0 THEN "NONE" ELSE db.document[row.doc]
<1>1. /\ script.pc = "trace" /\ db' = db /\ script.pc \in Follows
  BY DEF OpenTrace, At, Follows
<1>2. script \in Collector /\ c \in Certificates /\ c # 0 /\ script.down \in BOOLEAN
  BY <1>1, Trail
<1>3. PICK k \in Cases \cup {NoCase} :
         /\ Selected(k, CasesOf(db, c))
         /\ Item(row.status # "NONE", [script EXCEPT !.pc = "trace2", !.row = row, !.document = doc, !.task = k])
  BY DEF OpenTrace, CertificateTrace
<1>4. CASE row.status = "NONE"
  <2>1. Finish(FALSE, script.down) /\ ~ChainIn(db, c)
    BY <1>3, <1>4 DEF Item, ChainIn
  <2> QED BY <1>1, <1>2, <2>1, FailScript
<1>5. CASE row.status # "NONE"
  <2> DEFINE t == [script EXCEPT !.pc = "trace2", !.row = row, !.document = doc, !.task = k]
  <2>1. script' = t
    BY <1>3, <1>5 DEF Item, Goes
  <2>2. row \in CertificateRow /\ doc \in DocumentStatus
    <3>1. row \in CertificateRow /\ db.document \in [Documents -> DocumentStatus]
      BY <1>2 DEF Consistent, Data
    <3> QED BY <3>1 DEF CertificateRow, DocumentStatus
  <2>3. (k # NoCase => k[1] = c) /\ ChosenIn(db, k, c)
    BY <1>3 DEF Selected, ChosenIn, ClosedIn, CasesOf
  <2> HIDE DEF row, doc
  <2>4. /\ t \in Collector /\ t.pc = "trace2" /\ t.select = script.select /\ t.certificate = c
        /\ t.row = row /\ t.document = doc /\ t.task = k /\ t.commits = script.commits
    BY <1>2, <2>2, ZenonT(60) DEF Collector, Follows, Opened
  <2>5. t.pc \in Follows /\ t.pc \notin Seen /\ t.pc \notin Succeeded /\ t.pc # "done"
    BY <2>4 DEF Follows, Opened, Seen, Succeeded
  <2> HIDE DEF t
  <2>6. Linked(db, t) /\ Sourced(db, t) /\ Succession(db, t)
    BY <1>5, <2>3, <2>4, <2>5 DEF Linked, Sourced, Succession, Past, row
  <2>7. Remembers(db, t)
    BY <2>3, <2>4, <2>5 DEF Remembers, row, doc
  <2> QED BY <1>1, <2>1, <2>4, <2>5, <2>6, <2>7, PassScript
<1> QED BY <1>4, <1>5

LEMMA ApprovedOne ==
    ASSUME NEW d
    PROVE  LET one == ApprovedOf(ReviewsOf(db, d)) IN
           \/ one = NoReview /\ \A r \in ReviewsOf(db, d) : db.review[r].status # "APPROVED"
           \/ /\ one # NoReview /\ one \in Reviews /\ one[1] = d
              /\ one \in ReviewsOf(db, d) /\ db.review[one].status = "APPROVED"
<1> DEFINE S   == {r \in ReviewsOf(db, d) : db.review[r].status = "APPROVED"}
           one == ApprovedOf(ReviewsOf(db, d))
           w   == [r \in S |-> r[2]]
<1>1. S \subseteq Reviews /\ \A r \in S : r[1] = d
  BY DEF ReviewsOf
<1>2. IsFiniteSet(S)
  <2>1. IsFiniteSet(Reviews)
    BY EvidenceAssumption, FS_Product DEF EvidenceAssumption, Reviews
  <2> HIDE DEF S
  <2> QED BY <1>1, <2>1, FS_Subset
<1>3. CASE S = {}
  BY <1>3 DEF ApprovedOf
<1>4. CASE S # {}
  <2>1. \A r \in S : w[r] \in Nat
    BY <1>1, EvidenceAssumption DEF EvidenceAssumption, Reviews
  <2>2. \E r \in S : \A o \in S : w[o] <= w[r]
    <3> HIDE DEF S, w
    <3> QED BY <1>2, <1>4, <2>1, Furthest
  <2>3. \E r \in S : \A o \in S : o[2] <= r[2]
    BY <2>2
  <2>4. one = CHOOSE r \in S : \A o \in S : o[2] <= r[2]
    BY <1>4 DEF ApprovedOf
  <2>5. one \in S
    BY <2>3, <2>4
  <2>6. one # NoReview
    <3>1. one \in Reviews
      BY <1>1, <2>5
    <3> HIDE DEF one
    <3>2. one[1] \in Documents
      BY <3>1 DEF Reviews
    <3>3. NoReview[1] = 0
      BY DEF NoReview
    <3>4. 0 \notin Documents
      BY EvidenceAssumption DEF EvidenceAssumption
    <3> QED BY <3>2, <3>3, <3>4
  <2> QED BY <1>1, <2>5, <2>6
<1> QED BY <1>3, <1>4

LEMMA OpenTraceRestScript ==
    ASSUME Consistent(db), ScriptInv(db, script), OpenTraceRest
    PROVE  ScriptInv(db, script')
<1> DEFINE c    == script.certificate
           d    == script.row.doc
           one  == ApprovedOf(ReviewsOf(db, d))
           pass == d # 0 /\ script.document = "CONFIRMED" /\ d \in db.extracted /\ one # NoReview
<1>1. /\ script.pc = "trace2" /\ db' = db /\ script.pc \in Follows /\ script.pc \in Opened
  BY DEF OpenTraceRest, At, Follows, Opened
<1>2. script \in Collector /\ c \in Certificates /\ c # 0 /\ script.down \in BOOLEAN
  BY <1>1, Trail
<1>3. Item(pass, [script EXCEPT !.pc = "replacement", !.document = "NONE", !.review = one])
  BY DEF OpenTraceRest
<1>4. \/ one = NoReview /\ \A r \in ReviewsOf(db, d) : db.review[r].status # "APPROVED"
      \/ /\ one # NoReview /\ one \in Reviews /\ one[1] = d
         /\ one \in ReviewsOf(db, d) /\ db.review[one].status = "APPROVED"
  BY ApprovedOne
<1>5. script.commits = 0 => /\ script.row = db.certificate[c] /\ ChosenIn(db, script.task, c)
                            /\ script.document = IF d = 0 THEN "NONE" ELSE db.document[d]
  BY <1>1 DEF ScriptInv, Knows, Remembers
<1> HIDE DEF one
<1>6. CASE ~pass
  <2>1. Finish(FALSE, script.down)
    BY <1>3, <1>6 DEF Item
  <2>2. script.commits = 0 => ~ChainIn(db, c)
    BY <1>4, <1>5, <1>6 DEF ChainIn
  <2> QED BY <1>1, <1>2, <2>1, <2>2, FailScript
<1>7. CASE pass
  <2> DEFINE t == [script EXCEPT !.pc = "replacement", !.document = "NONE", !.review = one]
  <2>1. script' = t
    BY <1>3, <1>7 DEF Item, Goes
  <2>2. one \in Reviews /\ one[1] = d /\ db.review[one].status = "APPROVED" /\ db.review[one].certificate # 0
    <3>1. ReviewsOk(db)
      BY Parts
    <3> QED BY <1>4, <1>7, <3>1 DEF ReviewsOk
  <2>3. /\ t \in Collector /\ t.pc = "replacement" /\ t.select = script.select /\ t.certificate = c
        /\ t.row = script.row /\ t.task = script.task /\ t.review = one /\ t.commits = script.commits
    <3>1. "NONE" \in DocumentStatus
      BY DEF DocumentStatus
    <3> QED BY <1>2, <2>2, <3>1 DEF Collector, Follows, Opened, Seen
  <2>4. t.pc \in Follows /\ t.pc \in Opened /\ t.pc \in Seen /\ t.pc \notin Succeeded /\ t.pc # "done"
    BY <2>3 DEF Follows, Opened, Seen, Succeeded
  <2> HIDE DEF t
  <2>5. Linked(db, t) /\ Succession(db, t)
    BY <1>1, <2>3, <2>4 DEF ScriptInv, Linked, Succession, Past
  <2>6. Sourced(db, t)
    BY <1>7, <2>2, <2>3 DEF Sourced, ClosedReviews
  <2>7. t.commits = 0 => Remembers(db, t)
    BY <1>5, <1>7, <2>2, <2>3, <2>4 DEF Remembers
  <2> QED BY <1>1, <2>1, <2>3, <2>4, <2>5, <2>6, <2>7, PassScript
<1> QED BY <1>6, <1>7


\* The checks that read nothing more of the record.
LEMMA NextCheckScript ==
    ASSUME ScriptInv(db, script), script.pc \in Seen, NEW pc \in Succeeded,
           script' = [script EXCEPT !.pc = pc], \E c \in Certificates : db.certificate[c].by # 0,
           script.commits = 0 =>
               script.row.by # 0 \/ ReplacedIn(db, script.row, script.certificate) # {}
    PROVE  ScriptInv(db, script')
<1> DEFINE t == script'
<1>1. /\ script \in Collector /\ script.pc \in Opened /\ script.pc \in Follows
      /\ pc \in Seen /\ pc \in Opened /\ pc \in Follows /\ pc # "trace2"
  BY DEF ScriptInv, Follows, Opened, Seen, Succeeded
<1>2. /\ t \in Collector /\ t.pc = pc /\ t.select = script.select /\ t.certificate = script.certificate
      /\ t.row = script.row /\ t.task = script.task /\ t.review = script.review /\ t.commits = script.commits
  BY <1>1 DEF Collector
<1>3. Linked(db, t) /\ Sourced(db, t) /\ Succession(db, t)
  BY <1>1, <1>2 DEF ScriptInv, Linked, Sourced, Succession, Past
<1>4. t.commits = 0 => Remembers(db, t)
  BY <1>1, <1>2 DEF ScriptInv, Knows, Remembers
<1> QED BY <1>1, <1>2, <1>3, <1>4, PassScript

LEMMA ReplacementScript ==
    ASSUME Consistent(db), ScriptInv(db, script), Replacement
    PROVE  ScriptInv(db, script')
<1> DEFINE c    == script.certificate
           row  == script.row
           pass == row.by # 0 \/ ReplacedIn(db, row, c) # {}
<1>1. /\ script.pc = "replacement" /\ db' = db /\ script.pc \in Follows /\ script.pc \in Opened
      /\ script.pc \in Seen
  BY DEF Replacement, At, Follows, Opened, Seen
<1>2. script \in Collector /\ c \in Certificates /\ c # 0 /\ script.down \in BOOLEAN
  BY <1>1, Trail
<1>3. Item(pass, [script EXCEPT !.pc = "document"])
  BY DEF Replacement, ReplacedRows, ReplacedIn
<1>4. CASE ~pass
  <2>1. Finish(FALSE, script.down)
    BY <1>3, <1>4 DEF Item
  <2>2. script.commits = 0 => row = db.certificate[c]
    BY <1>1 DEF ScriptInv, Knows, Remembers
  <2>3. script.commits = 0 => ~ChainIn(db, c)
    BY <1>4, <2>2 DEF ChainIn
  <2> QED BY <1>1, <1>2, <2>1, <2>3, FailScript
<1>5. CASE pass
  <2>1. script' = [script EXCEPT !.pc = "document"]
    BY <1>3, <1>5 DEF Item, Goes
  <2>2. \E o \in Certificates : db.certificate[o].by # 0
    <3>1. CASE row.by # 0
      BY <1>1, <1>2, <3>1 DEF ScriptInv, Linked, Past
    <3>2. CASE ReplacedIn(db, row, c) # {}
      <4>1. PICK o \in Certificates : db.certificate[o].by = c \/ db.certificate[o].status = "REPLACED"
        BY <3>2 DEF ReplacedIn
      <4>2. RowOk(db, db.certificate[o])
        BY Parts
      <4> QED BY <1>2, <4>1, <4>2 DEF RowOk
    <3> QED BY <1>5, <3>1, <3>2
  <2>3. "document" \in Succeeded
    BY DEF Succeeded
  <2> QED BY <1>1, <1>5, <2>1, <2>2, <2>3, NextCheckScript
<1> QED BY <1>4, <1>5

\* What holds once the replacement is found.
LEMMA SucceededTrail ==
    ASSUME ScriptInv(db, script), script.pc \in Succeeded
    PROVE  LET c == script.certificate
               d == script.row.doc IN
           /\ script \in Collector /\ c \in Certificates /\ c # 0 /\ script.down \in BOOLEAN
           /\ db.certificate[c].status # "NONE" /\ d \in db.extracted
           /\ script.review \in Reviews /\ script.review[1] = d
           /\ db.review[script.review].status # "NONE" /\ db.review[script.review].certificate # 0
           /\ \E o \in Certificates : db.certificate[o].by # 0
           /\ script.commits = 0 =>
                 /\ script.row = db.certificate[c] /\ ChosenIn(db, script.task, c)
                 /\ db.document[d] = "CONFIRMED" /\ db.review[script.review].status = "APPROVED"
                 /\ script.row.by # 0 \/ ReplacedIn(db, script.row, c) # {}
                 /\ ChainIn(db, c)
<1> DEFINE c == script.certificate
           d == script.row.doc
<1>1. script.pc \in Follows /\ script.pc \in Opened /\ script.pc \in Seen
  BY DEF Follows, Opened, Seen, Succeeded
<1>2. script \in Collector /\ c \in Certificates /\ c # 0 /\ script.down \in BOOLEAN
  BY <1>1, Trail
<1>3. /\ db.certificate[c].status # "NONE" /\ d \in db.extracted
      /\ script.review \in Reviews /\ script.review[1] = d
      /\ db.review[script.review].status # "NONE" /\ db.review[script.review].certificate # 0
      /\ \E o \in Certificates : db.certificate[o].by # 0
  BY <1>1 DEF ScriptInv, Linked, Sourced, Succession, Past, ClosedReviews
<1>4. script.commits = 0 =>
          /\ script.row = db.certificate[c] /\ ChosenIn(db, script.task, c)
          /\ d # 0 /\ db.document[d] = "CONFIRMED" /\ db.review[script.review].status = "APPROVED"
          /\ script.row.by # 0 \/ ReplacedIn(db, script.row, c) # {}
  BY <1>1 DEF ScriptInv, Knows, Remembers
<1>5. script.commits = 0 => ChainIn(db, c)
  BY <1>3, <1>4 DEF ChainIn, ReviewsOf
<1> QED BY <1>2, <1>3, <1>4, <1>5

LEMMA DocumentScript ==
    ASSUME ScriptInv(db, script), DocumentCheck
    PROVE  ScriptInv(db, script')
<1> DEFINE c    == script.certificate
           d    == Chosen(script.select.document, 0, script.row.doc)
           read == DocumentTrace(db, d)
           pass == read.document # "NONE" /\ read.extracted /\ read.reviews # {} /\ read.certificates # {}
<1>1. script.pc = "document" /\ db' = db /\ script.pc \in Succeeded /\ script.pc \in Seen
  BY DEF DocumentCheck, At, Seen, Succeeded
<1>2. Item(pass, [script EXCEPT !.pc = "review"])
  BY DEF DocumentCheck
<1>3. CASE ~pass
  <2>1. Finish(FALSE, script.down) /\ script.down \in BOOLEAN
    BY <1>1, <1>2, <1>3, SucceededTrail DEF Item
  <2>2. ASSUME script.commits = 0, Plain(script) PROVE FALSE
    <3>1. d = script.row.doc
      BY <2>2 DEF Chosen, Plain
    <3>2. script.row = db.certificate[c] /\ db.document[d] = "CONFIRMED" /\ d \in db.extracted
      BY <1>1, <2>2, <3>1, SucceededTrail
    <3>3. script.review \in ReviewsOf(db, d) /\ c \in IssuedFrom(db, d)
      BY <1>1, <2>2, <3>1, <3>2, SucceededTrail DEF ReviewsOf, IssuedFrom
    <3> HIDE DEF d
    <3> QED BY <1>3, <3>2, <3>3 DEF DocumentTrace
  <2> QED BY <1>1, <2>1, <2>2, FailScript
<1>4. CASE pass
  <2>1. script' = [script EXCEPT !.pc = "review"]
    BY <1>2, <1>4 DEF Item, Goes
  <2>2. "review" \in Succeeded
    BY DEF Succeeded
  <2> QED BY <1>1, <2>1, <2>2, SucceededTrail, NextCheckScript
<1> QED BY <1>3, <1>4

LEMMA ReviewScript ==
    ASSUME ScriptInv(db, script), ReviewCheck
    PROVE  ScriptInv(db, script')
<1> DEFINE r    == Chosen(script.select.review, NoReview, script.review)
           read == ReviewTrace(db, r)
           pass == read.review # "NONE" /\ read.extracted /\ read.certificates # {}
<1>1. script.pc = "review" /\ db' = db /\ script.pc \in Succeeded /\ script.pc \in Seen
  BY DEF ReviewCheck, At, Seen, Succeeded
<1>2. Item(pass, [script EXCEPT !.pc = "timeline"])
  BY DEF ReviewCheck
<1>3. CASE ~pass
  <2>1. Finish(FALSE, script.down) /\ script.down \in BOOLEAN
    BY <1>1, <1>2, <1>3, SucceededTrail DEF Item
  <2>2. ASSUME script.commits = 0, Plain(script) PROVE FALSE
    <3>1. r = script.review
      BY <2>2 DEF Chosen, Plain
    <3>2. r[1] \in db.extracted /\ db.review[r].status # "NONE" /\ db.review[r].certificate # 0
      BY <1>1, <3>1, SucceededTrail
    <3> HIDE DEF r
    <3> QED BY <1>3, <3>2 DEF ReviewTrace
  <2> QED BY <1>1, <2>1, <2>2, FailScript
<1>4. CASE pass
  <2>1. script' = [script EXCEPT !.pc = "timeline"]
    BY <1>2, <1>4 DEF Item, Goes
  <2>2. "timeline" \in Succeeded
    BY DEF Succeeded
  <2> QED BY <1>1, <2>1, <2>2, SucceededTrail, NextCheckScript
<1> QED BY <1>3, <1>4


LEMMA TimelineScript ==
    ASSUME ScriptInv(db, script), TimelineCheck
    PROVE  ScriptInv(db, script')
<1> DEFINE c  == script.certificate
           k  == Chosen(script.select.task, NoCase, script.task)
           ok == k # NoCase /\ Timeline(db, k).events /\ ClosureOk(Timeline(db, k))
<1>1. /\ script.pc = "timeline" /\ db' = db /\ script.pc \in Succeeded /\ script.pc \in Follows
      /\ script.pc \in Opened /\ script.pc \in Seen
  BY DEF TimelineCheck, At, Follows, Opened, Seen, Succeeded
<1>2. Finish(ok, script.down) /\ ok \in BOOLEAN
  BY DEF TimelineCheck
<1>3. /\ script \in Collector /\ c \in Certificates /\ c # 0 /\ script.down \in BOOLEAN
      /\ script.commits = 0 => ChosenIn(db, script.task, c) /\ ChainIn(db, c)
  BY <1>1, SucceededTrail
<1>4. \A j \in Cases : j # NoCase
  <2> SUFFICES ASSUME NEW j \in Cases PROVE j # NoCase
    OBVIOUS
  <2>1. j[1] \in Certificates
    BY DEF Cases
  <2>2. NoCase[1] = 0
    BY DEF NoCase
  <2>3. 0 \notin Certificates
    BY EvidenceAssumption DEF EvidenceAssumption
  <2> QED BY <2>1, <2>2, <2>3
<1>5. Plain(script) => k = script.task /\ k \in Cases \cup {NoCase}
  BY <1>3 DEF Plain, Chosen, Collector
<1>6. ok <=> k # NoCase /\ db.task[k].events /\ db.task[k].status \in ClosedTasks /\ db.task[k].feedback
  BY DEF Timeline, ClosureOk
<1>7. ClosedIn(db, c) \subseteq CasesOf(db, c) /\ CasesOf(db, c) \subseteq Cases
  BY DEF ClosedIn, CasesOf
<1> HIDE DEF ok, k
<1>8. CASE ok
  <2> DEFINE t == script'
  <2>1. t = [Idle EXCEPT !.pc = "done", !.select = script.select, !.commits = script.commits,
                         !.certificate = script.certificate, !.row = script.row, !.review = script.review,
                         !.task = script.task, !.ok = TRUE, !.down = script.down]
    BY <1>2, <1>8 DEF Finish, Goes
  <2>2. /\ t \in Collector /\ t.pc = "done" /\ t.select = script.select /\ t.certificate = c
        /\ t.row = script.row /\ t.task = script.task /\ t.review = script.review
        /\ t.commits = script.commits /\ t.ok = TRUE /\ t.down = script.down
    BY <1>3, <2>1, IdleIsACollector DEF Collector
  <2>3. t.pc \notin {"idle", "risk", "report3"} \cup Early \cup Follows \cup Opened \cup Seen \cup Succeeded
    BY <2>2 DEF Early, Follows, Opened, Seen, Succeeded
  <2> HIDE DEF t
  <2>4. Anchored(t) /\ Counting(db, t) /\ Linked(db, t) /\ Sourced(db, t) /\ Succession(db, t)
    BY <1>1, <1>3, <2>2, <2>3 DEF ScriptInv, Anchored, Counting, Linked, Sourced, Succession, Past
  <2>5. Answered(db, t)
    BY <1>5, <1>6, <1>8, <2>2 DEF Answered, Plain
  <2>6. Knows(db, t)
    BY <2>2, <2>3 DEF Knows, Remembers
  <2>7. Verdict(db, t)
    <3> SUFFICES ASSUME script.commits = 0, Plain(script)
                 PROVE  AnsweredIn(db, c) # {} /\ AskedIn(db, t)
      BY <1>3, <2>2 DEF Verdict, Plain
    <3>1. k \in ClosedIn(db, c)
      BY <1>3, <1>5, <1>6, <1>7, <1>8 DEF ChosenIn, ClosedIn
    <3>2. k \in AnsweredIn(db, c)
      BY <1>6, <1>8, <3>1 DEF AnsweredIn
    <3>3. AskedIn(db, script)
      BY <1>1 DEF ScriptInv, Knows
    <3>4. AskedIn(db, t)
      BY <2>2, <3>3 DEF AskedIn, FoundIn, KindsIn
    <3> QED BY <3>2, <3>4
  <2>8. ScriptInv(db, t)
    BY <2>2, <2>4, <2>5, <2>6, <2>7 DEF ScriptInv
  <2> QED BY <2>8 DEF t
<1>9. CASE ~ok
  <2>1. Finish(FALSE, script.down)
    BY <1>2, <1>9
  <2>2. ASSUME script.commits = 0, Plain(script), ClosedIn(db, c) # {}, ClosedIn(db, c) = AnsweredIn(db, c)
        PROVE  FALSE
    <3>1. k \in AnsweredIn(db, c)
      BY <1>3, <1>5, <1>7, <2>2 DEF ChosenIn
    <3>2. db.task[k].events /\ db.task[k].status \in ClosedTasks /\ db.task[k].feedback /\ k \in Cases
      BY <1>7, <3>1 DEF AnsweredIn, ClosedIn
    <3> QED BY <1>4, <1>6, <1>9, <3>2
  <2> QED BY <1>1, <1>3, <2>1, <2>2, FailScript
<1> QED BY <1>8, <1>9

LEMMA RequestFailsScript ==
    ASSUME ScriptInv(db, script), RequestFails
    PROVE  ScriptInv(db, script')
<1>1. db' = db /\ script.pc \notin {"idle", "done"}
  BY DEF RequestFails
<1>2. CASE script.pc = "risk"
  <2>1. TracedRisk(FALSE, TRUE)
    BY <1>2 DEF RequestFails
  <2> QED BY <1>1, <1>2, <2>1, TracedRiskScript
<1>3. CASE script.pc # "risk"
  <2>1. Finish(FALSE, TRUE)
    BY <1>1, <1>3 DEF RequestFails
  <2> QED BY <1>1, <2>1, FailScript
<1> QED BY <1>2, <1>3

LEMMA NextScript ==
    ASSUME Consistent(db), ScriptInv(db, script), [Next]_vars
    PROVE  ScriptInv(db', script')
<1>1. CASE World
  BY <1>1, WorldScript
<1>2. CASE Script
  <2>1. db' = db
    BY <1>2, ScriptReads
  <2>2. ScriptInv(db, script')
    BY <1>2, StartScript, SummaryScript, ReportScript, TraceRiskScript, ExportsScript, FindPersonScript,
       FindKindScript, FindCertificateScript, FindAnyScript, OpenTraceScript, OpenTraceRestScript,
       ReplacementScript, DocumentScript, ReviewScript, TimelineScript, RequestFailsScript DEF Script
  <2> QED BY <2>1, <2>2
<1>3. CASE UNCHANGED vars
  BY <1>3 DEF vars
<1> QED BY <1>1, <1>2, <1>3 DEF Next

LEMMA AlwaysScript == Spec => []ScriptInv(db, script)
<1>1. Init => ScriptInv(db, script)
  BY InitScript
<1>2. ScriptInv(db, script) /\ Consistent(db) /\ [Next]_vars => ScriptInv(db, script)'
  BY NextScript
<1> QED BY <1>1, <1>2, AlwaysConsistent, PTL DEF Spec

\* The report adds up although a commit may come between its three queries: nobody is
\* covered who is not counted, the departments partition the employees and the covered
\* ones, and the months count the records at risk that the types count, and more only of
\* a type created after the types were read (build_certificate_coverage_report).
THEOREM ReportsAddUp == Spec => []ReportAddsUp
<1>1. ScriptInv(db, script) /\ Consistent(db) => ReportAddsUp
  <2> SUFFICES ASSUME script.pc = "report3", ScriptInv(db, script), Consistent(db) PROVE ReportAddsUp
    BY DEF ReportAddsUp
  <2>1. script.types \subseteq db.types
    BY DEF ScriptInv, Counting
  <2> DEFINE emp   == script.employee
             types == script.types
  <2> HIDE DEF emp, types
  <2>2. LET report == CoverageReport(emp, types, db.certificate)
            rows   == DOMAIN report.departments IN
        /\ report.covered <= report.employees
        /\ \A d \in rows : report.departments[d].covered <= report.departments[d].employees
        /\ report.employees = SumFunction([d \in rows |-> report.departments[d].employees])
        /\ report.covered = SumFunction([d \in rows |-> report.departments[d].covered])
        /\ SumFunction([t \in types |-> report.types[t].expiring + report.types[t].expired])
              <= SumFunction(report.months)
        /\ types = db.types =>
              SumFunction([t \in types |-> report.types[t].expiring + report.types[t].expired])
                 = SumFunction(report.months)
    BY <2>1, AddsUp DEF types
  <2> QED BY <2>2, Zenon DEF ReportAddsUp, emp, types
<1> QED BY <1>1, AlwaysScript, AlwaysConsistent, PTL

\* What a report that is ok has seen hangs together and cannot be undone, whatever was
\* committed between the requests (_check_trace_endpoints, _check_reminder_loop).
THEOREM OkReportsLeaveTraces == Spec => []OkLeavesTraces
<1>1. ScriptInv(db, script) => OkLeavesTraces
  <2> SUFFICES ASSUME ScriptInv(db, script), script.pc = "done", script.ok, NoOverride PROVE OkLeavesTraces
    BY DEF OkLeavesTraces
  <2>1. \A pcs : Past(script, pcs)
    BY DEF Past
  <2>2. Plain(script)
    BY DEF Plain, NoOverride
  <2>3. /\ Linked(db, script) /\ Sourced(db, script) /\ Succession(db, script) /\ Answered(db, script)
    BY DEF ScriptInv
  <2> QED BY <2>1, <2>2, <2>3 DEF Linked, Sourced, Succession, Answered, OkLeavesTraces, ClosedReviews
<1> QED BY <1>1, AlwaysScript, PTL

\* While nothing is committed and every request is answered, an ok report names a
\* certificate that is asked for and went through the whole scenario, and a report that
\* is not ok one that lacks a part of it, or none (_check_scenario_chain).
THEOREM QuietVerdictsAreTrue == Spec => []QuietVerdict
<1>1. Verdict(db, script) => QuietVerdict
  BY DEF Verdict, QuietVerdict, Plain, NoOverride, ChainIn, Chain, ReplacedIn, ReplacedRows, ClosedIn, ClosedOf,
         AnsweredIn, AnsweredOf, AskedIn, Asked, FoundIn, Matching, KindsIn, PageIn, Page
<1>2. ScriptInv(db, script) => Verdict(db, script)
  BY DEF ScriptInv
<1> QED BY <1>1, <1>2, AlwaysScript, PTL

===============================================================================
