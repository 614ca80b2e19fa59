--------------------------- MODULE MasterDataProofs ---------------------------
(***************************************************************************)
(* Proofs about MasterData, for any employees, types and requests, and any *)
(* files, forms and feedback they send.                                    *)
(***************************************************************************)
EXTENDS MasterData, WellFoundedInduction, TLAPS

-----------------------------------------------------------------------------
(***************************************************************************)
(* Least and greatest numbers                                              *)
(***************************************************************************)

\* Proofs by induction look at the least number that is an exception.
LEMMA LeastNumber ==
    ASSUME NEW T \in SUBSET Nat, T # {}
    PROVE  \E n \in T : \A m \in T : n <= m
<1> DEFINE R == {ss \in Nat \X Nat : ss[1] < ss[2]}
<1>1. IsWellFoundedOn(R, Nat)
  BY NatLessThanWellFounded DEF OpToRel
<1>2. PICK n \in T : \A m \in T : <<m, n>> \notin R
  <2> HIDE DEF R
  <2> QED BY <1>1, WFMin
<1>3. \A m \in T : ~(m < n)
  BY <1>2
<1> HIDE DEF R
<1> QED BY <1>2, <1>3

LEMMA GreatestNumber ==
    ASSUME NEW m \in Nat, NEW s \in SUBSET (1..m), s # {}
    PROVE  Max(s) \in s /\ \A x \in s : x <= Max(s)
<1> DEFINE T == {k \in Nat : \A x \in s : x <= k}
<1>1. T \in SUBSET Nat /\ m \in T
  OBVIOUS
<1>2. PICK k \in T : \A l \in T : k <= l
  BY <1>1, LeastNumber
<1>3. k \in s
  <2> SUFFICES ASSUME k \notin s PROVE FALSE
    OBVIOUS
  <2>1. PICK y \in s : TRUE
    OBVIOUS
  <2>2. k \in Nat /\ \A x \in s : x <= k /\ x # k /\ x \in Nat /\ x >= 1
    BY <1>2
  <2>3. k - 1 \in Nat /\ \A x \in s : x <= k - 1
    <3> HIDE DEF T
    <3> QED BY <2>1, <2>2
  <2>4. k - 1 \in T
    BY <2>3
  <2> QED BY <2>4, <1>2
<1>4. \E x \in s : \A y \in s : x >= y
  BY <1>2, <1>3
<1> QED BY <1>4 DEF Max

LEMMA GreatestIs ==
    ASSUME NEW m \in Nat, NEW s \in SUBSET (1..m), m \in s
    PROVE  Max(s) = m
<1>1. Max(s) \in s /\ \A x \in s : x <= Max(s)
  BY GreatestNumber
<1>2. \A x \in s : x \in Nat /\ x <= m
  OBVIOUS
<1>3. \A y \in s : m <= y => y = m
  BY <1>2
<1> QED BY <1>1, <1>3

-----------------------------------------------------------------------------
(***************************************************************************)
(* Reading a file                                                          *)
(***************************************************************************)

NothingRead == [n |-> 0, lines |-> <<>>, errors |-> {}, seen |-> {}]
ReadOn(t, file, acc, i) == ParseLine(acc, file[i], CellsOf(t, file[i]))

\* g is the recursive function behind ParseFile, on the subsets of S.
FoldsOn(t, file, S, g) ==
    g = [s \in SUBSET S |-> IF s = {} THEN NothingRead
                            ELSE ReadOn(t, file, g[s \ {Max(s)}], Max(s))]

LEMMA ParseFileFolds ==
    ASSUME NEW t, NEW file
    PROVE  ParseFile(t, file) = (CHOOSE g : FoldsOn(t, file, DOMAIN file, g))[DOMAIN file]
BY Zenon DEF ParseFile, FoldLeft, MapThenFoldSet, FoldsOn, ReadOn, NothingRead

\* There is one.
LEMMA FoldExists ==
    ASSUME NEW t, NEW file
    PROVE  \A m \in Nat : \E g : FoldsOn(t, file, 1..m, g)
<1> DEFINE T == {m \in Nat : ~ \E g : FoldsOn(t, file, 1..m, g)}
<1> SUFFICES ASSUME T # {} PROVE FALSE
  OBVIOUS
<1>1. PICK m \in T : \A l \in T : m <= l
  BY LeastNumber
<1>2. m # 0
  <2>1. FoldsOn(t, file, 1..0, [s \in SUBSET (1..0) |-> NothingRead])
    BY DEF FoldsOn
  <2> QED BY <2>1
<1>3. m - 1 \in Nat /\ m - 1 \notin T
  BY <1>1, <1>2
<1>4. PICK g : FoldsOn(t, file, 1..(m - 1), g)
  BY <1>3
<1> DEFINE h == [s \in SUBSET (1..m) |-> IF m \in s THEN ReadOn(t, file, g[s \ {m}], m) ELSE g[s]]
<1>5. ASSUME NEW s \in SUBSET (1..m)
      PROVE  h[s] = IF s = {} THEN NothingRead ELSE ReadOn(t, file, h[s \ {Max(s)}], Max(s))
  <2>1. m \in Nat
    OBVIOUS
  <2>2. CASE m \in s
    <3>1. Max(s) = m
      BY <2>1, <2>2, GreatestIs
    <3>2. h[s \ {m}] = g[s \ {m}]
      BY <2>2
    <3> HIDE DEF T
    <3> QED BY <2>2, <3>1, <3>2
  <2>3. CASE m \notin s
    <3>1. s \in SUBSET (1..(m - 1))
      BY <2>1, <2>3
    <3>2. h[s] = g[s]
      BY <2>3
    <3>3. s # {} => Max(s) \in s
      BY <2>1, GreatestNumber
    <3>4. s # {} => h[s \ {Max(s)}] = g[s \ {Max(s)}]
      BY <2>3, <3>3
    <3>5. g[s] = IF s = {} THEN NothingRead ELSE ReadOn(t, file, g[s \ {Max(s)}], Max(s))
      BY <1>4, <3>1 DEF FoldsOn
    <3> HIDE DEF h, T
    <3> QED BY <3>2, <3>4, <3>5
  <2> QED BY <2>2, <2>3
<1>6. FoldsOn(t, file, 1..m, h)
  <2> HIDE DEF T
  <2> QED BY <1>5 DEF FoldsOn
<1> HIDE DEF h
<1> QED BY <1>6

\* The parser reads one line after the other.
LEMMA ParseFileSteps ==
    ASSUME NEW t, NEW file, NEW n \in Nat, DOMAIN file = 1..n
    PROVE  \E acc : /\ acc[0] = NothingRead
                    /\ \A i \in 1..n : acc[i] = ReadOn(t, file, acc[i - 1], i)
                    /\ acc[n] = ParseFile(t, file)
<1> DEFINE g == CHOOSE g : FoldsOn(t, file, DOMAIN file, g)
<1>1. FoldsOn(t, file, 1..n, g)
  BY FoldExists
<1>2. ParseFile(t, file) = g[1..n]
  BY ParseFileFolds
<1> HIDE DEF g
<1> DEFINE acc == [i \in 0..n |-> g[1..i]]
<1>3. acc[0] = NothingRead
  <2>1. 1..0 = {}
    OBVIOUS
  <2> QED BY <1>1, <2>1 DEF FoldsOn
<1>4. ASSUME NEW i \in 1..n
      PROVE  acc[i] = ReadOn(t, file, acc[i - 1], i)
  <2>1. 1..i \in SUBSET (1..n) /\ 1..i # {} /\ 1..i \in SUBSET (1..i) /\ i \in Nat
    OBVIOUS
  <2>2. Max(1..i) = i
    BY GreatestIs, <2>1
  <2>3. (1..i) \ {i} = 1..(i - 1)
    OBVIOUS
  <2>4. g[1..i] = ReadOn(t, file, g[(1..i) \ {Max(1..i)}], Max(1..i))
    BY <1>1, <2>1 DEF FoldsOn
  <2>5. acc[i] = g[1..i] /\ acc[i - 1] = g[1..(i - 1)]
    OBVIOUS
  <2> QED BY <2>2, <2>3, <2>4, <2>5
<1>5. acc[n] = ParseFile(t, file)
  BY <1>2
<1> HIDE DEF acc
<1> QED BY <1>3, <1>4, <1>5

LEMMA CellsOfTyped ==
    ASSUME NEW t \in Tables, NEW line \in FileLine(t), CellsOf(t, line) # Invalid
    PROVE  CellsOf(t, line) \in Cells(t)
<1>1. CASE t = "employee"
  <2>1. EmployeeCells(line) # Invalid
    BY <1>1 DEF CellsOf
  <2>2. line.name \in Nat
    BY DEF FileLine
  <2>3. EmployeeCells(line) \in [name: Nat, employment_status: EmploymentStatus]
    BY <2>1, <2>2 DEF EmployeeCells, EmploymentStatus
  <2> QED BY <1>1, <2>3 DEF CellsOf, Cells
<1>2. CASE t = "certificate_type"
  <2>1. TypeCells(line) # Invalid
    BY <1>2 DEF CellsOf
  <2>2. line.name \in Nat
    BY DEF FileLine
  <2>3. TypeCells(line) \in [name: Nat, force_manual_review: BOOLEAN]
    BY <2>1, <2>2 DEF TypeCells
  <2> QED BY <1>2, <2>3 DEF CellsOf, Cells
<1> QED BY <1>1, <1>2 DEF Tables

LineOf(t, file, x) == [key |-> file[x].key, cells |-> CellsOf(t, file[x])]
ImportLines(t)     == [key: Keys(t), cells: Cells(t)]

\* What the parser remembers after i lines.
ReadUpTo(t, file, a, i) ==
    /\ a \in [n: Nat, lines: Seq(ImportLines(t)), errors: SUBSET Nat, seen: SUBSET Keys(t)]
    /\ a.n = i
    /\ a.seen = {file[x].key : x \in {y \in FirstLines(t, file) : y <= i}}
    /\ a.errors = {x \in OtherLines(t, file) : x <= i}
    /\ \A x \in FirstLines(t, file) : x <= i =>
           \E l \in 1..Len(a.lines) : a.lines[l] = LineOf(t, file, x)
    /\ \A l \in 1..Len(a.lines) :
           \E x \in FirstLines(t, file) : x <= i /\ a.lines[l] = LineOf(t, file, x)
    /\ \A l, m \in 1..Len(a.lines) : a.lines[l].key = a.lines[m].key => l = m

LEMMA ReadsNextLine ==
    ASSUME NEW t \in Tables, NEW file \in Seq(FileLine(t)), NEW i \in DOMAIN file,
           NEW a, ReadUpTo(t, file, a, i - 1)
    PROVE  ReadUpTo(t, file, ReadOn(t, file, a, i), i)
<1> DEFINE line == file[i]
           b    == ReadOn(t, file, a, i)
           F    == FirstLines(t, file)
           O    == OtherLines(t, file)
<1>1. /\ i \in Nat /\ i >= 1 /\ DOMAIN file = 1..Len(file) /\ Len(file) \in Nat
      /\ line \in FileLine(t) /\ line.key \in Keys(t) \cup {0}
  <2>1. DOMAIN file = 1..Len(file) /\ Len(file) \in Nat
    OBVIOUS
  <2>2. i \in Nat /\ i >= 1 /\ line \in FileLine(t)
    BY <2>1
  <2>3. line.key \in Keys(t) \cup {0}
    BY <2>2 DEF FileLine
  <2> QED BY <2>1, <2>2, <2>3
<1>2. /\ a \in [n: Nat, lines: Seq(ImportLines(t)), errors: SUBSET Nat, seen: SUBSET Keys(t)]
      /\ a.n = i - 1
  BY DEF ReadUpTo
<1>3. \A x \in F \cup O : x \in Nat /\ (x <= i <=> x <= i - 1 \/ x = i)
  BY <1>1 DEF FirstLines, OtherLines
<1>4. i \in F <=> WellFormed(t, line) /\ line.key \notin a.seen
  <2>1. ASSUME WellFormed(t, line), NEW m \in 1..(i - 1), WellFormed(t, file[m]),
               file[m].key = line.key
        PROVE  line.key \in a.seen
    <3> DEFINE T == {x \in 1..(i - 1) : WellFormed(t, file[x]) /\ file[x].key = line.key}
    <3>1. T \in SUBSET Nat /\ m \in T
      BY <1>1, <2>1
    <3>2. PICK x \in T : \A y \in T : x <= y
      BY <3>1, LeastNumber
    <3>3. \A y \in 1..(x - 1) : y \notin T
      BY <3>1, <3>2
    <3>4. x \in F /\ x <= i - 1 /\ file[x].key = line.key
      BY <1>1, <3>2, <3>3 DEF FirstLines
    <3> QED BY <3>4 DEF ReadUpTo
  <2>2. ASSUME line.key \in a.seen
        PROVE  \E m \in 1..(i - 1) : WellFormed(t, file[m]) /\ file[m].key = line.key
    <3>1. PICK x \in F : x <= i - 1 /\ file[x].key = line.key
      BY <2>2 DEF ReadUpTo
    <3>2. x \in 1..(i - 1) /\ WellFormed(t, file[x])
      BY <1>1, <3>1 DEF FirstLines
    <3> QED BY <3>1, <3>2
  <2> QED BY <1>1, <2>1, <2>2 DEF FirstLines
<1>5. i \in O <=> ~Blank(line) /\ i \notin F
  BY DEF OtherLines
<1>6. Blank(line) => ~WellFormed(t, line)
  BY DEF Blank, WellFormed
<1>7. b = IF Blank(line) THEN [a EXCEPT !.n = i]
          ELSE IF i \notin F THEN [a EXCEPT !.n = i, !.errors = a.errors \cup {i}]
          ELSE [a EXCEPT !.n = i, !.seen = a.seen \cup {line.key},
                         !.lines = Append(a.lines, LineOf(t, file, i))]
  <2> DEFINE cells    == CellsOf(t, line)
             rejected == line.key = 0 \/ line.name = 0 \/ line.key \in a.seen \/ cells = Invalid
  <2>1. a.n + 1 = i
    BY <1>1, <1>2
  <2>2. b = IF Blank(line) THEN [a EXCEPT !.n = a.n + 1]
            ELSE IF rejected THEN [a EXCEPT !.n = a.n + 1, !.errors = a.errors \cup {a.n + 1}]
            ELSE [a EXCEPT !.n = a.n + 1, !.seen = a.seen \cup {line.key},
                           !.lines = Append(a.lines, [key |-> line.key, cells |-> cells])]
    BY <1>2 DEF ReadOn, ParseLine
  <2>3. rejected <=> i \notin F
    BY <1>4 DEF WellFormed
  <2> HIDE DEF b, F, rejected
  <2> QED BY <2>1, <2>2, <2>3 DEF LineOf
<1>8. ASSUME Blank(line) PROVE ReadUpTo(t, file, b, i)
  <2>1. i \notin F /\ i \notin O
    BY <1>4, <1>5, <1>6, <1>8
  <2>2. b = [a EXCEPT !.n = i]
    BY <1>7, <1>8
  <2>3. \A x \in F \cup O : x <= i <=> x <= i - 1
    BY <1>3, <2>1
  <2>4. {x \in F : x <= i} = {x \in F : x <= i - 1} /\ {x \in O : x <= i} = {x \in O : x <= i - 1}
    BY <2>3
  <2> HIDE DEF b, F, O
  <2> QED BY <1>1, <1>2, <2>2, <2>3, <2>4 DEF ReadUpTo, F, O
<1>9. ASSUME ~Blank(line), i \notin F PROVE ReadUpTo(t, file, b, i)
  <2>1. i \in O
    BY <1>5, <1>9
  <2>2. b = [a EXCEPT !.n = i, !.errors = a.errors \cup {i}]
    BY <1>7, <1>9
  <2>3. \A x \in F : x <= i <=> x <= i - 1
    BY <1>3, <1>9
  <2>4. {x \in F : x <= i} = {x \in F : x <= i - 1}
    BY <2>3
  <2>5. {x \in O : x <= i} = {x \in O : x <= i - 1} \cup {i}
    BY <1>3, <2>1
  <2> HIDE DEF b, F, O
  <2> QED BY <1>1, <1>2, <2>2, <2>3, <2>4, <2>5 DEF ReadUpTo, F, O
<1>10. ASSUME i \in F PROVE ReadUpTo(t, file, b, i)
  <2> DEFINE new == LineOf(t, file, i)
  <2>1. i \notin O /\ ~Blank(line)
    BY <1>4, <1>5, <1>6, <1>10
  <2>2. b = [a EXCEPT !.n = i, !.seen = a.seen \cup {line.key}, !.lines = Append(a.lines, new)]
    BY <1>7, <1>10, <2>1
  <2>3. new \in ImportLines(t)
    BY <1>1, <1>4, <1>10, CellsOfTyped DEF LineOf, ImportLines, WellFormed
  <2> DEFINE n == Len(a.lines)
  <2>4. /\ n \in Nat /\ b.lines \in Seq(ImportLines(t)) /\ Len(b.lines) = n + 1
        /\ \A l \in 1..n : b.lines[l] = a.lines[l]
        /\ b.lines[n + 1] = new
    BY <1>2, <2>2, <2>3
  <2>5. {x \in O : x <= i} = {x \in O : x <= i - 1}
    BY <1>3, <2>1
  <2>6. b \in [n: Nat, lines: Seq(ImportLines(t)), errors: SUBSET Nat, seen: SUBSET Keys(t)]
    <3>1. line.key \in Keys(t)
      BY <1>1, <1>4, <1>10 DEF WellFormed
    <3>2. a.seen \cup {line.key} \in SUBSET Keys(t)
      BY <1>2, <3>1
    <3>3. Append(a.lines, new) \in Seq(ImportLines(t))
      BY <1>2, <2>3
    <3> HIDE DEF line, new, b, n
    <3> QED BY <1>1, <1>2, <2>2, <3>2, <3>3
  <2>7. b.n = i /\ b.errors = {x \in O : x <= i}
    BY <1>2, <2>2, <2>5 DEF ReadUpTo
  <2>8. b.seen = {file[x].key : x \in {y \in F : y <= i}}
    <3>1. {y \in F : y <= i} = {y \in F : y <= i - 1} \cup {i}
      BY <1>3, <1>10
    <3>2. b.seen = a.seen \cup {line.key}
      BY <1>2, <2>2
    <3>3. a.seen = {file[x].key : x \in {y \in F : y <= i - 1}}
      BY DEF ReadUpTo
    <3> HIDE DEF F, b
    <3> QED BY <3>1, <3>2, <3>3
  <2>9. ASSUME NEW x \in F, x <= i
        PROVE  \E l \in 1..Len(b.lines) : b.lines[l] = LineOf(t, file, x)
    <3>1. CASE x = i
      BY <2>4, <3>1
    <3>2. CASE x # i
      <4>1. PICK l \in 1..n : a.lines[l] = LineOf(t, file, x)
        BY <1>3, <2>9, <3>2 DEF ReadUpTo
      <4> QED BY <2>4, <4>1
    <3> QED BY <3>1, <3>2
  <2>10. ASSUME NEW l \in 1..Len(b.lines)
         PROVE  \E x \in F : x <= i /\ b.lines[l] = LineOf(t, file, x)
    <3>1. CASE l = n + 1
      BY <1>1, <1>10, <2>4, <3>1
    <3>2. CASE l # n + 1
      <4>1. l \in 1..n
        BY <2>4, <3>2
      <4>2. PICK x \in F : x <= i - 1 /\ a.lines[l] = LineOf(t, file, x)
        BY <4>1 DEF ReadUpTo
      <4> QED BY <1>3, <2>4, <4>1, <4>2
    <3> QED BY <3>1, <3>2
  <2>11. \A l \in 1..n : a.lines[l].key \in a.seen
    <3> SUFFICES ASSUME NEW l \in 1..n PROVE a.lines[l].key \in a.seen
      OBVIOUS
    <3>1. PICK x \in F : x <= i - 1 /\ a.lines[l] = LineOf(t, file, x)
      BY DEF ReadUpTo
    <3>2. a.lines[l].key = file[x].key
      BY <3>1 DEF LineOf
    <3> QED BY <3>1, <3>2 DEF ReadUpTo
  <2>12. new.key = line.key /\ line.key \notin a.seen
    BY <1>4, <1>10 DEF LineOf
  <2>13. ASSUME NEW l \in 1..(n + 1), NEW m \in 1..(n + 1), b.lines[l].key = b.lines[m].key
         PROVE  l = m
    <3>1. \A x \in 1..(n + 1) : x \in 1..n \/ x = n + 1
      BY <2>4
    <3>2. \A x, y \in 1..n : a.lines[x].key = a.lines[y].key => x = y
      BY DEF ReadUpTo
    <3> HIDE DEF b, new, n
    <3> QED BY <2>4, <2>11, <2>12, <2>13, <3>1, <3>2
  <2> HIDE DEF b, F, O, new, n
  <2> QED BY <2>4, <2>6, <2>7, <2>8, <2>9, <2>10, <2>13 DEF ReadUpTo, F, O
<1> QED BY <1>4, <1>6, <1>8, <1>9, <1>10

\* The parser accepts, in a list, the first well-formed line of each key, and reports
\* every other line that is not blank.
LEMMA ParseFileReads ==
    ASSUME NEW t \in Tables, NEW file \in Seq(FileLine(t))
    PROVE  ReadUpTo(t, file, ParseFile(t, file), Len(file))
<1>1. Len(file) \in Nat /\ DOMAIN file = 1..Len(file)
  OBVIOUS
<1>2. PICK acc : /\ acc[0] = NothingRead
                 /\ \A i \in 1..Len(file) : acc[i] = ReadOn(t, file, acc[i - 1], i)
                 /\ acc[Len(file)] = ParseFile(t, file)
  BY <1>1, ParseFileSteps
<1>3. ReadUpTo(t, file, acc[0], 0)
  <2>1. FirstLines(t, file) \subseteq 1..Len(file) /\ OtherLines(t, file) \subseteq 1..Len(file)
    BY <1>1 DEF FirstLines, OtherLines
  <2>2. \A x \in FirstLines(t, file) \cup OtherLines(t, file) : ~(x <= 0)
    BY <1>1, <2>1
  <2>3. <<>> \in Seq(ImportLines(t)) /\ Len(<<>>) = 0
    OBVIOUS
  <2> QED BY <1>2, <2>2, <2>3 DEF ReadUpTo, NothingRead
<1> DEFINE T == {i \in 0..Len(file) : ~ReadUpTo(t, file, acc[i], i)}
<1>4. T = {}
  <2> SUFFICES ASSUME T # {} PROVE FALSE
    OBVIOUS
  <2>1. T \in SUBSET Nat
    BY <1>1
  <2>2. PICK i \in T : \A m \in T : i <= m
    BY <2>1, LeastNumber
  <2>3. i \in 1..Len(file)
    BY <1>1, <1>3, <2>2
  <2>4. i - 1 \in 0..Len(file) /\ i - 1 \notin T
    BY <1>1, <2>2, <2>3
  <2>5. ReadUpTo(t, file, acc[i - 1], i - 1)
    BY <2>4
  <2>6. ReadUpTo(t, file, acc[i], i)
    BY <1>1, <1>2, <2>3, <2>5, ReadsNextLine
  <2> QED BY <2>2, <2>6
<1> QED BY <1>1, <1>2, <1>4

-----------------------------------------------------------------------------
(***************************************************************************)
(* What a request q remembers of its job                                   *)
(***************************************************************************)

Fields == {"pc", "lines", "at", "errors", "read", "want", "sent", "new", "held", "target", "sawOpen"}
Written(q) == q.sent \cup q.new
Carries(job) == job.kind \in {"create", "update"} /\ job.terms
PolicyKinds  == {"createPolicy", "updatePolicy"}

Shaped(q) ==
    /\ q = [f \in Fields |-> q[f]]
    /\ q.pc \in Pc /\ q.held \subseteq Locks /\ q.target \in Requests \cup {0}

\* How far a request of its kind may be.
OnItsWay(job, q) ==
    /\ q.pc = "sent" => q = Unsent
    /\ q.pc \in Ended => q.held = {}
    /\ q.pc = "rows" => job.kind \in RowKinds /\ q.target = 0
    /\ q.pc = "policy" => (job.kind \in PolicyKinds \/ Carries(job)) /\ q.target \in Requests
    /\ q.pc = "commit" =>
           \/ (job.kind \in PolicyKinds \/ Carries(job)) /\ q.target \in Requests
           \/ job.kind = "feedback" /\ q.target = 0
    /\ q.pc \in {"case", "refused"} => job.kind = "feedback"
    /\ q.pc = "case" => q.held = {} /\ q.target = 0
    /\ job.kind \notin RowKinds =>
           q.lines = <<>> /\ q.read = <<>> /\ q.want = <<>> /\ Written(q) = {} /\ q.sawOpen = {}

\* The lines a request has accepted and the rows it has read for them.
LinesRead(job, q) ==
    LET t == job.table
        N == 1..Len(q.lines) IN
    /\ Len(q.lines) \in Nat /\ DOMAIN q.lines = N
    /\ \A i \in N : q.lines[i].key \in Keys(t) /\ FormCells(t, q.lines[i].cells)
    /\ \A i, j \in N : q.lines[i].key = q.lines[j].key => i = j
    /\ DOMAIN q.read = {q.lines[i].key : i \in N}
    /\ \A k \in DOMAIN q.read : q.read[k] \in Row(t)
    /\ job.kind \in {"import", "create"} => \A i \in N : q.lines[i].cells \in Cells(t)
    /\ job.kind = "update" => \A k \in DOMAIN q.read : Exists(q.read[k])
    /\ job.kind \in {"create", "update"} => \A i \in N : q.lines[i] = job.row
    /\ job.kind = "import" /\ q.pc # "sent" =>
           /\ q.errors = OtherLines(t, job.file)
           /\ \A x \in FirstLines(t, job.file) : \E i \in N : q.lines[i] = LineOf(t, job.file, x)
           /\ \A i \in N : \E x \in FirstLines(t, job.file) : q.lines[i] = LineOf(t, job.file, x)

\* The rows it wants: those of the lines before the next.
Wanted(job, q) ==
    LET done == 1..(q.at - 1) IN
    /\ q.at \in 1..(Len(q.lines) + 1)
    /\ DOMAIN q.want = {q.lines[i].key : i \in done}
    /\ \A i \in done :
           /\ q.want[q.lines[i].key] \in Cells(job.table)
           /\ \A c \in DOMAIN q.lines[i].cells : q.want[q.lines[i].key][c] = q.lines[i].cells[c]
    /\ q.new = {k \in DOMAIN q.want : ~Exists(q.read[k])}
    /\ q.sent \subseteq DOMAIN q.want \ q.new
    /\ q.sawOpen \subseteq DOMAIN q.want

\* It has locked what it has written, and the open case of everybody it makes leave.
Locked(job, q) ==
    q.pc \notin Ended =>
        /\ \A k \in Written(q) : <<job.table, k>> \in q.held
        /\ job.table = "employee" => \A e \in q.sawOpen :
               /\ Exists(q.read[e])
               /\ q.want[e].employment_status = "LEFT"
               /\ q.read[e].cells.employment_status # "LEFT"
               => <<"case", e>> \in q.held

RequestOK(job, q) ==
    /\ OnItsWay(job, q)
    /\ LinesRead(job, q)
    /\ Wanted(job, q)
    /\ Locked(job, q)

\* The rows R of the table have not changed since it read them unless they have a later
\* version, and nobody has inserted the rows it has.
AsRead(q, R) ==
    q.pc \notin Ended => \A k \in DOMAIN q.read :
        /\ Exists(q.read[k]) =>
               /\ R[k].updated >= q.read[k].updated
               /\ R[k].updated = q.read[k].updated => R[k] = q.read[k]
        /\ k \in q.new => ~Exists(R[k])

(***************************************************************************)
(* The invariant                                                           *)
(***************************************************************************)

ScanType ==
    [pc: {"idle", "lock", "done"}, touched: SUBSET Employees, stale: SUBSET Employees,
     opening: SUBSET Employees, todo: SUBSET Employees, held: SUBSET Employees]

WellTyped ==
    /\ rows = [t \in Tables |-> rows[t]] /\ \A t \in Tables : rows[t] \in [Keys(t) -> Row(t)]
    /\ case \in [Employees -> Case]
    /\ DOMAIN policy \subseteq Requests /\ policy \in [DOMAIN policy -> Policy]
    /\ cast \in Casts
    /\ req = [r \in Requests |-> req[r]] /\ \A r \in Requests : Shaped(req[r])
    /\ loop # NoOne => /\ loop \in DOMAIN cast.job
                       /\ Job(loop).kind = "import" /\ req[loop].pc = "rows"
    /\ scan \in ScanType /\ scan.todo \cap scan.held = {}
    /\ scan.pc = "idle" => scan.held = {}

RequestsOK ==
    /\ \A r \in Requests \ DOMAIN cast.job : req[r] = Unsent
    /\ \A r \in DOMAIN cast.job : RequestOK(Job(r), req[r]) /\ AsRead(req[r], rows[Table(r)])

LocksExclude ==
    /\ \A r, q \in Requests : r # q => req[r].held \cap req[q].held = {}
    /\ \A r \in Requests, e \in Employees : <<"case", e>> \in req[r].held => e \notin scan.held

T == "certificate_type"
HasName(row, n) == Exists(row) /\ row.cells.name = n

\* A request sees distinct names, has locked those it sets, and whatever name it has
\* locked it sets or gives up.
NamesOf(r) ==
    /\ Table(r) = T /\ req[r].pc \notin Ended =>
           /\ \A j, k \in Types, n \in Nat :
                  HasName(RowWritten(r, j), n) /\ HasName(RowWritten(r, k), n) => j = k
           /\ \A n \in Nat : <<"name", n>> \in req[r].held =>
                  \E k \in Types : /\ <<T, k>> \in req[r].held
                                   /\ HasName(rows[T][k], n) \/ HasName(RowWritten(r, k), n)
           /\ \A k \in Types, n \in Nat :
                  HasName(RowWritten(r, k), n) /\ ~HasName(rows[T][k], n) => <<"name", n>> \in req[r].held
    /\ Table(r) # T => \A n \in Nat : <<"name", n>> \notin req[r].held

NamesOfTypes ==
    /\ \A j, k \in Types, n \in Nat : HasName(rows[T][j], n) /\ HasName(rows[T][k], n) => j = k
    /\ \A r \in DOMAIN cast.job : NamesOf(r)

DefaultOf(x, t) == CarriesTerms(x) /\ ~policy[x].moved /\ policy[x].type = t

\* A request that adds a default policy with its type locked knows of no other that was.
AddsFirst(r) ==
    req[r].pc \in {"policy", "commit"} /\ req[r].target \notin DOMAIN policy \cup {0} =>
        /\ req[r].target = r /\ Job(r).kind # "updatePolicy"
        /\ CarriesTerms(r) /\ Job(r).row.key \in Written(req[r]) =>
               \A p \in DOMAIN policy :
                   DefaultOf(p, Job(r).row.key) => Job(r).row.key \notin Written(req[p])

PoliciesOK ==
    /\ \A p \in DOMAIN policy : p \in DOMAIN cast.job /\ req[p].pc = "done"
    /\ \A p \in DOMAIN policy : CarriesTerms(p) /\ ~policy[p].moved => policy[p].type = Job(p).row.key
    /\ \A r \in DOMAIN cast.job : AddsFirst(r)

MasterInv ==
    WellTyped /\ RequestsOK /\ LocksExclude /\ NamesOfTypes /\ PoliciesOK /\ TwoDefaultsNeedAnIdleType

-----------------------------------------------------------------------------
(***************************************************************************)
(* Rows and cells                                                          *)
(***************************************************************************)

LEMMA JobsAsked ==
    ASSUME WellTyped
    PROVE  /\ DOMAIN cast.job \subseteq Requests
           /\ \A r \in DOMAIN cast.job : JobOK(Job(r)) /\ Table(r) \in Tables
           /\ 0 \notin Requests
<1>1. cast \in Casts
  BY DEF WellTyped
<1>2. DOMAIN cast.job \subseteq Requests /\ \A r \in DOMAIN cast.job : JobOK(cast.job[r])
  BY <1>1, MasterAssumption
<1> QED BY <1>2, MasterAssumption DEF Job, Table, JobOK

LEMMA RowFacts ==
    ASSUME NEW t \in Tables, NEW row \in Row(t)
    PROVE  /\ row.updated \in Nat /\ (Exists(row) <=> row # Absent)
           /\ Exists(row) => row.cells \in Cells(t) /\ row = [cells |-> row.cells, updated |-> row.updated]
BY DEF Row, Exists, Absent

LEMMA CellFacts ==
    ASSUME NEW t \in Tables, NEW cells \in Cells(t)
    PROVE  /\ DOMAIN cells = DOMAIN Columns(t) /\ cells = [c \in DOMAIN Columns(t) |-> cells[c]]
           /\ \A c \in DOMAIN Columns(t) : cells[c] \in Columns(t)[c]
           /\ "name" \in DOMAIN cells /\ cells.name \in Nat
<1>1. CASE t = "employee"
  BY <1>1 DEF Cells, Columns
<1>2. CASE t = "certificate_type"
  BY <1>2 DEF Cells, Columns
<1> QED BY <1>1, <1>2 DEF Tables

LEMMA CellsFromColumns ==
    ASSUME NEW t \in Tables, NEW cells, cells = [c \in DOMAIN Columns(t) |-> cells[c]],
           \A c \in DOMAIN Columns(t) : cells[c] \in Columns(t)[c]
    PROVE  cells \in Cells(t)
<1>1. CASE t = "employee"
  <2>1. DOMAIN Columns(t) = {"name", "employment_status"}
    BY <1>1 DEF Columns
  <2>2. cells.name \in Nat /\ cells.employment_status \in EmploymentStatus
    BY <1>1 DEF Columns
  <2>3. cells = [name |-> cells.name, employment_status |-> cells.employment_status]
    BY <2>1
  <2> QED BY <1>1, <2>2, <2>3 DEF Cells
<1>2. CASE t = "certificate_type"
  <2>1. DOMAIN Columns(t) = {"name", "force_manual_review"}
    BY <1>2 DEF Columns
  <2>2. cells.name \in Nat /\ cells.force_manual_review \in BOOLEAN
    BY <1>2 DEF Columns
  <2>3. cells = [name |-> cells.name, force_manual_review |-> cells.force_manual_review]
    BY <2>1
  <2> QED BY <1>2, <2>2, <2>3 DEF Cells
<1> QED BY <1>1, <1>2 DEF Tables


LEMMA FullIsForm ==
    ASSUME NEW t \in Tables, NEW cells \in Cells(t)
    PROVE  FormCells(t, cells)
BY CellFacts DEF FormCells

\* A row as its writer leaves it.
LEMMA RowWrittenTyped ==
    ASSUME WellTyped, RequestsOK, NEW r \in DOMAIN cast.job, NEW k \in Keys(Table(r)),
           req[r].pc \notin Ended
    PROVE  LET t == Table(r) IN
           /\ RowWritten(r, k) \in Row(t)
           /\ Exists(rows[t][k]) => Exists(RowWritten(r, k))
           /\ k \in Written(req[r]) => /\ Exists(RowWritten(r, k))
                                       /\ RowWritten(r, k).updated > rows[t][k].updated
           /\ k \notin Written(req[r]) => RowWritten(r, k) = rows[t][k]
           /\ k \in req[r].new =>
                  /\ ~Exists(rows[t][k]) /\ RowWritten(r, k).cells = req[r].want[k]
           /\ k \in req[r].sent =>
                  /\ Exists(rows[t][k]) /\ Exists(req[r].read[k])
                  /\ \A c \in DOMAIN Columns(t) :
                        RowWritten(r, k).cells[c] = IF c \in Dirty(r, k) THEN req[r].want[k][c]
                                                    ELSE rows[t][k].cells[c]
<1> DEFINE t   == Table(r)
           q   == req[r]
           now == rows[t][k]
<1>1. t \in Tables /\ now \in Row(t) /\ t = Job(r).table
  BY JobsAsked DEF WellTyped, Table
<1>2. RequestOK(Job(r), q) /\ AsRead(q, rows[t])
  BY DEF RequestsOK
<1>3. q.new \cap q.sent = {} /\ \A j \in q.new : ~Exists(q.read[j])
  BY <1>2 DEF RequestOK, Wanted
<1>4. \A j \in DOMAIN q.want : j \in DOMAIN q.read /\ q.want[j] \in Cells(t) /\ q.read[j] \in Row(t)
  <2> SUFFICES ASSUME NEW j \in DOMAIN q.want
               PROVE  j \in DOMAIN q.read /\ q.want[j] \in Cells(t) /\ q.read[j] \in Row(t)
    OBVIOUS
  <2>1. PICK i \in 1..(q.at - 1) : j = q.lines[i].key
    BY <1>2 DEF RequestOK, Wanted
  <2>2. i \in 1..Len(q.lines)
    BY <1>2, <2>1 DEF RequestOK, Wanted, LinesRead
  <2> QED BY <1>1, <1>2, <2>1, <2>2 DEF RequestOK, Wanted, LinesRead
<1>5. q.new \subseteq DOMAIN q.want /\ q.sent \subseteq DOMAIN q.want
  BY <1>2 DEF RequestOK, Wanted
<1>6. CASE k \in q.new
  <2>1. RowWritten(r, k) = [cells |-> q.want[k], updated |-> 1]
    BY <1>3, <1>6 DEF RowWritten
  <2>2. ~Exists(now) /\ now.updated = 0
    BY <1>1, <1>2, <1>4, <1>5, <1>6, RowFacts DEF AsRead, Exists
  <2>3. q.want[k] \in Cells(t)
    BY <1>4, <1>5, <1>6
  <2> QED BY <1>3, <1>6, <2>1, <2>2, <2>3 DEF Row, Exists, Written
<1>7. CASE k \in q.sent
  <2>1. RowWritten(r, k) =
            [cells |-> [c \in DOMAIN now.cells |-> IF c \in Dirty(r, k) THEN q.want[k][c] ELSE now.cells[c]],
             updated |-> now.updated + 1]
    BY <1>3, <1>7 DEF RowWritten
  <2>2. k \in DOMAIN q.read /\ Exists(q.read[k]) /\ q.read[k] \in Row(t) /\ q.want[k] \in Cells(t)
    BY <1>2, <1>4, <1>5, <1>7 DEF RequestOK, Wanted
  <2>3. Exists(now)
    BY <1>1, <1>2, <2>2, RowFacts DEF AsRead, Exists
  <2>4. now.cells \in Cells(t) /\ now.updated \in Nat
    BY <1>1, <2>3, RowFacts
  <2>5. /\ DOMAIN now.cells = DOMAIN Columns(t) /\ DOMAIN q.want[k] = DOMAIN Columns(t)
        /\ \A c \in DOMAIN Columns(t) : q.want[k][c] \in Columns(t)[c]
    BY <1>1, <2>2, <2>4, CellFacts
  <2>6. [c \in DOMAIN now.cells |-> IF c \in Dirty(r, k) THEN q.want[k][c] ELSE now.cells[c]] \in Cells(t)
    <3> DEFINE cells == [c \in DOMAIN now.cells |-> IF c \in Dirty(r, k) THEN q.want[k][c] ELSE now.cells[c]]
    <3>1. \A c \in DOMAIN Columns(t) : now.cells[c] \in Columns(t)[c]
      BY <1>1, <2>4, CellFacts
    <3>2. cells = [c \in DOMAIN Columns(t) |-> cells[c]]
      BY <2>5
    <3>3. \A c \in DOMAIN Columns(t) : cells[c] \in Columns(t)[c]
      BY <2>5, <3>1
    <3> HIDE DEF cells
    <3>4. cells \in Cells(t)
      BY <1>1, <3>2, <3>3, CellsFromColumns
    <3> QED BY <3>4 DEF cells
  <2>7. now.updated + 1 \in Nat \ {0}
    BY <2>4
  <2> HIDE DEF now, q, t
  <2> QED BY <1>3, <1>7, <2>1, <2>2, <2>3, <2>4, <2>5, <2>6, <2>7 DEF Row, Exists, Written, q, t, now
<1>8. CASE k \notin Written(q)
  <2>1. RowWritten(r, k) = now
    BY <1>8 DEF RowWritten, Written
  <2> QED BY <1>1, <1>8, <2>1 DEF Written
<1> QED BY <1>6, <1>7, <1>8 DEF Written

-----------------------------------------------------------------------------
(***************************************************************************)
(* The first state                                                         *)
(***************************************************************************)

LEMMA UnsentShape ==
    Shaped(Unsent) /\ Written(Unsent) = {} /\ Unsent.pc = "sent" /\ Unsent.held = {}
        /\ Unsent.target = 0 /\ DOMAIN Unsent.read = {}
<1>1. Unsent = [f \in Fields |-> Unsent[f]]
  BY DEF Unsent, Fields
<1>2. Unsent.pc \in Pc /\ Unsent.held \subseteq Locks /\ Unsent.target \in Requests \cup {0}
  BY DEF Unsent, Pc
<1>3. Written(Unsent) = {} /\ Unsent.pc = "sent" /\ Unsent.held = {} /\ Unsent.target = 0
  BY DEF Unsent, Written
<1>4. DOMAIN Unsent.read = {}
  BY DEF Unsent
<1> QED BY <1>1, <1>2, <1>3, <1>4 DEF Shaped

LEMMA UnsentOK ==
    ASSUME NEW job, job.table \in Tables
    PROVE  RequestOK(job, Unsent)
<1>1. /\ Unsent.lines = <<>> /\ Unsent.read = <<>> /\ Unsent.want = <<>> /\ Unsent.at = 1
      /\ Unsent.sent = {} /\ Unsent.new = {} /\ Unsent.sawOpen = {} /\ Unsent.pc = "sent"
  BY DEF Unsent
<1>2. Len(<<>>) = 0 /\ DOMAIN <<>> = {} /\ 1..0 = {} /\ 1..(1 - 1) = {} /\ 1 \in 1..(0 + 1)
  OBVIOUS
<1>3. OnItsWay(job, Unsent)
  BY <1>1 DEF OnItsWay, Written, Ended
<1>4. LinesRead(job, Unsent)
  BY <1>1, <1>2 DEF LinesRead
<1>5. Wanted(job, Unsent)
  BY <1>1, <1>2 DEF Wanted
<1>6. Locked(job, Unsent)
  BY <1>1 DEF Locked, Written
<1> QED BY <1>3, <1>4, <1>5, <1>6 DEF RequestOK

LEMMA MasterInit == Init => MasterInv
<1> SUFFICES ASSUME Init PROVE MasterInv
  OBVIOUS
<1> DEFINE Start(t, k) == IF k \in cast.existing THEN [cells |-> InitialCells(t, k), updated |-> 1] ELSE Absent
<1>1. ASSUME NEW t \in Tables, NEW k \in Keys(t)
      PROVE  /\ rows[t][k] = Start(t, k) /\ Start(t, k) \in Row(t) /\ InitialCells(t, k).name = 10 + k
             /\ k \in Nat
  <2>1. k \in Nat
    BY MasterAssumption DEF Keys
  <2>2. InitialCells(t, k) \in Cells(t) /\ InitialCells(t, k).name = 10 + k
    <3>1. 10 + k \in Nat /\ "ACTIVE" \in EmploymentStatus
      BY <2>1 DEF EmploymentStatus
    <3>2. CASE t = "employee"
      BY <3>1, <3>2 DEF InitialCells, Cells
    <3>3. CASE t # "employee"
      BY <3>1, <3>3 DEF InitialCells, Cells
    <3> QED BY <3>2, <3>3
  <2>3. Start(t, k) \in Row(t)
    BY <2>2 DEF Row
  <2> QED BY <2>1, <2>2, <2>3 DEF Init
<1>2. /\ \A r \in Requests : req[r] = Unsent
      /\ loop = 0 /\ cast \in Casts /\ DOMAIN policy = {}
  BY DEF Init, NoOne
<1>3. WellTyped
  <2>1. rows = [t \in Tables |-> rows[t]]
    BY DEF Init
  <2>2. \A t \in Tables : rows[t] \in [Keys(t) -> Row(t)]
    <3> SUFFICES ASSUME NEW t \in Tables PROVE rows[t] \in [Keys(t) -> Row(t)]
      OBVIOUS
    <3>1. rows[t] = [k \in Keys(t) |-> Start(t, k)]
      BY DEF Init
    <3>2. \A k \in Keys(t) : Start(t, k) \in Row(t)
      BY <1>1
    <3> HIDE DEF Start
    <3> QED BY <3>1, <3>2
  <2>3. case \in [Employees -> Case]
    BY DEF Init, Case, NoCase
  <2>4. DOMAIN policy \subseteq Requests /\ policy \in [DOMAIN policy -> Policy]
    BY DEF Init
  <2>5. req = [r \in Requests |-> req[r]] /\ \A r \in Requests : Shaped(req[r])
    BY <1>2, UnsentShape DEF Init
  <2>6. scan \in ScanType /\ scan.todo \cap scan.held = {} /\ scan.held = {}
    BY DEF Init, NoScan, ScanType
  <2> QED BY <1>2, <2>1, <2>2, <2>3, <2>4, <2>5, <2>6 DEF WellTyped, NoOne
<1>4. RequestsOK
  BY <1>2, <1>3, JobsAsked, UnsentOK, UnsentShape DEF RequestsOK, AsRead, Job, JobOK
<1>5. LocksExclude
  BY <1>2, UnsentShape DEF LocksExclude
<1>6. NamesOfTypes
  <2>1. ASSUME NEW j \in Types, NEW k \in Types, NEW n \in Nat,
               HasName(rows[T][j], n), HasName(rows[T][k], n)
        PROVE  j = k
    <3>1. T \in Tables /\ Types = Keys(T)
      BY DEF T, Tables, Keys
    <3>2. ASSUME NEW i \in Types
          PROVE  i \in Nat /\ (HasName(rows[T][i], n) => n = 10 + i)
      <4>1. /\ rows[T][i] = Start(T, i) /\ InitialCells(T, i).name = 10 + i
            /\ i \in Nat
        BY <1>1, <3>1
      <4> QED BY <4>1 DEF HasName, Exists, Absent
    <3> QED BY <2>1, <3>2
  <2>2. ASSUME NEW r \in DOMAIN cast.job, NEW k
        PROVE  RowWritten(r, k) = rows[Table(r)][k]
    <3>1. req[r].new = {} /\ req[r].sent = {}
      BY <1>2, <1>3, JobsAsked DEF Unsent
    <3> QED BY <3>1 DEF RowWritten
  <2>3. \A r \in DOMAIN cast.job : req[r].held = {}
    BY <1>2, <1>3, JobsAsked, UnsentShape
  <2> QED BY <2>1, <2>2, <2>3 DEF NamesOfTypes, NamesOf
<1>7. PoliciesOK
  BY <1>2, <1>3, JobsAsked, UnsentShape DEF PoliciesOK, AddsFirst
<1>8. TwoDefaultsNeedAnIdleType
  BY <1>2 DEF TwoDefaultsNeedAnIdleType
<1> QED BY <1>3, <1>4, <1>5, <1>6, <1>7, <1>8 DEF MasterInv

-----------------------------------------------------------------------------
(***************************************************************************)
(* A step of one request that commits nothing                              *)
(***************************************************************************)

LEMMA SameView ==
    ASSUME NEW p, req'[p] = req[p], UNCHANGED <<rows, cast>>
    PROVE  /\ Job(p)' = Job(p) /\ Table(p)' = Table(p) /\ CarriesTerms(p)' = CarriesTerms(p)
           /\ \A k : RowWritten(p, k)' = RowWritten(p, k)
BY DEF Job, Table, CarriesTerms, RowWritten, Dirty

\* What another request remembers stays true while nothing is committed.
LEMMA OthersKeepNames ==
    ASSUME NEW p, req'[p] = req[p], UNCHANGED <<rows, cast>>, NamesOf(p)
    PROVE  NamesOf(p)'
<1>1. Table(p)' = Table(p) /\ \A k : RowWritten(p, k)' = RowWritten(p, k)
  BY SameView
<1> QED BY <1>1 DEF NamesOf, HasName, Exists

\* r writes no row.
LEMMA KeepsNames ==
    ASSUME NEW r \in DOMAIN cast.job, NEW q, req'[r] = q, UNCHANGED <<rows, cast>>,
           NamesOf(r), req[r].pc \notin Ended,
           q.pc \in Ended => q.held = {},
           q.pc \notin Ended =>
               /\ q.sent = req[r].sent /\ q.new = req[r].new
               /\ \A k \in Written(q) : q.want[k] = req[r].want[k] /\ q.read[k] = req[r].read[k]
               /\ \A n \in Nat : <<"name", n>> \in q.held <=> <<"name", n>> \in req[r].held
               /\ \A k \in Types : <<T, k>> \in req[r].held => <<T, k>> \in q.held
    PROVE  NamesOf(r)'
<1>1. Table(r)' = Table(r)
  BY DEF Table, Job
<1>2. CASE q.pc \in Ended
  BY <1>1, <1>2 DEF NamesOf
<1>3. CASE q.pc \notin Ended
  <2>1. \A k : RowWritten(r, k)' = RowWritten(r, k)
    BY <1>1, <1>3 DEF RowWritten, Dirty, Written
  <2> QED BY <1>1, <1>3, <2>1 DEF NamesOf, HasName, Exists
<1> QED BY <1>2, <1>3

LEMMA QuietStep ==
    ASSUME MasterInv, NEW r \in DOMAIN cast.job, NEW q, Set(r, q), UNCHANGED <<data, cast, scan>>,
           req[r].pc \notin Ended,
           loop' \in {loop, NoOne} \/ (loop' = r /\ Job(r).kind = "import"),
           loop' = r => q.pc = "rows",
           Shaped(q), RequestOK(Job(r), q), AsRead(q, rows[Table(r)]),
           \A l \in q.held \ req[r].held : Free(l, r),
           NamesOf(r)', AddsFirst(r)'
    PROVE  MasterInv'
<1>1. /\ r \in Requests /\ req'[r] = q /\ \A p \in Requests \ {r} : req'[p] = req[p]
      /\ req' = [p \in Requests |-> req'[p]]
      /\ rows' = rows /\ case' = case /\ policy' = policy /\ cast' = cast /\ scan' = scan
  BY JobsAsked DEF MasterInv, WellTyped, Set, data
<1>2. \A p : Job(p)' = Job(p) /\ Table(p)' = Table(p) /\ CarriesTerms(p)' = CarriesTerms(p)
  BY <1>1 DEF Job, Table, CarriesTerms
<1>3. DOMAIN cast.job \subseteq Requests
  BY JobsAsked DEF MasterInv
<1>4. WellTyped'
  <2>1. \A p \in Requests : Shaped(req'[p])
    BY <1>1 DEF MasterInv, WellTyped
  <2>2. loop' # NoOne => /\ loop' \in DOMAIN cast.job
                         /\ cast.job[loop'].kind = "import" /\ req'[loop'].pc = "rows"
    BY <1>1, <1>2, <1>3 DEF MasterInv, WellTyped, Job
  <2> QED BY <1>1, <2>1, <2>2 DEF MasterInv, WellTyped, Job
<1>5. RequestsOK'
  BY <1>1, <1>2, <1>3 DEF MasterInv, RequestsOK
<1>6. LocksExclude'
  <2>1. ASSUME NEW l \in q.held PROVE \A p \in Requests \ {r} : l \notin req[p].held
    BY <1>1, <2>1 DEF MasterInv, LocksExclude, Free
  <2>2. ASSUME NEW e \in Employees, <<"case", e>> \in q.held PROVE e \notin scan.held
    BY <1>1, <2>2 DEF MasterInv, LocksExclude, Free
  <2> QED BY <1>1, <2>1, <2>2 DEF MasterInv, LocksExclude
<1>7. NamesOfTypes'
  <2>1. \A p \in DOMAIN cast.job \ {r} : NamesOf(p)'
    BY <1>1, <1>3, OthersKeepNames DEF MasterInv, NamesOfTypes
  <2> QED BY <1>1, <2>1 DEF MasterInv, NamesOfTypes
<1>8. \A p \in DOMAIN policy : p # r /\ req'[p] = req[p]
  BY <1>1, <1>3 DEF MasterInv, PoliciesOK, Ended
<1>9. PoliciesOK'
  <2>1. \A p \in DOMAIN cast.job \ {r} : AddsFirst(p)'
    BY <1>1, <1>2, <1>3, <1>8 DEF MasterInv, PoliciesOK, AddsFirst, DefaultOf
  <2> QED BY <1>1, <1>2, <1>8, <2>1 DEF MasterInv, PoliciesOK
<1>10. TwoDefaultsNeedAnIdleType'
  BY <1>1, <1>2, <1>8 DEF MasterInv, TwoDefaultsNeedAnIdleType
<1> QED BY <1>4, <1>5, <1>6, <1>7, <1>9, <1>10 DEF MasterInv

\* The parts of RequestOK that do not depend on fields that change.
LEMMA SameLines ==
    ASSUME NEW job, NEW q, NEW p, LinesRead(job, p),
           q.lines = p.lines, q.read = p.read, q.errors = p.errors,
           q.pc # "sent" => p.pc # "sent"
    PROVE  LinesRead(job, q)
BY DEF LinesRead

LEMMA SameWants ==
    ASSUME NEW job, NEW q, NEW p, Wanted(job, p),
           q.lines = p.lines, q.read = p.read, q.at = p.at, q.want = p.want,
           q.new = p.new, q.sent = p.sent, q.sawOpen = p.sawOpen
    PROVE  Wanted(job, q)
BY DEF Wanted

LEMMA Known ==
    ASSUME MasterInv, NEW r \in DOMAIN cast.job
    PROVE  /\ r \in Requests /\ JobOK(Job(r)) /\ Table(r) \in Tables /\ Table(r) = Job(r).table
           /\ Shaped(req[r]) /\ DOMAIN req[r] = Fields
           /\ OnItsWay(Job(r), req[r]) /\ LinesRead(Job(r), req[r])
           /\ Wanted(Job(r), req[r]) /\ Locked(Job(r), req[r])
           /\ AsRead(req[r], rows[Table(r)])
           /\ NamesOf(r) /\ AddsFirst(r)
           /\ r \in DOMAIN policy => req[r].pc = "done"
           /\ loop = r => Job(r).kind = "import" /\ req[r].pc = "rows"
           /\ 0 \notin Requests
<1>1. r \in Requests /\ JobOK(Job(r)) /\ Table(r) \in Tables /\ Table(r) = Job(r).table /\ 0 \notin Requests
  BY JobsAsked DEF MasterInv, Table
<1>2. Shaped(req[r]) /\ DOMAIN req[r] = Fields /\ (loop = r => Job(r).kind = "import" /\ req[r].pc = "rows")
  BY <1>1 DEF MasterInv, WellTyped, Shaped, NoOne
<1> QED BY <1>1, <1>2 DEF MasterInv, RequestsOK, RequestOK, NamesOfTypes, PoliciesOK

LEMMA AbortStep ==
    ASSUME MasterInv, NEW r \in DOMAIN cast.job, NEW pc \in Ended, Abort(r, pc),
           req[r].pc \notin Ended \cup {"sent"}
    PROVE  MasterInv'
<1> DEFINE q == [req[r] EXCEPT !.pc = pc, !.held = {}]
<1>1. /\ q.pc = pc /\ q.held = {} /\ Shaped(q)
      /\ \A f \in Fields \ {"pc", "held"} : q[f] = req[r][f]
  BY Known DEF Shaped, Fields, Ended, Pc
<1>2. Set(r, q) /\ UNCHANGED <<data, cast, scan>> /\ loop' = IF loop = r THEN NoOne ELSE loop
  BY DEF Abort
<1> HIDE DEF q
<1>3. RequestOK(Job(r), q)
  <2>1. OnItsWay(Job(r), q)
    BY <1>1, Known DEF OnItsWay, Ended, Fields, Written
  <2>2. LinesRead(Job(r), q)
    BY <1>1, Known, SameLines DEF Fields
  <2>3. Wanted(Job(r), q)
    BY <1>1, Known, SameWants DEF Fields
  <2>4. Locked(Job(r), q)
    BY <1>1 DEF Locked
  <2> QED BY <2>1, <2>2, <2>3, <2>4 DEF RequestOK
<1>4. AsRead(q, rows[Table(r)])
  BY <1>1 DEF AsRead
<1>5. req'[r] = q
  BY <1>2, Known DEF MasterInv, WellTyped, Set
<1>6. NamesOf(r)'
  BY <1>1, <1>2, <1>5, Known, KeepsNames DEF data
<1>7. AddsFirst(r)'
  BY <1>1, <1>5 DEF AddsFirst, Ended
<1>8. loop' # r
  BY <1>2, Known DEF NoOne
<1> QED BY <1>1, <1>2, <1>3, <1>4, <1>6, <1>7, <1>8, QuietStep DEF NoOne

-----------------------------------------------------------------------------
(***************************************************************************)
(* A request begins                                                        *)
(***************************************************************************)

\* A request that was not sent yet has locked and written nothing.
LEMMA BeginStep ==
    ASSUME MasterInv, NEW r \in DOMAIN cast.job, req[r].pc = "sent", NEW q, Set(r, q),
           UNCHANGED <<data, cast, scan>>,
           loop' = loop \/ (loop' = r /\ Job(r).kind = "import" /\ q.pc = "rows"),
           Shaped(q), q.pc # "sent", q.held = {}, q.sent = {}, q.new = {}, q.sawOpen = {},
           OnItsWay(Job(r), q), LinesRead(Job(r), q), Wanted(Job(r), q),
           \A k \in DOMAIN q.read : Exists(q.read[k]) => q.read[k] = rows[Table(r)][k],
           q.pc \in {"policy", "commit"} => q.target \in DOMAIN policy \/ (q.target = r /\ Job(r).kind = "createPolicy")
    PROVE  MasterInv'
<1>1. req[r] = Unsent /\ req'[r] = q /\ loop # r
  BY Known DEF OnItsWay, MasterInv, WellTyped, Set
<1>2. RequestOK(Job(r), q)
  BY DEF RequestOK, Locked, Written
<1>3. AsRead(q, rows[Table(r)])
  <2>1. ASSUME NEW k \in DOMAIN q.read, Exists(q.read[k])
        PROVE  rows[Table(r)][k].updated >= q.read[k].updated
    <3>1. q.read[k] \in Row(Table(r))
      BY <2>1, Known DEF LinesRead
    <3> QED BY <2>1, <3>1, Known, RowFacts
  <2> QED BY <2>1 DEF AsRead
<1>4. NamesOf(r)'
  <2>1. Written(q) = {} /\ Unsent.sent = {} /\ Unsent.new = {} /\ Unsent.held = {} /\ Unsent.pc = "sent"
    BY DEF Written, Unsent
  <2> QED BY <1>1, <2>1, Known, KeepsNames DEF data, Ended
<1>5. AddsFirst(r)'
  BY <1>1 DEF AddsFirst, data, CarriesTerms, Job
<1> QED BY <1>1, <1>2, <1>3, <1>4, <1>5, UnsentShape, QuietStep DEF Ended

LEMMA ImportBegins ==
    ASSUME MasterInv, NEW r \in DOMAIN cast.job, Job(r).kind = "import",
           Import(r, ParseFile(Table(r), Job(r).file))
    PROVE  MasterInv'
<1> DEFINE t == Table(r)
           file == Job(r).file
           parsed == ParseFile(t, file)
<1>1. /\ r \in Requests /\ t \in Tables /\ t = Job(r).table /\ file \in Seq(FileLine(t))
      /\ req[r] = Unsent /\ req[r].pc = "sent"
  BY Known DEF Import, OnItsWay, JobOK
<1>2. ReadUpTo(t, file, parsed, Len(file))
  BY <1>1, ParseFileReads
<1>3. FirstLines(t, file) \subseteq 1..Len(file) /\ OtherLines(t, file) \subseteq 1..Len(file)
      /\ Len(file) \in Nat
  <2>1. DOMAIN file = 1..Len(file) /\ Len(file) \in Nat
    BY <1>1
  <2> QED BY <2>1 DEF FirstLines, OtherLines
<1>4. /\ parsed.lines \in Seq(ImportLines(t)) /\ parsed.seen \subseteq Keys(t)
      /\ parsed.errors = OtherLines(t, file)
  <2>1. {x \in OtherLines(t, file) : x <= Len(file)} = OtherLines(t, file)
    BY <1>3
  <2> QED BY <1>2, <2>1 DEF ReadUpTo
<1> DEFINE N == 1..Len(parsed.lines)
<1>5. /\ Len(parsed.lines) \in Nat /\ DOMAIN parsed.lines = N
      /\ \A i \in N : parsed.lines[i] \in ImportLines(t)
  BY <1>4
<1>6. /\ \A x \in FirstLines(t, file) : \E i \in N : parsed.lines[i] = LineOf(t, file, x)
      /\ \A i \in N : \E x \in FirstLines(t, file) : parsed.lines[i] = LineOf(t, file, x)
      /\ \A i, j \in N : parsed.lines[i].key = parsed.lines[j].key => i = j
  BY <1>2, <1>3 DEF ReadUpTo
<1>7. parsed.seen = {parsed.lines[i].key : i \in N}
  <2>1. parsed.seen = {file[x].key : x \in FirstLines(t, file)}
    BY <1>2, <1>3 DEF ReadUpTo
  <2>2. \A x : LineOf(t, file, x).key = file[x].key
    BY DEF LineOf
  <2> HIDE DEF N, parsed, file, t
  <2>3. ASSUME NEW k \in parsed.seen PROVE \E i \in N : parsed.lines[i].key = k
    BY <1>6, <2>1, <2>2
  <2>4. ASSUME NEW i \in N PROVE parsed.lines[i].key \in parsed.seen
    BY <1>6, <2>1, <2>2
  <2> QED BY <2>3, <2>4
<1>8. \A i \in N : /\ parsed.lines[i].key \in Keys(t) /\ parsed.lines[i].cells \in Cells(t)
                   /\ FormCells(t, parsed.lines[i].cells)
  BY <1>1, <1>5, FullIsForm DEF ImportLines
<1>9. CASE parsed.lines = <<>>
  <2> DEFINE q == [req[r] EXCEPT !.pc = "done", !.errors = parsed.errors]
  <2>1. Set(r, q) /\ loop' = loop /\ UNCHANGED <<data, cast, scan>>
    BY <1>9 DEF Import
  <2>2. /\ q.pc = "done" /\ q.errors = parsed.errors
        /\ \A f \in Fields \ {"pc", "errors"} : q[f] = Unsent[f]
        /\ Shaped(q)
    BY <1>1, UnsentShape DEF Shaped, Fields, Pc
  <2>3. /\ q.held = {} /\ q.sent = {} /\ q.new = {} /\ q.sawOpen = {} /\ q.lines = <<>> /\ q.at = 1
        /\ q.read = <<>> /\ q.want = <<>>
    BY <2>2 DEF Unsent, Fields
  <2> HIDE DEF q
  <2>4. OnItsWay(Job(r), q)
    BY <2>2, <2>3 DEF OnItsWay, RowKinds, Written
  <2>5. LinesRead(Job(r), q)
    BY <1>1, <1>4, <1>6, <1>9, <2>2, <2>3 DEF LinesRead
  <2>6. Wanted(Job(r), q)
    BY <2>3 DEF Wanted
  <2>7. DOMAIN q.read = {}
    BY <2>3
  <2> QED BY <1>1, <2>1, <2>2, <2>3, <2>4, <2>5, <2>6, <2>7, BeginStep
<1>10. CASE parsed.lines # <<>>
  <2> DEFINE q == [req[r] EXCEPT !.pc = "rows", !.lines = parsed.lines, !.errors = parsed.errors,
                                 !.read = ReadOf(t, parsed.seen)]
  <2>1. Set(r, q) /\ loop' = r /\ UNCHANGED <<data, cast, scan>>
    BY <1>10 DEF Import
  <2>2. /\ q.pc = "rows" /\ q.errors = parsed.errors /\ q.lines = parsed.lines
        /\ q.read = [k \in parsed.seen |-> rows[t][k]]
        /\ \A f \in Fields \ {"pc", "errors", "lines", "read"} : q[f] = Unsent[f]
        /\ Shaped(q)
    BY <1>1, UnsentShape DEF Shaped, Fields, Pc, ReadOf
  <2>3. /\ q.held = {} /\ q.sent = {} /\ q.new = {} /\ q.sawOpen = {} /\ q.at = 1 /\ q.want = <<>>
        /\ q.target = 0
    BY <2>2 DEF Unsent, Fields
  <2> HIDE DEF q
  <2>4. OnItsWay(Job(r), q)
    BY <2>2, <2>3 DEF OnItsWay, RowKinds, Written, Ended
  <2>5. \A k \in parsed.seen : rows[t][k] \in Row(t)
    BY <1>1, <1>4 DEF MasterInv, WellTyped
  <2>6. LinesRead(Job(r), q)
    <3> HIDE DEF parsed
    <3>1. DOMAIN q.read = {q.lines[i].key : i \in 1..Len(q.lines)}
          /\ \A k \in DOMAIN q.read : q.read[k] \in Row(t)
      BY <1>7, <2>2, <2>5
    <3>2. /\ Len(q.lines) \in Nat /\ DOMAIN q.lines = 1..Len(q.lines)
          /\ \A i \in 1..Len(q.lines) : /\ q.lines[i].key \in Keys(t) /\ q.lines[i].cells \in Cells(t)
                                        /\ FormCells(t, q.lines[i].cells)
          /\ \A i, j \in 1..Len(q.lines) : q.lines[i].key = q.lines[j].key => i = j
      BY <1>5, <1>6, <1>8, <2>2
    <3>3. /\ q.errors = OtherLines(t, file)
          /\ \A x \in FirstLines(t, file) : \E i \in 1..Len(q.lines) : q.lines[i] = LineOf(t, file, x)
          /\ \A i \in 1..Len(q.lines) : \E x \in FirstLines(t, file) : q.lines[i] = LineOf(t, file, x)
      BY <1>4, <1>6, <2>2
    <3> HIDE DEF file, t
    <3>4. t = Job(r).table /\ file = Job(r).file
      BY <1>1 DEF file
    <3> QED BY <3>1, <3>2, <3>3, <3>4 DEF LinesRead
  <2>7. Wanted(Job(r), q)
    <3>1. 1 \in 1..(Len(q.lines) + 1) /\ 1..(1 - 1) = {} /\ DOMAIN <<>> = {}
      BY <1>5, <2>2
    <3> QED BY <2>3, <3>1 DEF Wanted
  <2> QED BY <1>1, <2>1, <2>2, <2>3, <2>4, <2>6, <2>7, BeginStep
<1> QED BY <1>9, <1>10

LEMMA CreateBegins ==
    ASSUME MasterInv, NEW r \in DOMAIN cast.job, Create(r)
    PROVE  MasterInv'
<1> DEFINE row == Job(r).row
           q   == [req[r] EXCEPT !.pc = "rows", !.lines = <<row>>, !.read = [k \in {row.key} |-> Absent]]
<1>1. /\ Job(r).kind = "create" /\ req[r] = Unsent /\ req[r].pc = "sent"
      /\ row.key \in Keys(Table(r)) /\ FormCells(Table(r), row.cells) /\ row.cells \in Cells(Table(r))
  BY Known DEF Create, OnItsWay, JobOK
<1>2. Set(r, q) /\ loop' = loop /\ UNCHANGED <<data, cast, scan>>
  BY DEF Create
<1>3. /\ q.pc = "rows" /\ q.lines = <<row>> /\ q.read = [k \in {row.key} |-> Absent]
      /\ \A f \in Fields \ {"pc", "lines", "read"} : q[f] = Unsent[f]
      /\ Shaped(q)
  BY <1>1, UnsentShape DEF Shaped, Fields, Pc
<1>4. /\ q.held = {} /\ q.sent = {} /\ q.new = {} /\ q.sawOpen = {} /\ q.at = 1 /\ q.want = <<>>
      /\ q.target = 0
  BY <1>3 DEF Unsent, Fields
<1> HIDE DEF q
<1>5. OnItsWay(Job(r), q)
  BY <1>1, <1>3, <1>4 DEF OnItsWay, RowKinds, Written, Ended
<1>6. Len(q.lines) = 1 /\ DOMAIN q.lines = {1} /\ q.lines[1] = row /\ 1..1 = {1}
  BY <1>3
<1>7. LinesRead(Job(r), q)
  BY <1>1, <1>3, <1>6, Known DEF LinesRead, Row
<1>8. Wanted(Job(r), q)
  BY <1>4, <1>6 DEF Wanted
<1>9. \A k \in DOMAIN q.read : ~Exists(q.read[k])
  BY <1>3 DEF Exists, Absent
<1> QED BY <1>1, <1>2, <1>3, <1>4, <1>5, <1>7, <1>8, <1>9, BeginStep

\* A request that is done at once.
LEMMA DoneAtOnce ==
    ASSUME MasterInv, NEW r \in DOMAIN cast.job, req[r].pc = "sent", Job(r).kind # "import",
           NEW pc \in {"done", "case"}, pc = "case" => Job(r).kind = "feedback",
           Set(r, [req[r] EXCEPT !.pc = pc]), UNCHANGED <<data, cast, loop, scan>>
    PROVE  MasterInv'
<1> DEFINE q == [req[r] EXCEPT !.pc = pc]
<1>1. req[r] = Unsent
  BY Known DEF OnItsWay
<1>2. q.pc = pc /\ Shaped(q) /\ \A f \in Fields \ {"pc"} : q[f] = Unsent[f]
  BY <1>1, UnsentShape DEF Shaped, Fields, Pc
<1>3. /\ q.held = {} /\ q.sent = {} /\ q.new = {} /\ q.sawOpen = {} /\ q.at = 1 /\ q.lines = <<>>
      /\ q.want = <<>> /\ q.read = <<>> /\ q.target = 0
  BY <1>2 DEF Unsent, Fields
<1>4. Set(r, q)
  OBVIOUS
<1> HIDE DEF q
<1>5. OnItsWay(Job(r), q)
  BY <1>2, <1>3 DEF OnItsWay, Written, Ended
<1>6. Len(<<>>) = 0 /\ DOMAIN <<>> = {} /\ 1..0 = {} /\ 1..(1 - 1) = {} /\ 1 \in 1..(0 + 1)
  OBVIOUS
<1>7. LinesRead(Job(r), q) /\ Wanted(Job(r), q)
  BY <1>3, <1>6 DEF LinesRead, Wanted
<1>8. DOMAIN q.read = {}
  BY <1>3, <1>6
<1> QED BY <1>2, <1>3, <1>4, <1>5, <1>7, <1>8, BeginStep

LEMMA UpdateBegins ==
    ASSUME MasterInv, NEW r \in DOMAIN cast.job, Update(r)
    PROVE  MasterInv'
<1> DEFINE row == Job(r).row
           t   == Table(r)
           q   == [req[r] EXCEPT !.pc = "rows", !.lines = <<row>>, !.read = ReadOf(t, {row.key})]
<1>1. /\ Job(r).kind = "update" /\ req[r] = Unsent /\ req[r].pc = "sent" /\ t \in Tables
      /\ row.key \in Keys(t) /\ FormCells(t, row.cells) /\ t = Job(r).table
  BY Known DEF Update, OnItsWay, JobOK
<1>2. CASE ~Exists(rows[t][row.key])
  <2>1. Set(r, [req[r] EXCEPT !.pc = "done"])
    BY <1>2 DEF Update
  <2> QED BY <1>1, <2>1, DoneAtOnce DEF Update
<1>3. CASE Exists(rows[t][row.key])
  <2>1. Set(r, q) /\ loop' = loop /\ UNCHANGED <<data, cast, scan>>
    BY <1>3 DEF Update
  <2>2. /\ q.pc = "rows" /\ q.lines = <<row>> /\ q.read = [k \in {row.key} |-> rows[t][k]]
        /\ \A f \in Fields \ {"pc", "lines", "read"} : q[f] = Unsent[f]
        /\ Shaped(q)
    BY <1>1, UnsentShape DEF Shaped, Fields, Pc, ReadOf
  <2>3. /\ q.held = {} /\ q.sent = {} /\ q.new = {} /\ q.sawOpen = {} /\ q.at = 1 /\ q.want = <<>>
        /\ q.target = 0
    BY <2>2 DEF Unsent, Fields
  <2> HIDE DEF q
  <2>4. OnItsWay(Job(r), q)
    BY <1>1, <2>2, <2>3 DEF OnItsWay, RowKinds, Written, Ended
  <2>5. Len(q.lines) = 1 /\ DOMAIN q.lines = {1} /\ q.lines[1] = row /\ 1..1 = {1}
    BY <2>2
  <2>6. rows[t][row.key] \in Row(t)
    BY <1>1 DEF MasterInv, WellTyped
  <2>7. LinesRead(Job(r), q)
    BY <1>1, <1>3, <2>2, <2>5, <2>6 DEF LinesRead
  <2>8. Wanted(Job(r), q)
    BY <2>3, <2>5 DEF Wanted
  <2> QED BY <1>1, <2>1, <2>2, <2>3, <2>4, <2>7, <2>8, BeginStep
<1> QED BY <1>2, <1>3

\* create_policy and update_policy aim at a policy.
LEMMA PolicyBegins ==
    ASSUME MasterInv, NEW r \in DOMAIN cast.job, req[r].pc = "sent", Job(r).kind \in PolicyKinds,
           NEW p \in Requests, p \in DOMAIN policy \/ (p = r /\ Job(r).kind = "createPolicy"),
           Set(r, [req[r] EXCEPT !.pc = "policy", !.target = p]), UNCHANGED <<data, cast, loop, scan>>
    PROVE  MasterInv'
<1> DEFINE q == [req[r] EXCEPT !.pc = "policy", !.target = p]
<1>1. req[r] = Unsent
  BY Known DEF OnItsWay
<1>2. q.pc = "policy" /\ q.target = p /\ Shaped(q) /\ \A f \in Fields \ {"pc", "target"} : q[f] = Unsent[f]
  BY <1>1, UnsentShape DEF Shaped, Fields, Pc
<1>3. /\ q.held = {} /\ q.sent = {} /\ q.new = {} /\ q.sawOpen = {} /\ q.at = 1 /\ q.lines = <<>>
      /\ q.want = <<>> /\ q.read = <<>>
  BY <1>2 DEF Unsent, Fields
<1>4. Set(r, q)
  OBVIOUS
<1> HIDE DEF q
<1>5. OnItsWay(Job(r), q)
  BY <1>2, <1>3 DEF OnItsWay, Written, Ended
<1>6. Len(<<>>) = 0 /\ DOMAIN <<>> = {} /\ 1..0 = {} /\ 1..(1 - 1) = {} /\ 1 \in 1..(0 + 1)
  OBVIOUS
<1>7. Job(r).kind \notin RowKinds
  BY DEF PolicyKinds, RowKinds
<1>8. LinesRead(Job(r), q) /\ Wanted(Job(r), q)
  BY <1>3, <1>6, <1>7 DEF LinesRead, Wanted, RowKinds
<1>9. DOMAIN q.read = {}
  BY <1>3, <1>6
<1> QED BY <1>2, <1>3, <1>4, <1>5, <1>8, <1>9, BeginStep

LEMMA RequestBegins ==
    ASSUME MasterInv, NEW r \in DOMAIN cast.job,
           \/ ImportEmployees(r) \/ ImportTypes(r) \/ Create(r) \/ Update(r)
           \/ CreatePolicy(r) \/ UpdatePolicy(r) \/ Feedback(r)
    PROVE  MasterInv'
<1>1. CASE ImportEmployees(r)
  BY <1>1, ImportBegins DEF ImportEmployees, ParseEmployees
<1>2. CASE ImportTypes(r)
  BY <1>2, ImportBegins DEF ImportTypes, ParseTypes
<1>3. CASE CreatePolicy(r)
  <2>1. \/ Set(r, [req[r] EXCEPT !.pc = "policy", !.target = r])
        \/ Set(r, [req[r] EXCEPT !.pc = "done"])
    BY <1>3 DEF CreatePolicy
  <2>2. r \in Requests
    BY Known
  <2> QED BY <1>3, <2>1, <2>2, PolicyBegins, DoneAtOnce DEF CreatePolicy, PolicyKinds
<1>4. CASE UpdatePolicy(r)
  <2>1. \/ \E p \in DOMAIN policy : Set(r, [req[r] EXCEPT !.pc = "policy", !.target = p])
        \/ Set(r, [req[r] EXCEPT !.pc = "done"])
    BY <1>4 DEF UpdatePolicy
  <2>2. DOMAIN policy \subseteq Requests
    BY DEF MasterInv, WellTyped
  <2> QED BY <1>4, <2>1, <2>2, PolicyBegins, DoneAtOnce DEF UpdatePolicy, PolicyKinds
<1>5. CASE Feedback(r)
  BY <1>5, DoneAtOnce DEF Feedback
<1> QED BY <1>1, <1>2, <1>3, <1>4, <1>5, CreateBegins, UpdateBegins

-----------------------------------------------------------------------------
(***************************************************************************)
(* A request goes through its lines                                        *)
(***************************************************************************)

\* The next line is of a row it has read and not looked at yet.
LEMMA NextLine ==
    ASSUME MasterInv, NEW r \in DOMAIN cast.job, MoreLines(r)
    PROVE  LET q == req[r]
               k == Line(r).key IN
           /\ q.pc = "rows" /\ q.at \in 1..Len(q.lines) /\ Line(r) = q.lines[q.at]
           /\ k \in Keys(Table(r)) /\ k \in DOMAIN q.read /\ q.read[k] \in Row(Table(r))
           /\ k \notin DOMAIN q.want /\ FormCells(Table(r), Line(r).cells)
           /\ \A i \in 1..(q.at - 1) : i \in 1..Len(q.lines) /\ q.lines[i].key # k
<1> DEFINE q == req[r]
<1>1. q.pc = "rows" /\ q.at <= Len(q.lines) /\ Line(r) = q.lines[q.at] /\ Table(r) = Job(r).table
  BY Known DEF MoreLines, Line
<1>2. LinesRead(Job(r), q) /\ Wanted(Job(r), q)
  BY Known
<1>3. q.at \in 1..Len(q.lines) /\ \A i \in 1..(q.at - 1) : i \in 1..Len(q.lines) /\ i # q.at
  <2>1. Len(q.lines) \in Nat /\ q.at \in 1..(Len(q.lines) + 1)
    BY <1>2 DEF LinesRead, Wanted
  <2> HIDE DEF q
  <2> QED BY <1>1, <2>1
<1>4. \A i \in 1..(q.at - 1) : q.lines[i].key # q.lines[q.at].key
  BY <1>2, <1>3 DEF LinesRead
<1>5. DOMAIN q.want = {q.lines[i].key : i \in 1..(q.at - 1)}
  BY <1>2 DEF Wanted
<1> QED BY <1>1, <1>2, <1>3, <1>4, <1>5 DEF LinesRead

\* What a request of rows has in mind is about rows it has read.
LEMMA WantedRows ==
    ASSUME MasterInv, NEW r \in DOMAIN cast.job, NEW k \in DOMAIN req[r].want
    PROVE  /\ k \in DOMAIN req[r].read /\ k \in Keys(Table(r))
           /\ req[r].want[k] \in Cells(Table(r)) /\ req[r].read[k] \in Row(Table(r))
<1> DEFINE q == req[r]
<1>1. LinesRead(Job(r), q) /\ Wanted(Job(r), q) /\ Table(r) = Job(r).table
  BY Known
<1>2. PICK i \in 1..(q.at - 1) : k = q.lines[i].key
  BY <1>1 DEF Wanted
<1>3. i \in 1..Len(q.lines)
  BY <1>1, <1>2 DEF Wanted, LinesRead
<1> QED BY <1>1, <1>2, <1>3 DEF Wanted, LinesRead

LEMMA MergedCells ==
    ASSUME MasterInv, NEW r \in DOMAIN cast.job, MoreLines(r), ~IsNew(r)
    PROVE  /\ Merged(r) \in Cells(Table(r))
           /\ \A c \in DOMAIN Line(r).cells : Merged(r)[c] = Line(r).cells[c]
<1> DEFINE t   == Table(r)
           old == req[r].read[Line(r).key].cells
           new == Line(r).cells
<1>1. t \in Tables /\ FormCells(t, new) /\ req[r].read[Line(r).key] \in Row(t)
  BY Known, NextLine
<1>2. old \in Cells(t)
  BY <1>1, RowFacts DEF IsNew
<1>3. DOMAIN old = DOMAIN Columns(t) /\ \A c \in DOMAIN Columns(t) : old[c] \in Columns(t)[c]
  BY <1>1, <1>2, CellFacts
<1>4. Merged(r) = [c \in DOMAIN old |-> IF c \in DOMAIN new THEN new[c] ELSE old[c]]
  BY DEF Merged
<1>5. \A c \in DOMAIN new : c \in DOMAIN Columns(t) /\ new[c] \in Columns(t)[c]
  BY <1>1 DEF FormCells
<1> HIDE DEF old, new, t
<1>6. \A c \in DOMAIN new : Merged(r)[c] = new[c]
  BY <1>3, <1>4, <1>5
<1>7. Merged(r) = [c \in DOMAIN Columns(t) |-> Merged(r)[c]]
  BY <1>3, <1>4
<1>8. \A c \in DOMAIN Columns(t) : Merged(r)[c] \in Columns(t)[c]
  BY <1>3, <1>4, <1>5
<1>9. Merged(r) \in Cells(t)
  BY <1>1, <1>7, <1>8, CellsFromColumns
<1> QED BY <1>6, <1>9 DEF t, new

\* The next line was taken up, with the cells to write.
LEMMA LineTakenUp ==
    ASSUME MasterInv, NEW r \in DOMAIN cast.job, MoreLines(r), NEW cells \in Cells(Table(r)),
           \A c \in DOMAIN Line(r).cells : cells[c] = Line(r).cells[c],
           NEW q, q.at = req[r].at + 1, q.want = Wanting(r, cells),
           q.lines = req[r].lines, q.read = req[r].read, q.sent = req[r].sent,
           IsNew(r) => q.new = req[r].new \cup {Line(r).key},
           ~IsNew(r) => q.new = req[r].new,
           q.sawOpen \subseteq req[r].sawOpen \cup {Line(r).key}
    PROVE  /\ Wanted(Job(r), q)
           /\ q.want[Line(r).key] = cells
           /\ \A k \in DOMAIN req[r].want : k # Line(r).key /\ q.want[k] = req[r].want[k]
<1> DEFINE p == req[r]
           k == Line(r).key
<1>1. /\ p.at \in 1..Len(p.lines) /\ Line(r) = p.lines[p.at] /\ k \notin DOMAIN p.want
      /\ \A i \in 1..(p.at - 1) : i \in 1..Len(p.lines) /\ p.lines[i].key # k
  BY NextLine
<1>2. Wanted(Job(r), p) /\ Len(p.lines) \in Nat /\ Table(r) = Job(r).table
  BY Known DEF LinesRead
<1>3. /\ DOMAIN q.want = DOMAIN p.want \cup {k} /\ q.want[k] = cells
      /\ \A j \in DOMAIN p.want : j # k /\ q.want[j] = p.want[j]
  <2>1. q.want = [j \in DOMAIN p.want \cup {k} |-> IF j = k THEN cells ELSE p.want[j]]
    BY DEF Wanting
  <2>2. k \notin DOMAIN p.want
    BY <1>1
  <2> HIDE DEF p, k
  <2> QED BY <2>1, <2>2
<1>4. q.at \in 1..(Len(q.lines) + 1) /\ 1..(q.at - 1) = 1..(p.at - 1) \cup {p.at}
  BY <1>1, <1>2
<1>5. DOMAIN p.want = {p.lines[i].key : i \in 1..(p.at - 1)}
  BY <1>2 DEF Wanted
<1> HIDE DEF p, k
<1>0. p.lines[p.at].key = k /\ q.lines = p.lines /\ Line(r) = q.lines[p.at]
  BY <1>1 DEF p, k
<1>6. DOMAIN q.want = {q.lines[i].key : i \in 1..(q.at - 1)}
  <2>1. ASSUME NEW j \in DOMAIN q.want
        PROVE  \E i \in 1..(q.at - 1) : j = q.lines[i].key
    <3>1. CASE j = k
      BY <1>0, <1>4, <3>1
    <3>2. CASE j \in DOMAIN p.want
      <4>1. PICK i \in 1..(p.at - 1) : j = p.lines[i].key
        BY <1>5, <3>2
      <4> QED BY <1>0, <1>4, <4>1
    <3> QED BY <1>3, <3>1, <3>2
  <2>2. \A i \in 1..(q.at - 1) : q.lines[i].key \in DOMAIN q.want
    BY <1>0, <1>3, <1>4, <1>5
  <2> QED BY <2>1, <2>2
<1>7. ASSUME NEW i \in 1..(q.at - 1)
      PROVE  /\ q.want[q.lines[i].key] \in Cells(Job(r).table)
             /\ \A c \in DOMAIN q.lines[i].cells : q.want[q.lines[i].key][c] = q.lines[i].cells[c]
  <2>1. CASE i = p.at
    <3>1. q.lines[i] = Line(r) /\ q.lines[i].key = k
      BY <1>0, <2>1
    <3> QED BY <1>2, <1>3, <3>1
  <2>2. CASE i \in 1..(p.at - 1)
    <3>1. q.lines[i].key \in DOMAIN p.want
      BY <1>0, <1>5, <2>2
    <3>2. /\ p.want[p.lines[i].key] \in Cells(Job(r).table)
          /\ \A c \in DOMAIN p.lines[i].cells : p.want[p.lines[i].key][c] = p.lines[i].cells[c]
      BY <1>2, <2>2 DEF Wanted
    <3> QED BY <1>0, <1>3, <3>1, <3>2
  <2> QED BY <1>4, <2>1, <2>2
<1>8. q.new = {j \in DOMAIN q.want : ~Exists(q.read[j])}
  <2>1. p.new = {j \in DOMAIN p.want : ~Exists(p.read[j])}
    BY <1>2 DEF Wanted
  <2>2. IsNew(r) <=> ~Exists(p.read[k])
    BY DEF IsNew, p, k
  <2>3. q.read = p.read /\ q.new = IF IsNew(r) THEN p.new \cup {k} ELSE p.new
    BY DEF p, k
  <2> QED BY <1>3, <2>1, <2>2, <2>3
<1>9. q.sent \subseteq DOMAIN q.want \ q.new
  <2>1. p.sent \subseteq DOMAIN p.want \ p.new
    BY <1>2 DEF Wanted
  <2>2. q.sent = p.sent /\ q.new = IF IsNew(r) THEN p.new \cup {k} ELSE p.new
    BY DEF p, k
  <2> QED BY <1>3, <2>1, <2>2
<1>10. q.sawOpen \subseteq DOMAIN q.want
  <2>1. p.sawOpen \subseteq DOMAIN p.want
    BY <1>2 DEF Wanted
  <2>2. q.sawOpen \subseteq p.sawOpen \cup {k}
    BY DEF p, k
  <2> QED BY <1>3, <2>1, <2>2
<1> QED BY <1>3, <1>4, <1>6, <1>7, <1>8, <1>9, <1>10 DEF Wanted, k, p

\* A line over an existing row.
LEMMA OverwriteStep ==
    ASSUME MasterInv, NEW r \in DOMAIN cast.job, MoreLines(r), ~IsNew(r),
           NEW closing \in SUBSET ({"case"} \X Employees), NEW saw \in SUBSET {Line(r).key},
           \A l \in closing : Free(l, r),
           Table(r) = "employee" /\ Leaves(r) => saw = {} \/ <<"case", Line(r).key>> \in closing,
           NEW q, Set(r, q), Shaped(q), q.at = req[r].at + 1, q.want = Wanting(r, Merged(r)),
           q.held = req[r].held \cup closing, q.sawOpen = req[r].sawOpen \cup saw,
           \A f \in Fields \ {"at", "want", "held", "sawOpen"} : q[f] = req[r][f],
           UNCHANGED <<data, cast, loop, scan>>
    PROVE  MasterInv'
<1> DEFINE p == req[r]
           k == Line(r).key
<1>1. /\ q.pc = "rows" /\ p.pc = "rows" /\ q.lines = p.lines /\ q.read = p.read /\ q.sent = p.sent
      /\ q.new = p.new /\ q.errors = p.errors /\ q.target = p.target /\ Written(q) = Written(p)
  BY NextLine DEF Fields, Written
<1>2. /\ Merged(r) \in Cells(Table(r))
      /\ \A c \in DOMAIN Line(r).cells : Merged(r)[c] = Line(r).cells[c]
  BY MergedCells
<1>3. /\ Wanted(Job(r), q) /\ q.want[k] = Merged(r)
      /\ \A j \in DOMAIN p.want : j # k /\ q.want[j] = p.want[j]
  <2>2. q.at = p.at + 1 /\ q.want = Wanting(r, Merged(r))
    OBVIOUS
  <2>3. /\ q.lines = req[r].lines /\ q.read = req[r].read /\ q.sent = req[r].sent
        /\ q.new = req[r].new /\ q.sawOpen \subseteq req[r].sawOpen \cup {Line(r).key}
    BY <1>1
  <2>4. PICK cells \in Cells(Table(r)) : cells = Merged(r)
    BY <1>2
  <2>5. /\ q.want = Wanting(r, cells) /\ \A c \in DOMAIN Line(r).cells : cells[c] = Line(r).cells[c]
    BY <1>2, <2>2, <2>4
  <2>6. /\ Wanted(Job(r), q) /\ q.want[Line(r).key] = cells
        /\ \A j \in DOMAIN req[r].want : j # Line(r).key /\ q.want[j] = req[r].want[j]
    <3> HIDE DEF p, k
    <3> QED BY <2>2, <2>3, <2>5, LineTakenUp
  <2> QED BY <2>4, <2>6
<1>4. /\ OnItsWay(Job(r), p) /\ LinesRead(Job(r), p) /\ Wanted(Job(r), p) /\ Locked(Job(r), p)
      /\ AsRead(p, rows[Table(r)]) /\ Table(r) = Job(r).table
  BY Known
<1>5. OnItsWay(Job(r), q)
  BY <1>1, <1>4 DEF OnItsWay, Ended
<1>6. LinesRead(Job(r), q)
  BY <1>1, <1>4, SameLines
<1>7. Written(p) \subseteq DOMAIN p.want /\ p.sawOpen \subseteq DOMAIN p.want
  BY <1>4 DEF Wanted, Written
<1>8. Locked(Job(r), q)
  <2>1. \A j \in Written(q) : <<Job(r).table, j>> \in q.held
    BY <1>1, <1>4 DEF Locked, Ended
  <2>2. ASSUME Job(r).table = "employee", NEW e \in q.sawOpen, Exists(q.read[e]),
               q.want[e].employment_status = "LEFT", q.read[e].cells.employment_status # "LEFT"
        PROVE  <<"case", e>> \in q.held
    <3>1. CASE e \in p.sawOpen
      <4>1. e \in DOMAIN p.want /\ q.want[e] = p.want[e]
        BY <1>3, <1>7, <3>1
      <4>2. <<"case", e>> \in p.held
        BY <1>1, <1>4, <2>2, <3>1, <4>1 DEF Locked, Ended
      <4> QED BY <4>2
    <3>2. CASE e \notin p.sawOpen
      <4>1. e = k /\ saw # {}
        BY <2>2, <3>2
      <4>2. Leaves(r)
        BY <1>1, <1>3, <2>2, <4>1 DEF Leaves
      <4> QED BY <1>4, <2>2, <4>1, <4>2
    <3> QED BY <3>1, <3>2
  <2> QED BY <2>1, <2>2 DEF Locked
<1>9. AsRead(q, rows[Table(r)])
  BY <1>1, <1>4 DEF AsRead, Ended
<1>10. req'[r] = q
  BY Known DEF Set, MasterInv, WellTyped
<1>11. NamesOf(r)'
  <2>1. \A n \in Nat : <<"name", n>> \in q.held <=> <<"name", n>> \in p.held
    OBVIOUS
  <2>2. \A j \in Written(q) : q.want[j] = p.want[j]
    BY <1>1, <1>3, <1>7
  <2> QED BY <1>1, <1>10, <2>1, <2>2, Known, KeepsNames DEF data, Ended
<1>12. AddsFirst(r)'
  BY <1>1, <1>10 DEF AddsFirst
<1>13. \A l \in q.held \ p.held : Free(l, r)
  OBVIOUS
<1> QED BY <1>1, <1>3, <1>5, <1>6, <1>8, <1>9, <1>11, <1>12, <1>13, QuietStep DEF RequestOK, Ended

LEMMA SetTo ==
    ASSUME MasterInv, NEW r \in DOMAIN cast.job, NEW q, Set(r, q)
    PROVE  req'[r] = q
BY Known DEF Set, MasterInv, WellTyped

LEMMA Overwrites ==
    ASSUME MasterInv, NEW r \in DOMAIN cast.job, OverwriteEmployee(r) \/ OverwriteType(r)
    PROVE  MasterInv'
<1>1. CASE OverwriteEmployee(r)
  <2> DEFINE e       == Line(r).key
             closing == IF Leaves(r) /\ case[e].open THEN {<<"case", e>>} ELSE {}
             saw     == {x \in {e} : case[x].open}
             q       == [req[r] EXCEPT !.at = @ + 1, !.want = Wanting(r, Merged(r)),
                                       !.held = @ \cup closing, !.sawOpen = @ \cup saw]
  <2>1. /\ MoreLines(r) /\ ~IsNew(r) /\ Table(r) = "employee" /\ \A l \in closing : Free(l, r)
        /\ Set(r, q) /\ UNCHANGED <<data, cast, loop, scan>>
    BY <1>1 DEF OverwriteEmployee
  <2>2. e \in Employees
    BY <2>1, NextLine DEF Keys
  <2>3. closing \in SUBSET ({"case"} \X Employees) /\ saw \in SUBSET {e}
        /\ (Leaves(r) => saw = {} \/ <<"case", e>> \in closing)
    BY <2>2
  <2>4. /\ q.at = req[r].at + 1 /\ q.want = Wanting(r, Merged(r))
        /\ q.held = req[r].held \cup closing /\ q.sawOpen = req[r].sawOpen \cup saw
        /\ \A f \in Fields \ {"at", "want", "held", "sawOpen"} : q[f] = req[r][f]
        /\ q = [f \in Fields |-> q[f]]
    <3> HIDE DEF closing, saw
    <3> QED BY Known DEF Shaped, Fields
  <2>5. Shaped(q)
    <3>1. closing \subseteq Locks
      BY <2>3 DEF Locks
    <3> HIDE DEF closing, saw, q
    <3>2. Shaped(req[r]) /\ q.pc = req[r].pc /\ q.target = req[r].target
      BY <2>4, Known DEF Fields
    <3> QED BY <2>4, <3>1, <3>2 DEF Shaped
  <2> HIDE DEF closing, saw, q
  <2>6. /\ Table(r) = "employee" /\ Leaves(r) => saw = {} \/ <<"case", Line(r).key>> \in closing
        /\ saw \in SUBSET {Line(r).key}
    BY <2>3
  <2> QED BY <2>1, <2>3, <2>4, <2>5, <2>6, OverwriteStep
<1>2. CASE OverwriteType(r)
  <2> DEFINE q == [req[r] EXCEPT !.at = @ + 1, !.want = Wanting(r, Merged(r))]
  <2>1. /\ MoreLines(r) /\ ~IsNew(r) /\ Table(r) # "employee"
        /\ Set(r, q) /\ UNCHANGED <<data, cast, loop, scan>>
    BY <1>2 DEF OverwriteType
  <2>2. /\ q.at = req[r].at + 1 /\ q.want = Wanting(r, Merged(r))
        /\ \A f \in Fields \ {"at", "want"} : q[f] = req[r][f]
        /\ Shaped(q)
    BY Known DEF Shaped, Fields
  <2>3. /\ q.held = req[r].held \cup {} /\ q.sawOpen = req[r].sawOpen \cup {}
        /\ \A f \in Fields \ {"at", "want", "held", "sawOpen"} : q[f] = req[r][f]
    BY <2>2 DEF Fields
  <2>4. {} \in SUBSET ({"case"} \X Employees) /\ {} \in SUBSET {Line(r).key} /\ \A l \in {} : Free(l, r)
    OBVIOUS
  <2> HIDE DEF q
  <2> QED BY <2>1, <2>2, <2>3, <2>4, OverwriteStep
<1> QED BY <1>1, <1>2

-----------------------------------------------------------------------------
(***************************************************************************)
(* A request emits an UPDATE or an INSERT                                  *)
(***************************************************************************)

NameLocks == {"name"} \X Nat

\* The name of a row that nobody else has locked is nobody else's to set or give up.
LEMMA LeftIsFree ==
    ASSUME MasterInv, NEW r \in DOMAIN cast.job, NEW k \in Types, Free(<<T, k>>, r),
           NEW n \in Nat, HasName(rows[T][k], n)
    PROVE  Free(<<"name", n>>, r)
<1> SUFFICES ASSUME NEW x \in Requests \ {r}, <<"name", n>> \in req[x].held
             PROVE  FALSE
  BY DEF Free
<1>1. x \in DOMAIN cast.job
  BY UnsentShape DEF MasterInv, RequestsOK
<1>2. /\ req[x].pc \notin Ended /\ Table(x) = T /\ NamesOf(x) /\ Locked(Job(x), req[x])
      /\ Table(x) = Job(x).table
  BY <1>1, Known DEF OnItsWay, NamesOf
<1>3. PICK j \in Types : /\ <<T, j>> \in req[x].held
                         /\ HasName(rows[T][j], n) \/ HasName(RowWritten(x, j), n)
  BY <1>2 DEF NamesOf
<1>4. <<T, k>> \notin req[x].held
  BY DEF Free
<1>5. HasName(RowWritten(x, k), n)
  <2>1. k \notin Written(req[x])
    BY <1>2, <1>4 DEF Locked
  <2> QED BY <1>2, <2>1 DEF RowWritten, Written
<1>6. CASE HasName(rows[T][j], n)
  BY <1>3, <1>4, <1>6 DEF MasterInv, NamesOfTypes
<1>7. CASE HasName(RowWritten(x, j), n)
  BY <1>2, <1>3, <1>4, <1>5, <1>7 DEF NamesOf
<1> QED BY <1>3, <1>6, <1>7

\* A statement of r on row k gives up the names left, and sets names that no other row
\* has in r's view.
Renames(r, k, left, names) ==
    /\ names \in SUBSET NameLocks /\ left \in SUBSET NameLocks
    /\ Table(r) # T => names = {} /\ left = {}
    /\ \A n \in Nat : <<"name", n>> \in left => HasName(rows[T][k], n)
    /\ \A n \in Nat : <<"name", n>> \in names => HasName(RowWritten(r, k), n)'
    /\ Table(r) = T => \A n \in Nat : HasName(RowWritten(r, k), n)' =>
           \/ HasName(rows[T][k], n)
           \/ /\ <<"name", n>> \in names
              /\ \A j \in Types \ {k} : ~HasName(RowWritten(r, j), n)

LEMMA StatementNames ==
    ASSUME MasterInv, NEW r \in DOMAIN cast.job, NEW k \in Keys(Table(r)),
           k \notin Written(req[r]), req[r].pc = "rows",
           NEW q, req'[r] = q, UNCHANGED <<rows, cast>>, q.pc = "rows",
           NEW names, NEW left, Renames(r, k, left, names),
           q.held = req[r].held \cup {<<Table(r), k>>} \cup left \cup names,
           \A j : j # k => RowWritten(r, j)' = RowWritten(r, j)
    PROVE  NamesOf(r)'
<1>1. /\ Table(r)' = Table(r) /\ NamesOf(r) /\ RowWritten(r, k) = rows[Table(r)][k]
      /\ Table(r) = T => k \in Types
  <2>1. Table(r)' = Table(r)
    BY DEF Table, Job
  <2>2. RowWritten(r, k) = rows[Table(r)][k]
    BY DEF RowWritten, Written
  <2>3. Table(r) = T => k \in Types
    BY DEF Keys, T
  <2> QED BY <2>1, <2>2, <2>3, Known
<1>2. \A n : <<"name", n>> \in q.held =>
          <<"name", n>> \in req[r].held \/ <<"name", n>> \in left \/ <<"name", n>> \in names
  <2>1. Table(r) # "name"
    BY Known DEF Tables
  <2> QED BY <2>1
<1>3. CASE Table(r) # T
  BY <1>1, <1>2, <1>3 DEF NamesOf, Renames
<1>4. CASE Table(r) = T
  <2>1. /\ \A j \in Types, i \in Types, n \in Nat :
               HasName(RowWritten(r, j), n) /\ HasName(RowWritten(r, i), n) => j = i
        /\ \A n \in Nat : <<"name", n>> \in req[r].held =>
               \E j \in Types : /\ <<T, j>> \in req[r].held
                                /\ HasName(rows[T][j], n) \/ HasName(RowWritten(r, j), n)
        /\ \A j \in Types, n \in Nat :
               HasName(RowWritten(r, j), n) /\ ~HasName(rows[T][j], n) => <<"name", n>> \in req[r].held
    BY <1>1, <1>4 DEF NamesOf, Ended
  <2>2. \A j, n : /\ HasName(rows[T][j], n)' <=> HasName(rows[T][j], n)
                  /\ j # k => (HasName(RowWritten(r, j), n)' <=> HasName(RowWritten(r, j), n))
    BY DEF HasName, Exists
  <2>3. \A n \in Nat : HasName(rows[T][k], n) => HasName(RowWritten(r, k), n)
    BY <1>1, <1>4
  <2>4. ASSUME NEW j \in Types, NEW i \in Types, NEW n \in Nat,
               HasName(RowWritten(r, j), n)', HasName(RowWritten(r, i), n)'
        PROVE  j = i
    <3>1. CASE j # k /\ i # k
      BY <2>1, <2>2, <2>4, <3>1
    <3>2. CASE j = k /\ i # k
      <4>1. HasName(RowWritten(r, i), n)
        BY <2>2, <2>4, <3>2
      <4>2. HasName(RowWritten(r, k), n)'
        BY <2>4, <3>2
      <4>3. HasName(rows[T][k], n) \/ ~HasName(RowWritten(r, i), n)
        BY <1>4, <2>4, <3>2, <4>2 DEF Renames
      <4> QED BY <1>1, <1>4, <2>1, <2>3, <3>2, <4>1, <4>3
    <3>3. CASE j # k /\ i = k
      <4>1. HasName(RowWritten(r, j), n)
        BY <2>2, <2>4, <3>3
      <4>2. HasName(RowWritten(r, k), n)'
        BY <2>4, <3>3
      <4>3. HasName(rows[T][k], n) \/ ~HasName(RowWritten(r, j), n)
        BY <1>4, <2>4, <3>3, <4>2 DEF Renames
      <4> QED BY <1>1, <1>4, <2>1, <2>3, <3>3, <4>1, <4>3
    <3> QED BY <3>1, <3>2, <3>3
  <2>5. ASSUME NEW n \in Nat, <<"name", n>> \in q.held
        PROVE  \E j \in Types : /\ <<T, j>> \in q.held
                                /\ HasName(rows[T][j], n)' \/ HasName(RowWritten(r, j), n)'
    <3>1. <<T, k>> \in q.held /\ k \in Types
      BY <1>1, <1>4
    <3>2. CASE <<"name", n>> \in left \cup names
      BY <2>2, <3>1, <3>2 DEF Renames
    <3>3. CASE <<"name", n>> \in req[r].held
      <4>1. PICK j \in Types : /\ <<T, j>> \in req[r].held
                               /\ HasName(rows[T][j], n) \/ HasName(RowWritten(r, j), n)
        BY <2>1, <3>3
      <4>2. CASE j = k
        BY <1>1, <1>4, <2>2, <3>1, <4>1, <4>2
      <4>3. CASE j # k
        BY <2>2, <4>1, <4>3
      <4> QED BY <4>2, <4>3
    <3> QED BY <1>2, <2>5, <3>2, <3>3
  <2>6. ASSUME NEW j \in Types, NEW n \in Nat, HasName(RowWritten(r, j), n)', ~HasName(rows[T][j], n)'
        PROVE  <<"name", n>> \in q.held
    <3>1. CASE j = k
      BY <1>4, <2>2, <2>6, <3>1 DEF Renames
    <3>2. CASE j # k
      BY <2>1, <2>2, <2>6, <3>2
    <3> QED BY <3>1, <3>2
  <2> QED BY <1>1, <1>4, <2>4, <2>5, <2>6 DEF NamesOf
<1> QED BY <1>3, <1>4

LEMMA StatementStep ==
    ASSUME MasterInv, NEW r \in DOMAIN cast.job, NEW k \in Keys(Table(r)),
           k \notin Written(req[r]), req[r].pc = "rows", Free(<<Table(r), k>>, r),
           NEW q, Set(r, q), UNCHANGED <<data, cast, loop, scan>>, Shaped(q),
           NEW names, NEW left, Renames(r, k, left, names), \A l \in names \cup left : Free(l, r),
           q.held = req[r].held \cup {<<Table(r), k>>} \cup left \cup names,
           q.pc = req[r].pc, q.lines = req[r].lines, q.read = req[r].read, q.errors = req[r].errors,
           q.target = req[r].target, q.sawOpen = req[r].sawOpen, Wanted(Job(r), q),
           \A j \in DOMAIN req[r].want : q.want[j] = req[r].want[j],
           \A j : j # k => (j \in q.sent <=> j \in req[r].sent) /\ (j \in q.new <=> j \in req[r].new),
           k \in q.new => ~Exists(rows[Table(r)][k])
    PROVE  MasterInv'
<1> DEFINE p == req[r]
<1>1. req'[r] = q
  BY SetTo
<1>2. /\ OnItsWay(Job(r), p) /\ LinesRead(Job(r), p) /\ Wanted(Job(r), p) /\ Locked(Job(r), p)
      /\ AsRead(p, rows[Table(r)]) /\ Table(r) = Job(r).table
  BY Known
<1>3. Written(q) \subseteq Written(p) \cup {k} /\ Written(p) \subseteq DOMAIN p.want
      /\ p.sawOpen \subseteq DOMAIN p.want
  <2>1. p.sent \subseteq DOMAIN p.want /\ p.new \subseteq DOMAIN p.want /\ p.sawOpen \subseteq DOMAIN p.want
    BY <1>2 DEF Wanted
  <2> QED BY <2>1 DEF Written
<1>4. OnItsWay(Job(r), q)
  BY <1>2 DEF OnItsWay, Ended
<1>5. LinesRead(Job(r), q)
  BY <1>2, SameLines
<1>6. Locked(Job(r), q)
  <2>1. \A j \in Written(q) : <<Job(r).table, j>> \in q.held
    BY <1>2, <1>3 DEF Locked, Ended
  <2>2. ASSUME Job(r).table = "employee", NEW e \in q.sawOpen, Exists(q.read[e]),
               q.want[e].employment_status = "LEFT", q.read[e].cells.employment_status # "LEFT"
        PROVE  <<"case", e>> \in q.held
    <3>1. q.want[e] = p.want[e] /\ e \in p.sawOpen
      BY <1>3, <2>2
    <3>2. <<"case", e>> \in p.held
      BY <1>2, <2>2, <3>1 DEF Locked, Ended
    <3> QED BY <3>2
  <2> QED BY <2>1, <2>2 DEF Locked
<1>7. AsRead(q, rows[Table(r)])
  BY <1>2 DEF AsRead, Ended
<1>8. \A j : j # k => RowWritten(r, j)' = RowWritten(r, j)
  <2> SUFFICES ASSUME NEW j, j # k PROVE RowWritten(r, j)' = RowWritten(r, j)
    OBVIOUS
  <2>1. Table(r)' = Table(r) /\ rows' = rows
    BY DEF Table, Job, data
  <2>2. (j \in q.sent <=> j \in p.sent) /\ (j \in q.new <=> j \in p.new)
    OBVIOUS
  <2>3. j \in p.sent \cup p.new => q.want[j] = p.want[j] /\ Dirty(r, j)' = Dirty(r, j)
    BY <1>1, <1>3 DEF Dirty, Written
  <2> QED BY <1>1, <2>1, <2>2, <2>3 DEF RowWritten
<1>9. NamesOf(r)'
  BY <1>1, <1>8, StatementNames DEF data
<1>10. AddsFirst(r)'
  BY <1>1 DEF AddsFirst
<1>11. \A l \in q.held \ p.held : Free(l, r)
  OBVIOUS
<1> QED BY <1>4, <1>5, <1>6, <1>7, <1>9, <1>10, <1>11, QuietStep DEF RequestOK, Ended

\* A row that a flush is about to UPDATE.
LEMMA FlushFacts ==
    ASSUME MasterInv, NEW r \in DOMAIN cast.job, NEW k, Flushes(r, k)
    PROVE  LET names == NameSet(r, k, req[r].want[k], Dirty(r, k)) IN
           /\ req[r].pc = "rows" /\ Free(<<Table(r), k>>, r) /\ k \in Keys(Table(r))
           /\ k \in DOMAIN req[r].want \ req[r].new /\ k \notin Written(req[r])
           /\ Exists(rows[Table(r)][k]) /\ Exists(req[r].read[k])
           /\ names \in SUBSET NameLocks /\ NameLeft(r, k) \in SUBSET NameLocks
           /\ Table(r) # T => names = {} /\ NameLeft(r, k) = {}
           /\ names = {} => NameLeft(r, k) = {}
           /\ \A n \in Nat : <<"name", n>> \in names =>
                  "name" \in Dirty(r, k) /\ req[r].want[k].name = n
           /\ \A n \in Nat : <<"name", n>> \in NameLeft(r, k) => HasName(rows[T][k], n)
           /\ \A l \in NameLeft(r, k) : Free(l, r)
           /\ Table(r) = T /\ "name" \in Dirty(r, k) => <<"name", req[r].want[k].name>> \in names
<1> DEFINE names == NameSet(r, k, req[r].want[k], Dirty(r, k))
           t     == Table(r)
<1>1. /\ req[r].pc = "rows" /\ Free(<<t, k>>, r) /\ k \in DOMAIN req[r].want
      /\ k \notin req[r].sent \cup req[r].new
  BY DEF Flushes, Unsaved
<1>2. k \in DOMAIN req[r].read /\ k \in Keys(t) /\ req[r].want[k] \in Cells(t) /\ req[r].read[k] \in Row(t)
  BY <1>1, WantedRows
<1>3. t \in Tables /\ Wanted(Job(r), req[r]) /\ AsRead(req[r], rows[t])
  BY Known
<1>4. rows[t][k] \in Row(t)
  BY <1>2, <1>3 DEF MasterInv, WellTyped
<1>5. Exists(req[r].read[k])
  BY <1>1, <1>3 DEF Wanted
<1>6. Exists(rows[t][k])
  <2>1. rows[t][k].updated >= req[r].read[k].updated
    BY <1>1, <1>2, <1>3, <1>5 DEF AsRead, Ended
  <2> QED BY <1>2, <1>3, <1>4, <1>5, <2>1, RowFacts DEF Exists
<1>7. rows[t][k].cells \in Cells(t) /\ rows[t][k].cells.name \in Nat /\ req[r].want[k].name \in Nat
  BY <1>2, <1>3, <1>4, <1>6, RowFacts, CellFacts
<1>8. /\ names = IF t = T /\ "name" \in Dirty(r, k) THEN {<<"name", req[r].want[k].name>>} ELSE {}
      /\ NameLeft(r, k) = IF t = T /\ "name" \in Dirty(r, k) THEN {<<"name", rows[t][k].cells.name>>} ELSE {}
  BY DEF NameSet, NameLeft, T
<1>9. names \in SUBSET NameLocks /\ NameLeft(r, k) \in SUBSET NameLocks
  BY <1>7, <1>8 DEF NameLocks
<1>10. \A n \in Nat : <<"name", n>> \in NameLeft(r, k) => t = T /\ HasName(rows[t][k], n)
  BY <1>6, <1>8 DEF HasName
<1>11. \A l \in NameLeft(r, k) : Free(l, r)
  <2> SUFFICES ASSUME NEW l \in NameLeft(r, k) PROVE Free(l, r)
    OBVIOUS
  <2>1. PICK n \in Nat : l = <<"name", n>>
    BY <1>9 DEF NameLocks
  <2>2. HasName(rows[T][k], n) /\ t = T
    BY <1>10, <2>1
  <2>3. k \in Types /\ Free(<<T, k>>, r)
    BY <1>1, <1>2, <2>2 DEF Keys, T
  <2> QED BY <2>1, <2>2, <2>3, LeftIsFree
<1>12. \A n \in Nat : <<"name", n>> \in names => "name" \in Dirty(r, k) /\ req[r].want[k].name = n
  BY <1>8
<1>13. /\ t # T => names = {} /\ NameLeft(r, k) = {}
       /\ names = {} => NameLeft(r, k) = {}
       /\ t = T /\ "name" \in Dirty(r, k) => <<"name", req[r].want[k].name>> \in names
  BY <1>8
<1> HIDE DEF names
<1> QED BY <1>1, <1>2, <1>5, <1>6, <1>9, <1>10, <1>11, <1>12, <1>13 DEF Written, names

LEMMA FlushStep ==
    ASSUME MasterInv, NEW r \in DOMAIN cast.job, NEW k, FlushRow(r, k)
    PROVE  MasterInv'
<1> DEFINE p     == req[r]
           t     == Table(r)
           names == NameSet(r, k, p.want[k], Dirty(r, k))
           left  == NameLeft(r, k)
           q     == [Emit(r, k, left, names) EXCEPT !.sent = @ \cup {k}]
<1>1. /\ Flushes(r, k) /\ (\A l \in names : Free(l, r)) /\ ~NameTaken(r, k, names) /\ Set(r, q)
      /\ UNCHANGED <<data, cast, loop, scan>>
  BY DEF FlushRow
<1>2. /\ p.pc = "rows" /\ Free(<<t, k>>, r) /\ k \in Keys(t)
      /\ k \in DOMAIN p.want \ p.new /\ k \notin Written(p)
      /\ Exists(rows[t][k]) /\ Exists(p.read[k])
      /\ names \in SUBSET NameLocks /\ left \in SUBSET NameLocks
      /\ t # T => names = {} /\ left = {}
      /\ \A n \in Nat : <<"name", n>> \in names => "name" \in Dirty(r, k) /\ p.want[k].name = n
      /\ \A n \in Nat : <<"name", n>> \in left => HasName(rows[T][k], n)
      /\ \A l \in left : Free(l, r)
      /\ t = T /\ "name" \in Dirty(r, k) => <<"name", p.want[k].name>> \in names
  BY <1>1, FlushFacts
<1>3. /\ q.held = p.held \cup {<<t, k>>} \cup left \cup names /\ q.sent = p.sent \cup {k}
      /\ \A f \in Fields \ {"held", "sent"} : q[f] = p[f]
      /\ q = [f \in Fields |-> q[f]]
  <2>1. DOMAIN p = Fields
    BY Known
  <2> HIDE DEF p, left, names
  <2> QED BY <2>1 DEF Emit, p, Fields
<1> HIDE DEF q
<1>4. /\ q.pc = p.pc /\ q.lines = p.lines /\ q.read = p.read /\ q.errors = p.errors /\ q.at = p.at
      /\ q.target = p.target /\ q.sawOpen = p.sawOpen /\ q.want = p.want /\ q.new = p.new
  BY <1>3 DEF Fields
<1>5. Shaped(q)
  <2>1. <<t, k>> \in Locks /\ names \cup left \subseteq Locks
    <3>1. t \in Tables
      BY Known
    <3>2. k \in Employees \cup Types
      BY <1>2 DEF Keys
    <3> QED BY <1>2, <3>1, <3>2 DEF Locks, NameLocks
  <2>2. Shaped(p)
    BY Known
  <2> HIDE DEF p, left, names
  <2> QED BY <1>3, <1>4, <2>1, <2>2 DEF Shaped
<1>6. Wanted(Job(r), q)
  <2>1. Wanted(Job(r), p)
    BY Known
  <2>2. q.sent \subseteq DOMAIN p.want \ p.new
    <3>1. p.sent \subseteq DOMAIN p.want \ p.new
      BY <2>1 DEF Wanted
    <3> QED BY <1>2, <1>3, <3>1
  <2> HIDE DEF p, left, names
  <2> QED BY <1>4, <2>1, <2>2 DEF Wanted
<1>7. req'[r] = q
  BY <1>1, SetTo
<1>8. RowWritten(r, k)' = [cells |-> [c \in DOMAIN rows[t][k].cells |->
                                         IF c \in Dirty(r, k) THEN p.want[k][c] ELSE rows[t][k].cells[c]],
                          updated |-> rows[t][k].updated + 1]
  <2>1. Table(r)' = t /\ rows' = rows
    BY <1>1 DEF Table, Job, data
  <2>2. Dirty(r, k)' = Dirty(r, k)
    BY <1>4, <1>7 DEF Dirty
  <2>3. k \in q.sent /\ k \notin q.new
    BY <1>2, <1>3, <1>4
  <2> QED BY <1>4, <1>7, <2>1, <2>2, <2>3 DEF RowWritten
<1>9. /\ rows[t][k].updated \in Nat /\ DOMAIN rows[t][k].cells = DOMAIN Columns(t)
      /\ "name" \in DOMAIN Columns(t)
  <2>1. t \in Tables /\ rows[t][k] \in Row(t)
    BY <1>2, Known DEF MasterInv, WellTyped
  <2> QED BY <1>2, <2>1, RowFacts, CellFacts
<1>10. \A n : HasName(RowWritten(r, k), n)' <=>
                 n = IF "name" \in Dirty(r, k) THEN p.want[k].name ELSE rows[t][k].cells.name
  <2>1. (RowWritten(r, k)').updated > 0
    BY <1>8, <1>9
  <2>2. (RowWritten(r, k)').cells.name = IF "name" \in Dirty(r, k) THEN p.want[k].name
                                         ELSE rows[t][k].cells.name
    BY <1>8, <1>9
  <2> QED BY <2>1, <2>2 DEF HasName, Exists
<1>11. \A n \in Nat : <<"name", n>> \in names => HasName(RowWritten(r, k), n)'
  BY <1>2, <1>10
<1>12. Renames(r, k, left, names)
  <2>1. \A n \in Nat, j \in Types \ {k} : <<"name", n>> \in names => ~HasName(RowWritten(r, j), n)
    BY <1>1 DEF NameTaken, HasName
  <2>2. ASSUME t = T, NEW n \in Nat, HasName(RowWritten(r, k), n)'
        PROVE  HasName(rows[T][k], n) \/ <<"name", n>> \in names
    <3>1. CASE "name" \in Dirty(r, k)
      BY <1>2, <1>10, <2>2, <3>1
    <3>2. CASE "name" \notin Dirty(r, k)
      BY <1>2, <1>10, <2>2, <3>2 DEF HasName
    <3> QED BY <3>1, <3>2
  <2> HIDE DEF names, p
  <2> QED BY <1>2, <1>11, <2>1, <2>2 DEF Renames
<1>13. /\ \A j \in DOMAIN p.want : q.want[j] = p.want[j]
       /\ \A j : j # k => (j \in q.sent <=> j \in p.sent) /\ (j \in q.new <=> j \in p.new)
       /\ k \notin q.new
  BY <1>2, <1>3, <1>4
<1>14. \A l \in names \cup left : Free(l, r)
  BY <1>1, <1>2
<1> HIDE DEF names, left
<1> QED BY <1>1, <1>2, <1>3, <1>4, <1>5, <1>6, <1>12, <1>13, <1>14, StatementStep

\* A request that is about to INSERT the row of its next line.
LEMMA InsertFacts ==
    ASSUME MasterInv, NEW r \in DOMAIN cast.job, Inserts(r)
    PROVE  LET k     == Line(r).key
               cells == Line(r).cells
               names == NameSet(r, k, cells, DOMAIN cells) IN
           /\ req[r].pc = "rows" /\ Free(<<Table(r), k>>, r) /\ k \in Keys(Table(r))
           /\ k \in DOMAIN req[r].read /\ k \notin DOMAIN req[r].want /\ k \notin Written(req[r])
           /\ cells \in Cells(Table(r)) /\ cells.name \in Nat
           /\ names = IF Table(r) = T THEN {<<"name", cells.name>>} ELSE {}
           /\ names \in SUBSET NameLocks
<1> DEFINE k == Line(r).key
           q == req[r]
<1>1. /\ MoreLines(r) /\ IsNew(r) /\ Free(<<Table(r), k>>, r)
  BY DEF Inserts
<1>2. /\ q.pc = "rows" /\ q.at \in 1..Len(q.lines) /\ Line(r) = q.lines[q.at]
      /\ k \in Keys(Table(r)) /\ k \in DOMAIN q.read /\ k \notin DOMAIN q.want
  BY <1>1, NextLine
<1>3. /\ LinesRead(Job(r), q) /\ OnItsWay(Job(r), q) /\ Wanted(Job(r), q)
      /\ Table(r) = Job(r).table /\ Table(r) \in Tables
  BY Known
<1>4. k \notin Written(q)
  <2>1. q.sent \subseteq DOMAIN q.want /\ q.new \subseteq DOMAIN q.want
    BY <1>3 DEF Wanted
  <2> QED BY <1>2, <2>1 DEF Written
<1>5. Job(r).kind \in {"import", "create"}
  <2>1. Job(r).kind \in RowKinds
    BY <1>2, <1>3 DEF OnItsWay
  <2>2. Job(r).kind = "update" => Exists(q.read[k])
    BY <1>2, <1>3 DEF LinesRead
  <2> QED BY <1>1, <2>1, <2>2 DEF RowKinds, IsNew
<1>6. Line(r).cells \in Cells(Table(r))
  BY <1>2, <1>3, <1>5 DEF LinesRead
<1>7. Line(r).cells.name \in Nat /\ "name" \in DOMAIN Line(r).cells
  BY <1>3, <1>6, CellFacts
<1>8. /\ NameSet(r, k, Line(r).cells, DOMAIN Line(r).cells)
             = IF Table(r) = T THEN {<<"name", Line(r).cells.name>>} ELSE {}
      /\ NameSet(r, k, Line(r).cells, DOMAIN Line(r).cells) \in SUBSET NameLocks
  BY <1>7 DEF NameSet, T, NameLocks
<1> HIDE DEF q
<1> QED BY <1>1, <1>2, <1>4, <1>6, <1>7, <1>8 DEF q

LEMMA RowLock ==
    ASSUME MasterInv, NEW r \in DOMAIN cast.job, NEW k \in Keys(Table(r))
    PROVE  <<Table(r), k>> \in Locks
<1>1. Table(r) \in Tables /\ k \in Employees \cup Types
  BY Known DEF Keys
<1> QED BY <1>1 DEF Locks

LEMMA InsertStep ==
    ASSUME MasterInv, NEW r \in DOMAIN cast.job, InsertRow(r)
    PROVE  MasterInv'
<1> SUFFICES ASSUME NEW k, k = Line(r).key, NEW cells, cells = Line(r).cells
             PROVE  MasterInv'
  OBVIOUS
<1> DEFINE p     == req[r]
           t     == Table(r)
           names == NameSet(r, k, cells, DOMAIN cells)
           q     == [Emit(r, k, {}, names) EXCEPT !.at = @ + 1, !.want = Wanting(r, cells),
                                                  !.new = @ \cup {k}]
<1>1. /\ Inserts(r) /\ (\A l \in names : Free(l, r)) /\ ~NameTaken(r, k, names) /\ Set(r, q)
      /\ ~Exists(rows[t][k]) /\ UNCHANGED <<data, cast, loop, scan>>
  BY DEF InsertRow
<1>2. /\ p.pc = "rows" /\ Free(<<t, k>>, r) /\ k \in Keys(t)
      /\ k \in DOMAIN p.read /\ k \notin DOMAIN p.want /\ k \notin Written(p)
      /\ cells \in Cells(t) /\ cells.name \in Nat
      /\ names = IF t = T THEN {<<"name", cells.name>>} ELSE {}
      /\ names \in SUBSET NameLocks
  BY <1>1, InsertFacts
<1>3. /\ q.held = p.held \cup {<<t, k>>} \cup {} \cup names /\ q.at = p.at + 1
      /\ q.want = Wanting(r, cells) /\ q.new = p.new \cup {k}
      /\ \A f \in Fields \ {"held", "at", "want", "new"} : q[f] = p[f]
      /\ q = [f \in Fields |-> q[f]]
  <2>1. DOMAIN p = Fields
    BY Known
  <2> HIDE DEF p, names
  <2> QED BY <2>1 DEF Emit, p, Fields
<1> HIDE DEF q
<1>4. /\ q.pc = p.pc /\ q.lines = p.lines /\ q.read = p.read /\ q.errors = p.errors
      /\ q.target = p.target /\ q.sawOpen = p.sawOpen /\ q.sent = p.sent
  BY <1>3 DEF Fields
<1>5. Shaped(q)
  <2>1. <<t, k>> \in Locks /\ names \subseteq Locks
    BY <1>2, RowLock DEF Locks, NameLocks
  <2>2. Shaped(p)
    BY Known
  <2> HIDE DEF p, names
  <2> QED BY <1>3, <1>4, <2>1, <2>2 DEF Shaped
<1>6. /\ Wanted(Job(r), q) /\ q.want[k] = cells
      /\ \A j \in DOMAIN p.want : j # k /\ q.want[j] = p.want[j]
  <2>1. MoreLines(r) /\ IsNew(r)
    BY <1>1 DEF Inserts
  <2>2. q.sawOpen \subseteq req[r].sawOpen \cup {Line(r).key}
    BY <1>4
  <2>3. \A c \in DOMAIN Line(r).cells : cells[c] = Line(r).cells[c]
    OBVIOUS
  <2>4. PICK new \in Cells(t) : new = cells
    BY <1>2
  <2>5. /\ q.want = Wanting(r, new) /\ q.new = req[r].new \cup {Line(r).key}
        /\ \A c \in DOMAIN Line(r).cells : new[c] = Line(r).cells[c]
    BY <1>3, <2>3, <2>4
  <2>6. q.at = req[r].at + 1 /\ q.lines = req[r].lines /\ q.read = req[r].read /\ q.sent = req[r].sent
    BY <1>3, <1>4
  <2>7. /\ Wanted(Job(r), q) /\ q.want[Line(r).key] = new
        /\ \A j \in DOMAIN req[r].want : j # Line(r).key /\ q.want[j] = req[r].want[j]
    <3> HIDE DEF p, names
    <3> QED BY <2>1, <2>2, <2>5, <2>6, LineTakenUp
  <2> QED BY <2>4, <2>7
<1>7. req'[r] = q
  BY <1>1, SetTo
<1>8. RowWritten(r, k)' = [cells |-> cells, updated |-> 1]
  <2>1. q.want[k] = cells /\ k \in q.new
    BY <1>3, <1>6
  <2>3. req'[r].want[k] = cells /\ k \in req'[r].new /\ k \notin req'[r].sent
    BY <1>2, <1>4, <1>7, <2>1 DEF Written
  <2> QED BY <2>3 DEF RowWritten
<1>9. \A n : HasName(RowWritten(r, k), n)' <=> n = cells.name
  BY <1>8 DEF HasName, Exists
<1>10. Renames(r, k, {}, names)
  <2>1. \A n \in Nat, j \in Types \ {k} : <<"name", n>> \in names => ~HasName(RowWritten(r, j), n)
    BY <1>1 DEF NameTaken, HasName
  <2> HIDE DEF names
  <2> QED BY <1>2, <1>9, <2>1 DEF Renames
<1>11. /\ \A j \in DOMAIN p.want : q.want[j] = p.want[j]
       /\ \A j : j # k => (j \in q.sent <=> j \in p.sent) /\ (j \in q.new <=> j \in p.new)
  BY <1>3, <1>4, <1>6
<1>12. \A l \in names \cup {} : Free(l, r)
  BY <1>1
<1> HIDE DEF names
<1> QED BY <1>1, <1>2, <1>3, <1>4, <1>5, <1>6, <1>10, <1>11, <1>12, StatementStep

\* A statement that has its row but waits for a name.
LEMMA WaitStep ==
    ASSUME MasterInv, NEW r \in DOMAIN cast.job, NEW k, WaitForName(r, k)
    PROVE  MasterInv'
<1> DEFINE p == req[r]
           t == Table(r)
<1>1. \E left : /\ Set(r, Emit(r, k, left, {})) /\ p.pc = "rows" /\ Free(<<t, k>>, r) /\ k \in Keys(t)
                /\ k \notin Written(p) /\ left \in SUBSET NameLocks /\ (t # T => left = {})
                /\ \A n \in Nat : <<"name", n>> \in left => HasName(rows[T][k], n)
                /\ \A l \in left : Free(l, r)
  <2>1. CASE Flushes(r, k) /\ Set(r, Emit(r, k, NameLeft(r, k), {}))
    BY <2>1, FlushFacts
  <2>2. CASE Inserts(r) /\ Line(r).key = k /\ Set(r, Emit(r, k, {}, {}))
    <3>1. p.pc = "rows" /\ Free(<<t, k>>, r) /\ k \in Keys(t) /\ k \notin Written(p)
      BY <2>2, InsertFacts
    <3> QED BY <2>2, <3>1
  <2> QED BY <2>1, <2>2 DEF WaitForName
<1>2. PICK left : /\ Set(r, Emit(r, k, left, {})) /\ p.pc = "rows" /\ Free(<<t, k>>, r) /\ k \in Keys(t)
                  /\ k \notin Written(p) /\ left \in SUBSET NameLocks /\ (t # T => left = {})
                  /\ \A n \in Nat : <<"name", n>> \in left => HasName(rows[T][k], n)
                  /\ \A l \in left : Free(l, r)
  BY <1>1
<1> DEFINE q == Emit(r, k, left, {})
<1>3. /\ q.held = p.held \cup {<<t, k>>} \cup left \cup {}
      /\ \A f \in Fields \ {"held"} : q[f] = p[f]
      /\ q = [f \in Fields |-> q[f]]
  <2>1. DOMAIN p = Fields
    BY Known
  <2> HIDE DEF p
  <2> QED BY <2>1 DEF Emit, p, Fields
<1> HIDE DEF q
<1>4. /\ q.pc = p.pc /\ q.lines = p.lines /\ q.read = p.read /\ q.errors = p.errors /\ q.at = p.at
      /\ q.target = p.target /\ q.sawOpen = p.sawOpen /\ q.want = p.want /\ q.new = p.new
      /\ q.sent = p.sent
  BY <1>3 DEF Fields
<1>5. Shaped(q)
  <2>1. <<t, k>> \in Locks /\ left \subseteq Locks
    BY <1>2, RowLock DEF Locks, NameLocks
  <2>2. Shaped(p)
    BY Known
  <2> HIDE DEF p
  <2> QED BY <1>3, <1>4, <2>1, <2>2 DEF Shaped
<1>6. Wanted(Job(r), q)
  BY <1>4, Known, SameWants
<1>7. Set(r, q) /\ UNCHANGED <<data, cast, loop, scan>>
  BY <1>2 DEF WaitForName, q
<1>8. req'[r] = q
  BY <1>7, SetTo
<1>9. RowWritten(r, k)' = rows[t][k]
  <2>1. rows' = rows /\ Table(r)' = t
    BY <1>7 DEF Table, Job, data
  <2>2. k \notin (req[r].new)' /\ k \notin (req[r].sent)'
    BY <1>2, <1>4, <1>8 DEF Written
  <2> QED BY <2>1, <2>2 DEF RowWritten
<1>10. Renames(r, k, left, {})
  BY <1>2, <1>9 DEF Renames, HasName, Exists
<1>11. /\ \A j \in DOMAIN p.want : q.want[j] = p.want[j]
       /\ \A j : j # k => (j \in q.sent <=> j \in p.sent) /\ (j \in q.new <=> j \in p.new)
       /\ k \notin q.new
  BY <1>2, <1>4 DEF Written
<1>12. \A l \in {} \cup left : Free(l, r)
  BY <1>2
<1> QED BY <1>2, <1>3, <1>4, <1>5, <1>6, <1>7, <1>10, <1>11, <1>12, StatementStep

LEMMA StatementFails ==
    ASSUME MasterInv, NEW r \in DOMAIN cast.job, InsertFails(r) \/ \E k : FlushFails(r, k)
    PROVE  MasterInv'
<1>1. Abort(r, "failed") /\ req[r].pc = "rows"
  BY DEF InsertFails, FlushFails, Inserts, MoreLines, Flushes
<1> QED BY <1>1, AbortStep DEF Ended

-----------------------------------------------------------------------------
(***************************************************************************)
(* A policy, a case, and requests that are given up                        *)
(***************************************************************************)

\* A step that only moves on, aims at a policy, and takes a lock.
LEMMA LaterStep ==
    ASSUME MasterInv, NEW r \in DOMAIN cast.job, NEW q, Set(r, q), UNCHANGED <<data, cast, loop, scan>>,
           req[r].pc \notin Ended \cup {"sent"}, q.pc \notin {"rows", "sent"}, loop # r,
           Shaped(q), \A f \in Fields \ {"pc", "target", "held"} : q[f] = req[r][f],
           OnItsWay(Job(r), q),
           NEW l, l[1] # "name", Free(l, r), q.held = req[r].held \/ q.held = req[r].held \cup {l},
           AddsFirst(r)'
    PROVE  MasterInv'
<1> DEFINE p == req[r]
<1>1. /\ q.lines = p.lines /\ q.read = p.read /\ q.sent = p.sent /\ q.want = p.want /\ q.at = p.at
      /\ q.new = p.new /\ q.errors = p.errors /\ q.sawOpen = p.sawOpen /\ Written(q) = Written(p)
  BY DEF Fields, Written
<1>2. /\ LinesRead(Job(r), p) /\ Wanted(Job(r), p) /\ Locked(Job(r), p)
      /\ AsRead(p, rows[Table(r)])
  BY Known
<1>3. LinesRead(Job(r), q) /\ Wanted(Job(r), q)
  BY <1>1, <1>2, SameLines, SameWants
<1>4. p.pc \notin Ended /\ p.held \subseteq q.held
  OBVIOUS
<1>5. Locked(Job(r), q)
  <2> HIDE DEF p
  <2> QED BY <1>1, <1>2, <1>4 DEF Locked
<1>6. AsRead(q, rows[Table(r)])
  BY <1>1, <1>2, <1>4 DEF AsRead
<1>7. req'[r] = q
  BY SetTo
<1>8. NamesOf(r)'
  <2>1. \A n \in Nat : <<"name", n>> \in q.held <=> <<"name", n>> \in p.held
    <3>1. \A n \in Nat : <<"name", n>> # l
      OBVIOUS
    <3> QED BY <3>1
  <2>2. q.pc \in Ended => q.held = {}
    BY DEF OnItsWay
  <2>3. \A k \in Types : <<T, k>> \in p.held => <<T, k>> \in q.held
    BY <1>4
  <2> QED BY <1>1, <1>4, <1>7, <2>1, <2>2, <2>3, Known, KeepsNames DEF data
<1>9. \A x \in q.held \ p.held : Free(x, r)
  OBVIOUS
<1> QED BY <1>3, <1>4, <1>5, <1>6, <1>8, <1>9, QuietStep DEF RequestOK

LEMMA UpsertStep ==
    ASSUME MasterInv, NEW r \in DOMAIN cast.job, UpsertPolicy(r)
    PROVE  MasterInv'
<1> DEFINE known == PoliciesOf(Job(r).row.key)
<1>1. PICK x \in IF known = {} THEN {r} ELSE known :
          Set(r, [req[r] EXCEPT !.pc = "policy", !.target = x])
  BY Zenon DEF UpsertPolicy
<1> DEFINE q == [req[r] EXCEPT !.pc = "policy", !.target = x]
<1>2. req[r].pc = "rows" /\ CarriesTerms(r) /\ UNCHANGED <<data, cast, loop, scan>>
  BY DEF UpsertPolicy, RowsFlushed
<1>3. x \in Requests /\ (x \notin DOMAIN policy => x = r /\ known = {})
  BY <1>1, Known DEF PoliciesOf, MasterInv, WellTyped
<1>4. /\ q.pc = "policy" /\ q.target = x /\ Shaped(q) /\ q.held = req[r].held
      /\ \A f \in Fields \ {"pc", "target", "held"} : q[f] = req[r][f]
  BY <1>3, Known DEF Shaped, Fields, Pc
<1>5. Set(r, q)
  BY <1>1
<1> HIDE DEF q
<1>6. loop # r /\ Carries(Job(r)) /\ Job(r).kind \in RowKinds /\ Job(r).kind # "updatePolicy"
  BY <1>2, Known DEF CarriesTerms, Carries, RowKinds
<1>7. OnItsWay(Job(r), q)
  BY <1>3, <1>4, <1>6 DEF OnItsWay, Ended
<1>8. req'[r] = q
  BY <1>5, SetTo
<1>9. AddsFirst(r)'
  <2>1. CASE x \in DOMAIN policy
    BY <1>2, <1>4, <1>8, <2>1 DEF AddsFirst, data
  <2>2. CASE x \notin DOMAIN policy
    <3>1. x = r /\ Job(r)' = Job(r) /\ policy' = policy /\ \A y : DefaultOf(y, Job(r).row.key)' = DefaultOf(y, Job(r).row.key)
      BY <1>2, <1>3, <2>2 DEF Job, data, DefaultOf, CarriesTerms
    <3>2. \A y \in DOMAIN policy : ~DefaultOf(y, Job(r).row.key)
      BY <1>3, <2>2 DEF PoliciesOf, DefaultOf
    <3> QED BY <1>4, <1>6, <1>8, <3>1, <3>2 DEF AddsFirst
  <2> QED BY <2>1, <2>2
<1>10. PICK l : l[1] # "name" /\ Free(l, r)
  <2>1. ~(\E y \in Requests \ {r} : <<"none", 0>> \in req[y].held)
    BY DEF MasterInv, WellTyped, Shaped, Locks, Tables
  <2> QED BY <2>1 DEF Free
<1>11. req[r].pc \notin Ended \cup {"sent"} /\ q.pc \notin {"rows", "sent"}
  BY <1>2, <1>4 DEF Ended
<1> QED BY <1>2, <1>4, <1>5, <1>6, <1>7, <1>9, <1>10, <1>11, LaterStep

LEMMA FlushPolicyStep ==
    ASSUME MasterInv, NEW r \in DOMAIN cast.job, FlushPolicy(r)
    PROVE  MasterInv'
<1> DEFINE l == <<"policy", req[r].target>>
           q == [req[r] EXCEPT !.pc = "commit", !.held = @ \cup {l}]
<1>1. req[r].pc = "policy" /\ Free(l, r) /\ Set(r, q) /\ UNCHANGED <<data, cast, loop, scan>>
  BY DEF FlushPolicy
<1>2. /\ OnItsWay(Job(r), req[r]) /\ req[r].target \in Requests /\ l \in Locks
  BY <1>1, Known DEF OnItsWay, Locks
<1>3. /\ q.pc = "commit" /\ q.target = req[r].target /\ Shaped(q) /\ q.held = req[r].held \cup {l}
      /\ \A f \in Fields \ {"pc", "target", "held"} : q[f] = req[r][f]
  BY <1>2, Known DEF Shaped, Fields, Pc
<1> HIDE DEF q
<1>4. loop # r
  BY <1>1, Known
<1>5. OnItsWay(Job(r), q)
  BY <1>1, <1>2, <1>3 DEF OnItsWay, Ended, Fields, Written
<1>6. req'[r] = q
  BY <1>1, SetTo
<1>7. AddsFirst(r)'
  <2>1. /\ Job(r)' = Job(r) /\ policy' = policy /\ CarriesTerms(r)' = CarriesTerms(r)
        /\ \A y : DefaultOf(y, Job(r).row.key)' = DefaultOf(y, Job(r).row.key)
    BY <1>1 DEF Job, data, DefaultOf, CarriesTerms
  <2>2. \A y \in DOMAIN policy : req'[y] = req[y]
    BY <1>1, Known DEF Set, MasterInv, WellTyped, PoliciesOK
  <2>3. Written(q) = Written(req[r])
    BY <1>3 DEF Written, Fields
  <2> QED BY <1>1, <1>3, <1>6, <2>1, <2>2, <2>3, Known DEF AddsFirst
<1>8. req[r].pc \notin Ended \cup {"sent"} /\ q.pc \notin {"rows", "sent"} /\ l[1] # "name"
  BY <1>1, <1>3 DEF Ended
<1> HIDE DEF l
<1> QED BY <1>1, <1>3, <1>4, <1>5, <1>7, <1>8, LaterStep

LEMMA LockCaseStep ==
    ASSUME MasterInv, NEW r \in DOMAIN cast.job, LockCase(r)
    PROVE  MasterInv'
<1> DEFINE l == <<"case", Job(r).key>>
<1>1. req[r].pc = "case" /\ Free(l, r) /\ UNCHANGED <<data, cast, loop, scan>>
  BY DEF LockCase
<1>2. /\ OnItsWay(Job(r), req[r]) /\ Job(r).kind = "feedback" /\ req[r].held = {} /\ l \in Locks
  BY <1>1, Known DEF OnItsWay, Locks, JobOK
<1>3. PICK pc \in {"done", "refused", "commit"}, held \in {{}, {l}} :
          /\ Set(r, [req[r] EXCEPT !.pc = pc, !.held = held]) /\ (pc = "done" => held = {})
  <2>1. CASE case[Job(r).key].updated = 0
    <3>1. Set(r, [req[r] EXCEPT !.pc = "done"])
      BY <2>1 DEF LockCase
    <3>2. [req[r] EXCEPT !.pc = "done", !.held = {}] = [req[r] EXCEPT !.pc = "done"]
      BY <1>2, Known DEF Shaped, Fields
    <3> QED BY <3>1, <3>2
  <2>2. CASE case[Job(r).key].updated # 0
    BY <2>2 DEF LockCase
  <2> QED BY <2>1, <2>2
<1> DEFINE q == [req[r] EXCEPT !.pc = pc, !.held = held]
<1>4. /\ q.pc = pc /\ q.target = req[r].target /\ Shaped(q) /\ q.held = held
      /\ \A f \in Fields \ {"pc", "target", "held"} : q[f] = req[r][f]
  BY <1>2, Known DEF Shaped, Fields, Pc
<1>5. Set(r, q)
  BY <1>3
<1> HIDE DEF q
<1>6. loop # r /\ req'[r] = q
  BY <1>1, <1>5, SetTo, Known
<1>7. OnItsWay(Job(r), q)
  <2>1. q.target = 0
    BY <1>1, <1>2, <1>4 DEF OnItsWay
  <2>2. Job(r).kind \notin RowKinds
    BY <1>2 DEF RowKinds
  <2> QED BY <1>2, <1>3, <1>4, <2>1, <2>2 DEF OnItsWay, Ended, Fields, Written
<1>8. AddsFirst(r)'
  <2>1. q.target = 0
    BY <1>1, <1>2, <1>4 DEF OnItsWay
  <2> QED BY <1>6, <2>1 DEF AddsFirst
<1>9. req[r].pc \notin Ended \cup {"sent"} /\ q.pc \notin {"rows", "sent"} /\ l[1] # "name"
  BY <1>1, <1>3, <1>4 DEF Ended
<1>10. q.held = req[r].held \/ q.held = req[r].held \cup {l}
  BY <1>2, <1>4
<1> HIDE DEF l
<1> QED BY <1>1, <1>4, <1>5, <1>6, <1>7, <1>8, <1>9, <1>10, LaterStep

LEMMA CloseStep ==
    ASSUME MasterInv, NEW r \in DOMAIN cast.job, CloseSession(r)
    PROVE  MasterInv'
<1>1. Abort(r, "done") /\ req[r].pc = "refused"
  BY DEF CloseSession
<1> QED BY <1>1, AbortStep DEF Ended

\* A step of the scan that commits nothing.
LEMMA ScanStepQuiet ==
    ASSUME MasterInv, UNCHANGED <<data, cast, req, loop>>,
           scan' \in ScanType, scan'.todo \cap scan'.held = {}, scan'.pc = "idle" => scan'.held = {},
           \A e \in scan'.held \ scan.held : \A r \in Requests : <<"case", e>> \notin req[r].held
    PROVE  MasterInv'
<1>1. rows' = rows /\ case' = case /\ policy' = policy /\ cast' = cast /\ req' = req /\ loop' = loop
  BY DEF data
<1>2. \A r : /\ Job(r)' = Job(r) /\ Table(r)' = Table(r) /\ CarriesTerms(r)' = CarriesTerms(r)
             /\ (NamesOf(r) => NamesOf(r)')
  BY <1>1, OthersKeepNames DEF Job, Table, CarriesTerms
<1>3. WellTyped'
  BY <1>1, <1>2 DEF MasterInv, WellTyped
<1>4. RequestsOK'
  BY <1>1, <1>2 DEF MasterInv, RequestsOK
<1>5. LocksExclude'
  BY <1>1 DEF MasterInv, LocksExclude
<1>6. NamesOfTypes'
  BY <1>1, <1>2 DEF MasterInv, NamesOfTypes
<1>7. PoliciesOK'
  BY <1>1, <1>2 DEF MasterInv, PoliciesOK, AddsFirst, DefaultOf
<1>8. TwoDefaultsNeedAnIdleType'
  BY <1>1, <1>2 DEF MasterInv, TwoDefaultsNeedAnIdleType
<1> QED BY <1>3, <1>4, <1>5, <1>6, <1>7, <1>8 DEF MasterInv

LEMMA VictimStep ==
    ASSUME MasterInv, NEW r \in DOMAIN cast.job, DeadlockVictim(r)
    PROVE  MasterInv'
<1>1. CASE Abort(r, "failed")
  <2>1. req[r].pc \notin Ended \cup {"sent"}
    <3>1. CASE MoreLines(r)
      BY <3>1 DEF MoreLines, Ended
    <3>2. CASE req[r].held # {}
      <4>1. OnItsWay(Job(r), req[r])
        BY Known
      <4> QED BY <3>2, <4>1, UnsentShape DEF OnItsWay
    <3> QED BY <3>1, <3>2 DEF DeadlockVictim, Deadlocked
  <2> QED BY <1>1, <2>1, AbortStep DEF Ended
<1>2. CASE scan' = NoScan /\ UNCHANGED <<data, cast, req, loop>>
  <2>1. NoScan \in ScanType /\ NoScan.todo \cap NoScan.held = {} /\ NoScan.held = {}
        /\ NoScan.pc # "idle"
    BY DEF NoScan, ScanType
  <2> QED BY <1>2, <2>1, ScanStepQuiet
<1> QED BY <1>1, <1>2 DEF DeadlockVictim

-----------------------------------------------------------------------------
(***************************************************************************)
(* The scan and the kubelet                                                *)
(***************************************************************************)

LEMMA ScanReads == MasterInv /\ ScanRead => MasterInv'
<1> SUFFICES ASSUME MasterInv, ScanRead PROVE MasterInv'
  OBVIOUS
<1> DEFINE touched == {e \in Employees : OnRoll(e) /\ case[e].open}
           stale   == {e \in Employees : ~OnRoll(e) /\ case[e].open}
           opening == {e \in Employees : OnRoll(e) /\ case[e] = NoCase}
<1>1. scan \in ScanType /\ scan.todo \cap scan.held = {}
  BY DEF MasterInv, WellTyped
<1> DEFINE new == [scan EXCEPT !.pc = "lock", !.touched = touched, !.stale = stale,
                               !.todo = touched \cup stale, !.opening = opening]
<1>2. scan' = new /\ UNCHANGED <<data, cast, req, loop>> /\ scan.pc = "idle"
  BY DEF ScanRead
<1>3. touched \subseteq Employees /\ stale \subseteq Employees /\ opening \subseteq Employees
  OBVIOUS
<1>4. scan.held = {}
  BY <1>2 DEF MasterInv, WellTyped
<1>5. new \in ScanType /\ new.held = scan.held /\ new.pc = "lock"
  <2> HIDE DEF touched, stale, opening
  <2> QED BY <1>1, <1>3 DEF ScanType
<1> HIDE DEF new, touched, stale, opening
<1> QED BY <1>2, <1>4, <1>5, ScanStepQuiet

LEMMA ScanLocks == MasterInv /\ ScanLock => MasterInv'
<1> SUFFICES ASSUME MasterInv, ScanLock PROVE MasterInv'
  OBVIOUS
<1>1. scan \in ScanType /\ scan.todo \cap scan.held = {}
  BY DEF MasterInv, WellTyped
<1>2. /\ scan.todo # {} /\ \A r \in Requests : <<"case", ScanNext>> \notin req[r].held
      /\ scan' = [scan EXCEPT !.todo = @ \ {ScanNext}, !.held = @ \cup {ScanNext}]
      /\ UNCHANGED <<data, cast, req, loop>> /\ scan.pc = "lock"
  BY DEF ScanLock
<1>3. ScanNext \in scan.todo
  <2> DEFINE first == IF scan.todo \cap scan.stale # {} THEN scan.todo \cap scan.stale ELSE scan.todo
  <2>1. first \in SUBSET Nat /\ first # {} /\ first \subseteq scan.todo
    BY <1>1, <1>2, MasterAssumption DEF ScanType
  <2>2. \E e \in first : \A f \in first : e <= f
    BY <2>1, LeastNumber
  <2>3. ScanNext = CHOOSE e \in first : \A f \in first : e <= f
    BY DEF ScanNext
  <2> HIDE DEF first
  <2>4. ScanNext \in first
    BY <2>2, <2>3
  <2> QED BY <2>1, <2>4
<1>4. /\ scan' \in ScanType /\ scan'.todo = scan.todo \ {ScanNext} /\ scan'.held = scan.held \cup {ScanNext}
      /\ scan'.pc # "idle"
  <2>1. ScanNext \in Employees
    BY <1>1, <1>3 DEF ScanType
  <2> HIDE DEF ScanNext
  <2> QED BY <1>1, <1>2, <2>1 DEF ScanType
<1> HIDE DEF ScanNext
<1> QED BY <1>1, <1>2, <1>3, <1>4, ScanStepQuiet

\* The scan writes cases, about which the invariant only says what they are.
LEMMA ScanCommits == MasterInv /\ ScanCommit => MasterInv'
<1> SUFFICES ASSUME MasterInv, ScanCommit PROVE MasterInv'
  OBVIOUS
<1>1. /\ rows' = rows /\ policy' = policy /\ cast' = cast /\ req' = req /\ loop' = loop /\ scan' = NoScan
  BY DEF ScanCommit
<1>2. \A r : /\ Job(r)' = Job(r) /\ Table(r)' = Table(r) /\ CarriesTerms(r)' = CarriesTerms(r)
             /\ (NamesOf(r) => NamesOf(r)')
  BY <1>1, OthersKeepNames DEF Job, Table, CarriesTerms
<1>3. case' \in [Employees -> Case]
  <2> DEFINE new(e) == CASE e \in scan.touched -> [open |-> TRUE, updated |-> case[e].updated + 1]
                         [] e \in scan.stale /\ case[e].open -> [open |-> FALSE, updated |-> case[e].updated + 1]
                         [] e \in scan.opening -> [open |-> TRUE, updated |-> 1]
                         [] OTHER -> case[e]
  <2>1. ASSUME NEW e \in Employees PROVE new(e) \in Case
    <3>1. case[e] \in Case
      BY DEF MasterInv, WellTyped
    <3>2. \/ new(e) = [open |-> TRUE, updated |-> case[e].updated + 1]
          \/ new(e) = [open |-> FALSE, updated |-> case[e].updated + 1]
          \/ new(e) = [open |-> TRUE, updated |-> 1]
          \/ new(e) = case[e]
      OBVIOUS
    <3>3. case[e].updated + 1 \in Nat
      BY <3>1 DEF Case
    <3> HIDE DEF new
    <3>4. \A b \in BOOLEAN, n \in Nat : [open |-> b, updated |-> n] \in Case
      BY DEF Case
    <3> QED BY <3>1, <3>2, <3>3, <3>4
  <2>2. case' = [e \in Employees |-> new(e)]
    BY DEF ScanCommit
  <2> HIDE DEF new
  <2> QED BY <2>1, <2>2
<1>4. WellTyped'
  <2>1. NoScan \in ScanType /\ NoScan.todo \cap NoScan.held = {} /\ NoScan.pc # "idle"
    BY DEF NoScan, ScanType
  <2> QED BY <1>1, <1>2, <1>3, <2>1 DEF MasterInv, WellTyped
<1>5. RequestsOK'
  BY <1>1, <1>2 DEF MasterInv, RequestsOK
<1>6. LocksExclude'
  <2>1. NoScan.held = {}
    BY DEF NoScan
  <2> QED BY <1>1, <2>1 DEF MasterInv, LocksExclude
<1>7. NamesOfTypes'
  BY <1>1, <1>2 DEF MasterInv, NamesOfTypes
<1>8. PoliciesOK'
  BY <1>1, <1>2 DEF MasterInv, PoliciesOK, AddsFirst, DefaultOf
<1>9. TwoDefaultsNeedAnIdleType'
  BY <1>1, <1>2 DEF MasterInv, TwoDefaultsNeedAnIdleType
<1> QED BY <1>4, <1>5, <1>6, <1>7, <1>8, <1>9 DEF MasterInv

LEMMA KubeletStep == MasterInv /\ KubeletRestart => MasterInv'
<1> SUFFICES ASSUME MasterInv, KubeletRestart PROVE MasterInv'
  OBVIOUS
<1> DEFINE Cut(r) == [req[r] EXCEPT !.pc = "dropped", !.held = {}]
<1>1. /\ rows' = rows /\ case' = case /\ policy' = policy /\ cast' = cast /\ scan' = scan /\ loop' = NoOne
      /\ req' = [r \in Requests |-> IF req[r].pc \in Ended \cup {"sent"} THEN req[r] ELSE Cut(r)]
  BY DEF KubeletRestart, data
<1>2. \A r \in Requests : \/ req'[r] = req[r]
                          \/ req'[r] = Cut(r) /\ req[r].pc \notin Ended \cup {"sent"}
  BY <1>1
<1>3. ASSUME NEW r \in Requests
      PROVE  /\ Cut(r).pc = "dropped" /\ Cut(r).held = {} /\ Shaped(Cut(r))
             /\ \A f \in Fields \ {"pc", "held"} : Cut(r)[f] = req[r][f]
  <2>1. Shaped(req[r])
    BY DEF MasterInv, WellTyped
  <2> QED BY <2>1 DEF Shaped, Fields, Pc
<1> HIDE DEF Cut
<1>4. \A r : Job(r)' = Job(r) /\ Table(r)' = Table(r) /\ CarriesTerms(r)' = CarriesTerms(r)
  BY <1>1 DEF Job, Table, CarriesTerms
<1>5. DOMAIN cast.job \subseteq Requests
  BY JobsAsked DEF MasterInv
<1>6. WellTyped'
  <2>1. \A r \in Requests : Shaped(req'[r])
    BY <1>2, <1>3 DEF MasterInv, WellTyped
  <2> QED BY <1>1, <2>1 DEF MasterInv, WellTyped
<1>7. RequestsOK'
  <2>1. ASSUME NEW r \in DOMAIN cast.job
        PROVE  RequestOK(Job(r), req'[r]) /\ AsRead(req'[r], rows[Table(r)])
    <3>1. CASE req'[r] = req[r]
      BY <3>1 DEF MasterInv, RequestsOK
    <3>2. CASE req'[r] = Cut(r) /\ req[r].pc \notin Ended \cup {"sent"}
      <4> DEFINE q == Cut(r)
      <4>1. /\ q.pc = "dropped" /\ q.held = {} /\ \A f \in Fields \ {"pc", "held"} : q[f] = req[r][f]
        BY <1>3, <1>5
      <4>2. OnItsWay(Job(r), q)
        BY <4>1, Known DEF OnItsWay, Ended, Fields, Written
      <4>3. LinesRead(Job(r), q)
        BY <3>2, <4>1, Known, SameLines DEF Fields
      <4>4. Wanted(Job(r), q)
        BY <4>1, Known, SameWants DEF Fields
      <4>5. Locked(Job(r), q) /\ AsRead(q, rows[Table(r)])
        BY <4>1 DEF Locked, AsRead, Ended
      <4> QED BY <3>2, <4>2, <4>3, <4>4, <4>5 DEF RequestOK
    <3> QED BY <1>2, <1>5, <3>1, <3>2
  <2>2. \A r \in Requests \ DOMAIN cast.job : req'[r] = Unsent
    BY <1>2, UnsentShape DEF MasterInv, RequestsOK
  <2> QED BY <1>1, <1>4, <2>1, <2>2 DEF RequestsOK
<1>8. LocksExclude'
  <2>1. \A r \in Requests : req'[r].held \subseteq req[r].held
    BY <1>2, <1>3
  <2> QED BY <1>1, <2>1 DEF MasterInv, LocksExclude
<1>9. NamesOfTypes'
  <2>1. ASSUME NEW r \in DOMAIN cast.job PROVE NamesOf(r)'
    <3>1. CASE req'[r] = req[r]
      BY <1>1, <3>1, Known, OthersKeepNames
    <3>2. CASE req'[r] = Cut(r)
      BY <1>3, <1>5, <3>2 DEF NamesOf, Ended
    <3> QED BY <1>2, <1>5, <3>1, <3>2
  <2> QED BY <1>1, <2>1 DEF MasterInv, NamesOfTypes
<1>10. \A p \in DOMAIN policy : p \in DOMAIN cast.job /\ req'[p] = req[p]
  BY <1>2, <1>5 DEF MasterInv, PoliciesOK, Ended
<1>11. PoliciesOK'
  <2>1. ASSUME NEW r \in DOMAIN cast.job PROVE AddsFirst(r)'
    <3>1. CASE req'[r] = req[r]
      BY <1>1, <1>4, <1>10, <3>1, Known DEF AddsFirst, DefaultOf
    <3>2. CASE req'[r] = Cut(r)
      BY <1>3, <1>5, <3>2 DEF AddsFirst
    <3> QED BY <1>2, <1>5, <3>1, <3>2
  <2> QED BY <1>1, <1>4, <1>10, <2>1 DEF MasterInv, PoliciesOK
<1>12. TwoDefaultsNeedAnIdleType'
  <2>1. \A p \in DOMAIN policy : /\ policy'[p] = policy[p] /\ req'[p] = req[p] /\ Job(p)' = Job(p)
                                 /\ CarriesTerms(p)' = CarriesTerms(p)
    BY <1>1, <1>4, <1>10
  <2>2. DOMAIN policy' = DOMAIN policy
    BY <1>1
  <2> QED BY <2>1, <2>2 DEF MasterInv, TwoDefaultsNeedAnIdleType
<1> QED BY <1>6, <1>7, <1>8, <1>9, <1>11, <1>12 DEF MasterInv

-----------------------------------------------------------------------------
(***************************************************************************)
(* A commit                                                                *)
(***************************************************************************)

\* The row locks of two requests are of different rows.
LEMMA RowsApart ==
    ASSUME MasterInv, NEW r \in DOMAIN cast.job, NEW x \in DOMAIN cast.job, x # r, Table(x) = Table(r),
           req[r].pc \notin Ended, NEW k \in Written(req[r])
    PROVE  <<Table(r), k>> \notin req[x].held /\ (req[x].pc \notin Ended => k \notin Written(req[x]))
<1>1. <<Table(r), k>> \in req[r].held
  BY Known DEF Locked
<1>2. <<Table(r), k>> \notin req[x].held
  BY <1>1, Known DEF MasterInv, LocksExclude
<1>3. req[x].pc \notin Ended => \A j \in Written(req[x]) : <<Table(r), j>> \in req[x].held
  BY Known DEF Locked
<1> QED BY <1>2, <1>3

LEMMA CommitEnds ==
    ASSUME MasterInv, NEW r \in DOMAIN cast.job, Commit(r)
    PROVE  /\ req[r].pc \notin Ended \cup {"sent"}
           /\ req[r].pc = "commit" \/ (req[r].pc = "rows" /\ RowsFlushed(r) /\ ~CarriesTerms(r))
           /\ req'[r].pc = "done" /\ req'[r].held = {} /\ Shaped(req'[r])
           /\ \A f \in Fields \ {"pc", "held"} : req'[r][f] = req[r][f]
           /\ \A x \in Requests \ {r} : req'[x] = req[x]
           /\ req' = [x \in Requests |-> req'[x]]
           /\ \A x : Job(x)' = Job(x) /\ Table(x)' = Table(x) /\ CarriesTerms(x)' = CarriesTerms(x)
<1> DEFINE q == [req[r] EXCEPT !.pc = "done", !.held = {}]
<1>1. Set(r, q) /\ cast' = cast
      /\ (req[r].pc = "commit" \/ (RowsFlushed(r) /\ ~CarriesTerms(r)))
  BY DEF Commit
<1>2. q.pc = "done" /\ q.held = {} /\ Shaped(q) /\ \A f \in Fields \ {"pc", "held"} : q[f] = req[r][f]
  BY Known DEF Shaped, Fields, Pc
<1> HIDE DEF q
<1>3. /\ req'[r] = q /\ \A x \in Requests \ {r} : req'[x] = req[x]
      /\ req' = [x \in Requests |-> req'[x]]
  BY <1>1, SetTo, Known DEF Set, MasterInv, WellTyped
<1>4. \A x : Job(x)' = Job(x) /\ Table(x)' = Table(x) /\ CarriesTerms(x)' = CarriesTerms(x)
  BY <1>1 DEF Job, Table, CarriesTerms
<1>5. req[r].pc \in {"commit", "rows"} /\ (req[r].pc = "rows" => RowsFlushed(r) /\ ~CarriesTerms(r))
  BY <1>1 DEF RowsFlushed
<1> QED BY <1>2, <1>3, <1>4, <1>5 DEF Ended

\* A commit leaves the rows of its table as its transaction saw them.
LEMMA RowsCommitted ==
    ASSUME MasterInv, NEW r \in DOMAIN cast.job, Commit(r)
    PROVE  /\ rows' = [t \in Tables |-> rows'[t]]
           /\ \A t \in Tables : rows'[t] \in [Keys(t) -> Row(t)]
           /\ \A t \in Tables \ {Table(r)} : rows'[t] = rows[t]
           /\ \A k \in Keys(Table(r)) : rows'[Table(r)][k] = RowWritten(r, k)
<1> DEFINE t == Table(r)
<1>1. /\ t \in Tables /\ rows = [s \in Tables |-> rows[s]] /\ \A s \in Tables : rows[s] \in [Keys(s) -> Row(s)]
      /\ rows' = RowsWritten(r) /\ req[r].pc \notin Ended
  BY Known, CommitEnds DEF MasterInv, WellTyped, Commit
<1>2. DOMAIN rows[t] = Keys(t)
  BY <1>1
<1>3. CASE Job(r).kind \in RowKinds
  <2> DEFINE new == [k \in DOMAIN rows[t] |-> RowWritten(r, k)]
  <2>1. rows' = [rows EXCEPT ![t] = new]
    BY <1>1, <1>3 DEF RowsWritten
  <2>2. new \in [Keys(t) -> Row(t)]
    <3>1. \A k \in Keys(t) : RowWritten(r, k) \in Row(t)
      BY <1>1, RowWrittenTyped DEF MasterInv
    <3> QED BY <1>2, <3>1
  <2>3. \A k \in Keys(t) : new[k] = RowWritten(r, k)
    BY <1>2
  <2> HIDE DEF new
  <2> QED BY <1>1, <2>1, <2>2, <2>3
<1>4. CASE Job(r).kind \notin RowKinds
  <2>1. rows' = rows
    BY <1>1, <1>4 DEF RowsWritten
  <2>2. Written(req[r]) = {}
    BY <1>4, Known DEF OnItsWay
  <2>3. \A k \in Keys(t) : RowWritten(r, k) = rows[t][k]
    BY <2>2 DEF RowWritten, Written
  <2> QED BY <1>1, <2>1, <2>3
<1> QED BY <1>3, <1>4

LEMMA CasesCommitted ==
    ASSUME MasterInv, NEW r \in DOMAIN cast.job, Commit(r)
    PROVE  case' \in [Employees -> Case]
<1> DEFINE new(e) == IF <<"case", e>> \in req[r].held
                     THEN [open |-> FALSE, updated |-> case[e].updated + 1] ELSE case[e]
<1>1. case' = [e \in Employees |-> new(e)]
  BY DEF Commit, CasesWritten
<1>2. ASSUME NEW e \in Employees PROVE new(e) \in Case
  <2>1. case[e] \in Case
    BY DEF MasterInv, WellTyped
  <2> QED BY <2>1 DEF Case
<1> HIDE DEF new
<1> QED BY <1>1, <1>2

\* A commit adds at most the policy of its own request, and a policy it does not move
\* keeps its type.
LEMMA PoliciesCommitted ==
    ASSUME MasterInv, NEW r \in DOMAIN cast.job, Commit(r)
    PROVE  /\ DOMAIN policy' \subseteq Requests /\ policy' \in [DOMAIN policy' -> Policy]
           /\ r \notin DOMAIN policy /\ DOMAIN policy \subseteq DOMAIN policy'
           /\ \A p \in DOMAIN policy' : p \notin DOMAIN policy =>
                  /\ p = r /\ req[r].pc = "commit" /\ req[r].target = r
                  /\ CarriesTerms(r) => policy'[r].type = Job(r).row.key
           /\ \A p \in DOMAIN policy :
                  ~policy'[p].moved => ~policy[p].moved /\ policy'[p].type = policy[p].type
<1> DEFINE p == req[r].target
<1>1. /\ OnItsWay(Job(r), req[r]) /\ AddsFirst(r) /\ JobOK(Job(r)) /\ r \in Requests /\ 0 \notin Requests
      /\ req[r].pc \in {"commit", "rows"} /\ policy' = PolicyWritten(r) /\ r \notin DOMAIN policy
      /\ DOMAIN policy \subseteq Requests /\ policy \in [DOMAIN policy -> Policy] /\ Table(r) = Job(r).table
  BY Known, CommitEnds DEF Commit, Ended, MasterInv, WellTyped
<1>2. \A x \in DOMAIN policy : policy[x] \in Policy
  BY <1>1
<1>3. CASE p = 0
  <2>1. policy' = policy
    BY <1>1, <1>3 DEF PolicyWritten
  <2> QED BY <1>1, <2>1
<1>4. CASE p # 0
  <2>1. /\ req[r].pc = "commit" /\ p \in Requests
        /\ Job(r).kind \in PolicyKinds \/ Carries(Job(r))
        /\ p \notin DOMAIN policy => p = r /\ Job(r).kind # "updatePolicy"
    BY <1>1, <1>4 DEF OnItsWay, AddsFirst
  <2>2. CASE Job(r).kind = "updatePolicy"
    <3> DEFINE new == [type |-> Job(r).type, terms |-> r,
                       moved |-> policy[p].moved \/ Job(r).type # policy[p].type]
    <3>1. p \in DOMAIN policy /\ policy' = [policy EXCEPT ![p] = new]
      BY <1>1, <1>4, <2>1, <2>2, Zenon DEF PolicyWritten
    <3>2. Job(r).type \in Types \cup {0} /\ policy[p] \in Policy
      BY <1>1, <1>2, <2>2, <3>1 DEF JobOK
    <3>3. new \in Policy /\ (~new.moved => ~policy[p].moved /\ new.type = policy[p].type)
      BY <1>1, <3>2 DEF Policy
    <3> HIDE DEF new
    <3>4. /\ DOMAIN policy' = DOMAIN policy /\ policy'[p] = new
          /\ \A x \in DOMAIN policy \ {p} : policy'[x] = policy[x]
      BY <3>1
    <3>5. policy' \in [DOMAIN policy -> Policy]
      BY <1>1, <3>1, <3>3
    <3> QED BY <1>1, <3>3, <3>4, <3>5
  <2>3. CASE Job(r).kind # "updatePolicy" /\ p \in DOMAIN policy
    <3>1. policy' = [policy EXCEPT ![p].terms = r]
      BY <1>1, <1>4, <2>3 DEF PolicyWritten
    <3>2. policy[p] \in Policy
      BY <1>2, <2>3
    <3> DEFINE new == [policy[p] EXCEPT !.terms = r]
    <3>3. new \in Policy /\ new.moved = policy[p].moved /\ new.type = policy[p].type
      BY <1>1, <3>2 DEF Policy
    <3>4. policy' = [policy EXCEPT ![p] = new]
      BY <3>1
    <3> HIDE DEF new
    <3>5. /\ DOMAIN policy' = DOMAIN policy /\ policy'[p] = new
          /\ \A x \in DOMAIN policy \ {p} : policy'[x] = policy[x]
      BY <2>3, <3>4
    <3>6. policy' \in [DOMAIN policy -> Policy]
      BY <1>1, <3>3, <3>4
    <3> QED BY <1>1, <3>3, <3>5, <3>6
  <2>4. CASE Job(r).kind # "updatePolicy" /\ p \notin DOMAIN policy
    <3> DEFINE type == IF Job(r).kind = "createPolicy" THEN Job(r).type ELSE Job(r).row.key
               new  == [type |-> type, terms |-> r, moved |-> FALSE]
    <3>1. p = r
      BY <2>1, <2>4
    <3>2. policy' = [x \in DOMAIN policy \cup {r} |-> IF x # r THEN policy[x] ELSE new]
      BY <1>1, <1>4, <2>4, <3>1 DEF PolicyWritten
    <3>3. type \in Types \cup {0}
      <4>1. CASE Job(r).kind = "createPolicy"
        BY <1>1, <4>1 DEF JobOK
      <4>2. CASE Job(r).kind # "createPolicy"
        <5>1. Job(r).kind \in {"create", "update"} /\ Job(r).terms
          BY <2>1, <2>4, <4>2 DEF PolicyKinds, Carries
        <5>2. Job(r).row.key \in Keys("certificate_type")
          BY <1>1, <5>1 DEF JobOK
        <5> QED BY <4>2, <5>2 DEF Keys
      <4> QED BY <4>1, <4>2
    <3>4. CarriesTerms(r) => type = Job(r).row.key
      BY DEF CarriesTerms
    <3> HIDE DEF type
    <3>5. new \in Policy /\ new.type = type
      BY <1>1, <3>3 DEF Policy
    <3> HIDE DEF new
    <3>6. /\ DOMAIN policy' = DOMAIN policy \cup {r} /\ policy'[r] = new
          /\ \A x \in DOMAIN policy : policy'[x] = policy[x]
      BY <1>1, <3>2
    <3>7. \A x \in DOMAIN policy \cup {r} : policy'[x] \in Policy
      BY <1>2, <3>5, <3>6
    <3>8. policy' \in [DOMAIN policy' -> Policy]
      <4> HIDE DEF new
      <4> QED BY <3>2, <3>6, <3>7
    <3> QED BY <1>1, <2>1, <3>1, <3>4, <3>5, <3>6, <3>8
  <2> QED BY <2>2, <2>3, <2>4
<1> QED BY <1>3, <1>4

\* What another request of types sees, when r commits rows of types.
LEMMA OthersNames ==
    ASSUME MasterInv, NEW r \in DOMAIN cast.job, Commit(r), NEW x \in DOMAIN cast.job, x # r
    PROVE  NamesOf(x)'
<1> DEFINE W == Written(req[r])
<1>1. /\ req[r].pc \notin Ended /\ req'[x] = req[x] /\ Table(x)' = Table(x) /\ NamesOf(x) /\ NamesOf(r)
      /\ Table(x) \in Tables /\ r \in Requests /\ x \in Requests /\ T \in Tables /\ Types = Keys(T)
  BY CommitEnds, Known DEF T, Tables, Keys
<1>2. CASE Table(x) # T \/ req[x].pc \in Ended
  BY <1>1, <1>2 DEF NamesOf
<1>3. CASE Table(x) = T /\ req[x].pc \notin Ended /\ Table(r) # T
  <2>1. rows'[T] = rows[T]
    BY <1>1, <1>3, RowsCommitted
  <2>2. \A k : RowWritten(x, k)' = RowWritten(x, k)
    BY <1>1, <1>3, <2>1 DEF RowWritten, Dirty
  <2> QED BY <1>1, <1>3, <2>1, <2>2 DEF NamesOf, HasName, Exists
<1>4. CASE Table(x) = T /\ req[x].pc \notin Ended /\ Table(r) = T
  <2>1. \A k \in Types : rows'[T][k] = RowWritten(r, k)
    BY <1>1, <1>4, RowsCommitted
  <2>2. \A k \in W : <<T, k>> \notin req[x].held /\ k \notin Written(req[x])
    BY <1>1, <1>4, RowsApart
  <2>3. \A k \in Types \ W : rows'[T][k] = rows[T][k] /\ RowWritten(r, k) = rows[T][k]
    BY <1>4, <2>1 DEF RowWritten, Written
  <2>4. \A k \in Types \cap W : RowWritten(x, k)' = rows'[T][k] /\ RowWritten(x, k) = rows[T][k]
    BY <1>1, <1>4, <2>2 DEF RowWritten, Written
  <2>5. \A k \in Types \ W : RowWritten(x, k)' = RowWritten(x, k)
    BY <1>1, <1>4, <2>3 DEF RowWritten, Dirty
  <2>6. /\ \A j \in Types, k \in Types, n \in Nat :
               HasName(RowWritten(x, j), n) /\ HasName(RowWritten(x, k), n) => j = k
        /\ \A n \in Nat : <<"name", n>> \in req[x].held =>
               \E k \in Types : /\ <<T, k>> \in req[x].held
                                /\ HasName(rows[T][k], n) \/ HasName(RowWritten(x, k), n)
        /\ \A k \in Types, n \in Nat :
               HasName(RowWritten(x, k), n) /\ ~HasName(rows[T][k], n) => <<"name", n>> \in req[x].held
    BY <1>1, <1>4 DEF NamesOf
  <2>7. /\ \A j \in Types, k \in Types, n \in Nat :
               HasName(RowWritten(r, j), n) /\ HasName(RowWritten(r, k), n) => j = k
        /\ \A k \in Types, n \in Nat :
               HasName(RowWritten(r, k), n) /\ ~HasName(rows[T][k], n) => <<"name", n>> \in req[r].held
    BY <1>1, <1>4 DEF NamesOf
  <2>8. \A n : <<"name", n>> \notin req[r].held \cap req[x].held
    BY <1>1 DEF MasterInv, LocksExclude
  <2> DEFINE Sees(k, n) == HasName(RowWritten(x, k), n)'
  <2>9. \A k \in Types : \A n : /\ k \in W => (Sees(k, n) <=> HasName(RowWritten(r, k), n))
                                /\ k \notin W => (Sees(k, n) <=> HasName(RowWritten(x, k), n))
    BY <2>1, <2>4, <2>5 DEF HasName, Exists
  <2>10. \A k \in Types : \A n : HasName(rows[T][k], n)' <=> HasName(RowWritten(r, k), n)
    BY <2>1 DEF HasName, Exists
  <2> HIDE DEF Sees
  <2>11. ASSUME NEW j \in Types, j \in W, NEW k \in Types, k \notin W, NEW n \in Nat, Sees(j, n), Sees(k, n)
         PROVE  j = k
    <3>1. HasName(RowWritten(r, j), n) /\ HasName(RowWritten(x, k), n)
      BY <2>9, <2>11
    <3>2. CASE HasName(rows[T][k], n)
      BY <2>3, <2>7, <2>11, <3>1, <3>2
    <3>3. CASE ~HasName(rows[T][k], n)
      <4>1. <<"name", n>> \in req[x].held
        BY <2>6, <3>1, <3>3
      <4>2. HasName(rows[T][j], n)
        BY <2>7, <2>8, <3>1, <4>1
      <4> QED BY <2>4, <2>6, <2>11, <3>1, <4>2
    <3> QED BY <3>2, <3>3
  <2>12. \A j \in Types, k \in Types, n \in Nat : Sees(j, n) /\ Sees(k, n) => j = k
    BY <2>6, <2>7, <2>9, <2>11
  <2>13. ASSUME NEW n \in Nat, <<"name", n>> \in req[x].held
         PROVE  \E k \in Types : /\ <<T, k>> \in req[x].held
                                 /\ HasName(rows[T][k], n)' \/ Sees(k, n)
    <3>1. PICK k \in Types : /\ <<T, k>> \in req[x].held
                             /\ HasName(rows[T][k], n) \/ HasName(RowWritten(x, k), n)
      BY <2>6, <2>13
    <3>2. k \notin W
      BY <2>2, <3>1
    <3> QED BY <2>3, <2>9, <2>10, <3>1, <3>2
  <2>14. ASSUME NEW k \in Types, NEW n \in Nat, Sees(k, n), ~HasName(rows[T][k], n)'
         PROVE  <<"name", n>> \in req[x].held
    <3>1. k \notin W
      BY <2>9, <2>10, <2>14
    <3> QED BY <2>3, <2>6, <2>9, <2>10, <2>14, <3>1
  <2> QED BY <1>1, <1>4, <2>12, <2>13, <2>14 DEF NamesOf, Sees
<1> QED BY <1>2, <1>3, <1>4

LEMMA CommitStep ==
    ASSUME MasterInv, NEW r \in DOMAIN cast.job, Commit(r)
    PROVE  MasterInv'
<1> DEFINE t == Table(r)
<1>1. /\ req[r].pc \notin Ended \cup {"sent"} /\ req'[r].pc = "done" /\ req'[r].held = {} /\ Shaped(req'[r])
      /\ \A f \in Fields \ {"pc", "held"} : req'[r][f] = req[r][f]
      /\ \A x \in Requests \ {r} : req'[x] = req[x]
      /\ req' = [x \in Requests |-> req'[x]]
  BY CommitEnds
<1>2. \A x : Job(x)' = Job(x) /\ Table(x)' = Table(x) /\ CarriesTerms(x)' = CarriesTerms(x)
  BY CommitEnds
<1>3. /\ rows' = [s \in Tables |-> rows'[s]] /\ \A s \in Tables : rows'[s] \in [Keys(s) -> Row(s)]
      /\ \A s \in Tables \ {t} : rows'[s] = rows[s]
      /\ \A k \in Keys(t) : rows'[t][k] = RowWritten(r, k)
  BY RowsCommitted
<1>4. /\ DOMAIN policy' \subseteq Requests /\ policy' \in [DOMAIN policy' -> Policy]
      /\ r \notin DOMAIN policy /\ DOMAIN policy \subseteq DOMAIN policy'
      /\ \A p \in DOMAIN policy' : p \notin DOMAIN policy =>
             /\ p = r /\ req[r].pc = "commit" /\ req[r].target = r
             /\ CarriesTerms(r) => policy'[r].type = Job(r).row.key
      /\ \A p \in DOMAIN policy :
             ~policy'[p].moved => ~policy[p].moved /\ policy'[p].type = policy[p].type
  BY PoliciesCommitted
<1>5. /\ cast' = cast /\ scan' = scan /\ loop' = IF loop = r THEN NoOne ELSE loop
      /\ r \in Requests /\ t \in Tables /\ DOMAIN cast.job \subseteq Requests
  BY Known, JobsAsked DEF Commit, MasterInv
<1>6. WellTyped'
  <2>1. \A x \in Requests : Shaped(req'[x])
    BY <1>1 DEF MasterInv, WellTyped
  <2>2. loop' # NoOne => /\ loop' \in DOMAIN cast.job
                         /\ cast.job[loop'].kind = "import" /\ req'[loop'].pc = "rows"
    BY <1>1, <1>5 DEF MasterInv, WellTyped, Job
  <2>3. case' \in [Employees -> Case]
    BY CasesCommitted
  <2> QED BY <1>1, <1>3, <1>4, <1>5, <2>1, <2>2, <2>3 DEF MasterInv, WellTyped, Job
<1>7. RequestsOK'
  <2>1. RequestOK(Job(r), req'[r]) /\ AsRead(req'[r], rows'[t])
    <3> DEFINE q == req'[r]
    <3>1. /\ q.lines = req[r].lines /\ q.read = req[r].read /\ q.errors = req[r].errors
          /\ q.at = req[r].at /\ q.want = req[r].want /\ q.new = req[r].new /\ q.sent = req[r].sent
          /\ q.sawOpen = req[r].sawOpen /\ Written(q) = Written(req[r]) /\ q.pc \in Ended
      BY <1>1 DEF Fields, Written, Ended
    <3>2. OnItsWay(Job(r), q)
      BY <1>1, <3>1, Known DEF OnItsWay, Ended
    <3>3. LinesRead(Job(r), q)
      BY <1>1, <3>1, Known, SameLines
    <3>4. Wanted(Job(r), q)
      BY <3>1, Known, SameWants
    <3>5. Locked(Job(r), q) /\ AsRead(q, rows'[t])
      BY <3>1 DEF Locked, AsRead
    <3> QED BY <3>2, <3>3, <3>4, <3>5 DEF RequestOK
  <2>2. ASSUME NEW x \in DOMAIN cast.job, x # r
        PROVE  AsRead(req[x], rows'[Table(x)])
    <3>1. AsRead(req[x], rows[Table(x)]) /\ Table(x) \in Tables /\ LinesRead(Job(x), req[x])
          /\ Wanted(Job(x), req[x]) /\ Table(x) = Job(x).table
      BY Known
    <3>2. CASE Table(x) # t \/ req[x].pc \in Ended
      BY <1>3, <3>1, <3>2 DEF AsRead
    <3>3. CASE Table(x) = t /\ req[x].pc \notin Ended
      <4>1. \A k \in DOMAIN req[x].read : k \in Keys(t) /\ req[x].read[k] \in Row(t)
        BY <3>1, <3>3 DEF LinesRead
      <4>2. ASSUME NEW k \in Keys(t), k \in DOMAIN req[x].read
            PROVE  /\ rows'[t][k].updated >= rows[t][k].updated
                   /\ rows'[t][k].updated = rows[t][k].updated => rows'[t][k] = rows[t][k]
                   /\ k \in req[x].new => rows'[t][k] = rows[t][k]
                   /\ rows[t][k].updated \in Nat /\ rows'[t][k].updated \in Nat
                   /\ req[x].read[k].updated \in Nat
        <5>1. rows[t][k].updated \in Nat /\ rows'[t][k].updated \in Nat /\ req[x].read[k].updated \in Nat
          BY <1>3, <1>5, <4>1, <4>2, RowFacts DEF MasterInv, WellTyped
        <5>2. k \notin Written(req[r]) => rows'[t][k] = rows[t][k]
          BY <1>3 DEF RowWritten, Written
        <5>3. k \in Written(req[r]) => rows'[t][k].updated > rows[t][k].updated
          BY <1>1, <1>3, RowWrittenTyped DEF MasterInv
        <5>4. k \in Written(req[r]) => k \notin req[x].new
          BY <1>1, <2>2, <3>3, RowsApart DEF Written
        <5> QED BY <5>1, <5>2, <5>3, <5>4
      <4>3. ASSUME NEW k \in DOMAIN req[x].read
            PROVE  /\ Exists(req[x].read[k]) =>
                          /\ rows'[t][k].updated >= req[x].read[k].updated
                          /\ rows'[t][k].updated = req[x].read[k].updated => rows'[t][k] = req[x].read[k]
                   /\ k \in req[x].new => ~Exists(rows'[t][k])
        <5>1. /\ Exists(req[x].read[k]) =>
                        /\ rows[t][k].updated >= req[x].read[k].updated
                        /\ rows[t][k].updated = req[x].read[k].updated => rows[t][k] = req[x].read[k]
              /\ k \in req[x].new => ~Exists(rows[t][k])
          BY <3>1, <3>3 DEF AsRead
        <5> QED BY <4>1, <4>2, <5>1
      <4> QED BY <3>3, <4>3 DEF AsRead
    <3> QED BY <3>2, <3>3
  <2>3. \A x \in Requests \ DOMAIN cast.job : req'[x] = Unsent
    BY <1>1 DEF MasterInv, RequestsOK
  <2> QED BY <1>1, <1>2, <1>5, <2>1, <2>2, <2>3 DEF MasterInv, RequestsOK
<1>8. LocksExclude'
  <2>1. \A x \in Requests : req'[x].held \subseteq req[x].held
    BY <1>1
  <2> QED BY <1>5, <2>1 DEF MasterInv, LocksExclude
<1>9. NamesOfTypes'
  <2>1. \A x \in DOMAIN cast.job \ {r} : NamesOf(x)'
    BY OthersNames
  <2>2. NamesOf(r)'
    BY <1>1, <1>2 DEF NamesOf, Ended
  <2>3. ASSUME NEW j \in Types, NEW k \in Types, NEW n \in Nat,
               HasName(rows'[T][j], n), HasName(rows'[T][k], n)
        PROVE  j = k
    <3>1. T \in Tables /\ Types = Keys(T)
      BY DEF T, Tables, Keys
    <3>2. CASE t = T
      BY <1>1, <1>3, <2>3, <3>1, <3>2, Known DEF NamesOf
    <3>3. CASE t # T
      BY <1>3, <2>3, <3>1, <3>3 DEF MasterInv, NamesOfTypes
    <3> QED BY <3>2, <3>3
  <2>4. \A j \in Types, k \in Types, n \in Nat : HasName(rows'[T][j], n) /\ HasName(rows'[T][k], n) => j = k
    BY <2>3
  <2> QED BY <1>5, <2>1, <2>2, <2>4 DEF NamesOfTypes, HasName, Exists
<1>10. \A p \in DOMAIN policy : p \in DOMAIN cast.job /\ p # r /\ req'[p] = req[p] /\ req[p].pc = "done"
  BY <1>1, <1>4, <1>5 DEF MasterInv, PoliciesOK
<1>11. \A p \in DOMAIN policy' : p \in DOMAIN policy \/ p = r
  BY <1>4
<1> DEFINE Later(p, k) == CarriesTerms(p) /\ ~policy'[p].moved /\ policy'[p].type = k
<1>12. ASSUME NEW p \in DOMAIN policy', NEW k, Later(p, k)
       PROVE  /\ p \in DOMAIN policy => DefaultOf(p, k)
              /\ p \notin DOMAIN policy => p = r /\ CarriesTerms(r) /\ Job(r).row.key = k
  BY <1>4, <1>12 DEF DefaultOf
<1>13. ASSUME NEW x \in DOMAIN cast.job, x # r, req[x].pc \notin Ended,
              CarriesTerms(x), CarriesTerms(r), Job(x).row.key = Job(r).row.key,
              Job(x).row.key \in Written(req[x])
       PROVE  Job(x).row.key \notin Written(req[r])
  <2>1. Table(x) = Table(r)
    <3>1. Job(x).table = "certificate_type" /\ Job(r).table = "certificate_type"
      BY <1>13, Known DEF CarriesTerms, JobOK
    <3> QED BY <3>1 DEF Table
  <2> QED BY <1>1, <1>13, <2>1, RowsApart
<1>14. Written(req'[r]) = Written(req[r])
  BY <1>1 DEF Written, Fields
<1>15. PoliciesOK'
  <2>1. \A p \in DOMAIN policy' : p \in DOMAIN cast.job /\ req'[p].pc = "done"
    BY <1>1, <1>10, <1>11
  <2>2. ASSUME NEW p \in DOMAIN policy', CarriesTerms(p), ~policy'[p].moved
        PROVE  policy'[p].type = Job(p).row.key
    <3>1. CASE p \in DOMAIN policy
      BY <1>4, <2>2, <3>1 DEF MasterInv, PoliciesOK
    <3>2. CASE p \notin DOMAIN policy
      BY <1>4, <2>2, <3>2
    <3> QED BY <3>1, <3>2
  <2>3. ASSUME NEW x \in DOMAIN cast.job PROVE AddsFirst(x)'
    <3>1. CASE x = r
      BY <1>1, <3>1 DEF AddsFirst
    <3>2. CASE x # r
      <4> DEFINE k == Job(x).row.key
      <4>1. req'[x] = req[x] /\ Job(x)' = Job(x) /\ CarriesTerms(x)' = CarriesTerms(x)
        BY <1>1, <1>2, <1>5, <3>2
      <4>2. ASSUME req[x].pc \in {"policy", "commit"}, req[x].target \notin DOMAIN policy' \cup {0}
            PROVE  /\ req[x].target = x /\ Job(x).kind # "updatePolicy"
                   /\ CarriesTerms(x) /\ k \in Written(req[x]) =>
                          \A p \in DOMAIN policy' : Later(p, k) => k \notin Written(req'[p])
        <5>1. req[x].target \notin DOMAIN policy \cup {0} /\ req[x].pc \notin Ended
          BY <1>4, <4>2 DEF Ended
        <5>2. /\ req[x].target = x /\ Job(x).kind # "updatePolicy"
              /\ CarriesTerms(x) /\ k \in Written(req[x]) =>
                     \A p \in DOMAIN policy : DefaultOf(p, k) => k \notin Written(req[p])
          BY <4>2, <5>1, Known DEF AddsFirst
        <5>3. ASSUME CarriesTerms(x), k \in Written(req[x]), NEW p \in DOMAIN policy', Later(p, k)
              PROVE  k \notin Written(req'[p])
          <6>1. CASE p \in DOMAIN policy
            <7>1. DefaultOf(p, k)
              BY <1>12, <5>3, <6>1
            <7> QED BY <1>10, <5>2, <5>3, <6>1, <7>1
          <6>2. CASE p \notin DOMAIN policy
            <7>1. p = r /\ CarriesTerms(r) /\ Job(r).row.key = k
              BY <1>12, <5>3, <6>2
            <7>2. k \notin Written(req[r])
              BY <1>13, <3>2, <5>1, <5>3, <7>1
            <7> QED BY <1>14, <7>1, <7>2
          <6> QED BY <6>1, <6>2
        <5> HIDE DEF Later, k
        <5> QED BY <5>2, <5>3
      <4>3. \A p : DefaultOf(p, k)' <=> Later(p, k)
        BY <1>2, <4>1 DEF DefaultOf
      <4>4. k' = k
        BY <4>1
      <4> HIDE DEF Later
      <4> QED BY <4>1, <4>2, <4>3 DEF AddsFirst
    <3> QED BY <3>1, <3>2
  <2> QED BY <1>2, <1>5, <2>1, <2>2, <2>3 DEF PoliciesOK
<1>16. TwoDefaultsNeedAnIdleType'
  <2>1. ASSUME NEW p \in DOMAIN policy', NEW q \in DOMAIN policy', CarriesTerms(p), CarriesTerms(q),
               ~policy'[p].moved, ~policy'[q].moved, p # q, policy'[p].type = policy'[q].type
        PROVE  \E x \in {p, q} : Job(x).row.key \notin req'[x].sent \cup req'[x].new
    <3> DEFINE k == policy'[p].type
    <3>1. Later(p, k) /\ Later(q, k)
      BY <2>1
    <3>2. \A x : req'[x].sent \cup req'[x].new = Written(req'[x])
      BY DEF Written
    <3>3. CASE p \in DOMAIN policy /\ q \in DOMAIN policy
      <4>1. DefaultOf(p, k) /\ DefaultOf(q, k)
        BY <1>12, <3>1, <3>3
      <4>2. \E x \in {p, q} : Job(x).row.key \notin req[x].sent \cup req[x].new
        BY <2>1, <3>3, <4>1 DEF MasterInv, TwoDefaultsNeedAnIdleType, DefaultOf
      <4> QED BY <1>10, <3>3, <4>2
    <3>4. ASSUME NEW x \in DOMAIN policy, NEW y \in DOMAIN policy', y \notin DOMAIN policy,
                 Later(x, k), Later(y, k)
          PROVE  \E z \in {x, y} : Job(z).row.key \notin Written(req'[z])
      <4>1. y = r /\ CarriesTerms(r) /\ Job(r).row.key = k /\ req[r].pc = "commit" /\ req[r].target = r
        BY <1>4, <1>12, <3>4
      <4>2. DefaultOf(x, k)
        <5>1. x \in DOMAIN policy'
          BY <1>4, <3>4
        <5> QED BY <1>12, <3>4, <5>1
      <4>3. Job(x).row.key = k
        BY <4>2 DEF DefaultOf, MasterInv, PoliciesOK
      <4>4. r \notin DOMAIN policy \cup {0}
        BY <1>4, <1>5, Known
      <4>5. k \in Written(req[r]) => k \notin Written(req[x])
        BY <4>1, <4>2, <4>4, Known DEF AddsFirst
      <4> QED BY <1>10, <1>14, <4>1, <4>3, <4>5
    <3>5. p \in DOMAIN policy \/ q \in DOMAIN policy
      BY <1>11, <2>1
    <3> HIDE DEF Later, k
    <3> QED BY <3>1, <3>2, <3>3, <3>4, <3>5
  <2> QED BY <1>2, <2>1 DEF TwoDefaultsNeedAnIdleType
<1> QED BY <1>6, <1>7, <1>8, <1>9, <1>15, <1>16 DEF MasterInv

-----------------------------------------------------------------------------
(***************************************************************************)
(* Every step                                                              *)
(***************************************************************************)

LEMMA MasterNext == MasterInv /\ [Next]_vars => MasterInv'
<1> SUFFICES ASSUME MasterInv, [Next]_vars PROVE MasterInv'
  OBVIOUS
<1>1. ASSUME NEW r \in DOMAIN cast.job, RequestStep(r) PROVE MasterInv'
  <2>1. CASE \/ ImportEmployees(r) \/ ImportTypes(r) \/ Create(r) \/ Update(r)
             \/ CreatePolicy(r) \/ UpdatePolicy(r) \/ Feedback(r)
    BY <2>1, RequestBegins
  <2>2. CASE OverwriteEmployee(r) \/ OverwriteType(r)
    BY <2>2, Overwrites
  <2>3. ASSUME NEW k \in DOMAIN req[r].read, FlushRow(r, k) PROVE MasterInv'
    BY <2>3, FlushStep
  <2>4. ASSUME NEW k \in DOMAIN req[r].read, WaitForName(r, k) PROVE MasterInv'
    BY <2>4, WaitStep
  <2>5. CASE InsertFails(r) \/ \E k : FlushFails(r, k)
    BY <2>5, StatementFails
  <2>6. CASE InsertRow(r)
    BY <2>6, InsertStep
  <2>7. CASE UpsertPolicy(r) \/ FlushPolicy(r)
    BY <2>7, UpsertStep, FlushPolicyStep
  <2>8. CASE Commit(r)
    BY <2>8, CommitStep
  <2>9. CASE LockCase(r) \/ CloseSession(r) \/ DeadlockVictim(r)
    BY <2>9, LockCaseStep, CloseStep, VictimStep
  <2> QED BY <1>1, <2>1, <2>2, <2>3, <2>4, <2>5, <2>6, <2>7, <2>8, <2>9 DEF RequestStep
<1>2. CASE ScanStep
  BY <1>2, ScanReads, ScanLocks, ScanCommits DEF ScanStep
<1>3. CASE KubeletRestart
  BY <1>3, KubeletStep
<1>4. CASE UNCHANGED vars
  <2>1. UNCHANGED <<data, cast, req, loop>> /\ scan' = scan
    BY <1>4 DEF vars, data
  <2>2. scan' \in ScanType /\ scan'.todo \cap scan'.held = {} /\ (scan'.pc = "idle" => scan'.held = {})
    BY <2>1 DEF MasterInv, WellTyped
  <2>3. scan'.held \ scan.held = {}
    BY <2>1
  <2> QED BY <2>1, <2>2, <2>3, ScanStepQuiet
<1> QED BY <1>1, <1>2, <1>3, <1>4 DEF Next

LEMMA MasterInvHolds == Spec => []MasterInv
<1>1. Init => MasterInv
  BY MasterInit
<1>2. MasterInv /\ [Next]_vars => MasterInv'
  BY MasterNext
<1> QED BY <1>1, <1>2, PTL DEF Spec

\* A step commits, or changes no row; an import that ends well without a commit had
\* no line to import.
LEMMA StepKinds ==
    ASSUME MasterInv, [Next]_vars
    PROVE  \/ \E r \in DOMAIN cast.job : Commit(r)
           \/ /\ rows' = rows
              /\ \A r \in DOMAIN cast.job : EndsWell(r) /\ Job(r).kind = "import" => req'[r].lines = <<>>
<1> DEFINE Quiet == /\ rows' = rows
                    /\ \A r \in DOMAIN cast.job :
                           EndsWell(r) /\ Job(r).kind = "import" => req'[r].lines = <<>>
<1>1. ASSUME NEW x \in DOMAIN cast.job, RequestStep(x), ~Commit(x) PROVE Quiet
  <2>1. ASSUME NEW q, Set(x, q), rows' = rows,
               q.pc = "done" /\ req[x].pc # "done" /\ Job(x).kind = "import" => q.lines = <<>>
        PROVE  Quiet
    <3>1. req'[x] = q /\ \A r \in Requests \ {x} : req'[r] = req[r]
      BY <2>1, SetTo DEF Set, MasterInv, WellTyped
    <3>2. DOMAIN cast.job \subseteq Requests
      BY JobsAsked DEF MasterInv
    <3> QED BY <2>1, <3>1, <3>2 DEF EndsWell
  <2>2. CASE ImportEmployees(x) \/ ImportTypes(x)
    <3>1. PICK parsed : Import(x, parsed)
      BY <2>2 DEF ImportEmployees, ImportTypes
    <3>2. req[x] = Unsent /\ DOMAIN req[x] = Fields /\ req[x].lines = <<>>
      BY <3>1, Known DEF Import, OnItsWay, Unsent
    <3>3. CASE parsed.lines = <<>>
      <4> DEFINE q == [req[x] EXCEPT !.pc = "done", !.errors = parsed.errors]
      <4>1. Set(x, q) /\ rows' = rows
        BY <3>1, <3>3 DEF Import, data
      <4>2. q.lines = <<>>
        BY <3>2 DEF Fields
      <4> HIDE DEF q
      <4> QED BY <2>1, <4>1, <4>2
    <3>4. CASE parsed.lines # <<>>
      <4> DEFINE q == [req[x] EXCEPT !.pc = "rows", !.lines = parsed.lines, !.errors = parsed.errors,
                                     !.read = ReadOf(Table(x), parsed.seen)]
      <4>1. Set(x, q) /\ rows' = rows
        BY <3>1, <3>4 DEF Import, data
      <4>2. q.pc = "rows"
        BY <3>2 DEF Fields
      <4> HIDE DEF q
      <4> QED BY <2>1, <4>1, <4>2
    <3> QED BY <3>3, <3>4
  <2>3. ASSUME Job(x).kind # "import", NEW q, Set(x, q), rows' = rows PROVE Quiet
    BY <2>1, <2>3
  <2>4. CASE Create(x) \/ Update(x) \/ CreatePolicy(x) \/ UpdatePolicy(x) \/ Feedback(x)
    <3>1. Job(x).kind # "import" /\ rows' = rows
      BY <2>4 DEF Create, Update, CreatePolicy, UpdatePolicy, Feedback, data
    <3>2. \E q : Set(x, q)
      BY <2>4, Zenon DEF Create, Update, CreatePolicy, UpdatePolicy, Feedback
    <3> QED BY <2>3, <3>1, <3>2
  <2>5. ASSUME NEW q, Set(x, q), rows' = rows, q.pc # "done" PROVE Quiet
    BY <2>1, <2>5
  <2>6. req[x].pc = "rows" => DOMAIN req[x] = Fields
    BY Known
  <2>7. CASE OverwriteEmployee(x) \/ OverwriteType(x) \/ InsertRow(x)
             \/ \E k : FlushRow(x, k) \/ WaitForName(x, k)
    <3>1. req[x].pc = "rows" /\ rows' = rows
      BY <2>7 DEF OverwriteEmployee, OverwriteType, InsertRow, FlushRow, WaitForName, Flushes, Inserts,
                  MoreLines, data
    <3>2. DOMAIN req[x] = Fields
      BY Known
    <3>3. ASSUME NEW k, NEW left, NEW names PROVE Emit(x, k, left, names).pc = req[x].pc
      BY <3>2 DEF Emit, Fields
    <3>4. ASSUME NEW k, NEW left, NEW names
          PROVE  DOMAIN Emit(x, k, left, names) = Fields
      BY <3>2 DEF Emit
    <3>5. CASE OverwriteEmployee(x)
      <4> DEFINE e       == Line(x).key
                 closing == IF Leaves(x) /\ case[e].open THEN {<<"case", e>>} ELSE {}
                 q       == [req[x] EXCEPT !.at = @ + 1, !.want = Wanting(x, Merged(x)),
                                           !.held = @ \cup closing,
                                           !.sawOpen = @ \cup {y \in {e} : case[y].open}]
      <4>1. Set(x, q)
        BY <3>5 DEF OverwriteEmployee
      <4>2. q.pc = "rows"
        <5> HIDE DEF closing, e
        <5> QED BY <3>1, <3>2 DEF Fields
      <4> HIDE DEF q
      <4> QED BY <2>5, <3>1, <4>1, <4>2
    <3>6. CASE OverwriteType(x)
      BY <2>5, <3>1, <3>2, <3>6 DEF OverwriteType, Fields
    <3>7. CASE InsertRow(x)
      <4> DEFINE k     == Line(x).key
                 cells == Line(x).cells
                 names == NameSet(x, k, cells, DOMAIN cells)
                 emit  == Emit(x, k, {}, names)
                 q     == [emit EXCEPT !.at = @ + 1, !.want = Wanting(x, cells), !.new = @ \cup {k}]
      <4>1. Set(x, q)
        BY <3>7 DEF InsertRow
      <4>2. emit.pc = "rows" /\ DOMAIN emit = Fields
        <5> HIDE DEF k, names
        <5> QED BY <3>1, <3>3, <3>4
      <4>3. q.pc = "rows"
        <5> HIDE DEF k, cells, emit
        <5> QED BY <4>2 DEF Fields
      <4> HIDE DEF q
      <4> QED BY <2>5, <3>1, <4>1, <4>3
    <3>8. ASSUME NEW k, FlushRow(x, k) PROVE Quiet
      BY <2>5, <3>1, <3>3, <3>4, <3>8 DEF FlushRow, Fields
    <3>9. ASSUME NEW k, WaitForName(x, k) PROVE Quiet
      BY <2>5, <3>1, <3>3, <3>9 DEF WaitForName
    <3> QED BY <2>7, <3>5, <3>6, <3>7, <3>8, <3>9
  <2>8. CASE UpsertPolicy(x)
    <3>1. rows' = rows /\ CarriesTerms(x)
      BY <2>8 DEF UpsertPolicy, data
    <3>2. \E q : Set(x, q)
      BY <2>8, Zenon DEF UpsertPolicy
    <3> QED BY <2>3, <3>1, <3>2 DEF CarriesTerms
  <2>9. CASE FlushPolicy(x)
    <3>1. rows' = rows /\ req[x].pc = "policy"
      BY <2>9 DEF FlushPolicy, data
    <3>2. \E q : Set(x, q)
      BY <2>9, Zenon DEF FlushPolicy
    <3>3. Job(x).kind # "import"
      BY <3>1, Known DEF OnItsWay, PolicyKinds, Carries
    <3> QED BY <2>3, <3>1, <3>2, <3>3
  <2>10. CASE LockCase(x)
    <3>1. rows' = rows /\ req[x].pc = "case"
      BY <2>10 DEF LockCase, data
    <3>2. \E q : Set(x, q)
      BY <2>10, Zenon DEF LockCase
    <3>3. Job(x).kind # "import"
      BY <3>1, Known DEF OnItsWay
    <3> QED BY <2>3, <3>1, <3>2, <3>3
  <2>11. CASE CloseSession(x)
    <3>1. rows' = rows /\ req[x].pc = "refused"
      BY <2>11 DEF CloseSession, Abort, data
    <3>2. \E q : Set(x, q)
      BY <2>11, Zenon DEF CloseSession, Abort
    <3>3. Job(x).kind # "import"
      BY <3>1, Known DEF OnItsWay
    <3> QED BY <2>3, <3>1, <3>2, <3>3
  <2>12. CASE Abort(x, "failed")
    <3> DEFINE q == [req[x] EXCEPT !.pc = "failed", !.held = {}]
    <3>1. Set(x, q) /\ rows' = rows
      BY <2>12 DEF Abort, data
    <3>2. q.pc = "failed"
      BY Known DEF Fields
    <3> HIDE DEF q
    <3> QED BY <2>5, <3>1, <3>2
  <2>13. CASE req' = req /\ rows' = rows
    BY <2>13 DEF EndsWell
  <2> HIDE DEF Quiet
  <2>14. CASE InsertFails(x) \/ (\E k : FlushFails(x, k)) \/ DeadlockVictim(x)
    BY <2>12, <2>13, <2>14 DEF InsertFails, FlushFails, DeadlockVictim, data
  <2> QED BY <1>1, <2>2, <2>4, <2>7, <2>8, <2>9, <2>10, <2>11, <2>14 DEF RequestStep
<1>2. CASE ScanStep \/ UNCHANGED vars
  <2>1. rows' = rows /\ req' = req
    BY <1>2 DEF ScanStep, ScanRead, ScanLock, ScanCommit, vars, data
  <2> QED BY <2>1 DEF EndsWell
<1>3. CASE KubeletRestart
  <2>1. rows' = rows /\ req' = [r \in Requests |->
           IF req[r].pc \in Ended \cup {"sent"} THEN req[r]
           ELSE [req[r] EXCEPT !.pc = "dropped", !.held = {}]]
    BY <1>3 DEF KubeletRestart, data
  <2>2. ASSUME NEW r \in DOMAIN cast.job PROVE ~EndsWell(r)
    <3>1. r \in Requests /\ DOMAIN req[r] = Fields
      BY Known
    <3>2. CASE req'[r] = req[r]
      BY <3>2 DEF EndsWell
    <3>3. CASE req'[r] = [req[r] EXCEPT !.pc = "dropped", !.held = {}]
      <4>1. req'[r].pc = "dropped"
        BY <3>1, <3>3 DEF Fields
      <4> QED BY <4>1 DEF EndsWell
    <3> QED BY <2>1, <3>1, <3>2, <3>3
  <2> QED BY <2>1, <2>2
<1> HIDE DEF Quiet
<1>4. CASE \E x \in DOMAIN cast.job : RequestStep(x)
  <2>1. PICK x \in DOMAIN cast.job : RequestStep(x)
    BY <1>4
  <2>2. CASE Commit(x)
    BY <2>2
  <2>3. CASE ~Commit(x)
    <3>1. Quiet
      BY <1>1, <2>1, <2>3
    <3> QED BY <3>1 DEF Quiet
  <2> QED BY <2>2, <2>3
<1> QED BY <1>2, <1>3, <1>4 DEF Next

-----------------------------------------------------------------------------
(***************************************************************************)
(* Theorems                                                                *)
(***************************************************************************)

LEMMA TypesFollow == MasterInv => MasterTypeOK
<1> SUFFICES ASSUME MasterInv PROVE MasterTypeOK
  OBVIOUS
<1>1. /\ \A t \in Tables : \A k \in Keys(t) : rows[t][k] \in Row(t)
      /\ case \in [Employees -> Case]
      /\ \A p \in DOMAIN policy : p \in Requests /\ policy[p] \in Policy
      /\ scan.held \subseteq Employees /\ scan.todo \cap scan.held = {}
  BY DEF MasterInv, WellTyped, ScanType
<1>2. loop \in Requests \cup {NoOne} /\ (loop # NoOne => Job(loop).kind = "import" /\ req[loop].pc = "rows")
  BY JobsAsked DEF MasterInv, WellTyped
<1>3. ASSUME NEW r \in Requests
      PROVE  /\ req[r].pc \in Pc /\ req[r].held \subseteq Locks
             /\ req[r].pc \in Ended \cup {"sent"} => req[r].held = {}
             /\ \A k \in DOMAIN req[r].read : req[r].read[k] \in Row(Table(r))
             /\ DOMAIN req[r].want \subseteq DOMAIN req[r].read
  <2>1. Shaped(req[r])
    BY DEF MasterInv, WellTyped
  <2>2. CASE req[r] = Unsent
    BY <2>1, <2>2 DEF Shaped, Unsent
  <2>3. CASE req[r] # Unsent
    <3>1. r \in DOMAIN cast.job
      BY <2>3 DEF MasterInv, RequestsOK
    <3>2. /\ OnItsWay(Job(r), req[r]) /\ LinesRead(Job(r), req[r]) /\ Wanted(Job(r), req[r])
          /\ Table(r) = Job(r).table
      BY <3>1, Known
    <3>3. /\ \A k \in DOMAIN req[r].read : req[r].read[k] \in Row(Table(r))
          /\ DOMAIN req[r].read = {req[r].lines[i].key : i \in 1..Len(req[r].lines)}
          /\ Len(req[r].lines) \in Nat
      BY <3>2 DEF LinesRead
    <3>4. DOMAIN req[r].want \subseteq DOMAIN req[r].read
      <4>1. /\ req[r].at \in 1..(Len(req[r].lines) + 1)
            /\ DOMAIN req[r].want = {req[r].lines[i].key : i \in 1..(req[r].at - 1)}
        BY <3>2 DEF Wanted
      <4>2. 1..(req[r].at - 1) \subseteq 1..Len(req[r].lines)
        BY <3>3, <4>1
      <4> QED BY <3>3, <4>1, <4>2
    <3>5. req[r].pc \in Ended \cup {"sent"} => req[r].held = {}
      BY <2>3, <3>2 DEF OnItsWay
    <3> QED BY <2>1, <3>3, <3>4, <3>5 DEF Shaped
  <2> QED BY <2>2, <2>3
<1>4. \A r \in Requests : \A q \in Requests \ {r} : req[r].held \cap req[q].held = {}
  BY DEF MasterInv, LocksExclude
<1> QED BY <1>1, <1>2, <1>3, <1>4 DEF MasterTypeOK

\* The variables keep their types: no two requests hold the same lock, an ended or
\* unsent request holds none, and only an import that is still at its rows keeps the
\* event loop, whatever the requests of the API process ask (api/routes/employees.py,
\* certificate_types.py, reminders.py).
THEOREM MasterTyped == Spec => []MasterTypeOK
BY MasterInvHolds, TypesFollow, PTL

\* Two default policies of a type come from two requests of which one left the type's
\* own columns alone: a request that writes the type locks its row before it looks for
\* a policy, so it finds the one that an earlier writer of the type has committed
\* (_upsert_default_reminder_policy, called after the flush of the type).
THEOREM TwoDefaults == Spec => []TwoDefaultsNeedAnIdleType
<1>1. MasterInv => TwoDefaultsNeedAnIdleType
  BY DEF MasterInv
<1> QED BY <1>1, MasterInvHolds, PTL

\* A commit that ends the employment of e is of a request that updates e's row, read it
\* on the roll and found its case under the lock it still holds.
LEMMA LeaverCommits ==
    ASSUME MasterInv, NEW r \in DOMAIN cast.job, Commit(r), NEW e \in Employees,
           OnRoll(e), ~OnRoll(e)'
    PROVE  e \in req[r].sawOpen => ~case'[e].open
<1> DEFINE t   == "employee"
           q   == req[r]
           now == rows[t][e]
<1>1. Exists(now) /\ now.cells.employment_status # "LEFT"
  BY DEF OnRoll
<1>2. ~(Exists(rows'[t][e]) /\ rows'[t][e].cells.employment_status # "LEFT")
  BY DEF OnRoll
<1>3. /\ t \in Tables /\ e \in Keys(t) /\ Table(r) \in Tables /\ Table(r) = Job(r).table
      /\ OnItsWay(Job(r), q) /\ LinesRead(Job(r), q) /\ Wanted(Job(r), q) /\ Locked(Job(r), q)
      /\ AsRead(q, rows[Table(r)]) /\ q.pc \notin Ended
      /\ WellTyped /\ RequestsOK
  BY Known, CommitEnds DEF Keys, Tables, MasterInv
<1>4. Table(r) = t
  BY <1>1, <1>2, <1>3, RowsCommitted
<1>5. rows'[t][e] = RowWritten(r, e)
  BY <1>3, <1>4, RowsCommitted
<1>6. e \in Written(q) /\ Exists(RowWritten(r, e)) /\ RowWritten(r, e).cells.employment_status = "LEFT"
  BY <1>1, <1>2, <1>3, <1>4, <1>5, RowWrittenTyped
<1>7. e \in q.sent
  BY <1>1, <1>3, <1>4, <1>6, RowWrittenTyped DEF Written
<1>8. /\ Exists(q.read[e])
      /\ q.want[e].employment_status = "LEFT"
      /\ q.read[e].cells.employment_status # "LEFT"
  <2>1. "employment_status" \in DOMAIN Columns(t)
    BY DEF Columns
  <2>2. /\ Exists(q.read[e])
        /\ RowWritten(r, e).cells.employment_status =
               IF "employment_status" \in Dirty(r, e) THEN q.want[e].employment_status
               ELSE now.cells.employment_status
    BY <1>3, <1>4, <1>7, <2>1, RowWrittenTyped
  <2>3. "employment_status" \in Dirty(r, e) /\ q.want[e].employment_status = "LEFT"
    BY <1>1, <1>6, <2>2
  <2>4. q.want[e].employment_status # q.read[e].cells.employment_status
    BY <2>3 DEF Dirty
  <2> QED BY <2>2, <2>3, <2>4
<1>9. e \in q.sawOpen => <<"case", e>> \in q.held
  BY <1>3, <1>4, <1>8 DEF Locked
<1>10. <<"case", e>> \in q.held => case'[e].open = FALSE
  BY DEF Commit, CasesWritten
<1> QED BY <1>9, <1>10

\* The commit that makes an employee LEFT closes the reminder case that was open when
\* the request looked for it: it has held the lock of the case ever since, so nobody
\* has moved or answered the case in between (_close_reminder_tasks_if_left, called by
\* update_employee and import_employee_rows with the status the row was read with).
THEOREM LeaversClosed == Spec => LeaverCaseClosed
<1>1. MasterInv /\ [Next]_vars =>
          [\A e \in Employees : OnRoll(e) /\ ~OnRoll(e)' =>
               \E r \in DOMAIN cast.job : EndsWell(r) /\ (e \in req[r].sawOpen => ~case'[e].open)]_vars
  <2> SUFFICES ASSUME MasterInv, [Next]_vars, NEW e \in Employees, OnRoll(e), ~OnRoll(e)'
               PROVE  \E r \in DOMAIN cast.job : EndsWell(r) /\ (e \in req[r].sawOpen => ~case'[e].open)
    OBVIOUS
  <2>1. rows' # rows
    BY DEF OnRoll
  <2>2. PICK r \in DOMAIN cast.job : Commit(r)
    BY <2>1, StepKinds
  <2>3. EndsWell(r)
    BY <2>2, CommitEnds DEF EndsWell, Ended
  <2>4. e \in req[r].sawOpen => ~case'[e].open
    BY <2>2, LeaverCommits
  <2> QED BY <2>3, <2>4
<1> QED BY <1>1, MasterInvHolds, PTL DEF Spec, LeaverCaseClosed

LEMMA CastIsKept == [Next]_vars => cast' = cast
<1> SUFFICES ASSUME [Next]_vars PROVE cast' = cast
  OBVIOUS
<1>1. ASSUME NEW x, RequestStep(x) PROVE cast' = cast
  <2>1. CASE ImportEmployees(x) \/ ImportTypes(x) \/ Create(x) \/ Update(x)
                 \/ CreatePolicy(x) \/ UpdatePolicy(x) \/ Feedback(x)
    BY <2>1 DEF ImportEmployees, ImportTypes, Import, Create, Update, CreatePolicy, UpdatePolicy, Feedback
  <2>2. CASE OverwriteEmployee(x) \/ OverwriteType(x) \/ InsertRow(x) \/ InsertFails(x)
                 \/ \E k : FlushRow(x, k) \/ FlushFails(x, k) \/ WaitForName(x, k)
    BY <2>2 DEF OverwriteEmployee, OverwriteType, InsertRow, InsertFails, FlushRow, FlushFails,
                WaitForName, Abort
  <2>3. CASE UpsertPolicy(x) \/ FlushPolicy(x) \/ Commit(x) \/ LockCase(x)
    BY <2>3 DEF UpsertPolicy, FlushPolicy, Commit, LockCase
  <2>4. CASE CloseSession(x) \/ DeadlockVictim(x)
    BY <2>4 DEF CloseSession, DeadlockVictim, Abort
  <2> QED BY <1>1, <2>1, <2>2, <2>3, <2>4 DEF RequestStep
<1>2. CASE ScanStep
  BY <1>2 DEF ScanStep, ScanRead, ScanLock, ScanCommit
<1>3. CASE KubeletRestart
  BY <1>3 DEF KubeletRestart
<1>4. CASE UNCHANGED vars
  BY <1>4 DEF vars
<1> QED BY <1>1, <1>2, <1>3, <1>4 DEF Next

\* An import that ends well has reported every line that it did not accept, and has a
\* line for each that it did.
LEMMA ImportReports ==
    ASSUME MasterInv, MasterInv', [Next]_vars, NEW r \in DOMAIN cast.job,
           EndsWell(r), Job(r).kind = "import"
    PROVE  /\ req'[r].errors = OtherLines(Table(r), Job(r).file)
           /\ \A n \in Accepted(r) : \E i \in 1..Len(req'[r].lines) :
                  req'[r].lines[i] = LineOf(Table(r), Job(r).file, n)
<1>1. cast' = cast
  BY CastIsKept
<1>2. /\ Job(r)' = Job(r) /\ r \in DOMAIN cast'.job
      /\ req'[r].pc = "done" /\ Table(r) = Job(r).table
  BY <1>1 DEF Job, Table, EndsWell
<1>3. LinesRead(Job(r)', req'[r])
  BY <1>2 DEF MasterInv, RequestsOK, RequestOK
<1> QED BY <1>2, <1>3 DEF LinesRead, Accepted

\* r's commit leaves row k with these cells, except a cell that r had read with its
\* value and that somebody has written since.
Taken(r, k, cells) ==
    LET old == req[r].read[k] IN
    /\ Exists(rows'[Table(r)][k])
    /\ \A c \in DOMAIN cells :
           \/ rows'[Table(r)][k].cells[c] = cells[c]
           \/ /\ Exists(old) /\ old.cells[c] = cells[c]
              /\ rows[Table(r)][k].updated # old.updated

LEMMA ImportCommits ==
    ASSUME MasterInv, NEW r \in DOMAIN cast.job, Commit(r), Job(r).kind = "import",
           NEW i \in 1..Len(req[r].lines)
    PROVE  Taken(r, req[r].lines[i].key, req[r].lines[i].cells)
<1> DEFINE t     == Table(r)
           q     == req[r]
           k     == q.lines[i].key
           cells == q.lines[i].cells
           now   == rows[t][k]
           old   == q.read[k]
<1>1. /\ OnItsWay(Job(r), q) /\ LinesRead(Job(r), q) /\ Wanted(Job(r), q) /\ t = Job(r).table
      /\ AsRead(q, rows[t]) /\ q.pc \notin Ended /\ t \in Tables
      /\ WellTyped /\ RequestsOK
  BY Known, CommitEnds DEF MasterInv
<1>2. q.pc = "rows" /\ RowsFlushed(r)
  <2>1. q.pc # "commit"
    BY <1>1 DEF OnItsWay, PolicyKinds, Carries
  <2> QED BY <2>1, CommitEnds
<1>3. i \in 1..(q.at - 1) /\ Unsaved(r) = {}
  <2>1. ~(q.at <= Len(q.lines))
    BY <1>2 DEF RowsFlushed, MoreLines
  <2>2. Len(q.lines) \in Nat /\ q.at \in 1..(Len(q.lines) + 1)
    BY <1>1 DEF LinesRead, Wanted
  <2>3. q.at = Len(q.lines) + 1
    BY <2>1, <2>2
  <2> QED BY <1>2, <2>2, <2>3 DEF RowsFlushed
<1>4. /\ k \in DOMAIN q.want /\ q.want[k] \in Cells(t)
      /\ \A c \in DOMAIN cells : q.want[k][c] = cells[c]
      /\ q.new = {j \in DOMAIN q.want : ~Exists(q.read[j])}
  BY <1>1, <1>3 DEF Wanted
<1>5. k \in Keys(t) /\ cells \in Cells(t) /\ k \in DOMAIN q.read
  BY <1>1 DEF LinesRead
<1>6. DOMAIN cells = DOMAIN q.want[k] /\ DOMAIN cells = DOMAIN Columns(t)
  BY <1>4, <1>5 DEF Cells, Columns
<1>7. rows'[t][k] = RowWritten(r, k)
  BY <1>5, RowsCommitted
<1>8. ASSUME k \notin q.new, NEW c \in DOMAIN cells, c \notin Dirty(r, k)
      PROVE  /\ Exists(old) /\ old.cells[c] = cells[c]
             /\ now.updated = old.updated => now.cells[c] = cells[c]
  <2>1. Exists(old)
    BY <1>4, <1>8
  <2>2. old.cells[c] = cells[c]
    BY <1>4, <1>6, <1>8 DEF Dirty
  <2>3. now.updated = old.updated => now = old
    BY <1>1, <1>5, <2>1 DEF AsRead
  <2> QED BY <2>1, <2>2, <2>3
<1>9. CASE k \in q.new
  <2>1. RowWritten(r, k).cells = q.want[k] /\ Exists(RowWritten(r, k))
    BY <1>1, <1>5, <1>9, RowWrittenTyped DEF Written
  <2> QED BY <1>4, <1>7, <2>1 DEF Taken
<1>10. CASE k \notin q.new /\ k \in q.sent
  <2>1. /\ Exists(RowWritten(r, k))
        /\ \A c \in DOMAIN Columns(t) :
              RowWritten(r, k).cells[c] = IF c \in Dirty(r, k) THEN q.want[k][c] ELSE now.cells[c]
    BY <1>1, <1>5, <1>10, RowWrittenTyped DEF Written
  <2>2. ASSUME NEW c \in DOMAIN cells
        PROVE  \/ RowWritten(r, k).cells[c] = cells[c]
               \/ Exists(old) /\ old.cells[c] = cells[c] /\ now.updated # old.updated
    <3>1. CASE c \in Dirty(r, k)
      BY <1>4, <1>6, <2>1, <3>1
    <3>2. CASE c \notin Dirty(r, k)
      BY <1>6, <1>8, <1>10, <2>1, <3>2
    <3> QED BY <3>1, <3>2
  <2>3. Exists(rows'[t][k])
    BY <1>7, <2>1
  <2>4. \A c \in DOMAIN cells :
            \/ rows'[t][k].cells[c] = cells[c]
            \/ Exists(old) /\ old.cells[c] = cells[c] /\ now.updated # old.updated
    <3> HIDE DEF t, k, cells, now, old
    <3> QED BY <1>7, <2>2
  <2> QED BY <2>3, <2>4 DEF Taken
<1>11. CASE k \notin q.new /\ k \notin q.sent
  <2>1. Dirty(r, k) = {}
    BY <1>3, <1>4, <1>11 DEF Unsaved
  <2>2. RowWritten(r, k) = now
    BY <1>1, <1>5, <1>11, RowWrittenTyped DEF Written
  <2>3. Exists(now)
    <3>1. Exists(old)
      BY <1>4, <1>11
    <3>2. now.updated >= old.updated
      BY <1>1, <1>5, <3>1 DEF AsRead
    <3>3. now \in Row(t) /\ old \in Row(t)
      BY <1>1, <1>5 DEF WellTyped, LinesRead
    <3>4. now.updated \in Nat /\ old.updated \in Nat
      BY <3>3 DEF Row, Absent
    <3> QED BY <3>1, <3>2, <3>4 DEF Exists
  <2> QED BY <1>7, <1>8, <1>11, <2>1, <2>2, <2>3 DEF Taken
<1> QED BY <1>9, <1>10, <1>11

\* A commit writes rows its request names.
LEMMA CommitsItsKeys ==
    ASSUME MasterInv, NEW r \in DOMAIN cast.job, Commit(r),
           NEW t \in Tables, NEW k \in Keys(t), rows'[t][k] # rows[t][k]
    PROVE  EndsWell(r) /\ Table(r) = t /\ k \in KeysWritten(r)
<1> DEFINE q == req[r]
<1>1. /\ OnItsWay(Job(r), q) /\ LinesRead(Job(r), q) /\ Wanted(Job(r), q) /\ Table(r) = Job(r).table
      /\ q.pc \notin Ended \cup {"sent"} /\ WellTyped /\ RequestsOK
  BY Known, CommitEnds DEF MasterInv
<1>2. EndsWell(r)
  BY CommitEnds DEF EndsWell, Ended
<1>3. Table(r) = t /\ rows'[t][k] = RowWritten(r, k)
  BY RowsCommitted
<1>4. k \in Written(q)
  BY <1>1, <1>3, RowWrittenTyped
<1>5. Job(r).kind \in RowKinds
  BY <1>1, <1>4 DEF OnItsWay
<1>6. PICK i \in 1..Len(q.lines) : k = q.lines[i].key
  <2>1. k \in DOMAIN q.want
    BY <1>1, <1>4 DEF Wanted, Written
  <2>2. PICK i \in 1..(q.at - 1) : k = q.lines[i].key
    BY <1>1, <2>1 DEF Wanted
  <2>3. Len(q.lines) \in Nat /\ q.at \in 1..(Len(q.lines) + 1)
    BY <1>1 DEF LinesRead, Wanted
  <2> QED BY <2>2, <2>3
<1>7. CASE Job(r).kind = "import"
  <2>1. PICK x \in Accepted(r) : q.lines[i] = LineOf(Table(r), Job(r).file, x)
    BY <1>1, <1>7 DEF LinesRead, Accepted
  <2>2. k = Job(r).file[x].key
    BY <1>6, <2>1 DEF LineOf
  <2> QED BY <1>2, <1>3, <1>7, <2>2 DEF KeysWritten
<1>8. CASE Job(r).kind \in {"create", "update"}
  <2>1. q.lines[i] = Job(r).row
    BY <1>1, <1>8 DEF LinesRead
  <2> QED BY <1>2, <1>3, <1>6, <1>8, <2>1 DEF KeysWritten
<1> QED BY <1>5, <1>7, <1>8 DEF RowKinds

\* An import is one commit of exactly the well-formed lines of its file, the first of
\* each key; the other lines are reported, and no row changes but in the commit of a
\* request that names it, whatever edits, failures and restarts come between
\* (import_employee_rows, import_certificate_type_rows).
THEOREM ImportsAreWhole == Spec => ImportIsAWhole
<1> DEFINE Whole(r) ==
        /\ req'[r].errors = OtherLines(Table(r), Job(r).file)
        /\ \A n \in Accepted(r) :
               LET k     == Job(r).file[n].key
                   cells == CellsOf(Table(r), Job(r).file[n])
                   old   == req[r].read[k] IN
               /\ Exists(rows'[Table(r)][k])
               /\ \A c \in DOMAIN cells :
                      \/ rows'[Table(r)][k].cells[c] = cells[c]
                      \/ /\ Exists(old) /\ old.cells[c] = cells[c]
                         /\ rows[Table(r)][k].updated # old.updated
<1>1. ASSUME MasterInv, MasterInv', [Next]_vars, NEW r \in DOMAIN cast.job, EndsWell(r),
             Job(r).kind = "import"
      PROVE  Whole(r)
  <2>1. req'[r].errors = OtherLines(Table(r), Job(r).file)
    BY <1>1, ImportReports
  <2>2. ASSUME NEW n \in Accepted(r)
        PROVE  Taken(r, Job(r).file[n].key, CellsOf(Table(r), Job(r).file[n]))
    <3>1. PICK i \in 1..Len(req'[r].lines) : req'[r].lines[i] = LineOf(Table(r), Job(r).file, n)
      BY <1>1, ImportReports
    <3>2. req'[r].lines # <<>>
      BY <3>1
    <3>3. PICK x \in DOMAIN cast.job : Commit(x)
      BY <1>1, <3>2, StepKinds
    <3>4. x = r
      <4>1. r \in Requests
        BY <1>1, Known
      <4> QED BY <1>1, <3>3, <4>1, CommitEnds DEF EndsWell
    <3>5. req'[r].lines = req[r].lines
      BY <1>1, <3>3, <3>4, CommitEnds DEF Fields
    <3>6. /\ i \in 1..Len(req[r].lines)
          /\ req[r].lines[i].key = Job(r).file[n].key
          /\ req[r].lines[i].cells = CellsOf(Table(r), Job(r).file[n])
      BY <3>1, <3>5 DEF LineOf
    <3>7. Commit(r)
      BY <3>3, <3>4
    <3> QED BY <1>1, <3>6, <3>7, ImportCommits
  <2> QED BY <2>1, <2>2 DEF Taken
<1>2. ASSUME MasterInv, [Next]_vars, NEW t \in Tables, NEW k \in Keys(t), rows'[t][k] # rows[t][k]
      PROVE  \E r \in DOMAIN cast.job : EndsWell(r) /\ Table(r) = t /\ k \in KeysWritten(r)
  <2>1. PICK r \in DOMAIN cast.job : Commit(r)
    BY <1>2, StepKinds
  <2> QED BY <1>2, <2>1, CommitsItsKeys
<1>3. MasterInv /\ MasterInv' /\ [Next]_vars =>
          [/\ \A r \in DOMAIN cast.job : EndsWell(r) /\ Job(r).kind = "import" => Whole(r)
           /\ \A t \in Tables : \A k \in Keys(t) : rows'[t][k] # rows[t][k] =>
                 \E r \in DOMAIN cast.job : EndsWell(r) /\ Table(r) = t /\ k \in KeysWritten(r)]_vars
  <2> HIDE DEF Whole
  <2> QED BY <1>1, <1>2
<1> QED BY <1>3, MasterInvHolds, PTL DEF Spec, ImportIsAWhole

===============================================================================
