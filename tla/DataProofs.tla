----------------------------- MODULE DataProofs -----------------------------
(***************************************************************************)
(* Theorems about data, for files and logs of every length. Recursive      *)
(* definitions are reasoned about by induction, which rests on the order   *)
(* of the naturals being well-founded: a set of naturals that has 0 and,   *)
(* with each number, the next one, has them all.                           *)
(***************************************************************************)
EXTENDS PolicyLoader, AuditLog, WellFoundedInduction, FiniteSetTheorems,
        SequenceTheorems, TLAPS

-----------------------------------------------------------------------------
\* Induction.

Before == {ss \in Nat \X Nat : ss[1] < ss[2]}

LEMMA NatWF == IsWellFoundedOn(Before, Nat)
BY NatLessThanWellFounded DEF OpToRel, Before

LEMMA BeforeIsLess == \A m, n \in Nat : <<m, n>> \in Before <=> m < n
<1> TAKE m, n \in Nat
<1>1. <<m, n>> \in Nat \X Nat
  OBVIOUS
<1>2. <<m, n>>[1] = m /\ <<m, n>>[2] = n
  OBVIOUS
<1> QED
  BY <1>1, <1>2 DEF Before

\* Every set of naturals with a member has a least one.
LEMMA Least ==
    ASSUME NEW T \in SUBSET Nat, T # {}
    PROVE  \E n \in T : \A m \in T : n <= m
<1>1. PICK n \in T : \A m \in T : ~(<<m, n>> \in Before)
  BY NatWF, WFMin
<1>2. \A m \in T : ~(m < n)
  BY <1>1, BeforeIsLess
<1> QED
  BY <1>2

\* Induction: a set of naturals.
LEMMA Induct ==
    ASSUME NEW T \in SUBSET Nat, 0 \in T, \A n \in T : n + 1 \in T
    PROVE  T = Nat
<1> SUFFICES ASSUME Nat \ T # {} PROVE FALSE
  OBVIOUS
<1>1. PICK n \in Nat \ T : \A m \in Nat \ T : n <= m
  <2>1. Nat \ T \in SUBSET Nat
    OBVIOUS
  <2> QED BY <2>1, Least
<1>2. n # 0 /\ n - 1 \in Nat
  BY <1>1
<1>3. n - 1 \in T
  BY <1>1, <1>2
<1> QED
  BY <1>1, <1>2, <1>3
\* Every bounded set of naturals with a member has a greatest one.
LEMMA Greatest ==
    ASSUME NEW n \in Nat, NEW T \in SUBSET (0 .. n), T # {}
    PROVE  \E m \in T : \A k \in T : k <= m
<1> DEFINE R == {n - m : m \in T}
<1>1. R \in SUBSET Nat /\ R # {}
  <2>1. \A m \in T : n - m \in Nat
    OBVIOUS
  <2>2. PICK m \in T : TRUE
    OBVIOUS
  <2>3. n - m \in R
    BY <2>2
  <2> QED  BY <2>1, <2>3
<1>2. PICK r \in R : \A q \in R : r <= q
  <2> HIDE DEF R
  <2> QED BY <1>1, Least
<1>3. PICK m \in T : r = n - m
  OBVIOUS
<1>4. \A k \in T : k <= m
  <2> TAKE k \in T
  <2>1. r <= n - k
    BY <1>2
  <2> QED BY <2>1, <1>3
<1> QED  BY <1>4

-----------------------------------------------------------------------------
\* The policy file loader reads what is written.

\* Lines are indented by some number of spaces.
Indented(lines) == \A line \in lines : line.indent \in Nat

LEMMA LinesIndented ==
    ASSUME NEW lines, Indented(lines), NEW file \in Seq(lines)
    PROVE  /\ Len(file) \in Nat
           /\ \A j \in 1 .. Len(file) : file[j].indent \in Nat
BY ElementOfSeq DEF Indented

\* Where a file stands while it is parsed.
StartOfFile == [tree |-> {}, stack |-> <<[indent |-> -1, path |-> <<>>]>>]

\* f is the parser's state after each of the first n lines.
Reads(file, f, n) ==
    f = [i \in 0 .. n |-> IF i = 0 THEN StartOfFile
                          ELSE ReadLine(f[i - 1], file[i])]

LEMMA ReadsOneMore ==
    ASSUME NEW file, NEW n \in Nat, NEW f, Reads(file, f, n)
    PROVE  \E g : Reads(file, g, n + 1)
<1> DEFINE g == [i \in 0 .. n + 1 |->
                    IF i = n + 1 THEN ReadLine(f[n], file[n + 1]) ELSE f[i]]
<1>1. \A i \in 0 .. n : f[i] = IF i = 0 THEN StartOfFile
                               ELSE ReadLine(f[i - 1], file[i])
  BY DEF Reads
<1>2. ASSUME NEW i \in 0 .. n + 1
      PROVE  g[i] = IF i = 0 THEN StartOfFile ELSE ReadLine(g[i - 1], file[i])
  <2>1. CASE i = n + 1
    <3>1. g[i] = ReadLine(f[n], file[n + 1])
      BY <2>1
    <3>2. g[i - 1] = f[n] /\ i # 0
      BY <2>1
    <3> QED  BY <2>1, <3>1, <3>2
  <2>2. CASE i \in 1 .. n
    <3>1. g[i] = f[i] /\ g[i - 1] = f[i - 1] /\ i # 0 /\ i \in 0 .. n
      BY <2>2
    <3> HIDE DEF g
    <3> QED  BY <1>1, <3>1
  <2>3. CASE i = 0
    BY <2>3, <1>1
  <2> QED  BY <2>1, <2>2, <2>3
<1>3. Reads(file, g, n + 1)
  BY <1>2 DEF Reads
<1> QED  BY <1>3

\* The parser takes one line after the other.
LEMMA ReadingStepwise ==
    ASSUME NEW file, Len(file) \in Nat
    PROVE  Reading(file) =
               [i \in 0 .. Len(file) |->
                   IF i = 0 THEN StartOfFile
                   ELSE ReadLine(Reading(file)[i - 1], file[i])]
<1> DEFINE T == {n \in Nat : \E f : Reads(file, f, n)}
<1>1. 0 \in T
  <2>1. Reads(file, [i \in 0 .. 0 |-> StartOfFile], 0)
    BY DEF Reads
  <2> QED  BY <2>1
<1>2. \A n \in T : n + 1 \in T
  BY ReadsOneMore
<1>3. T = Nat
  <2>1. T \in SUBSET Nat
    OBVIOUS
  <2> HIDE DEF T
  <2> QED  BY <1>1, <1>2, <2>1, Induct
<1>4. \E f : Reads(file, f, Len(file))
  BY <1>3
<1> QED
  BY <1>4 DEF Reads, Reading, StartOfFile

\* Every line has a nearest section around it, or the file.
LEMMA EnclosingExists ==
    ASSUME NEW file, NEW i \in Nat \ {0}
    PROVE  LET e == Enclosing(file, i) IN
           /\ e \in 0 .. i - 1
           /\ Encloses(file, e, i)
           /\ \A k \in e + 1 .. i - 1 : ~Encloses(file, k, i)
<1> DEFINE T == {j \in 0 .. i - 1 : Encloses(file, j, i)}
<1>1. 0 \in T
  BY DEF Encloses
<1>2. PICK e \in T : \A k \in T : k <= e
  <2>1. T \in SUBSET (0 .. i - 1) /\ T # {} /\ i - 1 \in Nat
    BY <1>1
  <2> HIDE DEF T
  <2> QED  BY <2>1, Greatest
<1>3. \A k \in e + 1 .. i - 1 : ~Encloses(file, k, i)
  <2> TAKE k \in e + 1 .. i - 1
  <2>1. e \in 0 .. i - 1
    BY <1>2
  <2>2. k \in 0 .. i - 1 /\ ~(k <= e)
    BY <2>1
  <2> QED  BY <1>2, <2>2
<1> QED
  BY <1>2, <1>3 DEF Enclosing

\* f is the path of each of the first n lines.
Leads(file, f, n) ==
    f = [i \in 0 .. n |->
            IF i = 0 THEN <<>>
            ELSE Append(f[Enclosing(file, i)], file[i].key)]

LEMMA LeadsOneMore ==
    ASSUME NEW file, NEW n \in Nat, NEW f, Leads(file, f, n)
    PROVE  \E g : Leads(file, g, n + 1)
<1> DEFINE last == Append(f[Enclosing(file, n + 1)], file[n + 1].key)
           g == [i \in 0 .. n + 1 |-> IF i = n + 1 THEN last ELSE f[i]]
<1>1. \A i \in 0 .. n : f[i] = IF i = 0 THEN <<>>
                               ELSE Append(f[Enclosing(file, i)], file[i].key)
  BY DEF Leads
<1>2. ASSUME NEW i \in 0 .. n + 1
      PROVE  g[i] = IF i = 0 THEN <<>>
                    ELSE Append(g[Enclosing(file, i)], file[i].key)
  <2>1. CASE i = 0
    BY <2>1, <1>1
  <2>2. CASE i # 0
    <3>1. Enclosing(file, i) \in 0 .. i - 1
      BY <2>2, EnclosingExists
    <3>2. g[Enclosing(file, i)] = f[Enclosing(file, i)]
      BY <3>1
    <3>3. i = n + 1 => g[i] = last
      OBVIOUS
    <3>4. i # n + 1 => i \in 0 .. n /\ g[i] = f[i]
      OBVIOUS
    <3> HIDE DEF g
    <3>5. CASE i = n + 1
      BY <3>2, <3>3, <3>5, <2>2
    <3>6. CASE i # n + 1
      BY <3>2, <3>4, <3>6, <2>2, <1>1
    <3> QED  BY <3>5, <3>6
  <2> QED  BY <2>1, <2>2
<1>3. Leads(file, g, n + 1)
  <2> HIDE DEF last
  <2> QED  BY <1>2 DEF Leads
<1> QED  BY <1>3

\* And its path is the section's path and the line's key.
LEMMA PathsStepwise ==
    ASSUME NEW file, Len(file) \in Nat
    PROVE  PathsAsIndented(file) =
               [i \in 0 .. Len(file) |->
                   IF i = 0 THEN <<>>
                   ELSE Append(PathsAsIndented(file)[Enclosing(file, i)],
                               file[i].key)]
<1> DEFINE T == {n \in Nat : \E f : Leads(file, f, n)}
<1>1. 0 \in T
  <2>1. Leads(file, [i \in 0 .. 0 |-> <<>>], 0)
    BY DEF Leads
  <2> QED  BY <2>1
<1>2. \A n \in T : n + 1 \in T
  BY LeadsOneMore
<1>3. T = Nat
  <2>1. T \in SUBSET Nat
    OBVIOUS
  <2> HIDE DEF T
  <2> QED  BY <1>1, <1>2, <2>1, Induct
<1>4. \E f : Leads(file, f, Len(file))
  BY <1>3
<1> QED
  BY <1>4 DEF Leads, PathsAsIndented

-----------------------------------------------------------------------------
\* The indentation of a line; the file itself is further out than any.
Depth(file, j) == IF j = 0 THEN -1 ELSE file[j].indent

\* The lines up to i whose paths still stand after line i.
LastingAt(file, i) ==
    {j \in 1 .. i : \A k \in j + 1 .. i :
        ~IsPrefix(PathsAsIndented(file)[k], PathsAsIndented(file)[j])}

\* After line i the tree has what lasts until then.
TreeIs(file, i) ==
    Reading(file)[i].tree =
        {[path |-> PathsAsIndented(file)[j], value |-> file[j].value] :
            j \in LastingAt(file, i)}

\* After line i the stack holds the sections that are open there, from the
\* file inwards: its m-th is line at[m].
StackIs(file, i, at) ==
    LET stack == Reading(file)[i].stack
        paths == {PathsAsIndented(file)[j] : j \in 0 .. Len(file)}
    IN  /\ stack \in Seq([indent : Int, path : paths])
        /\ Len(stack) >= 1
        /\ at \in [1 .. Len(stack) -> 0 .. i]
        /\ at[1] = 0
        /\ \A l, m \in 1 .. Len(stack) : l < m => at[l] < at[m]
        /\ \A m \in 1 .. Len(stack) :
               stack[m] = [indent |-> Depth(file, at[m]),
                           path |-> PathsAsIndented(file)[at[m]]]
        /\ \A j \in 0 .. i :
               (\E m \in 1 .. Len(stack) : at[m] = j) <=> Encloses(file, j, i)

\* Before the first line only the file is open and the tree is empty.
LEMMA ReadingStarts ==
    ASSUME NEW lines, Indented(lines), NEW file \in Seq(lines)
    PROVE  TreeIs(file, 0) /\ \E at : StackIs(file, 0, at)
<1> DEFINE paths == {PathsAsIndented(file)[j] : j \in 0 .. Len(file)}
           at == [m \in 1 .. 1 |-> 0]
<1>1. Len(file) \in Nat
  OBVIOUS
<1>2. Reading(file)[0] = StartOfFile
  BY <1>1, ReadingStepwise
<1>3. PathsAsIndented(file)[0] = <<>>
  BY <1>1, PathsStepwise
<1>4. TreeIs(file, 0)
  BY <1>2 DEF TreeIs, LastingAt, StartOfFile
<1>5. <<>> \in paths
  BY <1>1, <1>3
<1>6. StackIs(file, 0, at)
  <2> HIDE DEF paths
  <2>1. Reading(file)[0].stack = <<[indent |-> -1, path |-> <<>>]>>
    BY <1>2 DEF StartOfFile
  <2>2. Reading(file)[0].stack \in Seq([indent : Int, path : paths])
    BY <2>1, <1>5
  <2>3. Depth(file, 0) = -1 /\ Encloses(file, 0, 0)
    BY DEF Depth, Encloses
  <2> QED  BY <2>1, <2>2, <2>3, <1>3 DEF StackIs, paths
<1> QED  BY <1>4, <1>6

\* What is open at line i + 1 is what was open at line i and is indented less.
LEMMA OpenAtNext ==
    ASSUME NEW file, NEW i \in Nat, NEW j \in 0 .. i
    PROVE  Encloses(file, j, i + 1)
               <=> \/ j = 0
                   \/ Encloses(file, j, i) /\ file[i + 1].indent > file[j].indent
<1>1. CASE j = 0
  BY <1>1 DEF Encloses
<1>2. CASE j # 0
  <2>1. j + 1 .. i + 1 = (j + 1 .. i) \cup {i + 1}
    OBVIOUS
  <2> QED  BY <1>2, <2>1 DEF Encloses
<1> QED  BY <1>1, <1>2

\* Popping leaves the sections that the next line belongs to.
LEMMA OpenSectionsAre ==
    ASSUME NEW lines, Indented(lines), NEW file \in Seq(lines),
           NEW i \in 0 .. Len(file) - 1, NEW at, StackIs(file, i, at)
    PROVE  LET stack == Reading(file)[i].stack IN
           \E last \in 1 .. Len(stack) :
              /\ OpenSections(stack, file[i + 1].indent) = SubSeq(stack, 1, last)
              /\ \A j \in 0 .. i :
                     (\E m \in 1 .. last : at[m] = j)
                         <=> Encloses(file, j, i + 1)
              /\ at[last] = Enclosing(file, i + 1)
<1> DEFINE stack == Reading(file)[i].stack
           indent == file[i + 1].indent
           paths == {PathsAsIndented(file)[j] : j \in 0 .. Len(file)}
           sections == [indent : Int, path : paths]
<1>1. /\ Len(stack) \in Nat \ {0}
      /\ DOMAIN stack = 1 .. Len(stack)
      /\ \A m \in 1 .. Len(stack) : stack[m].indent \in Int
  <2>1. stack \in Seq(sections) /\ Len(stack) >= 1
    BY DEF StackIs
  <2> HIDE DEF paths, stack, sections
  <2>2. Len(stack) \in Nat /\ DOMAIN stack = 1 .. Len(stack)
    BY <2>1
  <2>3. \A m \in 1 .. Len(stack) : stack[m] \in sections
    BY <2>1, ElementOfSeq
  <2> QED  BY <2>1, <2>2, <2>3 DEF sections
<1>2. /\ i \in Nat /\ i + 1 \in 1 .. Len(file) /\ indent \in Nat
      /\ \A j \in 1 .. i : file[j].indent \in Nat
  <2>1. /\ Len(file) \in Nat
        /\ \A j \in 1 .. Len(file) : file[j].indent \in Nat
    BY LinesIndented
  <2>2. i \in Nat /\ i + 1 \in 1 .. Len(file)
    BY <2>1
  <2>3. \A j \in 1 .. i : j \in 1 .. Len(file)
    BY <2>1, <2>2
  <2> QED  BY <2>1, <2>2, <2>3
<1>3. /\ at \in [1 .. Len(stack) -> 0 .. i] /\ at[1] = 0
      /\ \A l, m \in 1 .. Len(stack) : l < m => at[l] < at[m]
      /\ \A m \in 1 .. Len(stack) : stack[m].indent = Depth(file, at[m])
      /\ \A j \in 0 .. i :
             (\E m \in 1 .. Len(stack) : at[m] = j) <=> Encloses(file, j, i)
  <2>1. \A m \in 1 .. Len(stack) :
            stack[m] = [indent |-> Depth(file, at[m]),
                        path |-> PathsAsIndented(file)[at[m]]]
    BY DEF StackIs
  <2>2. \A m \in 1 .. Len(stack) : stack[m].indent = Depth(file, at[m])
    <3> HIDE DEF stack
    <3> TAKE m \in 1 .. Len(stack)
    <3>1. stack[m] = [indent |-> Depth(file, at[m]),
                      path |-> PathsAsIndented(file)[at[m]]]
      BY <2>1
    <3> QED  BY <3>1
  <2> QED  BY <2>2 DEF StackIs
<1> HIDE DEF stack, indent, paths
<1> DEFINE Kept == {m \in 1 .. Len(stack) : m = 1 \/ stack[m].indent < indent}
<1>4. PICK last \in Kept : \A m \in Kept : m <= last
  <2>1. Kept \in SUBSET (0 .. Len(stack)) /\ 1 \in Kept
    BY <1>1
  <2> HIDE DEF Kept
  <2> QED  BY <1>1, <2>1, Greatest
<1>5. last \in 1 .. Len(stack) /\ (last = 1 \/ stack[last].indent < indent)
  BY <1>4
<1>6. \A m \in last + 1 .. Len(stack) : indent <= stack[m].indent
  <2> TAKE m \in last + 1 .. Len(stack)
  <2>1. m \in 1 .. Len(stack) /\ m # 1 /\ ~(m <= last)
    BY <1>1, <1>5
  <2> QED  BY <1>1, <1>2, <1>4, <2>1
<1> HIDE DEF Kept
<1>7. OpenSections(stack, indent) = SubSeq(stack, 1, last)
  <2> DEFINE Stays(m) ==
                 /\ m = 1 \/ ~(indent <= stack[m].indent)
                 /\ \A l \in m + 1 .. Len(stack) : indent <= stack[l].indent
  <2>1. last \in DOMAIN stack /\ Stays(last)
    BY <1>1, <1>2, <1>5, <1>6
  <2>2. \A m \in DOMAIN stack : Stays(m) => m = last
    <3> SUFFICES ASSUME NEW m \in 1 .. Len(stack), Stays(m) PROVE m = last
      BY <1>1
    <3>1. ~(m < last)
      <4> SUFFICES ASSUME m < last PROVE FALSE
        OBVIOUS
      <4>1. last \in m + 1 .. Len(stack) /\ last # 1
        BY <1>1, <1>5
      <4> QED  BY <1>1, <1>2, <1>5, <4>1
    <3>2. ~(last < m)
      <4> SUFFICES ASSUME last < m PROVE FALSE
        OBVIOUS
      <4>1. m \in last + 1 .. Len(stack) /\ m # 1
        BY <1>1, <1>5
      <4> QED  BY <1>6, <4>1
    <3> QED  BY <3>1, <3>2, <1>1, <1>5
  <2>3. (CHOOSE m \in DOMAIN stack : Stays(m)) = last
    <3> HIDE DEF Stays
    <3> QED  BY <2>1, <2>2
  <2> QED  BY <2>3 DEF OpenSections, Closes
<1>8. \A m \in 1 .. last : at[m] = 0 \/ Depth(file, at[m]) < indent
  <2> TAKE m \in 1 .. last
  <2>0. m \in 1 .. Len(stack) /\ at[m] \in 0 .. i
    <3>1. m \in 1 .. Len(stack)
      BY <1>1, <1>5
    <3> QED  BY <3>1, <1>3
  <2>1. CASE m = last
    BY <2>0, <2>1, <1>3, <1>5
  <2>2. CASE m < last
    <3> SUFFICES ASSUME at[m] # 0 PROVE Depth(file, at[m]) < indent
      OBVIOUS
    <3>1. last # 1 /\ at[m] < at[last] /\ at[last] \in 0 .. i
      BY <2>0, <2>2, <1>3, <1>5
    <3>2. Depth(file, at[last]) < indent
      BY <3>1, <1>3, <1>5
    <3>3. Encloses(file, at[m], i)
      BY <2>0, <1>3
    <3>4. at[last] \in at[m] + 1 .. i
      BY <3>1, <2>0
    <3>5. file[at[last]].indent > file[at[m]].indent
      BY <3>3, <3>4 DEF Encloses
    <3>6. /\ Depth(file, at[m]) = file[at[m]].indent
          /\ Depth(file, at[last]) = file[at[last]].indent
      BY <3>1, <2>0 DEF Depth
    <3>7. /\ file[at[m]].indent \in Nat /\ file[at[last]].indent \in Nat
      <4>1. at[m] \in 1 .. i /\ at[last] \in 1 .. i
        BY <3>1, <2>0, <1>2
      <4> QED  BY <4>1, <1>2
    <3> QED  BY <3>2, <3>5, <3>6, <3>7, <1>2
  <2> QED  BY <2>1, <2>2, <1>5, <1>1
<1>9. ASSUME NEW j \in 0 .. i
      PROVE  (\E m \in 1 .. last : at[m] = j) <=> Encloses(file, j, i + 1)
  <2>1. Encloses(file, j, i + 1)
            <=> \/ j = 0
                \/ Encloses(file, j, i) /\ indent > file[j].indent
    BY <1>2, OpenAtNext DEF indent
  <2>2. ASSUME NEW m \in 1 .. last, at[m] = j, j # 0
        PROVE  Encloses(file, j, i) /\ indent > file[j].indent
    <3>1. m \in 1 .. Len(stack)
      BY <1>1, <1>5
    <3>2. Encloses(file, j, i)
      BY <3>1, <2>2, <1>3
    <3>3. Depth(file, j) < indent
      BY <2>2, <1>8
    <3>4. Depth(file, j) = file[j].indent /\ j \in 1 .. i
      BY <2>2, <1>2 DEF Depth
    <3> QED  BY <3>2, <3>3, <3>4, <1>2
  <2>3. ASSUME j # 0, Encloses(file, j, i), indent > file[j].indent
        PROVE  \E m \in 1 .. last : at[m] = j
    <3>1. PICK m \in 1 .. Len(stack) : at[m] = j
      BY <2>3, <1>3
    <3>2. stack[m].indent = file[j].indent /\ j \in 1 .. i
      <4>1. stack[m].indent = Depth(file, j)
        BY <3>1, <1>3
      <4>2. j \in 1 .. i
        BY <2>3, <1>2
      <4> QED  BY <4>1, <4>2, <2>3 DEF Depth
    <3>3. ~(m \in last + 1 .. Len(stack))
      BY <3>2, <2>3, <1>2, <1>6
    <3>4. m \in 1 .. last
      BY <3>1, <3>3, <1>1, <1>5
    <3> QED  BY <3>1, <3>4
  <2>4. j = 0 => \E m \in 1 .. last : at[m] = j
    <3>1. 1 \in 1 .. last
      BY <1>1, <1>5
    <3> QED  BY <3>1, <1>3
  <2> QED  BY <2>1, <2>2, <2>3, <2>4
<1>10. at[last] = Enclosing(file, i + 1)
  <2> DEFINE e == Enclosing(file, i + 1)
  <2>1. /\ e \in 0 .. i /\ Encloses(file, e, i + 1)
        /\ \A k \in e + 1 .. i : ~Encloses(file, k, i + 1)
    <3>1. i + 1 \in Nat \ {0} /\ (i + 1) - 1 = i
      BY <1>2
    <3> QED  BY <3>1, EnclosingExists
  <2> HIDE DEF e
  <2>2. PICK m \in 1 .. last : at[m] = e
    BY <2>1, <1>9
  <2>3. CASE m < last
    <3>1. e < at[last] /\ at[last] \in 0 .. i
      BY <2>2, <2>3, <1>1, <1>3, <1>5
    <3>2. Encloses(file, at[last], i + 1)
      <4>1. last \in 1 .. last
        BY <1>5
      <4> QED  BY <3>1, <1>9, <4>1
    <3>3. at[last] \in e + 1 .. i
      BY <3>1, <2>1
    <3> QED  BY <3>2, <3>3, <2>1
  <2> QED  BY <2>2, <2>3, <1>5, <1>1 DEF e
<1> QED
  BY <1>5, <1>7, <1>9, <1>10 DEF stack, indent

\* The path that the parser assigns to is the path of the line.
LEMMA LineIsRead ==
    ASSUME NEW lines, Indented(lines), NEW file \in Seq(lines),
           NEW i \in 0 .. Len(file) - 1, TreeIs(file, i),
           \E at : StackIs(file, i, at)
    PROVE  TreeIs(file, i + 1) /\ \E at : StackIs(file, i + 1, at)
<1> DEFINE stack == Reading(file)[i].stack
           line == file[i + 1]
           path == PathsAsIndented(file)
           paths == {path[j] : j \in 0 .. Len(file)}
           sections == [indent : Int, path : paths]
           next == Reading(file)[i + 1]
<1>1. PICK at : StackIs(file, i, at)
  OBVIOUS
<1>2. PICK last \in 1 .. Len(stack) :
         /\ OpenSections(stack, line.indent) = SubSeq(stack, 1, last)
         /\ \A j \in 0 .. i :
                (\E m \in 1 .. last : at[m] = j) <=> Encloses(file, j, i + 1)
         /\ at[last] = Enclosing(file, i + 1)
  BY <1>1, OpenSectionsAre
<1> DEFINE open == SubSeq(stack, 1, last)
           here == Append(open[Len(open)].path, line.key)
<1>3. /\ Len(file) \in Nat /\ i \in Nat /\ i + 1 \in 1 .. Len(file)
      /\ line.indent \in Nat
  <2>1. /\ Len(file) \in Nat
        /\ \A j \in 1 .. Len(file) : file[j].indent \in Nat
    BY LinesIndented
  <2>2. i \in Nat /\ i + 1 \in 1 .. Len(file)
    BY <2>1
  <2> QED  BY <2>1, <2>2
<1>4. /\ stack \in Seq(sections)
      /\ at \in [1 .. Len(stack) -> 0 .. i]
      /\ at[1] = 0
      /\ \A l, m \in 1 .. Len(stack) : l < m => at[l] < at[m]
      /\ \A m \in 1 .. Len(stack) :
             stack[m] = [indent |-> Depth(file, at[m]), path |-> path[at[m]]]
  BY <1>1 DEF StackIs
<1>5. next = ReadLine(Reading(file)[i], line)
  <2>1. i + 1 \in 0 .. Len(file) /\ i + 1 # 0 /\ (i + 1) - 1 = i
    BY <1>3
  <2> QED  BY <1>3, <2>1, ReadingStepwise
<1>6. path[i + 1] = Append(path[at[last]], line.key)
  <2>1. i + 1 \in 0 .. Len(file) /\ i + 1 # 0
    BY <1>3
  <2> QED  BY <1>2, <1>3, <2>1, PathsStepwise
<1>7. path[i + 1] \in paths
  BY <1>3
<1> HIDE DEF path, paths, sections, stack, line, next
<1>8. /\ open \in Seq(sections) /\ Len(open) = last
      /\ \A m \in 1 .. last : open[m] = stack[m]
  BY <1>4, SubSeqProperties
<1>9. here = path[i + 1]
  <2> HIDE DEF open
  <2>1. last \in 1 .. last /\ last \in 1 .. Len(stack)
    BY <1>2
  <2>2. open[Len(open)] = stack[last]
    BY <1>8, <2>1
  <2>3. stack[last] = [indent |-> Depth(file, at[last]), path |-> path[at[last]]]
    BY <1>4, <2>1
  <2> QED  BY <1>6, <2>2, <2>3
<1>10. next = [tree |-> Assign(Reading(file)[i].tree, here, line.value),
               stack |-> IF line.value = Section
                         THEN Append(open, [indent |-> line.indent,
                                            path |-> here])
                         ELSE open]
  BY <1>2, <1>5 DEF ReadLine, stack
<1> HIDE DEF open, here
<1>11. TreeIs(file, i + 1)
  <2>1. next.tree = {entry \in Reading(file)[i].tree :
                        ~IsPrefix(path[i + 1], entry.path)}
                    \cup {[path |-> path[i + 1], value |-> line.value]}
    BY <1>9, <1>10 DEF Assign
  <2>2. Reading(file)[i].tree =
            {[path |-> path[j], value |-> file[j].value] :
                j \in LastingAt(file, i)}
    BY DEF TreeIs, path
  <2>3. LastingAt(file, i + 1) =
            {j \in LastingAt(file, i) : ~IsPrefix(path[i + 1], path[j])}
                \cup {i + 1}
    <3>1. \A j \in 1 .. i : j + 1 .. i + 1 = (j + 1 .. i) \cup {i + 1}
      BY <1>3
    <3>2. 1 .. i + 1 = (1 .. i) \cup {i + 1} /\ (i + 1) + 1 .. i + 1 = {}
      BY <1>3
    <3>3. ASSUME NEW j \in 1 .. i
          PROVE  j \in LastingAt(file, i + 1)
                     <=> /\ j \in LastingAt(file, i)
                         /\ ~IsPrefix(path[i + 1], path[j])
      BY <3>1, <3>2 DEF LastingAt, path
    <3>4. i + 1 \in LastingAt(file, i + 1)
      BY <3>2 DEF LastingAt
    <3>5. LastingAt(file, i) \subseteq 1 .. i
          /\ LastingAt(file, i + 1) \subseteq 1 .. i + 1
      BY DEF LastingAt
    <3> QED  BY <3>2, <3>3, <3>4, <3>5
  <2> QED  BY <2>1, <2>2, <2>3 DEF TreeIs, path, next, line
<1>12. \E to : StackIs(file, i + 1, to)
  <2>1. \A m \in 1 .. last : m \in 1 .. Len(stack)
    BY <1>2
  <2>2. \A j \in 0 .. i + 1 : j \in 0 .. i \/ j = i + 1
    BY <1>3
  <2>3. Encloses(file, i + 1, i + 1) <=> line.value = Section
    BY <1>3 DEF Encloses, line
  <2>4. CASE line.value # Section
    <3> DEFINE to == [m \in 1 .. last |-> at[m]]
    <3>1. next.stack = open
      BY <2>4, <1>10
    <3>2. to \in [1 .. last -> 0 .. i + 1]
      <4>1. \A m \in 1 .. last : at[m] \in 0 .. i
        BY <2>1, <1>4
      <4>2. \A m \in 1 .. last : at[m] \in 0 .. i + 1
        BY <4>1, <1>3
      <4> QED  BY <4>2
    <3>3. \A j \in 0 .. i + 1 :
              (\E m \in 1 .. last : to[m] = j) <=> Encloses(file, j, i + 1)
      <4>1. \A m \in 1 .. last : to[m] \in 0 .. i
        BY <2>1, <1>4
      <4>2. \A m \in 1 .. last : to[m] # i + 1
        BY <4>1, <1>3
      <4> QED  BY <4>2, <2>2, <2>3, <2>4, <1>2
    <3>4. \A m \in 1 .. last :
              open[m] = [indent |-> Depth(file, to[m]), path |-> path[to[m]]]
      BY <2>1, <1>4, <1>8
    <3>5. /\ to[1] = 0 /\ last >= 1
          /\ \A l, m \in 1 .. last : l < m => to[l] < to[m]
      BY <2>1, <1>2, <1>4
    <3>6. StackIs(file, i + 1, to)
      <4> HIDE DEF to
      <4> QED  BY <3>1, <3>2, <3>3, <3>4, <3>5, <1>8
               DEF StackIs, next, path, sections, paths
    <3> QED  BY <3>6
  <2>5. CASE line.value = Section
    <3> DEFINE to == [m \in 1 .. last + 1 |-> IF m = last + 1 THEN i + 1
                                              ELSE at[m]]
               section == [indent |-> line.indent, path |-> path[i + 1]]
    <3>1. next.stack = Append(open, section)
      BY <2>5, <1>9, <1>10
    <3>2. section \in sections
      BY <1>3, <1>7 DEF sections
    <3>3. /\ next.stack \in Seq(sections) /\ Len(next.stack) = last + 1
          /\ \A m \in 1 .. last : next.stack[m] = open[m]
          /\ next.stack[last + 1] = section
      <4> HIDE DEF section
      <4> QED  BY <3>1, <3>2, <1>8, AppendProperties
    <3>4. last \in Nat \ {0} /\ \A m \in 1 .. last + 1 : m \in 1 .. last \/ m = last + 1
      BY <1>2
    <3>5. /\ to[last + 1] = i + 1
          /\ \A m \in 1 .. last : to[m] = at[m] /\ to[m] \in 0 .. i
      BY <2>1, <3>4, <1>4
    <3>6. to \in [1 .. last + 1 -> 0 .. i + 1]
      <4>1. \A m \in 1 .. last + 1 : to[m] \in 0 .. i + 1
        <5> HIDE DEF to
        <5> QED  BY <3>4, <3>5, <1>3
      <4> QED  BY <4>1
    <3>7. \A j \in 0 .. i + 1 :
              (\E m \in 1 .. last + 1 : to[m] = j) <=> Encloses(file, j, i + 1)
      <4> HIDE DEF to
      <4> TAKE j \in 0 .. i + 1
      <4>1. CASE j = i + 1
        <5>1. last + 1 \in 1 .. last + 1
          BY <3>4
        <5> QED  BY <4>1, <5>1, <3>5, <2>3, <2>5
      <4>2. CASE j \in 0 .. i
        <5>1. j # i + 1 /\ \A m \in 1 .. last : m \in 1 .. last + 1
          BY <4>2, <1>3, <3>4
        <5>2. (\E m \in 1 .. last + 1 : to[m] = j)
                  <=> \E m \in 1 .. last : at[m] = j
          BY <5>1, <3>4, <3>5
        <5> QED  BY <5>2, <4>2, <1>2
      <4> QED  BY <4>1, <4>2, <2>2
    <3>8. \A m \in 1 .. last + 1 :
              next.stack[m] = [indent |-> Depth(file, to[m]),
                               path |-> path[to[m]]]
      <4> TAKE m \in 1 .. last + 1
      <4> HIDE DEF to
      <4>1. CASE m \in 1 .. last
        <5>1. next.stack[m] = stack[m] /\ to[m] = at[m]
          BY <4>1, <3>3, <3>5, <1>8
        <5> QED  BY <4>1, <5>1, <2>1, <1>4
      <4>2. CASE m = last + 1
        <5>1. Depth(file, i + 1) = line.indent
          BY <1>3 DEF Depth, line
        <5> QED  BY <4>2, <5>1, <3>3, <3>5
      <4> QED  BY <4>1, <4>2, <3>4
    <3>9. /\ to[1] = 0 /\ last + 1 >= 1
          /\ \A l, m \in 1 .. last + 1 : l < m => to[l] < to[m]
      <4> HIDE DEF to
      <4>1. to[1] = 0 /\ last + 1 >= 1
        BY <3>4, <3>5, <1>4
      <4>2. ASSUME NEW l \in 1 .. last + 1, NEW m \in 1 .. last + 1, l < m
            PROVE  to[l] < to[m]
        <5>1. l \in 1 .. last
          BY <4>2, <3>4
        <5>2. CASE m \in 1 .. last
          BY <5>1, <5>2, <4>2, <2>1, <3>5, <1>4
        <5>3. CASE m = last + 1
          BY <5>1, <5>3, <3>5, <1>3
        <5> QED  BY <5>2, <5>3, <3>4
      <4> QED  BY <4>1, <4>2
    <3>10. StackIs(file, i + 1, to)
      <4> HIDE DEF to, section
      <4> QED  BY <3>3, <3>6, <3>7, <3>8, <3>9
               DEF StackIs, next, path, sections, paths
    <3> QED  BY <3>10
  <2> QED  BY <2>4, <2>5
<1> QED  BY <1>11, <1>12

\* Every policy file is read as its indentation says: the parser, which keeps
\* a stack of open sections and pops it, arrives at the entries that a reader
\* sees who goes by the indentation (policy-loader.ts: parseSimpleYaml).
THEOREM FilesReadAsIndented ==
    ASSUME NEW lines, Indented(lines), NEW file \in Seq(lines)
    PROVE  ParseSimpleYaml(file) = TreeAsIndented(file)
<1> DEFINE Read(n) == TreeIs(file, n) /\ \E at : StackIs(file, n, at)
           T == {n \in Nat : n <= Len(file) => Read(n)}
<1>1. Len(file) \in Nat
  OBVIOUS
<1>2. 0 \in T
  BY ReadingStarts
<1>3. \A n \in T : n + 1 \in T
  <2> TAKE n \in T
  <2> SUFFICES ASSUME n + 1 <= Len(file) PROVE Read(n + 1)
    OBVIOUS
  <2>1. n \in 0 .. Len(file) - 1 /\ Read(n)
    BY <1>1
  <2> QED  BY <2>1, LineIsRead
<1>4. T = Nat
  <2>1. T \in SUBSET Nat
    OBVIOUS
  <2> HIDE DEF T
  <2> QED  BY <1>2, <1>3, <2>1, Induct
<1>5. TreeIs(file, Len(file))
  <2>1. Len(file) \in T
    BY <1>1, <1>4
  <2> QED  BY <1>1, <2>1
<1> QED
  BY <1>1, <1>5 DEF TreeIs, LastingAt, ParseSimpleYaml, TreeAsIndented

-----------------------------------------------------------------------------
\* The two backends of the audit log answer alike.

\* Records are appended as time passes.
Record(tools, types, outcomes) ==
    [id : Nat, tool : tools, type : types, outcome : outcomes, time : Int]
InOrder(log) ==
    \A i, j \in DOMAIN log : i <= j => log[i].time <= log[j].time

\* What matches is finite and in the log.
LEMMA HitsAreFinite ==
    ASSUME NEW S, NEW log \in Seq(S), NEW filter
    PROVE  /\ Hits(log, filter) \subseteq 1 .. Len(log)
           /\ Len(log) \in Nat
           /\ IsFiniteSet(Hits(log, filter))
<1>1. Len(log) \in Nat /\ DOMAIN log = 1 .. Len(log)
  OBVIOUS
<1>2. Hits(log, filter) \subseteq 1 .. Len(log)
  BY <1>1 DEF Hits
<1>3. IsFiniteSet(1 .. Len(log))
  BY <1>1, FS_Interval
<1> QED  BY <1>1, <1>2, <1>3, FS_Subset

\* An answer has no more records than there are hits.
LEMMA TakenTyped ==
    ASSUME NEW hits, IsFiniteSet(hits), NEW limit \in Nat \cup {None}
    PROVE  /\ Cardinality(hits) \in Nat
           /\ Taken(hits, limit) \in 0 .. Cardinality(hits)
<1>1. Cardinality(hits) \in Nat
  BY FS_CardinalityType
<1> QED  BY <1>1 DEF Taken

\* How far up a hit stands among the hits.
Rank(hits, i) == Cardinality({j \in hits : j <= i})

\* Hits stand in the order of their ranks, and the ranks are 1, 2, ...
LEMMA RanksAreOrdered ==
    ASSUME NEW n \in Nat, NEW hits \in SUBSET (1 .. n)
    PROVE  /\ \A i \in hits : Rank(hits, i) \in 1 .. Cardinality(hits)
           /\ \A i, j \in hits : i < j => Rank(hits, i) < Rank(hits, j)
<1> DEFINE UpTo(i) == {j \in hits : j <= i}
<1>1. IsFiniteSet(hits) /\ \A i \in hits : i \in Nat
  <2>1. IsFiniteSet(1 .. n) /\ hits \subseteq 1 .. n
    BY FS_Interval
  <2>2. IsFiniteSet(hits)
    BY <2>1, FS_Subset
  <2> QED  BY <2>1, <2>2
<1>2. \A i : UpTo(i) \in SUBSET hits /\ Rank(hits, i) = Cardinality(UpTo(i))
  BY DEF Rank
<1>3. \A i \in hits : i \in UpTo(i)
  BY <1>1
<1>4. \A i, j \in hits :
          i < j => UpTo(i) \cup {j} \in SUBSET UpTo(j) /\ j \notin UpTo(i)
  <2> SUFFICES ASSUME NEW i \in hits, NEW j \in hits, i < j
               PROVE  UpTo(i) \cup {j} \subseteq UpTo(j) /\ j \notin UpTo(i)
    OBVIOUS
  <2>1. i \in Nat /\ j \in Nat
    BY <1>1
  <2>2. ~(j <= i) /\ j <= j
    BY <2>1
  <2>3. ASSUME NEW m \in hits, m <= i
        PROVE  m <= j
    <3>1. m \in Nat
      BY <1>1
    <3> QED  BY <2>1, <2>3, <3>1
  <2> QED  BY <2>2, <2>3
<1> HIDE DEF UpTo
<1>5. \A i : /\ IsFiniteSet(UpTo(i))
             /\ Cardinality(UpTo(i)) \in Nat
             /\ Cardinality(UpTo(i)) <= Cardinality(hits)
  BY <1>1, <1>2, FS_Subset, FS_CardinalityType
<1>6. ASSUME NEW i \in hits
      PROVE  Rank(hits, i) \in 1 .. Cardinality(hits)
  <2>1. Cardinality(UpTo(i)) # 0
    BY <1>3, <1>5, FS_EmptySet
  <2>2. Cardinality(hits) \in Nat
    BY <1>1, FS_CardinalityType
  <2> QED  BY <1>2, <1>5, <2>1, <2>2
<1>7. ASSUME NEW i \in hits, NEW j \in hits, i < j
      PROVE  Rank(hits, i) < Rank(hits, j)
  <2>1. Cardinality(UpTo(i) \cup {j}) = Cardinality(UpTo(i)) + 1
    BY <1>4, <1>5, <1>7, FS_AddElement
  <2>2. Cardinality(UpTo(i) \cup {j}) <= Cardinality(UpTo(j))
    BY <1>4, <1>5, <1>7, FS_Subset
  <2> QED  BY <1>2, <1>5, <2>1, <2>2
<1> QED  BY <1>6, <1>7

\* There is a hit of every rank.
LEMMA NthHasRank ==
    ASSUME NEW n \in Nat, NEW hits \in SUBSET (1 .. n),
           NEW k \in 1 .. Cardinality(hits)
    PROVE  Nth(hits, k) \in hits /\ Rank(hits, Nth(hits, k)) = k
<1> DEFINE ranks == 1 .. Cardinality(hits)
           rank == [i \in hits |-> Rank(hits, i)]
<1>1. /\ IsFiniteSet(hits) /\ Cardinality(hits) \in Nat
      /\ hits \subseteq 1 .. n
  <2>1. IsFiniteSet(1 .. n)
    BY FS_Interval
  <2> QED  BY <2>1, FS_Subset, FS_CardinalityType
<1>2. IsFiniteSet(ranks) /\ Cardinality(ranks) = Cardinality(hits)
  BY <1>1, FS_Interval
<1>3. rank \in [hits -> ranks]
  BY RanksAreOrdered
<1>4. \A i, j \in hits : rank[i] = rank[j] => i = j
  <2> SUFFICES ASSUME NEW i \in hits, NEW j \in hits, i # j
               PROVE  Rank(hits, i) # Rank(hits, j)
    OBVIOUS
  <2>1. i < j \/ j < i
    BY <1>1
  <2>2. Rank(hits, i) \in ranks /\ Rank(hits, j) \in ranks
    BY RanksAreOrdered
  <2>3. /\ i < j => Rank(hits, i) < Rank(hits, j)
        /\ j < i => Rank(hits, j) < Rank(hits, i)
    BY RanksAreOrdered
  <2> QED  BY <1>1, <2>1, <2>2, <2>3
<1> HIDE DEF ranks
<1>5. rank \in Injection(hits, ranks)
  BY <1>3, <1>4 DEF Injection, IsInjective
<1>6. rank \in Surjection(hits, ranks)
  BY <1>2, <1>5, FS_Injection
<1>7. \E i \in hits : Rank(hits, i) = k
  <2>1. k \in ranks
    BY DEF ranks
  <2> QED  BY <1>6, <2>1 DEF Surjection
<1> QED  BY <1>7 DEF Nth, Rank

\* What a listing is, said of its rows.
LEMMA ListingIs ==
    ASSUME NEW log, NEW hits, NEW n \in Nat, NEW rows \in Listings(log, hits, n)
    PROVE  /\ rows \in [1 .. n -> hits]
           /\ \A a, b \in 1 .. n :
                  a < b => /\ rows[a] # rows[b]
                           /\ log[rows[a]].time >= log[rows[b]].time
           /\ \A i \in hits : \A a \in 1 .. n :
                  \/ \E b \in 1 .. n : rows[b] = i
                  \/ log[i].time <= log[rows[a]].time
BY DEF Listings

\* No listing has an older record in a place than another has.
LEMMA NoListingIsOlder ==
    ASSUME NEW log, NEW hits, \A i \in hits : log[i].time \in Int,
           NEW n \in Nat, NEW rows \in Listings(log, hits, n),
           NEW others \in Listings(log, hits, n), NEW k \in 1 .. n
    PROVE  ~(log[rows[k]].time < log[others[k]].time)
<1> SUFFICES ASSUME log[rows[k]].time < log[others[k]].time
             PROVE  FALSE
  OBVIOUS
<1> DEFINE Time(i) == log[i].time
<1>1. /\ rows \in [1 .. n -> hits] /\ others \in [1 .. n -> hits]
      /\ \A i \in hits : Time(i) \in Int
      /\ Time(rows[k]) < Time(others[k])
  BY ListingIs
<1>2. /\ \A a, b \in 1 .. n : a < b => Time(rows[a]) >= Time(rows[b])
      /\ \A a, b \in 1 .. n : a < b => others[a] # others[b]
      /\ \A a, b \in 1 .. n : a < b => Time(others[a]) >= Time(others[b])
      /\ \A i \in hits : \A a \in 1 .. n :
             (\E b \in 1 .. n : rows[b] = i) \/ Time(i) <= Time(rows[a])
  BY ListingIs
<1> HIDE DEF Time
<1> DEFINE Place(a) == CHOOSE b \in 1 .. k - 1 : rows[b] = others[a]
           place == [a \in 1 .. k |-> Place(a)]
<1>3. ASSUME NEW a \in 1 .. k
      PROVE  \E b \in 1 .. k - 1 : rows[b] = others[a]
  <2>1. a \in 1 .. n /\ others[a] \in hits /\ rows[k] \in hits
        /\ others[k] \in hits
    BY <1>1
  <2>2. Time(others[a]) >= Time(others[k])
    BY <1>1, <1>2, <2>1
  <2>3. PICK b \in 1 .. n : rows[b] = others[a]
    <3>1. /\ Time(others[a]) \in Int /\ Time(others[k]) \in Int
          /\ Time(rows[k]) \in Int
      BY <1>1, <2>1
    <3>2. ~(Time(others[a]) <= Time(rows[k]))
      BY <1>1, <2>2, <3>1
    <3> QED  BY <1>2, <2>1, <3>2
  <2>4. ~(b >= k)
    <3> SUFFICES ASSUME b >= k PROVE FALSE
      OBVIOUS
    <3>1. b = k \/ k < b
      OBVIOUS
    <3>2. Time(rows[k]) >= Time(rows[b])
      BY <1>1, <1>2, <2>1, <3>1
    <3> QED  BY <1>1, <2>1, <2>2, <2>3, <3>2
  <2> QED  BY <2>3, <2>4
<1>4. \A a \in 1 .. k : Place(a) \in 1 .. k - 1 /\ rows[Place(a)] = others[a]
  BY <1>3
<1> HIDE DEF Place
<1>5. place \in [1 .. k -> 1 .. k - 1]
  BY <1>4
<1>6. /\ IsFiniteSet(1 .. k) /\ IsFiniteSet(1 .. k - 1)
      /\ Cardinality(1 .. k - 1) < Cardinality(1 .. k)
  <2>1. /\ IsFiniteSet(1 .. k) /\ Cardinality(1 .. k) = k
        /\ IsFiniteSet(1 .. k - 1) /\ Cardinality(1 .. k - 1) = k - 1
    BY FS_Interval
  <2> QED  BY <2>1
<1>7. PICK a, b \in 1 .. k : a # b /\ place[a] = place[b]
  <2> HIDE DEF place
  <2> QED  BY <1>5, <1>6, FS_PigeonHole
<1>8. others[a] = others[b] /\ (a < b \/ b < a)
  BY <1>4, <1>7
<1> QED  BY <1>2, <1>8

\* Two listings have the same milliseconds row by row, and each has the rows
\* of the other that it had to have.
LEMMA ListingsAgree ==
    ASSUME NEW log, NEW hits, \A i \in hits : log[i].time \in Int,
           IsFiniteSet(hits),
           NEW n \in Nat, NEW rows \in Listings(log, hits, n),
           NEW others \in Listings(log, hits, n), NEW k \in 1 .. n
    PROVE  /\ log[rows[k]].time = log[others[k]].time
           /\ \/ n = Cardinality(hits)
              \/ \E last \in 1 .. n :
                     log[rows[last]].time < log[rows[k]].time
              => \E m \in 1 .. n : others[m] = rows[k]
<1>1. /\ rows \in [1 .. n -> hits] /\ others \in [1 .. n -> hits]
  BY ListingIs
<1>2. \A a \in 1 .. n : log[rows[a]].time = log[others[a]].time
  <2> TAKE a \in 1 .. n
  <2>1. /\ ~(log[rows[a]].time < log[others[a]].time)
        /\ ~(log[others[a]].time < log[rows[a]].time)
    BY NoListingIsOlder
  <2>2. log[rows[a]].time \in Int /\ log[others[a]].time \in Int
    BY <1>1
  <2> QED  BY <2>1, <2>2
<1>3. CASE n = Cardinality(hits)
  <2>1. \A a, b \in 1 .. n : others[a] = others[b] => a = b
    <3> SUFFICES ASSUME NEW a \in 1 .. n, NEW b \in 1 .. n, a # b
                 PROVE  others[a] # others[b]
      OBVIOUS
    <3>1. a < b \/ b < a
      OBVIOUS
    <3> QED  BY <3>1, ListingIs
  <2>2. others \in Injection(1 .. n, hits)
    BY <1>1, <2>1 DEF Injection, IsInjective
  <2>3. Cardinality(1 .. n) = Cardinality(hits)
    BY <1>3, FS_Interval
  <2>4. others \in Surjection(1 .. n, hits)
    BY <2>2, <2>3, FS_Injection
  <2>5. rows[k] \in hits
    BY <1>1
  <2>6. \E m \in 1 .. n : others[m] = rows[k]
    BY <2>4, <2>5 DEF Surjection
  <2> QED  BY <1>2, <2>6
<1>4. ASSUME NEW last \in 1 .. n, log[rows[last]].time < log[rows[k]].time
      PROVE  \E m \in 1 .. n : others[m] = rows[k]
  <2>1. rows[k] \in hits /\ rows[last] \in hits /\ others[last] \in hits
    BY <1>1
  <2>2. ~(log[rows[k]].time <= log[others[last]].time)
    BY <1>2, <1>4, <2>1
  <2> QED  BY <2>1, <2>2, ListingIs
<1> QED  BY <1>2, <1>3, <1>4

\* The hits from the last backwards are a listing.
LEMMA BackwardsIsListing ==
    ASSUME NEW length \in Nat, NEW hits \in SUBSET (1 .. length),
           NEW log, \A i \in hits : log[i].time \in Int,
           \A i, j \in hits : i <= j => log[i].time <= log[j].time,
           NEW n \in 0 .. Cardinality(hits), Cardinality(hits) \in Nat
    PROVE  [k \in 1 .. n |-> Nth(hits, Cardinality(hits) + 1 - k)]
               \in Listings(log, hits, n)
<1> DEFINE all == Cardinality(hits)
           rows == [k \in 1 .. n |-> Nth(hits, all + 1 - k)]
<1>1. ASSUME NEW k \in 1 .. n
      PROVE  rows[k] \in hits /\ Rank(hits, rows[k]) = all + 1 - k
  <2>1. all + 1 - k \in 1 .. all
    OBVIOUS
  <2> QED  BY <2>1, NthHasRank
<1>2. rows \in [1 .. n -> hits]
  BY <1>1
<1>3. \A i \in hits : i \in Nat /\ Rank(hits, i) \in 1 .. all
  <2>1. \A i \in hits : Rank(hits, i) \in 1 .. all
    BY RanksAreOrdered
  <2>2. hits \subseteq Nat
    OBVIOUS
  <2> QED  BY <2>1, <2>2
<1>5. all \in Nat
  OBVIOUS
<1> HIDE DEF rows, all
<1>4. \A i, j \in hits : Rank(hits, i) < Rank(hits, j) => i < j
  <2> SUFFICES ASSUME NEW i \in hits, NEW j \in hits, ~(i < j)
               PROVE  ~(Rank(hits, i) < Rank(hits, j))
    OBVIOUS
  <2>1. i = j \/ j < i
    <3>1. i \in Nat /\ j \in Nat
      BY <1>3
    <3>2. \A x, y \in Nat : x < y \/ x = y \/ y < x
      OBVIOUS
    <3> QED  BY <3>1, <3>2
  <2>2. Rank(hits, i) \in 1 .. all /\ Rank(hits, j) \in 1 .. all
    BY <1>3
  <2>3. j < i => Rank(hits, j) < Rank(hits, i)
    BY RanksAreOrdered
  <2> QED  BY <1>5, <2>1, <2>2, <2>3
<1>6. ASSUME NEW a \in 1 .. n, NEW b \in 1 .. n, a < b
      PROVE  rows[a] # rows[b] /\ log[rows[a]].time >= log[rows[b]].time
  <2>1. /\ rows[a] \in hits /\ rows[b] \in hits
        /\ Rank(hits, rows[a]) = all + 1 - a
        /\ Rank(hits, rows[b]) = all + 1 - b
    BY <1>1
  <2>2. Rank(hits, rows[b]) < Rank(hits, rows[a])
    BY <1>5, <1>6, <2>1
  <2>3. rows[b] < rows[a]
    BY <1>4, <2>1, <2>2
  <2>4. rows[b] <= rows[a] /\ rows[a] # rows[b]
    <3>1. rows[a] \in Nat /\ rows[b] \in Nat
      BY <1>3, <2>1
    <3> QED  BY <2>3, <3>1
  <2> QED  BY <2>1, <2>4
<1>7. ASSUME NEW i \in hits, NEW a \in 1 .. n
      PROVE  i \in {rows[b] : b \in 1 .. n} \/ log[i].time <= log[rows[a]].time
  <2>1. /\ rows[a] \in hits
        /\ Rank(hits, rows[a]) = all + 1 - a
        /\ Rank(hits, i) \in 1 .. all
    BY <1>1, <1>3
  <2>2. CASE Rank(hits, i) < all + 1 - n
    <3>1. Rank(hits, i) < Rank(hits, rows[a])
      BY <1>5, <2>1, <2>2
    <3>2. i < rows[a]
      BY <1>4, <2>1, <3>1
    <3>3. i <= rows[a]
      <4>1. i \in Nat /\ rows[a] \in Nat
        BY <1>3, <2>1
      <4> QED  BY <3>2, <4>1
    <3> QED  BY <2>1, <3>3
  <2>3. CASE ~(Rank(hits, i) < all + 1 - n)
    <3> DEFINE b == all + 1 - Rank(hits, i)
    <3>1. b \in 1 .. n /\ all + 1 - b = Rank(hits, i)
      BY <1>5, <2>1, <2>3
    <3> HIDE DEF b
    <3>2. rows[b] \in hits /\ Rank(hits, rows[b]) = Rank(hits, i)
      BY <1>1, <3>1
    <3>3. ~(rows[b] < i) /\ ~(i < rows[b])
      <4>1. ~(Rank(hits, i) < Rank(hits, i))
        BY <1>5, <2>1
      <4>2. /\ rows[b] < i => Rank(hits, rows[b]) < Rank(hits, i)
            /\ i < rows[b] => Rank(hits, i) < Rank(hits, rows[b])
        BY <3>2, RanksAreOrdered
      <4> QED  BY <3>2, <4>1, <4>2
    <3>4. rows[b] = i
      <4>1. i \in Nat /\ rows[b] \in Nat
        BY <1>3, <3>2
      <4> QED  BY <3>3, <4>1
    <3> QED  BY <3>1, <3>4
  <2> QED  BY <2>2, <2>3
<1>8. rows \in Listings(log, hits, n)
  BY <1>2, <1>6, <1>7 DEF Listings
<1> QED  BY <1>8 DEF rows, all

\* A row gives back the time of its record.
LEMMA TimeIsRead ==
    ASSUME NEW tools, NEW types, NEW outcomes,
           NEW record \in Record(tools, types, outcomes)
    PROVE  AsRead(record).time = record.time
BY DEF AsRead, Record

\* The answer that a listing makes.
RowsRead(log, listing, n) == [k \in 1 .. n |-> AsRead(log[listing[k]])]

\* Answers made of two listings have the same records but where the limit
\* left a choice.
LEMMA AnswersHaveTheSame ==
    ASSUME NEW tools, NEW types, NEW outcomes,
           NEW log \in Seq(Record(tools, types, outcomes)), NEW hits,
           hits \subseteq DOMAIN log, IsFiniteSet(hits), NEW n \in Nat,
           NEW rows \in Listings(log, hits, n),
           NEW others \in Listings(log, hits, n)
    PROVE  /\ \A k \in 1 .. n : RowsRead(log, rows, n)[k].time
                                 = RowsRead(log, others, n)[k].time
           /\ SameRecords(RowsRead(log, rows, n), RowsRead(log, others, n),
                          n = Cardinality(hits))
<1> DEFINE a == RowsRead(log, rows, n)
           b == RowsRead(log, others, n)
<1>1. \A i \in hits : log[i] \in Record(tools, types, outcomes)
  <2>1. \A i \in 1 .. Len(log) : log[i] \in Record(tools, types, outcomes)
    BY ElementOfSeq
  <2> QED  BY <2>1
<1>2. \A i \in hits : log[i].time \in Int
  BY <1>1 DEF Record
<1>3. rows \in [1 .. n -> hits] /\ others \in [1 .. n -> hits]
  BY ListingIs
<1>4. /\ DOMAIN a = 1 .. n /\ DOMAIN b = 1 .. n
      /\ \A k \in 1 .. n : a[k].time = log[rows[k]].time
      /\ \A k \in 1 .. n : b[k].time = log[others[k]].time
      /\ \A k, m \in 1 .. n : others[m] = rows[k] => b[m] = a[k]
  BY <1>1, <1>3, TimeIsRead DEF RowsRead
<1>5. ASSUME NEW k \in 1 .. n
      PROVE  /\ log[rows[k]].time = log[others[k]].time
             /\ \/ n = Cardinality(hits)
                \/ \E last \in 1 .. n :
                       log[rows[last]].time < log[rows[k]].time
                => \E m \in 1 .. n : others[m] = rows[k]
  BY <1>2, ListingsAgree
<1> HIDE DEF a, b
<1>6. \A k \in 1 .. n : a[k].time = b[k].time
  BY <1>4, <1>5
<1>7. SameRecords(a, b, n = Cardinality(hits))
  <2> SUFFICES ASSUME NEW k \in 1 .. n,
                      \/ n = Cardinality(hits)
                      \/ \E last \in 1 .. n : a[last].time < a[k].time
               PROVE  \E m \in 1 .. n : b[m] = a[k]
    BY <1>4 DEF SameRecords
  <2>1. \E m \in 1 .. n : others[m] = rows[k]
    BY <1>4, <1>5
  <2> QED  BY <1>4, <2>1
<1> QED  BY <1>6, <1>7 DEF a, b

\* Whichever backend keeps the audit log, a query finds the same records of
\* every log whose records were appended in the order of their timestamps, for
\* every filter: SQLite lists them backwards and without the advice of their
\* outcomes, and where the limit cuts through a millisecond it may choose
\* others of it (audit-log.ts: query; sqlite-audit-log.ts: query, rowToEvent).
THEOREM BackendsAgree ==
    ASSUME NEW tools, NEW types, NEW outcomes,
           NEW log \in Seq(Record(tools, types, outcomes)),
           InOrder(log), NEW filter, filter.limit \in Nat \cup {None}
    PROVE  BackendsAgreeOn(log, filter)
<1> DEFINE hits == Hits(log, filter)
           all == Cardinality(hits)
           n == Taken(hits, filter.limit)
           memory == MemoryAnswer(log, filter)
           rows == [k \in 1 .. n |-> Nth(hits, all + 1 - k)]
           backwards == [k \in 1 .. n |-> AsRead(memory[n + 1 - k])]
<1>1. /\ hits \in SUBSET (1 .. Len(log)) /\ Len(log) \in Nat
      /\ IsFiniteSet(hits) /\ DOMAIN log = 1 .. Len(log)
  BY HitsAreFinite
<1>2. all \in Nat /\ n \in 0 .. all
  BY <1>1, TakenTyped
<1>3. memory = [k \in 1 .. n |-> log[Nth(hits, (all - n) + k)]]
  BY DEF MemoryAnswer
<1>4. SqliteAnswers(log, filter) =
          {RowsRead(log, listing, n) : listing \in Listings(log, hits, n)}
  BY DEF SqliteAnswers, RowsRead
<1>5. \A i \in hits : log[i].time \in Int
  <2>1. \A i \in 1 .. Len(log) : log[i] \in Record(tools, types, outcomes)
    BY ElementOfSeq
  <2> QED  BY <1>1, <2>1 DEF Record
<1> HIDE DEF hits, n, all, memory
<1>6. Len(memory) = n
  BY <1>2, <1>3
<1>7. rows \in Listings(log, hits, n)
  <2>1. \A i, j \in hits : i <= j => log[i].time <= log[j].time
    BY <1>1 DEF InOrder
  <2> QED  BY <1>1, <1>2, <1>5, <2>1, BackwardsIsListing DEF all
<1>8. backwards = RowsRead(log, rows, n)
  <2>1. ASSUME NEW k \in 1 .. n
        PROVE  memory[n + 1 - k] = log[rows[k]]
    <3>1. n + 1 - k \in 1 .. n /\ (all - n) + (n + 1 - k) = all + 1 - k
      BY <1>2
    <3> QED  BY <1>3, <3>1
  <2> HIDE DEF rows
  <2> QED  BY <2>1 DEF RowsRead
<1> HIDE DEF rows
<1>9. ASSUME NEW answer \in SqliteAnswers(log, filter)
      PROVE  /\ Len(answer) = n
             /\ \A k \in 1 .. n : answer[k].time = backwards[k].time
             /\ SameRecords(answer, backwards, n = all)
             /\ SameRecords(backwards, answer, n = all)
  <2>1. PICK listing \in Listings(log, hits, n) :
            answer = RowsRead(log, listing, n)
    BY <1>4
  <2>2. hits \subseteq DOMAIN log /\ n \in Nat
    BY <1>1, <1>2
  <2>3. /\ \A k \in 1 .. n : answer[k].time = RowsRead(log, rows, n)[k].time
        /\ SameRecords(answer, RowsRead(log, rows, n), n = all)
    BY <1>1, <1>7, <2>1, <2>2, AnswersHaveTheSame DEF all
  <2>4. SameRecords(RowsRead(log, rows, n), answer, n = all)
    BY <1>1, <1>7, <2>1, <2>2, AnswersHaveTheSame DEF all
  <2>5. Len(answer) = n
    BY <1>2, <2>1 DEF RowsRead
  <2> HIDE DEF backwards
  <2> QED  BY <1>8, <2>3, <2>4, <2>5
<1>10. backwards \in SqliteAnswers(log, filter)
  BY <1>4, <1>7, <1>8
<1> HIDE DEF backwards
<1>11. /\ backwards \in SqliteAnswers(log, filter)
       /\ \A answer \in SqliteAnswers(log, filter) :
              /\ Len(answer) = Len(memory)
              /\ \A k \in 1 .. Len(memory) :
                     answer[k].time = backwards[k].time
              /\ SameRecords(answer, backwards, Len(memory) = all)
              /\ SameRecords(backwards, answer, Len(memory) = all)
  BY <1>6, <1>9, <1>10
<1>12. backwards = [k \in 1 .. Len(memory) |->
                       AsRead(memory[Len(memory) + 1 - k])]
  BY <1>6 DEF backwards
<1> QED  BY <1>11, <1>12 DEF BackendsAgreeOn, memory, hits, all
=============================================================================
