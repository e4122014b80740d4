----------------------------- MODULE JsonProofs -----------------------------
(***************************************************************************)
(* Theorems about canonical JSON, for heaps of every size: the serializer  *)
(* accepts exactly what JSON carries, and texts are equal exactly if the   *)
(* data is.                                                                *)
(***************************************************************************)
EXTENDS CanonicalJson, DataProofs

-----------------------------------------------------------------------------
\* Texts and how they start.

Text == Seq(Characters)

\* Texts put together are a text.
LEMMA CatTyped == \A a, b \in Text : a \o b \in Text
BY ConcatProperties DEF Text

\* It does not matter which are put together first.
LEMMA CatAssoc == \A a, b, c \in Text : (a \o b) \o c = a \o (b \o c)
BY ConcatAssociative DEF Text

\* What follows the same start differs if the wholes do.
LEMMA CatCancel == \A a, x, y \in Text : a \o x = a \o y => x = y
BY ConcatSimplifications DEF Text

\* The empty text adds nothing.
LEMMA CatEmpty == \A a \in Text : a \o <<>> = a /\ <<>> \o a = a
BY ConcatEmptySeq DEF Text

\* A text put in front decides how the whole starts.
LEMMA CatNonempty ==
    \A a, b \in Text : a # <<>> => a \o b # <<>> /\ (a \o b)[1] = a[1]
<1> SUFFICES ASSUME NEW a \in Text, NEW b \in Text, a # <<>>
             PROVE  a \o b # <<>> /\ (a \o b)[1] = a[1]
  OBVIOUS
<1>1. Len(a) \in Nat \ {0} /\ Len(b) \in Nat
  BY EmptySeq, LenProperties DEF Text
<1>2. /\ Len(a \o b) = Len(a) + Len(b)
      /\ \A i \in 1 .. Len(a) + Len(b) :
             (a \o b)[i] = IF i <= Len(a) THEN a[i] ELSE b[i - Len(a)]
  BY ConcatProperties DEF Text
<1>3. 1 \in 1 .. Len(a) + Len(b) /\ 1 <= Len(a)
  BY <1>1
<1> QED
  BY <1>1, <1>2, <1>3

\* A sequence of one starts with that one.
LEMMA Singleton ==
    ASSUME NEW S, NEW c \in S
    PROVE  <<c>> \in Seq(S) /\ <<c>> # <<>> /\ <<c>>[1] = c
OBVIOUS

\* A character by itself is a text.
LEMMA OneTyped == \A c \in Characters : <<c>> \in Text /\ <<c>> # <<>> /\ <<c>>[1] = c
BY Singleton DEF Text

\* What starts with the same character goes on in the same way, and what does
\* not differs.
LEMMA OneCancel ==
    \A c, d \in Characters : \A x, y \in Text :
        <<c>> \o x = <<d>> \o y => c = d /\ x = y
<1> TAKE c, d \in Characters
<1> TAKE x, y \in Text
<1> HAVE <<c>> \o x = <<d>> \o y
<1>1. (<<c>> \o x)[1] = c /\ (<<d>> \o y)[1] = d
  BY OneTyped, CatNonempty
<1>2. c = d
  BY <1>1
<1> QED
  BY <1>2, OneTyped, CatCancel

\* Nothing, or something outside of C first.
Stops(C, x) == x = <<>> \/ x[1] \notin C

\* A run of characters in C ends where the characters in C end.
LEMMA RunsAgree ==
    ASSUME NEW C, NEW a \in Text, NEW b \in Text, NEW x \in Text, NEW y \in Text,
           Range(a) \subseteq C, Range(b) \subseteq C, Stops(C, x), Stops(C, y),
           a \o x = b \o y
    PROVE  a = b /\ x = y
<1>1. /\ Len(a) \in Nat /\ Len(b) \in Nat /\ Len(x) \in Nat /\ Len(y) \in Nat
      /\ \A i \in 1 .. Len(a) : a[i] \in C
      /\ \A i \in 1 .. Len(b) : b[i] \in C
  BY LenProperties, RangeEquality DEF Text
<1>2. /\ Len(a \o x) = Len(a) + Len(x)
      /\ \A i \in 1 .. Len(a) + Len(x) :
             (a \o x)[i] = IF i <= Len(a) THEN a[i] ELSE x[i - Len(a)]
  BY ConcatProperties DEF Text
<1>3. /\ Len(a \o x) = Len(b) + Len(y)
      /\ \A i \in 1 .. Len(b) + Len(y) :
             (a \o x)[i] = IF i <= Len(b) THEN b[i] ELSE y[i - Len(b)]
  BY ConcatProperties DEF Text
<1>4. ~(Len(a) < Len(b))
  <2> SUFFICES ASSUME Len(a) < Len(b) PROVE FALSE
    OBVIOUS
  <2> DEFINE i == Len(a) + 1
  <2>1. i \in 1 .. Len(b) /\ i \in 1 .. Len(a) + Len(x) /\ ~(i <= Len(a))
        /\ i - Len(a) = 1 /\ i \in 1 .. Len(b) + Len(y) /\ i <= Len(b)
    BY <1>1, <1>2, <1>3
  <2>2. (a \o x)[i] = x[1] /\ (a \o x)[i] = b[i]
    <3> HIDE DEF i
    <3> QED  BY <1>2, <1>3, <2>1
  <2>3. x # <<>> /\ b[i] \in C
    <3>1. Len(x) # 0
      BY <1>1, <1>2, <1>3
    <3> HIDE DEF i
    <3> QED  BY <1>1, <2>1, <3>1
  <2> QED  BY <2>2, <2>3 DEF Stops
<1>5. ~(Len(b) < Len(a))
  <2> SUFFICES ASSUME Len(b) < Len(a) PROVE FALSE
    OBVIOUS
  <2> DEFINE i == Len(b) + 1
  <2>1. i \in 1 .. Len(a) /\ i \in 1 .. Len(a) + Len(x) /\ i <= Len(a)
        /\ i - Len(b) = 1 /\ i \in 1 .. Len(b) + Len(y) /\ ~(i <= Len(b))
    BY <1>1, <1>2, <1>3
  <2>2. (a \o x)[i] = a[i] /\ (a \o x)[i] = y[1]
    <3> HIDE DEF i
    <3> QED  BY <1>2, <1>3, <2>1
  <2>3. y # <<>> /\ a[i] \in C
    <3>1. Len(y) # 0
      BY <1>1, <1>2, <1>3
    <3> HIDE DEF i
    <3> QED  BY <1>1, <2>1, <3>1
  <2> QED  BY <2>2, <2>3 DEF Stops
<1>6. Len(a) = Len(b)
  BY <1>1, <1>4, <1>5
<1>7. \A i \in 1 .. Len(a) : a[i] = b[i]
  <2> TAKE i \in 1 .. Len(a)
  <2>1. i \in 1 .. Len(a) + Len(x) /\ i <= Len(a)
        /\ i \in 1 .. Len(b) + Len(y) /\ i <= Len(b)
    BY <1>1, <1>6, <1>2, <1>3
  <2> QED  BY <1>2, <1>3, <2>1
<1>8. a = b
  BY <1>6, <1>7, SeqEqual DEF Text
<1> QED
  BY <1>8, CatCancel

\* Paths that take a first step.
LEMMA FirstSteps ==
    ASSUME NEW k \in Characters, NEW l \in Characters, NEW p \in Text, NEW q \in Text
    PROVE  /\ <<k>> \o p \in Text /\ <<k>> \o p # <<>>
           /\ <<k>> \o p = <<l>> \o q => k = l /\ p = q
<1>1. <<k>> \in Text /\ <<k>> # <<>> /\ <<k>>[1] = k
  BY OneTyped
<1>2. <<k>> \o p \in Text /\ <<k>> \o p # <<>>
  BY <1>1, CatTyped, CatNonempty
<1>3. <<k>> \o p = <<l>> \o q => k = l /\ p = q
  BY OneCancel
<1> QED
  BY <1>2, <1>3

-----------------------------------------------------------------------------
\* Values and nodes.

\* There are finitely many nodes.
LEMMA NodeCount == Cardinality(Nodes) \in Nat
BY JsonAssumption, FS_CardinalityType

\* A value refers to a node or is a scalar, a string without a bare quote or a
\* number without punctuation.
LEMMA ValueKinds ==
    ASSUME NEW v \in JsValue
    PROVE  \/ v.type = "reference" /\ v.chars \in Nodes /\ v = Ref(v.chars)
           \/ /\ v.type \in {"unsupported", "string", "number"}
              /\ v.chars \in Text
              /\ v.type = "string" => Range(v.chars) \subseteq Characters \ {"'"}
              /\ v.type = "number" =>
                     /\ v.chars # <<>>
                     /\ Range(v.chars) \subseteq Characters \ Punctuation
<1>1. CASE v \in {Ref(n) : n \in Nodes}
  BY <1>1 DEF Ref
<1>2. CASE v \in Scalars
  <2>1. v.type \in {"unsupported", "string", "number"} /\ v.chars \in Seq(Characters)
    BY <1>2, JsonAssumption
  <2>2. Range(v.chars) \subseteq Characters
    BY <2>1, RangeOfSeq
  <2> QED
    BY <1>2, <2>1, <2>2, JsonAssumption DEF Text
<1> QED
  BY <1>1, <1>2 DEF JsValue

\* Keys are visited one after the other, none of them twice.
LEMMA OrderTyped ==
    ASSUME NEW node
    PROVE  /\ KeyOrder(node) \in Seq(Characters)
           /\ Len(KeyOrder(node)) \in Nat
           /\ \A i \in 1 .. Len(KeyOrder(node)) : KeyOrder(node)[i] \in Characters
           /\ \A i, j \in 1 .. Len(KeyOrder(node)) :
                  KeyOrder(node)[i] = KeyOrder(node)[j] => i = j
<1>1. KeyOrder(node) \in Seq(Characters) /\ IsInjective(KeyOrder(node))
  BY JsonAssumption DEF KeyOrder
<1>2. Len(KeyOrder(node)) \in Nat /\ DOMAIN KeyOrder(node) = 1 .. Len(KeyOrder(node))
  BY <1>1, LenProperties
<1> QED
  BY <1>1, <1>2, ElementOfSeq DEF IsInjective

\* What is known of a node: its keys are among those visited, and the positions
\* of an array have no gaps.
NodeFits(node) ==
    /\ node.kind \in {"exotic", "array", "object"}
    /\ \A k \in DOMAIN node.at : node.at[k] \in JsValue /\ k \in Characters
    /\ node.kind # "exotic" => \A k \in DOMAIN node.at :
           \E i \in 1 .. Len(KeyOrder(node)) : k = KeyOrder(node)[i]
    /\ node.kind = "array" => \A i \in 2 .. Len(KeyOrder(node)) :
           KeyOrder(node)[i] \in DOMAIN node.at
               => KeyOrder(node)[i - 1] \in DOMAIN node.at

\* The nodes of a heap are such nodes.
LEMMA NodeTyped ==
    ASSUME NEW heap \in Heap, NEW m \in Nodes
    PROVE  NodeFits(heap[m])
<1> SUFFICES ASSUME NEW node \in Node PROVE NodeFits(node)
  BY DEF Heap
<1>1. CASE node = Exotic
  BY <1>1 DEF Exotic, NodeFits
<1>2. KeyOrder(node) = IF node.kind = "array" THEN Indices ELSE SortedKeys
  BY DEF KeyOrder
<1>3. \A i \in 1 .. Len(KeyOrder(node)) : KeyOrder(node)[i] \in Characters
  BY OrderTyped
<1>4. ASSUME NEW keys \in SUBSET Range(Indices), node.kind = "array",
             node.at \in [keys -> JsValue],
             \A i \in 2 .. Len(Indices) :
                 Indices[i] \in DOMAIN node.at => Indices[i - 1] \in DOMAIN node.at
      PROVE  NodeFits(node)
  <2>1. \A k \in DOMAIN node.at :
            node.at[k] \in JsValue /\ \E i \in 1 .. Len(Indices) : k = Indices[i]
    BY <1>4, JsonAssumption, RangeEquality
  <2> QED  BY <1>2, <1>3, <1>4, <2>1 DEF NodeFits
<1>5. ASSUME NEW keys \in SUBSET Range(SortedKeys), node.kind = "object",
             node.at \in [keys -> JsValue]
      PROVE  NodeFits(node)
  <2>1. \A k \in DOMAIN node.at :
            node.at[k] \in JsValue /\ \E i \in 1 .. Len(SortedKeys) : k = SortedKeys[i]
    BY <1>5, JsonAssumption, RangeEquality
  <2> QED  BY <1>2, <1>3, <1>5, <2>1 DEF NodeFits
<1>6. node = Exotic
      \/ (\E keys \in SUBSET Range(Indices) :
             /\ node.kind = "array" /\ node.at \in [keys -> JsValue]
             /\ \A i \in 2 .. Len(Indices) :
                 Indices[i] \in DOMAIN node.at => Indices[i - 1] \in DOMAIN node.at)
      \/ (\E keys \in SUBSET Range(SortedKeys) :
             node.kind = "object" /\ node.at \in [keys -> JsValue])
  BY DEF Node
<1> QED
  BY <1>1, <1>4, <1>5, <1>6

-----------------------------------------------------------------------------
\* Recursive definitions, step by step.

\* Induction up to a bound.
LEMMA UpTo ==
    ASSUME NEW m \in Nat, NEW T, 0 \in T,
           \A i \in 0 .. m - 1 : i \in T => i + 1 \in T
    PROVE  0 .. m \subseteq T
<1> DEFINE R == {n \in Nat : n <= m => n \in T}
<1>1. 0 \in R
  OBVIOUS
<1>2. \A n \in R : n + 1 \in R
  OBVIOUS
<1>3. R \in SUBSET Nat
  OBVIOUS
<1>4. R = Nat
  <2> HIDE DEF R
  <2> QED  BY <1>1, <1>2, <1>3, Induct
<1> QED
  BY <1>4

\* f takes the steps of step, from first on.
Steps(f, n, first, step) ==
    f = [i \in 0 .. n |-> IF i = 0 THEN first ELSE step[<<i, f[i - 1]>>]]

\* One more step can be taken.
LEMMA StepsGoOn ==
    ASSUME NEW n \in Nat, NEW first, NEW step, NEW f, Steps(f, n, first, step)
    PROVE  \E g : Steps(g, n + 1, first, step)
<1> DEFINE g == [i \in 0 .. n + 1 |->
                    IF i = n + 1 THEN step[<<n + 1, f[n]>>] ELSE f[i]]
<1>1. \A i \in 0 .. n : f[i] = IF i = 0 THEN first ELSE step[<<i, f[i - 1]>>]
  BY DEF Steps
<1>2. ASSUME NEW i \in 0 .. n + 1
      PROVE  g[i] = IF i = 0 THEN first ELSE step[<<i, g[i - 1]>>]
  <2>1. CASE i = n + 1
    <3>1. g[i] = step[<<n + 1, f[n]>>]
      BY <2>1
    <3>2. g[i - 1] = f[n] /\ i # 0
      BY <2>1
    <3> QED  BY <2>1, <3>1, <3>2
  <2>2. CASE i \in 1 .. n
    <3>1. g[i] = f[i] /\ g[i - 1] = f[i - 1] /\ i # 0 /\ i \in 0 .. n
      BY <2>2
    <3> HIDE DEF g
    <3> QED  BY <1>1, <3>1
  <2>3. CASE i = 0
    <3>1. 0 \in 0 .. n /\ g[0] = f[0]
      OBVIOUS
    <3> HIDE DEF g
    <3> QED  BY <1>1, <2>3, <3>1
  <2> QED  BY <2>1, <2>2, <2>3
<1>3. Steps(g, n + 1, first, step)
  BY <1>2 DEF Steps
<1> QED  BY <1>3

\* A recursive function by steps exists up to every bound.
LEMMA StepsExist ==
    ASSUME NEW m \in Nat, NEW X, NEW first \in X, NEW step \in [(1 .. m) \X X -> X]
    PROVE  \E f \in [0 .. m -> X] : Steps(f, m, first, step)
<1> DEFINE T == {n \in Nat : \E f : Steps(f, n, first, step)}
<1>1. 0 \in T
  <2>1. Steps([i \in 0 .. 0 |-> first], 0, first, step)
    BY DEF Steps
  <2> QED  BY <2>1
<1>2. \A n \in T : n + 1 \in T
  BY StepsGoOn
<1>3. T = Nat
  <2>1. T \in SUBSET Nat
    OBVIOUS
  <2> HIDE DEF T
  <2> QED  BY <1>1, <1>2, <2>1, Induct
<1>4. PICK f : Steps(f, m, first, step)
  BY <1>3
<1>5. \A i \in 0 .. m : f[i] = IF i = 0 THEN first ELSE step[<<i, f[i - 1]>>]
  BY <1>4 DEF Steps
<1>6. 0 .. m \subseteq {i \in 0 .. m : f[i] \in X}
  <2> DEFINE U == {i \in 0 .. m : f[i] \in X}
  <2>1. 0 \in U
    <3>1. 0 \in 0 .. m
      OBVIOUS
    <3> QED  BY <1>5, <3>1
  <2>2. ASSUME NEW i \in 0 .. m - 1, i \in U PROVE i + 1 \in U
    <3>1. i + 1 \in 1 .. m /\ i + 1 \in 0 .. m /\ i + 1 # 0 /\ (i + 1) - 1 = i
      OBVIOUS
    <3>2. f[i + 1] = step[<<i + 1, f[i]>>]
      BY <1>5, <3>1
    <3>3. <<i + 1, f[i]>> \in (1 .. m) \X X
      BY <2>2, <3>1
    <3> QED  BY <3>1, <3>2, <3>3
  <2> HIDE DEF U
  <2> QED  BY <2>1, <2>2, UpTo DEF U
<1>7. f \in [0 .. m -> X]
  BY <1>4, <1>6 DEF Steps
<1> QED
  BY <1>4, <1>7

-----------------------------------------------------------------------------
\* The serializer, typed.

Result == Serialization \cup {None}
Calls == JsValue \X SUBSET Nodes
Insides == [Calls -> Result]

Comma(items) == IF items = <<>> THEN <<>> ELSE <<",">>
Label(node, key) ==
    IF node.kind = "array" THEN <<>> ELSE Quoted(<<key>>) \o <<":">>

\* Every punctuation mark is a text.
LEMMA PunctuationTyped == \A c \in Punctuation : <<c>> \in Text /\ <<c>> # <<>>
BY JsonAssumption, OneTyped

\* What is quoted is a text.
LEMMA QuotedTyped == \A chars \in Text : Quoted(chars) \in Text
BY PunctuationTyped, CatTyped DEF Quoted, Punctuation

\* Commas and labels are texts.
LEMMA PartsTyped ==
    ASSUME NEW node, NEW items \in Text, NEW key \in Characters
    PROVE  Comma(items) \in Text /\ Label(node, key) \in Text
<1>1. <<>> \in Text
  BY EmptySeq DEF Text
<1> QED
  BY <1>1, OneTyped, PunctuationTyped, QuotedTyped, CatTyped
     DEF Comma, Label, Punctuation

\* Items joined are a text, put together from these parts.
LEMMA JoinedTyped ==
    ASSUME NEW node, NEW items \in Text, NEW key \in Characters, NEW item \in Text
    PROVE  /\ Joined(node, items, key, item) =
                  ((items \o Comma(items)) \o Label(node, key)) \o item
           /\ Joined(node, items, key, item) \in Text
<1>1. Joined(node, items, key, item) =
          ((items \o Comma(items)) \o Label(node, key)) \o item
  BY DEF Joined, Comma, Label
<1> QED
  BY <1>1, PartsTyped, CatTyped

\* Items in brackets are a text.
LEMMA BracketedTyped ==
    ASSUME NEW node, NEW items \in Text
    PROVE  Bracketed(node, items) \in Text
BY PunctuationTyped, CatTyped DEF Bracketed, Punctuation

\* With one more item, items are a serialization or refused.
LEMMA WithItemTyped ==
    ASSUME NEW node, NodeFits(node), NEW inside \in Insides, NEW state \in Result,
           NEW key \in DOMAIN node.at
    PROVE  /\ WithItem(node, inside, state, key) \in Result
           /\ state # None => <<node.at[key], state.seen>> \in Calls
<1>1. node.at[key] \in JsValue /\ key \in Characters
  BY DEF NodeFits
<1>2. CASE state = None
  BY <1>2 DEF WithItem, Result
<1>3. CASE state # None
  <2>1. state.text \in Text /\ state.seen \in SUBSET Nodes
    BY <1>3 DEF Result, Serialization, Text
  <2>2. <<node.at[key], state.seen>> \in Calls
    BY <1>1, <2>1 DEF Calls
  <2> DEFINE item == inside[<<node.at[key], state.seen>>]
  <2>3. item \in Result
    BY <2>2 DEF Insides
  <2>4. CASE item = None
    BY <1>3, <2>2, <2>4 DEF WithItem, Result
  <2>5. CASE item # None
    <3>1. item.text \in Text /\ item.seen \in SUBSET Nodes
      BY <2>3, <2>5 DEF Result, Serialization, Text
    <3>2. Joined(node, state.text, key, item.text) \in Text
      BY <1>1, <2>1, <3>1, JoinedTyped
    <3>3. WithItem(node, inside, state, key) =
              [text |-> Joined(node, state.text, key, item.text), seen |-> item.seen]
      BY <1>3, <2>5 DEF WithItem
    <3>4. WithItem(node, inside, state, key) \in Serialization
      BY <3>1, <3>2, <3>3 DEF Serialization, Text
    <3> QED  BY <2>2, <3>4 DEF Result
  <2> QED  BY <2>4, <2>5
<1> QED  BY <1>2, <1>3

\* Nothing is serialized yet.
NoItems(seen) == [text |-> <<>>, seen |-> seen]

\* One more key is visited, the i-th.
NextItems(node, inside, state, i) ==
    IF KeyOrder(node)[i] \in DOMAIN node.at
    THEN WithItem(node, inside, state, KeyOrder(node)[i]) ELSE state

\* So they are whichever key is visited.
LEMMA NextItemsTyped ==
    ASSUME NEW node, NodeFits(node), NEW inside \in Insides, NEW state \in Result,
           NEW i
    PROVE  NextItems(node, inside, state, i) \in Result
BY WithItemTyped DEF NextItems

\* Items are serialized key by key.
LEMMA ItemsStepwise ==
    ASSUME NEW node, NodeFits(node), NEW inside \in Insides,
           NEW seen \in SUBSET Nodes
    PROVE  LET items == Items(node, inside, seen) IN
           /\ items[0] = NoItems(seen)
           /\ \A i \in 1 .. Len(KeyOrder(node)) :
                  items[i] = NextItems(node, inside, items[i - 1], i)
           /\ \A i \in 0 .. Len(KeyOrder(node)) : items[i] \in Result
<1> DEFINE L == Len(KeyOrder(node))
           items == Items(node, inside, seen)
           step == [p \in (1 .. L) \X Result |-> NextItems(node, inside, p[2], p[1])]
<1>1. L \in Nat
  BY OrderTyped
<1>2. NoItems(seen) \in Result
  BY EmptySeq DEF NoItems, Result, Serialization
<1>3. step \in [(1 .. L) \X Result -> Result]
  BY NextItemsTyped
<1>4. PICK f \in [0 .. L -> Result] : Steps(f, L, NoItems(seen), step)
  <2> HIDE DEF step
  <2> QED  BY <1>1, <1>2, <1>3, StepsExist
<1>5. ASSUME NEW i \in 0 .. L, i # 0
      PROVE  step[<<i, f[i - 1]>>] = NextItems(node, inside, f[i - 1], i)
  <2>1. <<i, f[i - 1]>> \in (1 .. L) \X Result
    BY <1>1, <1>4, <1>5
  <2> QED  BY <2>1
<1>6. f = [i \in 0 .. L |-> IF i = 0 THEN NoItems(seen)
                            ELSE NextItems(node, inside, f[i - 1], i)]
  <2> HIDE DEF step
  <2>1. f = [i \in 0 .. L |-> IF i = 0 THEN NoItems(seen) ELSE step[<<i, f[i - 1]>>]]
    BY <1>4 DEF Steps
  <2> QED  BY <1>5, <2>1
<1>7. items = [i \in 0 .. L |-> IF i = 0 THEN NoItems(seen)
                                ELSE NextItems(node, inside, items[i - 1], i)]
  BY <1>6 DEF Items, NoItems, NextItems
<1> HIDE DEF items
<1>8. items[0] = NoItems(seen)
  BY <1>1, <1>7
<1>9. \A i \in 1 .. L : items[i] = NextItems(node, inside, items[i - 1], i)
  BY <1>1, <1>7
<1>10. 0 .. L \subseteq {i \in 0 .. L : items[i] \in Result}
  <2> DEFINE T == {i \in 0 .. L : items[i] \in Result}
  <2>1. 0 \in T
    BY <1>1, <1>2, <1>8
  <2>2. ASSUME NEW i \in 0 .. L - 1, i \in T PROVE i + 1 \in T
    <3>1. i + 1 \in 1 .. L /\ i + 1 \in 0 .. L /\ (i + 1) - 1 = i
      BY <1>1
    <3>2. items[i + 1] = NextItems(node, inside, items[i], i + 1)
      BY <1>9, <3>1
    <3> QED  BY <2>2, <3>1, <3>2, NextItemsTyped
  <2> HIDE DEF T
  <2> QED  BY <1>1, <2>1, <2>2, UpTo DEF T
<1> QED
  BY <1>8, <1>9, <1>10 DEF items

\* How what stands in a node is serialized, n nodes deep.
Inside(heap, n) == IF n = 0 THEN Nothing ELSE Serializers(heap)[n - 1]

\* A value is serialized to a text, or refused.
LEMMA SerializeTyped ==
    ASSUME NEW heap \in Heap, NEW inside \in Insides, NEW v \in JsValue,
           NEW seen \in SUBSET Nodes
    PROVE  Serialize(heap, inside, v, seen) \in Result
<1>1. CASE v.type = "reference"
  <2>1. v.chars \in Nodes
    BY <1>1, ValueKinds
  <2> DEFINE node == heap[v.chars]
             state == Items(node, inside, seen \cup {v.chars})[Len(KeyOrder(node))]
  <2>2. state \in Result
    <3>1. seen \cup {v.chars} \in SUBSET Nodes
      BY <2>1
    <3>2. NodeFits(node) /\ Len(KeyOrder(node)) \in 0 .. Len(KeyOrder(node))
      BY <2>1, NodeTyped, OrderTyped
    <3> HIDE DEF node
    <3> QED  BY <3>1, <3>2, ItemsStepwise
  <2>3. state # None => [text |-> Bracketed(node, state.text), seen |-> state.seen] \in Result
    <3> HIDE DEF state
    <3> SUFFICES ASSUME state # None
                 PROVE  [text |-> Bracketed(node, state.text), seen |-> state.seen] \in Result
      OBVIOUS
    <3>1. state.text \in Text /\ state.seen \in SUBSET Nodes
      BY <2>2 DEF Result, Serialization, Text
    <3>2. Bracketed(node, state.text) \in Text
      BY <3>1, BracketedTyped
    <3> QED  BY <3>1, <3>2 DEF Result, Serialization, Text
  <2>4. Serialize(heap, inside, v, seen) = SerializeNode(heap, inside, v.chars, seen)
    BY <1>1 DEF Serialize
  <2>5. None \in Result
    BY DEF Result
  <2> QED  BY <2>3, <2>4, <2>5 DEF SerializeNode
<1>2. CASE v.type = "unsupported"
  BY <1>2 DEF Serialize, Result
<1>3. CASE v.type = "string"
  <2>1. Quoted(v.chars) \in Text
    BY <1>3, ValueKinds, QuotedTyped
  <2> QED  BY <1>3, <2>1 DEF Serialize, Result, Serialization, Text
<1>4. CASE v.type = "number"
  <2>1. v.chars \in Text
    BY <1>4, ValueKinds
  <2> QED  BY <1>4, <2>1 DEF Serialize, Result, Serialization, Text
<1> QED
  BY <1>1, <1>2, <1>3, <1>4, ValueKinds

\* One node deeper.
Deeper(heap, inside) ==
    [call \in Calls |-> Serialize(heap, inside, call[1], call[2])]

\* Serializers that go one node deeper are serializers.
LEMMA DeeperTyped ==
    ASSUME NEW heap \in Heap, NEW inside \in Insides
    PROVE  Deeper(heap, inside) \in Insides
<1>1. ASSUME NEW call \in Calls
      PROVE  Serialize(heap, inside, call[1], call[2]) \in Result
  BY SerializeTyped DEF Calls
<1> QED
  BY <1>1 DEF Deeper, Insides

\* Serializers are defined for every depth, each by the one before.
LEMMA SerializersStepwise ==
    ASSUME NEW heap \in Heap, NEW n \in 0 .. Cardinality(Nodes)
    PROVE  /\ Inside(heap, n) \in Insides
           /\ Serializers(heap)[n] = Deeper(heap, Inside(heap, n))
<1> DEFINE N == Cardinality(Nodes)
           within == Serializers(heap)
           first == Deeper(heap, Nothing)
           step == [p \in (1 .. N) \X Insides |-> Deeper(heap, p[2])]
<1>1. N \in Nat
  BY NodeCount
<1>2. Nothing \in Insides /\ first \in Insides
  <2>1. Nothing \in Insides
    BY DEF Nothing, Insides, Calls, Result
  <2> QED  BY <2>1, DeeperTyped
<1>3. step \in [(1 .. N) \X Insides -> Insides]
  BY DeeperTyped
<1>4. PICK f \in [0 .. N -> Insides] : Steps(f, N, first, step)
  <2> HIDE DEF step, first
  <2> QED  BY <1>1, <1>2, <1>3, StepsExist
<1>5. ASSUME NEW i \in 0 .. N, i # 0
      PROVE  step[<<i, f[i - 1]>>] = Deeper(heap, f[i - 1])
  <2>1. <<i, f[i - 1]>> \in (1 .. N) \X Insides
    BY <1>1, <1>4, <1>5
  <2> QED  BY <2>1
<1>6. f = [i \in 0 .. N |-> Deeper(heap, IF i = 0 THEN Nothing ELSE f[i - 1])]
  <2> HIDE DEF step
  <2>1. f = [i \in 0 .. N |-> IF i = 0 THEN first ELSE step[<<i, f[i - 1]>>]]
    BY <1>4 DEF Steps
  <2>2. ASSUME NEW i \in 0 .. N
        PROVE  f[i] = Deeper(heap, IF i = 0 THEN Nothing ELSE f[i - 1])
    BY <1>5, <2>1
  <2> QED  BY <2>1, <2>2
<1>7. within = [i \in 0 .. N |-> Deeper(heap, IF i = 0 THEN Nothing ELSE within[i - 1])]
  BY <1>6 DEF Serializers, Deeper, Calls
<1> HIDE DEF within
<1>8. \A i \in 0 .. N : within[i] = Deeper(heap, IF i = 0 THEN Nothing ELSE within[i - 1])
  BY <1>7
<1>9. 0 .. N \subseteq {i \in 0 .. N : within[i] \in Insides}
  <2> DEFINE T == {i \in 0 .. N : within[i] \in Insides}
  <2>1. 0 \in T
    <3>1. 0 \in 0 .. N
      BY <1>1
    <3>2. within[0] = first
      BY <1>8, <3>1
    <3> QED  BY <1>2, <3>1, <3>2
  <2>2. ASSUME NEW i \in 0 .. N - 1, i \in T PROVE i + 1 \in T
    <3>1. i + 1 \in 0 .. N /\ i + 1 # 0 /\ (i + 1) - 1 = i
      BY <1>1
    <3>2. within[i + 1] = Deeper(heap, within[i])
      BY <1>8, <3>1
    <3> QED  BY <2>2, <3>1, <3>2, DeeperTyped
  <2> HIDE DEF T
  <2> QED  BY <1>1, <2>1, <2>2, UpTo DEF T
<1>10. Inside(heap, n) \in Insides
  <2>1. CASE n = 0
    BY <1>2, <2>1 DEF Inside
  <2>2. CASE n # 0
    <3>1. n - 1 \in 0 .. N
      BY <1>1, <2>2
    <3> QED  BY <1>9, <2>2, <3>1 DEF Inside, within
  <2> QED  BY <2>1, <2>2
<1>11. within[n] = Deeper(heap, Inside(heap, n))
  BY <1>8 DEF Inside, within
<1> QED
  BY <1>10, <1>11 DEF within

-----------------------------------------------------------------------------
\* Places, step by step.

PlaceSets == SUBSET [path : Text, value : JsValue]
PlaceMaps == [JsValue -> PlaceSets]
NoPlaces == [v \in JsValue |-> {}]

\* The places in the item k of a node, as seen from the node.
PlacesUnder(heap, inside, v, k) ==
    {Place(<<k>> \o p.path, p.value) : p \in inside[heap[v.chars].at[k]]}

Farther(heap, inside) == [v \in JsValue |-> PlacesOf(heap, inside, v)]

\* The places in what stands in a node, n - 1 steps from there or less.
PlacesInside(heap, n) == IF n = 0 THEN NoPlaces ELSE Places(heap)[n - 1]

\* The places of a node are its own, and those under its keys.
LEMMA PlacesOfAre ==
    ASSUME NEW heap \in Heap, NEW inside \in PlaceMaps, NEW v \in JsValue
    PROVE  /\ PlacesOf(heap, inside, v) \in PlaceSets
           /\ v.type = "reference" =>
                  PlacesOf(heap, inside, v) =
                      {Place(<<>>, v)} \cup
                      UNION {PlacesUnder(heap, inside, v, k) :
                                 k \in DOMAIN heap[v.chars].at}
           /\ v.type # "reference" => PlacesOf(heap, inside, v) = {Place(<<>>, v)}
<1>1. <<>> \in Text
  BY EmptySeq DEF Text
<1>2. Place(<<>>, v) \in [path : Text, value : JsValue]
  BY <1>1 DEF Place
<1>3. CASE v.type # "reference"
  BY <1>2, <1>3 DEF PlacesOf, PlaceSets
<1>4. CASE v.type = "reference"
  <2>1. NodeFits(heap[v.chars])
    BY <1>4, ValueKinds, NodeTyped
  <2>2. ASSUME NEW k \in DOMAIN heap[v.chars].at,
               NEW p \in inside[heap[v.chars].at[k]]
        PROVE  Place(<<k>> \o p.path, p.value) \in [path : Text, value : JsValue]
    <3>1. k \in Characters /\ heap[v.chars].at[k] \in JsValue
      BY <2>1 DEF NodeFits
    <3>2. p \in [path : Text, value : JsValue]
      BY <3>1 DEF PlaceMaps, PlaceSets
    <3>3. <<k>> \o p.path \in Text
      BY <3>1, <3>2, OneTyped, CatTyped
    <3> QED  BY <3>2, <3>3 DEF Place
  <2>3. PlacesOf(heap, inside, v) =
            {Place(<<>>, v)} \cup
            UNION {PlacesUnder(heap, inside, v, k) : k \in DOMAIN heap[v.chars].at}
    BY <1>4 DEF PlacesOf, PlacesUnder
  <2>4. \A k \in DOMAIN heap[v.chars].at :
            PlacesUnder(heap, inside, v, k) \subseteq [path : Text, value : JsValue]
    BY <2>2 DEF PlacesUnder
  <2> QED  BY <1>2, <1>4, <2>3, <2>4 DEF PlaceSets
<1> QED
  BY <1>3, <1>4

\* Places one step farther are places.
LEMMA FartherTyped ==
    ASSUME NEW heap \in Heap, NEW inside \in PlaceMaps
    PROVE  Farther(heap, inside) \in PlaceMaps
<1>1. ASSUME NEW v \in JsValue PROVE PlacesOf(heap, inside, v) \in PlaceSets
  BY PlacesOfAre
<1> QED
  BY <1>1 DEF Farther, PlaceMaps

\* Places are defined for every distance, each by the one before.
LEMMA PlacesStepwise ==
    ASSUME NEW heap \in Heap, NEW n \in 0 .. Cardinality(Nodes)
    PROVE  /\ PlacesInside(heap, n) \in PlaceMaps
           /\ Places(heap)[n] = Farther(heap, PlacesInside(heap, n))
           /\ Places(heap)[n] \in PlaceMaps
<1> DEFINE N == Cardinality(Nodes)
           within == Places(heap)
           first == Farther(heap, NoPlaces)
           step == [p \in (1 .. N) \X PlaceMaps |-> Farther(heap, p[2])]
<1>1. N \in Nat
  BY NodeCount
<1>2. NoPlaces \in PlaceMaps /\ first \in PlaceMaps
  <2>1. NoPlaces \in PlaceMaps
    BY DEF NoPlaces, PlaceMaps, PlaceSets
  <2> QED  BY <2>1, FartherTyped
<1>3. step \in [(1 .. N) \X PlaceMaps -> PlaceMaps]
  BY FartherTyped
<1>4. PICK f \in [0 .. N -> PlaceMaps] : Steps(f, N, first, step)
  <2> HIDE DEF step, first
  <2> QED  BY <1>1, <1>2, <1>3, StepsExist
<1>5. ASSUME NEW i \in 0 .. N, i # 0
      PROVE  step[<<i, f[i - 1]>>] = Farther(heap, f[i - 1])
  <2>1. <<i, f[i - 1]>> \in (1 .. N) \X PlaceMaps
    BY <1>1, <1>4, <1>5
  <2> QED  BY <2>1
<1>6. f = [i \in 0 .. N |-> Farther(heap, IF i = 0 THEN NoPlaces ELSE f[i - 1])]
  <2> HIDE DEF step
  <2>1. f = [i \in 0 .. N |-> IF i = 0 THEN first ELSE step[<<i, f[i - 1]>>]]
    BY <1>4 DEF Steps
  <2>2. ASSUME NEW i \in 0 .. N
        PROVE  f[i] = Farther(heap, IF i = 0 THEN NoPlaces ELSE f[i - 1])
    BY <1>5, <2>1
  <2> QED  BY <2>1, <2>2
<1>7. within = [i \in 0 .. N |-> Farther(heap, IF i = 0 THEN NoPlaces ELSE within[i - 1])]
  BY <1>6 DEF Places, Farther, NoPlaces
<1> HIDE DEF within
<1>8. \A i \in 0 .. N :
          within[i] = Farther(heap, IF i = 0 THEN NoPlaces ELSE within[i - 1])
  BY <1>7
<1>9. 0 .. N \subseteq {i \in 0 .. N : within[i] \in PlaceMaps}
  <2> DEFINE T == {i \in 0 .. N : within[i] \in PlaceMaps}
  <2>1. 0 \in T
    <3>1. 0 \in 0 .. N
      BY <1>1
    <3>2. within[0] = first
      BY <1>8, <3>1
    <3> QED  BY <1>2, <3>1, <3>2
  <2>2. ASSUME NEW i \in 0 .. N - 1, i \in T PROVE i + 1 \in T
    <3>1. i + 1 \in 0 .. N /\ i + 1 # 0 /\ (i + 1) - 1 = i
      BY <1>1
    <3>2. within[i + 1] = Farther(heap, within[i])
      BY <1>8, <3>1
    <3> QED  BY <2>2, <3>1, <3>2, FartherTyped
  <2> HIDE DEF T
  <2> QED  BY <1>1, <2>1, <2>2, UpTo DEF T
<1>10. PlacesInside(heap, n) \in PlaceMaps
  <2>1. CASE n = 0
    BY <1>2, <2>1 DEF PlacesInside
  <2>2. CASE n # 0
    <3>1. n - 1 \in 0 .. N
      BY <1>1, <2>2
    <3> QED  BY <1>9, <2>2, <3>1 DEF PlacesInside, within
  <2> QED  BY <2>1, <2>2
<1>11. within[n] = Farther(heap, PlacesInside(heap, n))
  BY <1>8 DEF PlacesInside, within
<1> QED
  BY <1>9, <1>10, <1>11 DEF within

-----------------------------------------------------------------------------
\* What the serializer accepts.

\* Places that JSON could carry, with nodes that were not seen before.
CleanPlaces(heap, P, seen) ==
    \A here \in P :
        /\ here.value.type # "unsupported"
        /\ here.value.type = "reference" =>
               /\ heap[here.value.chars].kind # "exotic"
               /\ here.value.chars \notin seen
               /\ \A there \in P : there.value = here.value => there = here

NodesIn(P) == {m \in Nodes : \E p \in P : p.value = Ref(m)}

\* To have seen more is to refuse what stands among it.
LEMMA CleanMore ==
    ASSUME NEW heap, NEW P \in PlaceSets, NEW seen, NEW more
    PROVE  CleanPlaces(heap, P, seen \cup more)
               <=> CleanPlaces(heap, P, seen) /\ NodesIn(P) \cap more = {}
<1>1. ASSUME NEW here \in P, here.value.type = "reference"
      PROVE  here.value.chars \in Nodes /\ here.value = Ref(here.value.chars)
  <2>1. here.value \in JsValue
    BY DEF PlaceSets
  <2> QED  BY <1>1, <2>1, ValueKinds
<1>2. \A m : Ref(m).type = "reference" /\ Ref(m).chars = m
  BY DEF Ref
<1>3. ASSUME CleanPlaces(heap, P, seen \cup more)
      PROVE  CleanPlaces(heap, P, seen) /\ NodesIn(P) \cap more = {}
  <2>1. CleanPlaces(heap, P, seen)
    BY <1>3 DEF CleanPlaces
  <2>2. ASSUME NEW m \in NodesIn(P) PROVE m \notin more
    <3>1. PICK p \in P : p.value = Ref(m)
      BY DEF NodesIn
    <3> QED  BY <1>2, <1>3, <3>1 DEF CleanPlaces
  <2> QED  BY <2>1, <2>2
<1>4. ASSUME CleanPlaces(heap, P, seen), NodesIn(P) \cap more = {}
      PROVE  CleanPlaces(heap, P, seen \cup more)
  <2>1. ASSUME NEW here \in P, here.value.type = "reference"
        PROVE  here.value.chars \notin more
    <3>1. here.value.chars \in NodesIn(P)
      BY <1>1, <2>1 DEF NodesIn
    <3> QED  BY <1>4, <3>1
  <2> QED  BY <1>4, <2>1 DEF CleanPlaces
<1> QED
  BY <1>3, <1>4

\* The keys visited in the first i steps.
Visited(node, i) ==
    {k \in DOMAIN node.at : \E j \in 1 .. i : k = KeyOrder(node)[j]}

\* A key that the node has is new when it is visited.
LEMMA VisitedGrows ==
    ASSUME NEW node, NEW i \in 0 .. Len(KeyOrder(node)) - 1
    PROVE  LET k == KeyOrder(node)[i + 1] IN
           /\ k \notin Visited(node, i)
           /\ k \in DOMAIN node.at => Visited(node, i + 1) = Visited(node, i) \cup {k}
           /\ k \notin DOMAIN node.at => Visited(node, i + 1) = Visited(node, i)
<1> DEFINE k == KeyOrder(node)[i + 1]
<1>1. /\ Len(KeyOrder(node)) \in Nat
      /\ \A l, j \in 1 .. Len(KeyOrder(node)) :
             KeyOrder(node)[l] = KeyOrder(node)[j] => l = j
  BY OrderTyped
<1>2. \A j \in 1 .. i : j \in 1 .. Len(KeyOrder(node)) /\ j # i + 1
  BY <1>1
<1>3. i + 1 \in 1 .. Len(KeyOrder(node))
  BY <1>1
<1>4. k \notin Visited(node, i)
  BY <1>1, <1>2, <1>3 DEF Visited
<1>5. 1 .. i + 1 = (1 .. i) \cup {i + 1}
  BY <1>1
<1>6. \A l \in DOMAIN node.at :
          l \in Visited(node, i + 1) <=> l \in Visited(node, i) \/ l = k
  BY <1>5 DEF Visited
<1> QED
  BY <1>4, <1>6 DEF Visited

\* In the end, the keys visited are those that the node has.
LEMMA VisitedEnds ==
    ASSUME NEW node, NodeFits(node)
    PROVE  /\ Visited(node, 0) = {}
           /\ node.kind # "exotic" =>
                  Visited(node, Len(KeyOrder(node))) = DOMAIN node.at
BY DEF Visited, NodeFits

\* A serializer, and the places it goes to, n nodes deep: it accepts what JSON
\* carries and sees the nodes that are there. There are few enough unseen.
Accepts(heap, serialize, places, n) ==
    \A v \in JsValue, seen \in SUBSET Nodes :
        Cardinality(Nodes \ seen) <= n =>
            LET r == serialize[<<v, seen>>] IN
            /\ r # None <=> CleanPlaces(heap, places[v], seen)
            /\ r # None => r.seen = seen \cup NodesIn(places[v])

CleanUpTo(heap, node, below, seen, i) ==
    /\ \A k \in Visited(node, i) : CleanPlaces(heap, below[node.at[k]], seen)
    /\ \A k, l \in Visited(node, i) :
           k # l => NodesIn(below[node.at[k]]) \cap NodesIn(below[node.at[l]]) = {}

NodesUpTo(node, below, i) ==
    UNION {NodesIn(below[node.at[k]]) : k \in Visited(node, i)}

\* To see more leaves no more unseen.
LEMMA FewerUnseen ==
    ASSUME NEW seen, NEW more, NEW n \in Int, Cardinality(Nodes \ seen) <= n
    PROVE  Cardinality(Nodes \ (seen \cup more)) <= n
<1>1. IsFiniteSet(Nodes \ seen)
  BY JsonAssumption, FS_Subset
<1>2. Nodes \ (seen \cup more) \in SUBSET (Nodes \ seen)
  OBVIOUS
<1>3. Cardinality(Nodes \ seen) \in Nat
  BY <1>1, FS_CardinalityType
<1>4. /\ Cardinality(Nodes \ (seen \cup more)) \in Nat
      /\ Cardinality(Nodes \ (seen \cup more)) <= Cardinality(Nodes \ seen)
  BY <1>1, <1>2, FS_Subset, FS_CardinalityType
<1> QED
  BY <1>3, <1>4

\* The items of a node are accepted as long as they are clean and meet nowhere.
LEMMA ItemsAccepted ==
    ASSUME NEW heap \in Heap, NEW node, NodeFits(node), NEW inside \in Insides,
           NEW below \in PlaceMaps, NEW n \in Int, Accepts(heap, inside, below, n),
           NEW seen \in SUBSET Nodes, Cardinality(Nodes \ seen) <= n,
           NEW i \in 0 .. Len(KeyOrder(node))
    PROVE  LET state == Items(node, inside, seen)[i] IN
           /\ state # None <=> CleanUpTo(heap, node, below, seen, i)
           /\ state # None => state.seen = seen \cup NodesUpTo(node, below, i)
<1> DEFINE items == Items(node, inside, seen)
           L == Len(KeyOrder(node))
           Good(j) == /\ items[j] # None <=> CleanUpTo(heap, node, below, seen, j)
                      /\ items[j] # None =>
                             items[j].seen = seen \cup NodesUpTo(node, below, j)
           T == {j \in 0 .. L : Good(j)}
<1>1. /\ L \in Nat
      /\ items[0] = NoItems(seen)
      /\ \A j \in 1 .. L : items[j] = NextItems(node, inside, items[j - 1], j)
      /\ \A j \in 0 .. L : items[j] \in Result
  BY OrderTyped, ItemsStepwise
<1>2. 0 \in T
  <2>1. Visited(node, 0) = {}
    BY VisitedEnds
  <2>2. NoItems(seen) # None
    <3>1. <<>> \in Seq(Characters)
      BY EmptySeq
    <3>2. NoItems(seen) \in Serialization
      BY <3>1 DEF NoItems, Serialization
    <3> QED  BY <3>2, JsonAssumption
  <2>3. Good(0)
    BY <1>1, <2>1, <2>2 DEF CleanUpTo, NodesUpTo, NoItems
  <2> QED  BY <1>1, <2>3
<1>3. ASSUME NEW j \in 0 .. L - 1, j \in T PROVE j + 1 \in T
  <2> DEFINE k == KeyOrder(node)[j + 1]
             state == items[j]
  <2>1. j + 1 \in 1 .. L /\ j \in 0 .. L /\ (j + 1) - 1 = j /\ j + 1 \in 0 .. L
    BY <1>1
  <2>2. items[j + 1] = NextItems(node, inside, state, j + 1) /\ state \in Result
    BY <1>1, <2>1
  <2>3. Good(j)
    BY <1>3
  <2>4. /\ k \notin Visited(node, j)
        /\ k \in DOMAIN node.at => Visited(node, j + 1) = Visited(node, j) \cup {k}
        /\ k \notin DOMAIN node.at => Visited(node, j + 1) = Visited(node, j)
    BY VisitedGrows
  <2> HIDE DEF items, L, T
  <2>5. CASE k \notin DOMAIN node.at
    <3>1. items[j + 1] = state
      BY <2>2, <2>5 DEF NextItems
    <3>2. Good(j + 1)
      BY <2>3, <2>4, <2>5, <3>1 DEF CleanUpTo, NodesUpTo
    <3> QED  BY <2>1, <3>2 DEF T
  <2>6. CASE k \in DOMAIN node.at
    <3> DEFINE P == below[node.at[k]]
               U == NodesUpTo(node, below, j)
    <3>1. node.at[k] \in JsValue /\ P \in PlaceSets
      BY <2>6 DEF NodeFits, PlaceMaps
    <3>2. items[j + 1] = WithItem(node, inside, state, k)
      BY <2>2, <2>6 DEF NextItems
    <3>3. CleanUpTo(heap, node, below, seen, j + 1)
              <=> /\ CleanUpTo(heap, node, below, seen, j)
                  /\ CleanPlaces(heap, P, seen)
                  /\ NodesIn(P) \cap U = {}
      <4>1. \A m : m \in U <=> \E l \in Visited(node, j) : m \in NodesIn(below[node.at[l]])
        BY DEF NodesUpTo
      <4>2. NodesIn(P) \cap U = {} <=>
                \A l \in Visited(node, j) : NodesIn(P) \cap NodesIn(below[node.at[l]]) = {}
        <5> HIDE DEF U, P
        <5> QED  BY <4>1
      <4>3. Visited(node, j + 1) = Visited(node, j) \cup {k}
        BY <2>4, <2>6
      <4> HIDE DEF U
      <4> QED  BY <2>4, <4>2, <4>3 DEF CleanUpTo
    <3>4. NodesUpTo(node, below, j + 1) = U \cup NodesIn(P)
      BY <2>4, <2>6 DEF NodesUpTo
    <3>5. CASE state = None
      <4>1. items[j + 1] = None
        BY <3>2, <3>5 DEF WithItem
      <4>2. ~CleanUpTo(heap, node, below, seen, j + 1)
        BY <2>3, <3>3, <3>5
      <4>3. Good(j + 1)
        BY <4>1, <4>2
      <4> QED  BY <2>1, <4>3 DEF T
    <3>6. CASE state # None
      <4> DEFINE item == inside[<<node.at[k], state.seen>>]
      <4>1. state.seen \in SUBSET Nodes /\ state.seen = seen \cup U
        BY <2>2, <2>3, <3>6 DEF Result, Serialization
      <4>2. Cardinality(Nodes \ state.seen) <= n
        <5> HIDE DEF U
        <5> QED  BY <4>1, FewerUnseen
      <4>3. /\ item # None <=> CleanPlaces(heap, P, state.seen)
            /\ item # None => item.seen = state.seen \cup NodesIn(P)
        BY <3>1, <4>1, <4>2 DEF Accepts
      <4>4. CleanPlaces(heap, P, state.seen)
                <=> CleanPlaces(heap, P, seen) /\ NodesIn(P) \cap U = {}
        <5> HIDE DEF U, P
        <5> QED  BY <3>1, <4>1, CleanMore
      <4>5. CASE item = None
        <5>1. items[j + 1] = None
          BY <3>2, <3>6, <4>5 DEF WithItem
        <5>2. ~CleanUpTo(heap, node, below, seen, j + 1)
          BY <3>3, <4>3, <4>4, <4>5
        <5>3. Good(j + 1)
          BY <5>1, <5>2
        <5> QED  BY <2>1, <5>3 DEF T
      <4>6. CASE item # None
        <5>1. items[j + 1] = [text |-> Joined(node, state.text, k, item.text),
                              seen |-> item.seen]
          BY <3>2, <3>6, <4>6 DEF WithItem
        <5>2. items[j + 1] # None
          <6>1. WithItem(node, inside, state, k) \in Result
            BY <2>2, <2>6, WithItemTyped
          <6>2. items[j + 1].text \in Text /\ items[j + 1].seen \in SUBSET Nodes
            <7>1. item \in Serialization /\ state \in Serialization
              <8>1. <<node.at[k], state.seen>> \in Calls
                BY <3>1, <4>1 DEF Calls
              <8> QED  BY <2>2, <3>6, <4>6, <8>1 DEF Insides, Result
            <7>2. item.text \in Text /\ state.text \in Text /\ item.seen \in SUBSET Nodes
              BY <7>1 DEF Serialization, Text
            <7>3. k \in Characters
              BY <2>6 DEF NodeFits
            <7> HIDE DEF item, k
            <7>4. Joined(node, state.text, k, item.text) \in Text
              BY <7>2, <7>3, JoinedTyped
            <7> QED  BY <5>1, <7>2, <7>4
          <6>3. items[j + 1] \in Serialization
            BY <5>1, <6>2 DEF Serialization, Text
          <6> QED  BY <6>3, JsonAssumption
        <5>3. items[j + 1].seen = seen \cup NodesUpTo(node, below, j + 1)
          <6>1. items[j + 1].seen = item.seen
            BY <5>1
          <6>2. item.seen = (seen \cup U) \cup NodesIn(P)
            BY <4>1, <4>3, <4>6
          <6> HIDE DEF item, U, P
          <6> QED  BY <3>4, <6>1, <6>2
        <5>4. CleanUpTo(heap, node, below, seen, j + 1)
          BY <2>3, <3>3, <3>6, <4>3, <4>4, <4>6
        <5>5. Good(j + 1)
          BY <5>2, <5>3, <5>4
        <5> QED  BY <2>1, <5>5 DEF T
      <4> QED  BY <4>5, <4>6
    <3> QED  BY <3>5, <3>6
  <2> QED  BY <2>5, <2>6
<1>4. 0 .. L \subseteq T
  <2> HIDE DEF T
  <2> QED  BY <1>1, <1>2, <1>3, UpTo
<1> QED
  BY <1>4

\* A place of an item, as seen from its node.
Under(k, p) == Place(<<k>> \o p.path, p.value)

\* Where the places of a node are, and that paths keep them apart.
LEMMA UnderNode ==
    ASSUME NEW heap \in Heap, NEW below \in PlaceMaps, NEW v \in JsValue,
           v.type = "reference"
    PROVE  LET at == heap[v.chars].at
               P == PlacesOf(heap, below, v)
           IN
           /\ Place(<<>>, v) \in P
           /\ \A k \in DOMAIN at : \A p \in below[at[k]] :
                  /\ Under(k, p) \in P /\ Under(k, p) # Place(<<>>, v)
                  /\ Under(k, p).value = p.value
           /\ \A here \in P : here = Place(<<>>, v)
                  \/ \E k \in DOMAIN at : \E p \in below[at[k]] : here = Under(k, p)
           /\ \A k, l \in DOMAIN at : \A p \in below[at[k]], q \in below[at[l]] :
                  Under(k, p) = Under(l, q) => k = l /\ p = q
<1> DEFINE at == heap[v.chars].at
           P == PlacesOf(heap, below, v)
<1>1. P = {Place(<<>>, v)} \cup
              UNION {PlacesUnder(heap, below, v, k) : k \in DOMAIN at}
  BY PlacesOfAre
<1>2. \A k \in DOMAIN at : PlacesUnder(heap, below, v, k) = {Under(k, p) : p \in below[at[k]]}
  BY DEF PlacesUnder, Under
<1>3. NodeFits(heap[v.chars])
  BY ValueKinds, NodeTyped
<1>4. ASSUME NEW k \in DOMAIN at, NEW p \in below[at[k]]
      PROVE  /\ k \in Characters /\ p \in [path : Text, value : JsValue]
             /\ <<k>> \o p.path \in Text /\ <<k>> \o p.path # <<>>
  <2>1. k \in Characters /\ at[k] \in JsValue
    BY <1>3 DEF NodeFits
  <2>2. p \in [path : Text, value : JsValue]
    BY <2>1 DEF PlaceMaps, PlaceSets
  <2>3. p.path \in Text
    BY <2>2
  <2> QED  BY <2>1, <2>2, <2>3, FirstSteps
<1>5. ASSUME NEW k \in DOMAIN at, NEW l \in DOMAIN at, NEW p \in below[at[k]],
             NEW q \in below[at[l]], Under(k, p) = Under(l, q)
      PROVE  k = l /\ p = q
  <2>1. <<k>> \o p.path = <<l>> \o q.path /\ p.value = q.value
    BY <1>5 DEF Under, Place
  <2>2. k = l /\ p.path = q.path
    <3>1. k \in Characters /\ l \in Characters /\ p.path \in Text /\ q.path \in Text
      BY <1>4
    <3> QED  BY <2>1, <3>1, FirstSteps
  <2>3. p \in [path : Text, value : JsValue] /\ q \in [path : Text, value : JsValue]
    BY <1>4
  <2> QED  BY <2>1, <2>2, <2>3
<1>6. \A k \in DOMAIN at : \A p \in below[at[k]] :
          Under(k, p) # Place(<<>>, v) /\ Under(k, p).value = p.value
  BY <1>4 DEF Under, Place
<1> HIDE DEF at, P
<1> QED
  BY <1>1, <1>2, <1>5, <1>6 DEF at, P

\* A node and its items are clean exactly if the items are, the node seen.
LEMMA CleanNode ==
    ASSUME NEW heap \in Heap, NEW below \in PlaceMaps, NEW v \in JsValue,
           v.type = "reference", heap[v.chars].kind # "exotic",
           NEW seen, v.chars \notin seen
    PROVE  LET node == heap[v.chars]
               P == PlacesOf(heap, below, v)
               L == Len(KeyOrder(node))
           IN  /\ CleanPlaces(heap, P, seen)
                      <=> CleanUpTo(heap, node, below, seen \cup {v.chars}, L)
               /\ NodesIn(P) = {v.chars} \cup NodesUpTo(node, below, L)
<1> DEFINE node == heap[v.chars]
           at == node.at
           P == PlacesOf(heap, below, v)
           L == Len(KeyOrder(node))
           more == seen \cup {v.chars}
           here0 == Place(<<>>, v)
<1>1. Visited(node, L) = DOMAIN at
  BY ValueKinds, NodeTyped, VisitedEnds
<1>2. /\ here0 \in P
      /\ \A k \in DOMAIN at : \A p \in below[at[k]] :
             Under(k, p) \in P /\ Under(k, p) # here0 /\ Under(k, p).value = p.value
      /\ \A here \in P : here = here0
             \/ \E k \in DOMAIN at : \E p \in below[at[k]] : here = Under(k, p)
      /\ \A k, l \in DOMAIN at : \A p \in below[at[k]], q \in below[at[l]] :
             Under(k, p) = Under(l, q) => k = l /\ p = q
  BY UnderNode
<1>3. here0.value = v /\ v.chars \in Nodes /\ v = Ref(v.chars)
  BY ValueKinds DEF Place
<1>4. \A m : Ref(m).type = "reference" /\ Ref(m).chars = m
  BY DEF Ref
<1>5. ASSUME NEW k \in DOMAIN at, NEW p \in below[at[k]]
      PROVE  p.value.type = "reference" =>
                 p.value.chars \in Nodes /\ p.value = Ref(p.value.chars)
  <2>1. NodeFits(node)
    BY <1>3, NodeTyped
  <2>2. p \in [path : Text, value : JsValue]
    BY <2>1 DEF NodeFits, PlaceMaps, PlaceSets
  <2> QED  BY <2>2, ValueKinds
<1> HIDE DEF P, at, here0
<1>6. ASSUME CleanPlaces(heap, P, seen)
      PROVE  CleanUpTo(heap, node, below, more, L)
  <2>1. ASSUME NEW k \in DOMAIN at PROVE CleanPlaces(heap, below[at[k]], more)
    <3> SUFFICES ASSUME NEW p \in below[at[k]]
                 PROVE  /\ p.value.type # "unsupported"
                        /\ p.value.type = "reference" =>
                            /\ heap[p.value.chars].kind # "exotic"
                            /\ p.value.chars \notin more
                            /\ \A q \in below[at[k]] : q.value = p.value => q = p
      BY DEF CleanPlaces
    <3>1. Under(k, p) \in P /\ Under(k, p) # here0 /\ Under(k, p).value = p.value
      BY <1>2
    <3>2. p.value.type # "unsupported"
      BY <1>6, <3>1 DEF CleanPlaces
    <3>3. ASSUME p.value.type = "reference"
          PROVE  /\ heap[p.value.chars].kind # "exotic" /\ p.value.chars \notin seen
                 /\ \A there \in P : there.value = p.value => there = Under(k, p)
      BY <1>6, <3>1, <3>3 DEF CleanPlaces
    <3>4. ASSUME p.value.type = "reference" PROVE p.value.chars # v.chars
      BY <1>2, <1>3, <1>5, <3>1, <3>3, <3>4
    <3>5. ASSUME p.value.type = "reference", NEW q \in below[at[k]], q.value = p.value
          PROVE  q = p
      <4>1. Under(k, q) \in P /\ Under(k, q).value = p.value
        BY <1>2, <3>5
      <4>2. Under(k, q) = Under(k, p)
        BY <3>3, <3>5, <4>1
      <4> QED  BY <1>2, <4>2
    <3> QED  BY <3>2, <3>3, <3>4, <3>5
  <2>2. ASSUME NEW k \in DOMAIN at, NEW l \in DOMAIN at, k # l
        PROVE  NodesIn(below[at[k]]) \cap NodesIn(below[at[l]]) = {}
    <3> SUFFICES ASSUME NEW m, m \in NodesIn(below[at[k]]), m \in NodesIn(below[at[l]])
                 PROVE  FALSE
      OBVIOUS
    <3>1. PICK p \in below[at[k]] : p.value = Ref(m)
      BY DEF NodesIn
    <3>2. PICK q \in below[at[l]] : q.value = Ref(m)
      BY DEF NodesIn
    <3>3. /\ Under(k, p) \in P /\ Under(k, p).value = Ref(m)
          /\ Under(l, q) \in P /\ Under(l, q).value = Ref(m)
      BY <1>2, <3>1, <3>2
    <3>4. Under(k, p) = Under(l, q)
      BY <1>4, <1>6, <3>3 DEF CleanPlaces
    <3> QED  BY <1>2, <2>2, <3>4
  <2> QED  BY <1>1, <2>1, <2>2 DEF CleanUpTo, at
<1>7. ASSUME CleanUpTo(heap, node, below, more, L)
      PROVE  CleanPlaces(heap, P, seen)
  <2>1. \A k \in DOMAIN at : CleanPlaces(heap, below[at[k]], more)
    BY <1>1, <1>7 DEF CleanUpTo, at
  <2>2. \A k, l \in DOMAIN at :
            k # l => NodesIn(below[at[k]]) \cap NodesIn(below[at[l]]) = {}
    BY <1>1, <1>7 DEF CleanUpTo, at
  <2>3. ASSUME NEW k \in DOMAIN at, NEW p \in below[at[k]]
        PROVE  /\ p.value.type # "unsupported"
               /\ p.value.type = "reference" =>
                   /\ heap[p.value.chars].kind # "exotic"
                   /\ p.value.chars \notin more
                   /\ p.value.chars \in NodesIn(below[at[k]])
                   /\ \A q \in below[at[k]] : q.value = p.value => q = p
    <3>1. p.value.type = "reference" => p.value.chars \in NodesIn(below[at[k]])
      BY <1>5 DEF NodesIn
    <3> QED  BY <2>1, <3>1 DEF CleanPlaces
  <2>4. ASSUME NEW here \in P, NEW there \in P, here.value.type = "reference",
               there.value = here.value
        PROVE  there = here
    <3>1. CASE here = here0 /\ there = here0
      BY <3>1
    <3>2. ASSUME NEW k \in DOMAIN at, NEW p \in below[at[k]],
                 p.value.type = "reference"
          PROVE  p.value # v
      BY <2>3, <3>2
    <3>3. CASE here = here0 /\ there # here0
      <4>1. PICK k \in DOMAIN at : \E p \in below[at[k]] : there = Under(k, p)
        BY <1>2, <3>3
      <4>2. PICK p \in below[at[k]] : there = Under(k, p)
        BY <4>1
      <4> QED  BY <1>2, <1>3, <2>4, <3>2, <3>3, <4>2
    <3>4. CASE here # here0 /\ there = here0
      <4>1. PICK k \in DOMAIN at : \E p \in below[at[k]] : here = Under(k, p)
        BY <1>2, <3>4
      <4>2. PICK p \in below[at[k]] : here = Under(k, p)
        BY <4>1
      <4> QED  BY <1>2, <1>3, <2>4, <3>2, <3>4, <4>2
    <3>5. CASE here # here0 /\ there # here0
      <4>1. PICK k \in DOMAIN at : \E p \in below[at[k]] : here = Under(k, p)
        BY <1>2, <3>5
      <4>2. PICK p \in below[at[k]] : here = Under(k, p)
        BY <4>1
      <4>3. PICK l \in DOMAIN at : \E q \in below[at[l]] : there = Under(l, q)
        BY <1>2, <3>5
      <4>4. PICK q \in below[at[l]] : there = Under(l, q)
        BY <4>3
      <4>5. p.value = here.value /\ q.value = here.value
        BY <1>2, <2>4, <4>2, <4>4
      <4>6. p.value.chars \in NodesIn(below[at[k]]) /\ p.value.chars \in NodesIn(below[at[l]])
        BY <2>3, <2>4, <4>5
      <4>7. k = l
        BY <2>2, <4>6
      <4>8. p = q
        BY <2>3, <2>4, <4>5, <4>7
      <4> QED  BY <4>2, <4>4, <4>7, <4>8
    <3> QED  BY <3>1, <3>3, <3>4, <3>5
  <2>5. ASSUME NEW here \in P
        PROVE  /\ here.value.type # "unsupported"
               /\ here.value.type = "reference" =>
                   heap[here.value.chars].kind # "exotic" /\ here.value.chars \notin seen
    <3>1. CASE here = here0
      BY <1>3, <3>1
    <3>2. CASE here # here0
      <4>1. PICK k \in DOMAIN at : \E p \in below[at[k]] : here = Under(k, p)
        BY <1>2, <3>2
      <4>2. PICK p \in below[at[k]] : here = Under(k, p)
        BY <4>1
      <4> QED  BY <1>2, <2>3, <4>2
    <3> QED  BY <3>1, <3>2
  <2> QED  BY <2>4, <2>5 DEF CleanPlaces
<1>8. NodesIn(P) = {v.chars} \cup NodesUpTo(node, below, L)
  <2>1. ASSUME NEW m \in NodesIn(P), m # v.chars PROVE m \in NodesUpTo(node, below, L)
    <3>1. PICK here \in P : here.value = Ref(m) /\ m \in Nodes
      BY DEF NodesIn
    <3>2. here # here0
      BY <1>3, <1>4, <2>1, <3>1
    <3>3. PICK k \in DOMAIN at : \E p \in below[at[k]] : here = Under(k, p)
      BY <1>2, <3>2
    <3>4. PICK p \in below[at[k]] : here = Under(k, p)
      BY <3>3
    <3>5. m \in NodesIn(below[at[k]])
      BY <1>2, <3>1, <3>4 DEF NodesIn
    <3> QED  BY <1>1, <3>5 DEF NodesUpTo, at
  <2>2. ASSUME NEW m \in NodesUpTo(node, below, L) PROVE m \in NodesIn(P)
    <3>1. PICK k \in DOMAIN at : m \in NodesIn(below[at[k]])
      BY <1>1 DEF NodesUpTo, at
    <3>2. PICK p \in below[at[k]] : p.value = Ref(m) /\ m \in Nodes
      BY <3>1 DEF NodesIn
    <3> QED  BY <1>2, <3>2 DEF NodesIn
  <2>3. v.chars \in NodesIn(P)
    BY <1>2, <1>3 DEF NodesIn
  <2> QED  BY <2>1, <2>2, <2>3
<1> QED
  BY <1>6, <1>7, <1>8 DEF P

\* One node deeper, still exactly what JSON carries is accepted.
LEMMA AcceptsDeeper ==
    ASSUME NEW heap \in Heap, NEW inside \in Insides, NEW below \in PlaceMaps,
           NEW n \in Nat, n # 0 => Accepts(heap, inside, below, n - 1)
    PROVE  Accepts(heap, Deeper(heap, inside), Farther(heap, below), n)
<1> SUFFICES ASSUME NEW v \in JsValue, NEW seen \in SUBSET Nodes,
                    Cardinality(Nodes \ seen) <= n
             PROVE  LET r == Serialize(heap, inside, v, seen)
                        P == PlacesOf(heap, below, v) IN
                    /\ r # None <=> CleanPlaces(heap, P, seen)
                    /\ r # None => r.seen = seen \cup NodesIn(P)
  <2>1. \A v \in JsValue, seen \in SUBSET Nodes :
            /\ Deeper(heap, inside)[<<v, seen>>] = Serialize(heap, inside, v, seen)
            /\ Farther(heap, below)[v] = PlacesOf(heap, below, v)
    BY DEF Deeper, Farther, Calls
  <2> HIDE DEF Deeper, Farther
  <2> SUFFICES ASSUME NEW v \in JsValue, NEW seen \in SUBSET Nodes,
                      Cardinality(Nodes \ seen) <= n
               PROVE  LET r == Deeper(heap, inside)[<<v, seen>>]
                          P == Farther(heap, below)[v] IN
                      /\ r # None <=> CleanPlaces(heap, P, seen)
                      /\ r # None => r.seen = seen \cup NodesIn(P)
    BY DEF Accepts
  <2> QED  BY <2>1
<1> DEFINE r == Serialize(heap, inside, v, seen)
           P == PlacesOf(heap, below, v)
<1>1. r \in Result
  BY SerializeTyped
<1>2. \A m : Ref(m).type = "reference"
  BY DEF Ref
<1>3. None \notin Serialization
  BY JsonAssumption
<1>4. CASE v.type # "reference"
  <2>1. P = {Place(<<>>, v)}
    BY <1>4, PlacesOfAre
  <2>2. NodesIn(P) = {}
    BY <1>2, <1>4, <2>1 DEF NodesIn, Place
  <2>3. CleanPlaces(heap, P, seen) <=> v.type # "unsupported"
    <3>1. Place(<<>>, v).value = v
      BY DEF Place
    <3> HIDE DEF P
    <3> QED  BY <1>4, <2>1, <3>1 DEF CleanPlaces
  <2>4. CASE v.type = "unsupported"
    BY <2>3, <2>4 DEF Serialize
  <2>5. CASE v.type = "string"
    <3>1. r = [text |-> Quoted(v.chars), seen |-> seen]
      BY <2>5 DEF Serialize
    <3>2. Quoted(v.chars) \in Text
      BY <2>5, ValueKinds, QuotedTyped
    <3>3. r \in Serialization
      BY <3>1, <3>2 DEF Serialization, Text
    <3> QED  BY <1>3, <2>2, <2>3, <2>5, <3>1, <3>3
  <2>6. CASE v.type = "number"
    <3>1. r = [text |-> v.chars, seen |-> seen]
      BY <2>6 DEF Serialize
    <3>2. v.chars \in Text
      BY <2>6, ValueKinds
    <3>3. r \in Serialization
      BY <3>1, <3>2 DEF Serialization, Text
    <3> QED  BY <1>3, <2>2, <2>3, <2>6, <3>1, <3>3
  <2> QED  BY <1>4, <2>4, <2>5, <2>6, ValueKinds
<1>5. CASE v.type = "reference"
  <2> DEFINE m == v.chars
             node == heap[m]
  <2>1. m \in Nodes
    BY <1>5, ValueKinds
  <2>2. r = SerializeNode(heap, inside, m, seen)
    BY <1>5 DEF Serialize
  <2>3. CASE m \in seen \/ node.kind = "exotic"
    <3>1. r = None
      BY <2>2, <2>3 DEF SerializeNode
    <3>2. Place(<<>>, v) \in P /\ Place(<<>>, v).value = v
      BY <1>5, PlacesOfAre DEF Place
    <3>3. ~CleanPlaces(heap, P, seen)
      <4> HIDE DEF P
      <4> QED  BY <1>5, <2>3, <3>2 DEF CleanPlaces
    <3> QED  BY <3>1, <3>3
  <2>4. CASE m \notin seen /\ node.kind # "exotic"
    <3> DEFINE more == seen \cup {m}
               L == Len(KeyOrder(node))
               state == Items(node, inside, more)[L]
    <3>1. n # 0 /\ Cardinality(Nodes \ more) <= n - 1
      <4>1. IsFiniteSet(Nodes \ seen)
        BY JsonAssumption, FS_Subset
      <4>2. m \in Nodes \ seen /\ (Nodes \ seen) \ {m} = Nodes \ more
        BY <2>1, <2>4
      <4>3. Cardinality(Nodes \ more) = Cardinality(Nodes \ seen) - 1
        <5> DEFINE S == Nodes \ seen
        <5>1. S \in SUBSET S /\ m \in S /\ IsFiniteSet(S) /\ S \ {m} = Nodes \ more
          BY <4>1, <4>2
        <5>2. Cardinality(S \ {m}) = Cardinality(S) - 1
          <6> HIDE DEF S, m
          <6> QED  BY <5>1, FS_RemoveElement
        <5> QED  BY <5>1, <5>2
      <4>4. Cardinality(Nodes \ seen) \in Nat /\ Cardinality(Nodes \ more) \in Nat
        <5>1. IsFiniteSet(Nodes \ more)
          BY JsonAssumption, FS_Subset
        <5> QED  BY <4>1, <5>1, FS_CardinalityType
      <4> QED  BY <4>3, <4>4
    <3>2. /\ state # None <=> CleanUpTo(heap, node, below, more, L)
          /\ state # None => state.seen = more \cup NodesUpTo(node, below, L)
      <4>1. NodeFits(node) /\ L \in 0 .. L
        BY <2>1, NodeTyped, OrderTyped
      <4>2. n - 1 \in Int /\ more \in SUBSET Nodes
        BY <2>1
      <4> HIDE DEF node, more
      <4> QED  BY <3>1, <4>1, <4>2, ItemsAccepted
    <3>3. /\ CleanPlaces(heap, P, seen) <=> CleanUpTo(heap, node, below, more, L)
          /\ NodesIn(P) = {m} \cup NodesUpTo(node, below, L)
      BY <1>5, <2>4, CleanNode
    <3>4. r = IF state = None THEN None
              ELSE [text |-> Bracketed(node, state.text), seen |-> state.seen]
      BY <2>2, <2>4 DEF SerializeNode
    <3>5. CASE state = None
      BY <3>2, <3>3, <3>4, <3>5
    <3>6. CASE state # None
      <4>1. r = [text |-> Bracketed(node, state.text), seen |-> state.seen]
        BY <3>4, <3>6
      <4>2. state \in Result
        <5>1. NodeFits(node) /\ L \in 0 .. L
          BY <2>1, NodeTyped, OrderTyped
        <5>2. more \in SUBSET Nodes
          BY <2>1
        <5> HIDE DEF node, more
        <5> QED  BY <5>1, <5>2, ItemsStepwise
      <4>3. state.text \in Text /\ state.seen \in SUBSET Nodes
        BY <3>6, <4>2 DEF Result, Serialization, Text
      <4>4. r # None
        <5> HIDE DEF state, node
        <5>1. Bracketed(node, state.text) \in Text
          BY <4>3, BracketedTyped
        <5>2. r \in Serialization
          BY <4>1, <4>3, <5>1 DEF Serialization, Text
        <5> QED  BY <1>3, <5>2
      <4>5. r.seen = seen \cup NodesIn(P)
        <5>1. r.seen = state.seen
          BY <4>1
        <5> HIDE DEF state, P, r
        <5> QED  BY <3>2, <3>3, <3>6, <5>1
      <4>6. /\ r # None <=> CleanPlaces(heap, P, seen)
            /\ r # None => r.seen = seen \cup NodesIn(P)
        <5> HIDE DEF state, P, r
        <5> QED  BY <3>2, <3>3, <3>6, <4>4, <4>5
      <4> QED  BY <4>6
    <3> QED  BY <3>5, <3>6
  <2> QED  BY <2>3, <2>4
<1> QED
  BY <1>4, <1>5

\* At every depth, exactly what JSON carries is accepted.
LEMMA AcceptsEverywhere ==
    ASSUME NEW heap \in Heap, NEW n \in 0 .. Cardinality(Nodes)
    PROVE  Accepts(heap, Serializers(heap)[n], Places(heap)[n], n)
<1> DEFINE N == Cardinality(Nodes)
           T == {i \in 0 .. N : Accepts(heap, Serializers(heap)[i], Places(heap)[i], i)}
<1>1. N \in Nat
  BY NodeCount
<1>2. ASSUME NEW i \in 0 .. N, i # 0 => i - 1 \in T
      PROVE  i \in T
  <2>1. /\ Inside(heap, i) \in Insides
        /\ Serializers(heap)[i] = Deeper(heap, Inside(heap, i))
        /\ PlacesInside(heap, i) \in PlaceMaps
        /\ Places(heap)[i] = Farther(heap, PlacesInside(heap, i))
    BY SerializersStepwise, PlacesStepwise
  <2>2. i # 0 => Accepts(heap, Inside(heap, i), PlacesInside(heap, i), i - 1)
    BY <1>2 DEF Inside, PlacesInside
  <2>3. i \in Nat
    BY <1>1
  <2> QED  BY <2>1, <2>2, <2>3, AcceptsDeeper
<1> HIDE DEF T
<1>3. 0 \in T
  <2>1. 0 \in 0 .. N
    BY <1>1
  <2> QED  BY <1>2, <2>1
<1>4. ASSUME NEW i \in 0 .. N - 1, i \in T PROVE i + 1 \in T
  <2>1. i + 1 \in 0 .. N /\ (i + 1) - 1 = i
    BY <1>1
  <2> QED  BY <1>2, <1>4, <2>1
<1>5. n \in T
  BY <1>1, <1>3, <1>4, UpTo
<1> QED
  BY <1>5 DEF T

\* The value as a whole: what is serialized, and where it goes.
LEMMA WholeIs ==
    ASSUME NEW heap \in Heap, NEW v \in JsValue
    PROVE  LET r == Serializers(heap)[Cardinality(Nodes)][<<v, {}>>] IN
           /\ r \in Result
           /\ CanonicalText(heap, v) = IF r = None THEN None ELSE r.text
           /\ AllPlaces(heap, v) \in PlaceSets
<1> DEFINE N == Cardinality(Nodes)
<1>1. N \in 0 .. N
  BY NodeCount
<1>2. Inside(heap, N) \in Insides /\ Serializers(heap)[N] = Deeper(heap, Inside(heap, N))
  BY <1>1, SerializersStepwise
<1>3. Serializers(heap)[N] \in Insides
  BY <1>2, DeeperTyped
<1>4. <<v, {}>> \in Calls
  BY DEF Calls
<1>5. Places(heap)[N] \in PlaceMaps
  BY <1>1, PlacesStepwise
<1> QED
  BY <1>3, <1>4, <1>5 DEF CanonicalText, AllPlaces, Insides, PlaceMaps

\* What is accepted is exactly what JSON carries.
LEMMA AcceptsJson ==
    ASSUME NEW heap \in Heap, NEW v \in JsValue
    PROVE  IsJson(heap, v)
               <=> Serializers(heap)[Cardinality(Nodes)][<<v, {}>>] # None
<1> DEFINE N == Cardinality(Nodes)
<1>1. N \in Nat /\ N \in 0 .. N
  BY NodeCount
<1>2. Accepts(heap, Serializers(heap)[N], Places(heap)[N], N)
  BY <1>1, AcceptsEverywhere
<1>3. Nodes \ {} = Nodes /\ {} \in SUBSET Nodes
  OBVIOUS
<1>4. Cardinality(Nodes \ {}) <= N
  BY <1>1, <1>3
<1>5. Serializers(heap)[N][<<v, {}>>] # None
          <=> CleanPlaces(heap, Places(heap)[N][v], {})
  BY <1>2, <1>3, <1>4 DEF Accepts
<1>6. CleanPlaces(heap, Places(heap)[N][v], {}) <=> IsJson(heap, v)
  BY DEF CleanPlaces, IsJson, AllPlaces
<1> QED
  BY <1>5, <1>6

-----------------------------------------------------------------------------
\* Data, from node to node.

Datums == [path : Text,
           type : {"unsupported", "string", "number", "reference"},
           chars : Text \cup {<<"array">>, <<"object">>, <<"exotic">>}]

Datum(heap, path, v) ==
    [path |-> path, type |-> v.type,
     chars |-> IF v.type = "reference" THEN <<heap[v.chars].kind>> ELSE v.chars]

DataOf(heap, P) == {Datum(heap, p.path, p.value) : p \in P}

\* The data of an item, as seen from its node.
UnderDatum(k, d) == [path |-> <<k>> \o d.path, type |-> d.type, chars |-> d.chars]

DataUnder(k, items) == {UnderDatum(k, d) : d \in items[k]}

\* A node, and what stands in it.
Tree(head, keys, items) == {head} \cup UNION {DataUnder(k, items) : k \in keys}

ItemData(keys, items) ==
    \A k \in keys : k \in Characters /\ items[k] # {} /\ items[k] \subseteq Datums

\* What stands at a place is a datum.
LEMMA DatumTyped ==
    ASSUME NEW heap \in Heap, NEW v \in JsValue, NEW path \in Text
    PROVE  Datum(heap, path, v) \in Datums
<1>1. CASE v.type = "reference"
  <2>1. heap[v.chars].kind \in {"exotic", "array", "object"}
    BY <1>1, ValueKinds, NodeTyped DEF NodeFits
  <2> QED  BY <1>1, <2>1 DEF Datum, Datums
<1>2. CASE v.type # "reference"
  <2>1. v.type \in {"unsupported", "string", "number"} /\ v.chars \in Text
    BY <1>2, ValueKinds
  <2> QED  BY <1>2, <2>1 DEF Datum, Datums
<1> QED  BY <1>1, <1>2

\* The data of places is data.
LEMMA DataOfTyped ==
    ASSUME NEW heap \in Heap, NEW P \in PlaceSets
    PROVE  DataOf(heap, P) \subseteq Datums
<1>1. ASSUME NEW p \in P PROVE Datum(heap, p.path, p.value) \in Datums
  <2>1. p.path \in Text /\ p.value \in JsValue
    BY DEF PlaceSets
  <2> QED  BY <2>1, DatumTyped
<1> QED  BY <1>1 DEF DataOf

\* A datum as seen from the node tells under which key it is.
LEMMA UnderDatumTyped ==
    ASSUME NEW k \in Characters, NEW l \in Characters,
           NEW d \in Datums, NEW e \in Datums
    PROVE  /\ UnderDatum(k, d).path # <<>>
           /\ UnderDatum(k, d) = UnderDatum(l, e) => k = l /\ d = e
<1>1. d.path \in Text /\ e.path \in Text
  BY DEF Datums
<1>2. UnderDatum(k, d).path = <<k>> \o d.path /\ UnderDatum(l, e).path = <<l>> \o e.path
      /\ UnderDatum(k, d).type = d.type /\ UnderDatum(l, e).type = e.type
      /\ UnderDatum(k, d).chars = d.chars /\ UnderDatum(l, e).chars = e.chars
  BY DEF UnderDatum
<1>3. <<k>> \o d.path # <<>> /\ (<<k>> \o d.path = <<l>> \o e.path => k = l /\ d.path = e.path)
  BY <1>1, FirstSteps
<1>4. ASSUME UnderDatum(k, d) = UnderDatum(l, e) PROVE k = l /\ d = e
  <2>1. k = l /\ d.path = e.path /\ d.type = e.type /\ d.chars = e.chars
    BY <1>2, <1>3, <1>4
  <2> QED  BY <2>1 DEF Datums
<1> QED
  BY <1>2, <1>3, <1>4

\* Half of TreesAgree.
LEMMA TreeWithin ==
    ASSUME NEW head1, NEW head2, head1.path = <<>>, head2.path = <<>>,
           NEW keys1, NEW keys2, NEW items1, NEW items2,
           ItemData(keys1, items1), ItemData(keys2, items2),
           Tree(head1, keys1, items1) \subseteq Tree(head2, keys2, items2)
    PROVE  /\ head1 = head2
           /\ keys1 \subseteq keys2
           /\ \A k \in keys1 : items1[k] \subseteq items2[k]
<1>1. ASSUME NEW k \in keys1, NEW d \in items1[k]
      PROVE  k \in keys2 /\ d \in items2[k]
  <2>1. k \in Characters /\ d \in Datums
    BY DEF ItemData
  <2>2. UnderDatum(k, d) \in Tree(head2, keys2, items2)
    BY DEF Tree, DataUnder
  <2>3. UnderDatum(k, d) # head2
    BY <2>1, UnderDatumTyped
  <2>4. PICK l \in keys2 : UnderDatum(k, d) \in DataUnder(l, items2)
    BY <2>2, <2>3 DEF Tree
  <2>5. PICK e \in items2[l] : UnderDatum(k, d) = UnderDatum(l, e)
    BY <2>4 DEF DataUnder
  <2>6. l \in Characters /\ e \in Datums
    BY DEF ItemData
  <2>7. k = l /\ d = e
    BY <2>1, <2>5, <2>6, UnderDatumTyped
  <2> QED  BY <2>7
<1>2. keys1 \subseteq keys2
  <2>1. \A k \in keys1 : \E d : d \in items1[k]
    BY DEF ItemData
  <2> QED  BY <1>1, <2>1
<1>3. head1 = head2
  <2>1. head1 \in Tree(head2, keys2, items2)
    BY DEF Tree
  <2>2. ASSUME NEW l \in keys2, head1 \in DataUnder(l, items2) PROVE FALSE
    <3>1. PICK e \in items2[l] : head1 = UnderDatum(l, e)
      BY <2>2 DEF DataUnder
    <3>2. l \in Characters /\ e \in Datums
      BY DEF ItemData
    <3> QED  BY <3>1, <3>2, UnderDatumTyped
  <2> QED  BY <2>1, <2>2 DEF Tree
<1> QED  BY <1>1, <1>2, <1>3

\* Data is equal exactly if it is equal node by node.
LEMMA TreesAgree ==
    ASSUME NEW head1, NEW head2, head1.path = <<>>, head2.path = <<>>,
           NEW keys1, NEW keys2, NEW items1, NEW items2,
           ItemData(keys1, items1), ItemData(keys2, items2)
    PROVE  Tree(head1, keys1, items1) = Tree(head2, keys2, items2)
               <=> /\ head1 = head2 /\ keys1 = keys2
                   /\ \A k \in keys1 : items1[k] = items2[k]
<1>1. ASSUME Tree(head1, keys1, items1) = Tree(head2, keys2, items2)
      PROVE  /\ head1 = head2 /\ keys1 = keys2
             /\ \A k \in keys1 : items1[k] = items2[k]
  <2>1. /\ head1 = head2 /\ keys1 \subseteq keys2
        /\ \A k \in keys1 : items1[k] \subseteq items2[k]
    BY <1>1, TreeWithin
  <2>2. /\ keys2 \subseteq keys1
        /\ \A k \in keys2 : items2[k] \subseteq items1[k]
    BY <1>1, TreeWithin
  <2> QED  BY <2>1, <2>2
<1>2. ASSUME head1 = head2, keys1 = keys2, \A k \in keys1 : items1[k] = items2[k]
      PROVE  Tree(head1, keys1, items1) = Tree(head2, keys2, items2)
  <2>1. \A k \in keys1 : DataUnder(k, items1) = DataUnder(k, items2)
    BY <1>2 DEF DataUnder
  <2> QED  BY <1>2, <2>1 DEF Tree
<1> QED  BY <1>1, <1>2

\* The data of what stands in a node.
DataInside(heap, below, v) ==
    [k \in DOMAIN heap[v.chars].at |-> DataOf(heap, below[heap[v.chars].at[k]])]

\* The data of a node is a tree of the data of its items.
LEMMA DataOfPlaces ==
    ASSUME NEW heap \in Heap, NEW below \in PlaceMaps, NEW v \in JsValue
    PROVE  LET D == DataOf(heap, PlacesOf(heap, below, v)) IN
           /\ Datum(heap, <<>>, v).path = <<>>
           /\ Datum(heap, <<>>, v) \in D
           /\ \A d \in D : d.path = <<>> => d = Datum(heap, <<>>, v)
           /\ v.type # "reference" => D = {Datum(heap, <<>>, v)}
           /\ v.type = "reference" =>
                  D = Tree(Datum(heap, <<>>, v), DOMAIN heap[v.chars].at,
                           DataInside(heap, below, v))
<1> DEFINE P == PlacesOf(heap, below, v)
           head == Datum(heap, <<>>, v)
<1>1. head.path = <<>>
  BY DEF Datum
<1>2. Place(<<>>, v).path = <<>> /\ Place(<<>>, v).value = v
  BY DEF Place
<1>3. CASE v.type # "reference"
  <2>1. P = {Place(<<>>, v)}
    BY <1>3, PlacesOfAre
  <2>2. DataOf(heap, P) = {head}
    <3> HIDE DEF P
    <3> QED  BY <1>2, <2>1 DEF DataOf
  <2> HIDE DEF head
  <2> QED  BY <1>1, <1>3, <2>2 DEF head
<1>4. CASE v.type = "reference"
  <2> DEFINE at == heap[v.chars].at
             items == DataInside(heap, below, v)
  <2>1. P = {Place(<<>>, v)} \cup UNION {PlacesUnder(heap, below, v, k) : k \in DOMAIN at}
    BY <1>4, PlacesOfAre
  <2>2. NodeFits(heap[v.chars])
    BY <1>4, ValueKinds, NodeTyped
  <2>3. ASSUME NEW k \in DOMAIN at
        PROVE  DataOf(heap, PlacesUnder(heap, below, v, k)) = DataUnder(k, items)
    <3>1. items[k] = DataOf(heap, below[at[k]])
      BY DEF DataInside
    <3>2. \A p : Datum(heap, Place(<<k>> \o p.path, p.value).path,
                       Place(<<k>> \o p.path, p.value).value)
                     = UnderDatum(k, Datum(heap, p.path, p.value))
      BY DEF Datum, UnderDatum, Place
    <3>3. PlacesUnder(heap, below, v, k) = {Place(<<k>> \o p.path, p.value) : p \in below[at[k]]}
      BY DEF PlacesUnder
    <3> HIDE DEF items, at
    <3> QED  BY <3>1, <3>2, <3>3 DEF DataOf, DataUnder
  <2>4. DataOf(heap, P) = {head} \cup UNION {DataOf(heap, PlacesUnder(heap, below, v, k)) : k \in DOMAIN at}
    <3> HIDE DEF P, at
    <3> QED  BY <1>2, <2>1 DEF DataOf
  <2>5. DataOf(heap, P) = Tree(head, DOMAIN at, items)
    <3> HIDE DEF P, at, items, head
    <3> QED  BY <2>3, <2>4 DEF Tree
  <2>6. ASSUME NEW k \in DOMAIN at, NEW d \in DataUnder(k, items) PROVE d.path # <<>>
    <3>1. k \in Characters /\ at[k] \in JsValue
      BY <2>2 DEF NodeFits
    <3>2. items[k] = DataOf(heap, below[at[k]]) /\ below[at[k]] \in PlaceSets
      BY <3>1 DEF DataInside, PlaceMaps
    <3>3. items[k] \subseteq Datums
      BY <3>2, DataOfTyped
    <3>4. PICK e \in items[k] : d = UnderDatum(k, e)
      BY DEF DataUnder
    <3> QED  BY <3>1, <3>3, <3>4, UnderDatumTyped
  <2>7. head \in DataOf(heap, P) /\ \A d \in DataOf(heap, P) : d.path = <<>> => d = head
    <3> HIDE DEF P, at, items, head
    <3> QED  BY <2>5, <2>6 DEF Tree
  <2> QED  BY <1>1, <1>4, <2>5, <2>7
<1> QED  BY <1>3, <1>4

-----------------------------------------------------------------------------
\* How the text of a node is put together, and taken apart again.

Opening(node) == IF node.kind = "array" THEN <<"[">> ELSE <<"{">>
Closing(node) == IF node.kind = "array" THEN <<"]">> ELSE <<"}">>

\* What numbers are printed with.
Bare == Characters \ Punctuation

\* The empty text.
LEMMA EmptyTyped == <<>> \in Text
BY EmptySeq DEF Text

\* a, then b. Unlike \o, it is not taken apart unless its definition is cited.
a ++ b == a \o b

\* The facts above, for ++.
LEMMA ThenTyped == \A a, b \in Text : a ++ b \in Text
BY CatTyped DEF ++

\* Whatever is put together first.
LEMMA ThenThen == \A a, b, c \in Text : (a ++ b) ++ c = a ++ (b ++ c)
BY CatAssoc DEF ++

\* The same start can be taken off.
LEMMA ThenCancel == \A a, x, y \in Text : a ++ x = a ++ y => x = y
BY CatCancel DEF ++

\* The empty text adds nothing.
LEMMA ThenEmpty == \A a \in Text : a ++ <<>> = a /\ <<>> ++ a = a
BY CatEmpty DEF ++

\* What ends with something is something.
LEMMA ThenEnds == \A a, b \in Text : b # <<>> => a ++ b # <<>>
BY CatNonempty, CatEmpty DEF ++

\* A text that starts with one of S.
Starts(a, S) == a # <<>> /\ a[1] \in S
Closers == {"]", "}"}
Inner == Characters \ Closers

\* A character starts with itself.
LEMMA StartsOne ==
    ASSUME NEW c \in Characters, NEW S, c \in S
    PROVE  <<c>> \in Text /\ Starts(<<c>>, S)
BY OneTyped DEF Starts

\* More text behind does not change how a text starts.
LEMMA ThenStarts ==
    ASSUME NEW a \in Text, NEW b \in Text, NEW S, Starts(a, S)
    PROVE  Starts(a ++ b, S)
<1>1. a # <<>> /\ a[1] \in S
  BY DEF Starts
<1>2. a \o b # <<>> /\ (a \o b)[1] = a[1]
  BY <1>1, CatNonempty
<1> QED
  BY <1>1, <1>2 DEF Starts, ++

\* What closes a node starts no item, and ends a number.
LEMMA StartsApart ==
    ASSUME NEW a, Starts(a, Closers)
    PROVE  ~Starts(a, Inner) /\ Stops(Bare, a)
BY DEF Starts, Closers, Inner, Stops, Bare, Punctuation

\* A comma ends a number.
LEMMA CommaStops ==
    ASSUME NEW a, Starts(a, {","})
    PROVE  Stops(Bare, a)
BY DEF Starts, Stops, Bare, Punctuation

\* A first character can be taken off.
LEMMA ThenOne ==
    \A c, d \in Characters : \A x, y \in Text :
        <<c>> ++ x = <<d>> ++ y => c = d /\ x = y
BY OneCancel DEF ++

\* A run of characters can be taken off where it ends.
LEMMA ThenRun ==
    ASSUME NEW C, NEW a \in Text, NEW b \in Text, NEW x \in Text, NEW y \in Text,
           Range(a) \subseteq C, Range(b) \subseteq C, Stops(C, x), Stops(C, y),
           a ++ x = b ++ y
    PROVE  a = b /\ x = y
<1>1. a \o x = b \o y
  BY DEF ++
<1> QED  BY <1>1, RunsAgree

\* Brackets are texts.
LEMMA BracketsTyped ==
    ASSUME NEW node
    PROVE  /\ Opening(node) \in Text /\ Opening(node) # <<>>
           /\ Closing(node) \in Text /\ Starts(Closing(node), Closers)
BY PunctuationTyped DEF Opening, Closing, Punctuation, Starts, Closers

\* A node is read from its opening bracket on.
LEMMA BracketedThen ==
    ASSUME NEW node, NEW items \in Text, NEW x \in Text
    PROVE  Bracketed(node, items) ++ x =
               Opening(node) ++ (items ++ (Closing(node) ++ x))
<1> DEFINE o == Opening(node)
           c == Closing(node)
<1>1. o \in Text /\ c \in Text
  BY BracketsTyped
<1>2. Bracketed(node, items) = (o ++ items) ++ c
  BY DEF Bracketed, Opening, Closing, ++
<1> HIDE DEF o, c
<1>3. o ++ items \in Text /\ c ++ x \in Text
  BY <1>1, ThenTyped
<1>4. ((o ++ items) ++ c) ++ x = (o ++ items) ++ (c ++ x)
  BY <1>1, <1>3, ThenThen
<1>5. (o ++ items) ++ (c ++ x) = o ++ (items ++ (c ++ x))
  BY <1>1, <1>3, ThenThen
<1> QED
  BY <1>2, <1>4, <1>5 DEF o, c

\* The last item is read after its comma and its label.
LEMMA JoinedThen ==
    ASSUME NEW node, NEW items \in Text, NEW key \in Characters,
           NEW item \in Text, NEW x \in Text
    PROVE  /\ Joined(node, items, key, item) ++ x =
                  items ++ (Comma(items) ++ (Label(node, key) ++ (item ++ x)))
           /\ item ++ x \in Text
           /\ Label(node, key) ++ (item ++ x) \in Text
           /\ Comma(items) ++ (Label(node, key) ++ (item ++ x)) \in Text
<1> DEFINE c == Comma(items)
           l == Label(node, key)
           ic == items ++ c
           icl == ic ++ l
           ix == item ++ x
           lix == l ++ ix
<1>1. c \in Text /\ l \in Text
  BY PartsTyped
<1>2. Joined(node, items, key, item) = icl ++ item
  BY JoinedTyped DEF ++
<1> HIDE DEF c, l
<1>3. ic \in Text /\ ix \in Text
  BY <1>1, ThenTyped
<1> HIDE DEF ic, ix
<1>4. icl \in Text /\ lix \in Text
  BY <1>1, <1>3, ThenTyped
<1>5. icl ++ ix = ic ++ lix
  BY <1>1, <1>3, ThenThen
<1> HIDE DEF icl, lix
<1>6. ic ++ lix = items ++ (c ++ lix)
  BY <1>1, <1>4, ThenThen DEF ic
<1>7. (icl ++ item) ++ x = icl ++ ix
  BY <1>4, ThenThen DEF ix
<1>8. c ++ lix \in Text
  BY <1>1, <1>4, ThenTyped
<1>9. Joined(node, items, key, item) ++ x = items ++ (c ++ lix)
  BY <1>2, <1>5, <1>6, <1>7
<1>10. ix \in Text /\ lix \in Text /\ c ++ lix \in Text
  BY <1>3, <1>4, <1>8
<1> QED
  BY <1>9, <1>10 DEF c, l, ix, lix

\* A string is read from its first quote on.
LEMMA QuotedThen ==
    ASSUME NEW chars \in Text, NEW x \in Text
    PROVE  /\ Quoted(chars) ++ x = <<"'">> ++ (chars ++ (<<"'">> ++ x))
           /\ chars ++ (<<"'">> ++ x) \in Text
           /\ <<"'">> ++ x \in Text
<1> DEFINE q == <<"'">>
           qx == q ++ x
           qc == q ++ chars
<1>1. q \in Text
  BY PunctuationTyped DEF Punctuation
<1>2. Quoted(chars) = qc ++ q
  BY DEF Quoted, ++
<1> HIDE DEF q
<1>3. qx \in Text /\ qc \in Text
  BY <1>1, ThenTyped
<1>4. qc ++ qx = q ++ (chars ++ qx)
  BY <1>1, <1>3, ThenThen
<1>5. (qc ++ q) ++ x = qc ++ qx
  BY <1>1, <1>3, ThenThen
<1>6. chars ++ qx \in Text
  BY <1>3, ThenTyped
<1> QED
  BY <1>2, <1>3, <1>4, <1>5, <1>6 DEF q

\* Of the keys of a node, texts are those of the items joined until each, and
\* parts the items themselves.
Runs(node, keys, texts, parts) ==
    /\ texts[0] = <<>>
    /\ \A i \in 0 .. Len(KeyOrder(node)) : texts[i] \in Text
    /\ \A i \in 1 .. Len(KeyOrder(node)) :
           /\ KeyOrder(node)[i] \in keys =>
                  /\ parts[i] \in Text /\ Starts(parts[i], Inner)
                  /\ texts[i] = Joined(node, texts[i - 1], KeyOrder(node)[i], parts[i])
           /\ KeyOrder(node)[i] \notin keys => texts[i] = texts[i - 1]

\* What follows after the i-th key: nothing, or the next item there is.
Follows(node, keys, texts, parts, i, rest) ==
    /\ rest \in Text
    /\ texts[Len(KeyOrder(node))] = texts[i] ++ rest
    /\ \/ rest = <<>>
       \/ \E j \in i + 1 .. Len(KeyOrder(node)) :
              /\ KeyOrder(node)[j] \in keys
              /\ \E more \in Text :
                     rest = Comma(texts[i])
                                ++ (Label(node, KeyOrder(node)[j]) ++ (parts[j] ++ more))

\* From what follows a key, what follows the one before.
LEMMA FollowsBack ==
    ASSUME NEW node, NEW keys, NEW texts, NEW parts, Runs(node, keys, texts, parts),
           NEW i \in 0 .. Len(KeyOrder(node)) - 1, NEW rest,
           Follows(node, keys, texts, parts, i + 1, rest)
    PROVE  \E r : Follows(node, keys, texts, parts, i, r)
<1> DEFINE O == KeyOrder(node)
           L == Len(O)
<1>1. /\ L \in Nat
      /\ \A j \in 1 .. L : O[j] \in Characters
  BY OrderTyped
<1>2. i + 1 \in 1 .. L /\ i \in 0 .. L /\ (i + 1) - 1 = i /\ i + 1 \in i + 1 .. L
  BY <1>1
<1>3. texts[i] \in Text /\ rest \in Text
  BY <1>2 DEF Runs, Follows
<1>4. CASE O[i + 1] \notin keys
  <2>1. texts[i + 1] = texts[i]
    BY <1>2, <1>4 DEF Runs
  <2>2. \A j \in (i + 1) + 1 .. L : j \in i + 1 .. L
    BY <1>1, <1>2
  <2>3. Follows(node, keys, texts, parts, i, rest)
    BY <2>1, <2>2 DEF Follows
  <2> QED  BY <2>3
<1>5. CASE O[i + 1] \in keys
  <2> DEFINE r == Comma(texts[i]) ++ (Label(node, O[i + 1]) ++ (parts[i + 1] ++ rest))
  <2>1. parts[i + 1] \in Text /\ texts[i + 1] = Joined(node, texts[i], O[i + 1], parts[i + 1])
    BY <1>2, <1>5 DEF Runs
  <2>2. O[i + 1] \in Characters
    BY <1>1, <1>2
  <2>3. texts[i + 1] ++ rest = texts[i] ++ r /\ r \in Text
    BY <1>3, <2>1, <2>2, JoinedThen
  <2>4. texts[L] = texts[i + 1] ++ rest
    BY DEF Follows
  <2>5. Follows(node, keys, texts, parts, i, r)
    BY <1>2, <1>3, <1>5, <2>3, <2>4 DEF Follows
  <2> QED  BY <2>5
<1> QED  BY <1>4, <1>5

\* Something follows every key.
LEMMA FollowsAll ==
    ASSUME NEW node, NEW keys, NEW texts, NEW parts, Runs(node, keys, texts, parts),
           NEW i \in 0 .. Len(KeyOrder(node))
    PROVE  \E rest : Follows(node, keys, texts, parts, i, rest)
<1> DEFINE L == Len(KeyOrder(node))
           T == {d \in 0 .. L : \E rest : Follows(node, keys, texts, parts, L - d, rest)}
<1>1. L \in Nat
  BY OrderTyped
<1>2. 0 \in T
  <2>1. texts[L] \in Text
    <3>1. L \in 0 .. L
      BY <1>1
    <3> QED  BY <3>1 DEF Runs
  <2>2. texts[L] = texts[L] ++ <<>> /\ <<>> \in Text
    <3> DEFINE t == texts[L]
    <3> HIDE DEF t
    <3>1. t ++ <<>> = t
      BY <2>1, ThenEmpty DEF t
    <3> QED  BY <3>1, EmptyTyped DEF t
  <2>3. Follows(node, keys, texts, parts, L, <<>>)
    BY <2>2 DEF Follows
  <2>4. L - 0 = L /\ 0 \in 0 .. L
    BY <1>1
  <2> QED  BY <2>3, <2>4
<1>3. ASSUME NEW d \in 0 .. L - 1, d \in T PROVE d + 1 \in T
  <2>1. PICK rest : Follows(node, keys, texts, parts, L - d, rest)
    BY <1>3
  <2>2. L - (d + 1) \in 0 .. L - 1 /\ (L - (d + 1)) + 1 = L - d /\ d + 1 \in 0 .. L
    BY <1>1
  <2>3. \E r : Follows(node, keys, texts, parts, L - (d + 1), r)
    BY <2>1, <2>2, FollowsBack
  <2> QED  BY <2>2, <2>3
<1>4. 0 .. L \subseteq T
  <2> HIDE DEF T
  <2> QED  BY <1>1, <1>2, <1>3, UpTo
<1>5. L - i \in 0 .. L /\ L - (L - i) = i
  BY <1>1
<1>6. L - i \in T
  BY <1>4, <1>5
<1> QED
  BY <1>5, <1>6

\* The positions of an array have no gaps.
NoGaps(node, keys) ==
    node.kind = "array" => \A i \in 2 .. Len(KeyOrder(node)) :
        KeyOrder(node)[i] \in keys => KeyOrder(node)[i - 1] \in keys

\* An array with an item at j has one at every i before.
LEMMA NoneSkipped ==
    ASSUME NEW node, NEW keys, NoGaps(node, keys), node.kind = "array",
           NEW i \in 1 .. Len(KeyOrder(node)), NEW j \in i .. Len(KeyOrder(node)),
           KeyOrder(node)[j] \in keys
    PROVE  KeyOrder(node)[i] \in keys
<1> DEFINE O == KeyOrder(node)
           L == Len(O)
           T == {d \in 0 .. L - i : O[i + d] \in keys => O[i] \in keys}
<1>1. L \in Nat /\ L - i \in Nat
  BY OrderTyped
<1>2. 0 \in T
  BY <1>1
<1>3. ASSUME NEW d \in 0 .. (L - i) - 1, d \in T PROVE d + 1 \in T
  <2>1. d + 1 \in 0 .. L - i /\ i + (d + 1) \in 2 .. L /\ (i + (d + 1)) - 1 = i + d
    BY <1>1
  <2>2. O[i + (d + 1)] \in keys => O[i + d] \in keys
    BY <2>1 DEF NoGaps
  <2> QED  BY <1>3, <2>1, <2>2
<1>4. 0 .. L - i \subseteq T
  <2> HIDE DEF T
  <2> QED  BY <1>1, <1>2, <1>3, UpTo
<1>5. j - i \in 0 .. L - i /\ i + (j - i) = j
  BY <1>1
<1>6. j - i \in T
  BY <1>4, <1>5
<1> QED
  BY <1>5, <1>6

\* Labels that texts start with alike are of the same key.
LEMMA LabelsAgree ==
    ASSUME NEW node, node.kind # "array", NEW k \in Characters, NEW l \in Characters,
           NEW u \in Text, NEW w \in Text,
           Label(node, k) ++ u = Label(node, l) ++ w
    PROVE  k = l
<1> DEFINE cu == <<":">> ++ u
           cw == <<":">> ++ w
<1>1. /\ <<":">> \in Text /\ <<"'">> \in Text /\ "'" \in Characters
      /\ <<k>> \in Text /\ <<l>> \in Text
  BY PunctuationTyped, OneTyped, JsonAssumption DEF Punctuation
<1>2. cu \in Text /\ cw \in Text
  BY <1>1, ThenTyped
<1>3. Quoted(<<k>>) \in Text /\ Quoted(<<l>>) \in Text
  BY <1>1, QuotedTyped
<1>4. /\ Label(node, k) = Quoted(<<k>>) ++ <<":">>
      /\ Label(node, l) = Quoted(<<l>>) ++ <<":">>
  BY DEF Label, ++
<1>5. /\ Label(node, k) ++ u = Quoted(<<k>>) ++ cu
      /\ Label(node, l) ++ w = Quoted(<<l>>) ++ cw
  BY <1>1, <1>3, <1>4, ThenThen
<1> HIDE DEF cu, cw
<1>6. /\ Quoted(<<k>>) ++ cu = <<"'">> ++ (<<k>> ++ (<<"'">> ++ cu))
      /\ <<k>> ++ (<<"'">> ++ cu) \in Text /\ <<"'">> ++ cu \in Text
  BY <1>1, <1>2, QuotedThen
<1>7. /\ Quoted(<<l>>) ++ cw = <<"'">> ++ (<<l>> ++ (<<"'">> ++ cw))
      /\ <<l>> ++ (<<"'">> ++ cw) \in Text /\ <<"'">> ++ cw \in Text
  BY <1>1, <1>2, QuotedThen
<1> DEFINE q == <<"'">>
           ku == <<"'">> ++ cu
           lw == <<"'">> ++ cw
           kku == <<k>> ++ ku
           llw == <<l>> ++ lw
<1>8. kku = llw
  <2>1. q ++ kku = q ++ llw /\ q \in Text /\ kku \in Text /\ llw \in Text
    BY <1>1, <1>5, <1>6, <1>7
  <2> HIDE DEF q, kku, llw
  <2> QED  BY <2>1, ThenCancel
<1>9. ku \in Text /\ lw \in Text
  BY <1>6, <1>7
<1> HIDE DEF ku, lw
<1> QED
  BY <1>8, <1>9, ThenOne

\* What comes next does not close the node.
LEMMA LabelStarts ==
    ASSUME NEW node, node.kind # "array", NEW k \in Characters
    PROVE  Starts(Label(node, k), Inner)
<1>1. <<":">> \in Text /\ "'" \in Characters /\ <<k>> \in Text
  BY PunctuationTyped, OneTyped, JsonAssumption DEF Punctuation
<1>2. "'" \in Inner
  BY <1>1 DEF Inner, Closers
<1>3. <<"'">> \in Text /\ Starts(<<"'">>, Inner)
  BY <1>1, <1>2, StartsOne
<1>4. Label(node, k) = Quoted(<<k>>) ++ <<":">>
  BY DEF Label, ++
<1> DEFINE q == <<"'">>
           kq == <<k>> ++ (<<"'">> ++ <<":">>)
<1>5. q \in Text /\ Starts(q, Inner) /\ kq \in Text /\ Label(node, k) = q ++ kq
  BY <1>1, <1>3, <1>4, QuotedThen
<1> HIDE DEF q, kq
<1> QED  BY <1>5, ThenStarts

\* The next item starts with its comma, or as items do.
LEMMA NextStarts ==
    ASSUME NEW node, NEW items \in Text, NEW k \in Characters, NEW p \in Text,
           Starts(p, Inner), NEW z \in Text
    PROVE  LET next == Comma(items) ++ (Label(node, k) ++ (p ++ z)) IN
           /\ next \in Text
           /\ Starts(next, Inner)
           /\ items # <<>> => Starts(next, {","})
<1> DEFINE pz == p ++ z
           lpz == Label(node, k) ++ pz
           next == Comma(items) ++ lpz
<1>1. pz \in Text /\ Starts(pz, Inner)
  BY ThenTyped, ThenStarts
<1>2. Label(node, k) \in Text /\ Comma(items) \in Text
  BY PartsTyped
<1> HIDE DEF pz
<1>3. lpz \in Text
  BY <1>1, <1>2, ThenTyped
<1>4. Starts(lpz, Inner)
  <2>1. CASE node.kind = "array"
    <3>1. Label(node, k) = <<>>
      BY <2>1 DEF Label
    <3>2. <<>> ++ pz = pz
      BY <1>1, ThenEmpty
    <3> QED  BY <1>1, <3>1, <3>2
  <2>2. CASE node.kind # "array"
    BY <1>1, <1>2, <2>2, LabelStarts, ThenStarts
  <2> QED  BY <2>1, <2>2
<1> HIDE DEF lpz
<1>5. next \in Text
  BY <1>2, <1>3, ThenTyped
<1>6. CASE items = <<>>
  <2>1. Comma(items) = <<>>
    BY <1>6 DEF Comma
  <2>2. <<>> ++ lpz = lpz
    BY <1>3, ThenEmpty
  <2>3. next = lpz
    BY <2>1, <2>2
  <2> QED  BY <1>4, <1>5, <1>6, <2>3 DEF lpz, pz
<1>7. CASE items # <<>>
  <2>1. Comma(items) = <<",">>
    BY <1>7 DEF Comma
  <2>2. "," \in Characters /\ "," \in Inner /\ "," \in {","}
    BY JsonAssumption DEF Punctuation, Inner, Closers
  <2>3. Starts(Comma(items), {","}) /\ Starts(Comma(items), Inner)
    BY <2>1, <2>2, StartsOne
  <2>4. Starts(next, {","}) /\ Starts(next, Inner)
    BY <1>2, <1>3, <2>3, ThenStarts
  <2> QED  BY <1>5, <2>4 DEF lpz, pz
<1> QED
  BY <1>6, <1>7

\* After an item, a number has ended.
LEMMA FollowsStops ==
    ASSUME NEW node, NEW keys, NEW texts, NEW parts, Runs(node, keys, texts, parts),
           NEW i \in 0 .. Len(KeyOrder(node)), texts[i] # <<>>, NEW x \in Text,
           NEW rest, Follows(node, keys, texts, parts, i, rest)
    PROVE  /\ rest ++ (Closing(node) ++ x) \in Text
           /\ Stops(Bare, rest ++ (Closing(node) ++ x))
<1> DEFINE O == KeyOrder(node)
           L == Len(O)
           c == Closing(node)
           cx == c ++ x
           t == texts[i]
<1>1. L \in Nat /\ \A j \in 1 .. L : O[j] \in Characters
  BY OrderTyped
<1>2. c \in Text /\ Starts(c, Closers)
  BY BracketsTyped
<1> HIDE DEF c
<1>3. cx \in Text /\ Starts(cx, Closers)
  BY <1>2, ThenTyped, ThenStarts
<1>4. t \in Text /\ rest \in Text
  BY DEF Runs, Follows
<1> HIDE DEF cx
<1>5. rest ++ cx \in Text
  BY <1>3, <1>4, ThenTyped
<1>6. CASE rest = <<>>
  <2>1. <<>> ++ cx = cx
    BY <1>3, ThenEmpty
  <2>2. rest ++ cx = cx
    BY <1>6, <2>1
  <2>3. Stops(Bare, cx)
    BY <1>3, StartsApart
  <2> QED  BY <1>5, <2>2, <2>3 DEF cx, c
<1>7. ASSUME NEW j \in i + 1 .. L, O[j] \in keys, NEW more \in Text,
             rest = Comma(t) ++ (Label(node, O[j]) ++ (parts[j] ++ more))
      PROVE  Stops(Bare, rest ++ cx)
  <2> DEFINE k == O[j]
             p == parts[j]
  <2>1. j \in 1 .. L
    BY <1>1
  <2>2. p \in Text /\ Starts(p, Inner)
    BY <1>7, <2>1 DEF Runs
  <2>3. k \in Characters
    BY <1>1, <2>1
  <2>4. t # <<>>
    OBVIOUS
  <2>5. rest = Comma(t) ++ (Label(node, k) ++ (p ++ more))
    BY <1>7
  <2> HIDE DEF k, p, t
  <2>6. Starts(rest, {","})
    BY <1>4, <2>2, <2>3, <2>4, <2>5, NextStarts
  <2>7. Starts(rest ++ cx, {","})
    BY <1>3, <1>4, <2>6, ThenStarts
  <2> QED  BY <2>7, CommaStops
<1>8. Stops(Bare, rest ++ cx)
  <2>1. CASE rest = <<>>
    BY <1>6, <2>1 DEF cx, c
  <2>2. CASE rest # <<>>
    <3>1. PICK j \in i + 1 .. L :
              /\ O[j] \in keys
              /\ \E more \in Text :
                    rest = Comma(t) ++ (Label(node, O[j]) ++ (parts[j] ++ more))
      BY <2>2 DEF Follows
    <3>2. PICK more \in Text :
              rest = Comma(t) ++ (Label(node, O[j]) ++ (parts[j] ++ more))
      BY <3>1
    <3> QED  BY <1>7, <3>1, <3>2
  <2> QED  BY <2>1, <2>2
<1> QED
  BY <1>5, <1>8 DEF cx, c

\* The text of a node from the i-th key on, if the node has it.
LEMMA FromKey ==
    ASSUME NEW node, NEW keys, NEW texts, NEW parts, Runs(node, keys, texts, parts),
           NEW i \in 0 .. Len(KeyOrder(node)) - 1, KeyOrder(node)[i + 1] \in keys,
           NEW x \in Text
    PROVE  \E z \in Text :
               /\ Stops(Bare, z)
               /\ parts[i + 1] ++ z \in Text
               /\ Label(node, KeyOrder(node)[i + 1]) ++ (parts[i + 1] ++ z) \in Text
               /\ Comma(texts[i])
                      ++ (Label(node, KeyOrder(node)[i + 1]) ++ (parts[i + 1] ++ z)) \in Text
               /\ texts[Len(KeyOrder(node))] ++ (Closing(node) ++ x) =
                      texts[i] ++ (Comma(texts[i])
                          ++ (Label(node, KeyOrder(node)[i + 1]) ++ (parts[i + 1] ++ z)))
<1> DEFINE O == KeyOrder(node)
           L == Len(O)
           k == O[i + 1]
           p == parts[i + 1]
           t == texts[i]
           u == texts[i + 1]
           cx == Closing(node) ++ x
<1>1. /\ L \in Nat /\ \A j \in 1 .. L : O[j] \in Characters
      /\ i + 1 \in 1 .. L /\ i \in 0 .. L /\ (i + 1) - 1 = i /\ i + 1 \in 0 .. L
  BY OrderTyped
<1>2. k \in Characters
  BY <1>1
<1>3. /\ t \in Text /\ p \in Text /\ Starts(p, Inner) /\ u \in Text
      /\ u = Joined(node, t, k, p)
  BY <1>1 DEF Runs
<1>4. PICK rest : Follows(node, keys, texts, parts, i + 1, rest)
  BY <1>1, FollowsAll
<1> DEFINE z == rest ++ cx
<1>5. u # <<>>
  <2> HIDE DEF k, p, t, u
  <2> DEFINE s == (t \o Comma(t)) \o Label(node, k)
  <2>1. Comma(t) \in Text /\ Label(node, k) \in Text
    BY <1>2, <1>3, PartsTyped
  <2>2. t \o Comma(t) \in Text
    BY <1>3, <2>1, CatTyped
  <2>3. s \in Text
    BY <2>1, <2>2, CatTyped
  <2>4. u = s ++ p
    BY <1>2, <1>3, JoinedTyped DEF ++
  <2> HIDE DEF s
  <2>5. p # <<>>
    BY <1>3 DEF Starts
  <2> QED  BY <1>3, <2>3, <2>4, <2>5, ThenEnds
<1>6. z \in Text /\ Stops(Bare, z)
  BY <1>1, <1>4, <1>5, FollowsStops
<1>7. rest \in Text /\ texts[L] = u ++ rest
  BY <1>4 DEF Follows
<1>8. Closing(node) \in Text
  BY BracketsTyped
<1>9. cx \in Text
  BY <1>8, ThenTyped
<1>10. texts[L] ++ cx = u ++ z
  <2> HIDE DEF cx, L, u
  <2> QED  BY <1>3, <1>7, <1>9, ThenThen
<1> HIDE DEF z, k, p, t, u
<1>11. /\ Joined(node, t, k, p) ++ z = t ++ (Comma(t) ++ (Label(node, k) ++ (p ++ z)))
       /\ p ++ z \in Text
       /\ Label(node, k) ++ (p ++ z) \in Text
       /\ Comma(t) ++ (Label(node, k) ++ (p ++ z)) \in Text
  BY <1>2, <1>3, <1>6, JoinedThen
<1>12. texts[L] ++ cx = t ++ (Comma(t) ++ (Label(node, k) ++ (p ++ z)))
  BY <1>3, <1>10, <1>11
<1> QED
  BY <1>6, <1>11, <1>12 DEF k, p, t

\* Texts that go on in the same way have the next key in common.
LEMMA NoSkip ==
    ASSUME NEW node, NEW keys1, NEW keys2, NEW texts1, NEW texts2, NEW parts1, NEW parts2,
           Runs(node, keys1, texts1, parts1), Runs(node, keys2, texts2, parts2),
           NoGaps(node, keys2), NEW i \in 0 .. Len(KeyOrder(node)) - 1,
           texts1[i] = texts2[i], KeyOrder(node)[i + 1] \in keys1,
           NEW x \in Text, NEW y \in Text,
           texts1[Len(KeyOrder(node))] ++ (Closing(node) ++ x) =
               texts2[Len(KeyOrder(node))] ++ (Closing(node) ++ y)
    PROVE  KeyOrder(node)[i + 1] \in keys2
<1> SUFFICES ASSUME KeyOrder(node)[i + 1] \notin keys2 PROVE FALSE
  OBVIOUS
<1> DEFINE O == KeyOrder(node)
           L == Len(O)
           k == O[i + 1]
           p == parts1[i + 1]
           t == texts1[i]
           cy == Closing(node) ++ y
<1>1. /\ L \in Nat /\ \A j \in 1 .. L : O[j] \in Characters
      /\ i + 1 \in 1 .. L /\ i \in 0 .. L
      /\ \A j, l \in 1 .. L : O[j] = O[l] => j = l
  BY OrderTyped
<1>2. k \in Characters /\ t \in Text
      /\ p \in Text /\ Starts(p, Inner)
  BY <1>1 DEF Runs
<1>3. PICK z \in Text :
          /\ p ++ z \in Text
          /\ Label(node, k) ++ (p ++ z) \in Text
          /\ Comma(t) ++ (Label(node, k) ++ (p ++ z)) \in Text
          /\ texts1[L] ++ (Closing(node) ++ x) = t ++ (Comma(t) ++ (Label(node, k) ++ (p ++ z)))
  BY FromKey
<1>4. PICK rest : Follows(node, keys2, texts2, parts2, i, rest)
  BY <1>1, FollowsAll
<1>5. rest \in Text /\ texts2[L] = t ++ rest
  BY <1>4 DEF Follows
<1>6. Closing(node) \in Text /\ Starts(Closing(node), Closers)
  BY BracketsTyped
<1>7. cy \in Text /\ Starts(cy, Closers)
  BY <1>6, ThenTyped, ThenStarts
<1> DEFINE next == Comma(t) ++ (Label(node, k) ++ (p ++ z))
<1>8. next = rest ++ cy
  <2>1. texts2[L] ++ cy = t ++ (rest ++ cy) /\ rest ++ cy \in Text
    <3> HIDE DEF cy, t, L
    <3> QED  BY <1>2, <1>5, <1>7, ThenThen, ThenTyped
  <2>2. texts1[L] ++ (Closing(node) ++ x) = texts2[L] ++ cy
    OBVIOUS
  <2>3. t ++ next = t ++ (rest ++ cy) /\ next \in Text
    <3> HIDE DEF t, k, p, cy, L
    <3> QED  BY <1>3, <2>1, <2>2
  <2> HIDE DEF t, next, cy
  <2> QED  BY <1>2, <2>1, <2>3, ThenCancel
<1>9. Starts(next, Inner)
  <2> HIDE DEF t, k, p
  <2> QED  BY <1>2, NextStarts
<1>10. rest # <<>>
  <2> SUFFICES ASSUME rest = <<>> PROVE FALSE
    OBVIOUS
  <2>1. <<>> ++ cy = cy
    <3> HIDE DEF cy
    <3> QED  BY <1>7, ThenEmpty
  <2>2. next = cy
    <3> HIDE DEF next, cy
    <3> QED  BY <1>8, <2>1
  <2> HIDE DEF next, cy
  <2> QED  BY <1>7, <1>9, <2>2, StartsApart
<1>11. PICK j \in i + 1 .. L :
           /\ O[j] \in keys2
           /\ \E more \in Text :
                  rest = Comma(t) ++ (Label(node, O[j]) ++ (parts2[j] ++ more))
  BY <1>4, <1>10 DEF Follows
<1>12. PICK more \in Text :
           rest = Comma(t) ++ (Label(node, O[j]) ++ (parts2[j] ++ more))
  BY <1>11
<1>13. j \in 1 .. L /\ j # i + 1
  BY <1>1, <1>11
<1>14. CASE node.kind = "array"
  BY <1>1, <1>11, <1>14, NoneSkipped
<1>15. CASE node.kind # "array"
  <2> DEFINE m == parts2[j] ++ more
             lm == Label(node, O[j]) ++ m
             lp == Label(node, k) ++ (p ++ z)
  <2>1. parts2[j] \in Text /\ O[j] \in Characters
    BY <1>1, <1>11, <1>13 DEF Runs
  <2>2. Label(node, O[j]) \in Text /\ Comma(t) \in Text
    BY <1>2, <2>1, PartsTyped
  <2>3. m \in Text
    BY <2>1, ThenTyped
  <2> HIDE DEF m, cy, k, p, t, L
  <2>4. lm \in Text /\ m ++ cy \in Text
    BY <1>7, <2>2, <2>3, ThenTyped
  <2>5. lm ++ cy = Label(node, O[j]) ++ (m ++ cy)
    BY <1>7, <2>2, <2>3, ThenThen
  <2>6. rest = Comma(t) ++ lm
    BY <1>12 DEF m, t
  <2> HIDE DEF lm, O
  <2>7. rest ++ cy = Comma(t) ++ (lm ++ cy) /\ lm ++ cy \in Text
    BY <1>7, <2>2, <2>4, <2>6, ThenThen, ThenTyped
  <2>8. Comma(t) ++ lp = Comma(t) ++ (lm ++ cy) /\ lp \in Text
    BY <1>3, <1>8, <2>7
  <2>9. lp = lm ++ cy
    <3> HIDE DEF lp
    <3> QED  BY <2>2, <2>7, <2>8, ThenCancel
  <2>10. k = O[j]
    <3>1. p ++ z \in Text
      BY <1>3
    <3>2. Label(node, k) ++ (p ++ z) = Label(node, O[j]) ++ (m ++ cy)
      BY <2>5, <2>9
    <3> QED  BY <1>2, <1>15, <2>1, <2>4, <3>1, <3>2, LabelsAgree
  <2> QED  BY <1>1, <1>13, <2>10 DEF k, O, L
<1> QED
  BY <1>14, <1>15

\* Items whose texts, whatever follows them, come apart in one way only: only
\* if i is in same.
Readable(part1, part2, i, same) ==
    \A x, y \in Text :
        Stops(Bare, x) /\ Stops(Bare, y) /\ part1 ++ x = part2 ++ y
            => i \in same /\ part1 = part2

\* Two texts of items that go on alike have the next item in common, if they
\* have any, and it is in same.
LEMMA ParseKey ==
    ASSUME NEW node, NEW keys1, NEW keys2, NEW texts1, NEW texts2, NEW parts1, NEW parts2,
           Runs(node, keys1, texts1, parts1), Runs(node, keys2, texts2, parts2),
           NoGaps(node, keys1), NoGaps(node, keys2),
           NEW i \in 0 .. Len(KeyOrder(node)) - 1, texts1[i] = texts2[i],
           NEW x \in Text, NEW y \in Text,
           texts1[Len(KeyOrder(node))] ++ (Closing(node) ++ x) =
               texts2[Len(KeyOrder(node))] ++ (Closing(node) ++ y),
           NEW same,
           KeyOrder(node)[i + 1] \in keys1 \cap keys2
               => Readable(parts1[i + 1], parts2[i + 1], i + 1, same)
    PROVE  /\ KeyOrder(node)[i + 1] \in keys1 <=> KeyOrder(node)[i + 1] \in keys2
           /\ KeyOrder(node)[i + 1] \in keys1 => i + 1 \in same
           /\ texts1[i + 1] = texts2[i + 1]
<1> DEFINE O == KeyOrder(node)
           L == Len(O)
           k == O[i + 1]
           t == texts1[i]
           p1 == parts1[i + 1]
           p2 == parts2[i + 1]
<1>1. k \in keys1 => k \in keys2
  BY NoSkip
<1>2. k \in keys2 => k \in keys1
  BY NoSkip
<1>3. i + 1 \in 1 .. L /\ (i + 1) - 1 = i /\ k \in Characters /\ i \in 0 .. L
  BY OrderTyped
<1>4. CASE k \notin keys1
  <2>1. texts1[i + 1] = texts1[i] /\ texts2[i + 1] = texts2[i]
    BY <1>2, <1>3, <1>4 DEF Runs
  <2> QED  BY <1>1, <1>2, <1>4, <2>1
<1>5. CASE k \in keys1
  <2>1. k \in keys2
    BY <1>1, <1>5
  <2>2. PICK z1 \in Text :
            /\ Stops(Bare, z1)
            /\ p1 ++ z1 \in Text
            /\ Label(node, k) ++ (p1 ++ z1) \in Text
            /\ Comma(t) ++ (Label(node, k) ++ (p1 ++ z1)) \in Text
            /\ texts1[L] ++ (Closing(node) ++ x) =
                   t ++ (Comma(t) ++ (Label(node, k) ++ (p1 ++ z1)))
    BY <1>5, FromKey
  <2>3. PICK z2 \in Text :
            /\ Stops(Bare, z2)
            /\ p2 ++ z2 \in Text
            /\ Label(node, k) ++ (p2 ++ z2) \in Text
            /\ Comma(t) ++ (Label(node, k) ++ (p2 ++ z2)) \in Text
            /\ texts2[L] ++ (Closing(node) ++ y) =
                   t ++ (Comma(t) ++ (Label(node, k) ++ (p2 ++ z2)))
    BY <2>1, FromKey
  <2>4. t \in Text
    BY <1>3 DEF Runs
  <2> DEFINE pz1 == p1 ++ z1
             pz2 == p2 ++ z2
             l1 == Label(node, k) ++ pz1
             l2 == Label(node, k) ++ pz2
             c1 == Comma(t) ++ l1
             c2 == Comma(t) ++ l2
  <2>5. t ++ c1 = t ++ c2 /\ c1 \in Text /\ c2 \in Text /\ l1 \in Text /\ l2 \in Text
        /\ pz1 \in Text /\ pz2 \in Text
    BY <2>2, <2>3
  <2>6. Comma(t) \in Text /\ Label(node, k) \in Text
    BY <1>3, <2>4, PartsTyped
  <2>7. c1 = c2
    <3> HIDE DEF t, c1, c2
    <3> QED  BY <2>4, <2>5, ThenCancel
  <2>8. l1 = l2
    <3> HIDE DEF t, l1, l2
    <3> QED  BY <2>5, <2>6, <2>7, ThenCancel
  <2>9. pz1 = pz2
    <3> HIDE DEF k, pz1, pz2
    <3> QED  BY <2>5, <2>6, <2>8, ThenCancel
  <2>10. i + 1 \in same /\ p1 = p2
    <3>1. Readable(p1, p2, i + 1, same)
      BY <1>5, <2>1
    <3>2. Stops(Bare, z1) /\ Stops(Bare, z2) /\ p1 ++ z1 = p2 ++ z2
      BY <2>2, <2>3, <2>9
    <3> HIDE DEF p1, p2
    <3> QED  BY <3>1, <3>2 DEF Readable
  <2>11. /\ texts1[i + 1] = Joined(node, texts1[i], k, p1)
         /\ texts2[i + 1] = Joined(node, texts2[i], k, p2)
    BY <1>3, <1>5, <2>1 DEF Runs
  <2>12. texts1[i + 1] = texts2[i + 1]
    BY <2>10, <2>11
  <2> QED  BY <1>5, <2>1, <2>10, <2>12
<1> QED
  BY <1>4, <1>5

AllReadable(node, keys1, keys2, parts1, parts2, same) ==
    \A i \in 1 .. Len(KeyOrder(node)) :
        KeyOrder(node)[i] \in keys1 \cap keys2 => Readable(parts1[i], parts2[i], i, same)

\* They have the same keys, and only what is in same.
AllAlike(node, keys1, keys2, same) ==
    \A i \in 1 .. Len(KeyOrder(node)) :
        /\ KeyOrder(node)[i] \in keys1 <=> KeyOrder(node)[i] \in keys2
        /\ KeyOrder(node)[i] \in keys1 => i \in same

\* Key by key, what starts with the text of a node is the text of that node.
LEMMA ParseNode ==
    ASSUME NEW node, NEW keys1, NEW keys2, NEW texts1, NEW texts2, NEW parts1, NEW parts2,
           Runs(node, keys1, texts1, parts1), Runs(node, keys2, texts2, parts2),
           NoGaps(node, keys1), NoGaps(node, keys2),
           NEW x \in Text, NEW y \in Text,
           texts1[Len(KeyOrder(node))] ++ (Closing(node) ++ x) =
               texts2[Len(KeyOrder(node))] ++ (Closing(node) ++ y),
           NEW same,
           AllReadable(node, keys1, keys2, parts1, parts2, same)
    PROVE  AllAlike(node, keys1, keys2, same) /\ x = y
<1> DEFINE O == KeyOrder(node)
           L == Len(O)
           Alike(i) == /\ O[i] \in keys1 <=> O[i] \in keys2
                       /\ O[i] \in keys1 => i \in same
           T == {i \in 0 .. L : texts1[i] = texts2[i] /\ \A j \in 1 .. i : Alike(j)}
<1>1. L \in Nat
  BY OrderTyped
<1>2. 0 \in T
  <2>1. texts1[0] = texts2[0]
    BY DEF Runs
  <2>2. 0 \in 0 .. L /\ \A j \in 1 .. 0 : FALSE
    BY <1>1
  <2> QED  BY <2>1, <2>2
<1>3. ASSUME NEW i \in 0 .. L - 1, i \in T PROVE i + 1 \in T
  <2>1. i + 1 \in 1 .. L /\ i + 1 \in 0 .. L
    BY <1>1
  <2>2. texts1[i] = texts2[i] /\ \A j \in 1 .. i : Alike(j)
    BY <1>3
  <2>3. O[i + 1] \in keys1 \cap keys2 => Readable(parts1[i + 1], parts2[i + 1], i + 1, same)
    BY <2>1 DEF AllReadable
  <2>4. Alike(i + 1) /\ texts1[i + 1] = texts2[i + 1]
    BY <2>2, <2>3, ParseKey
  <2>5. \A j \in 1 .. i + 1 : j \in 1 .. i \/ j = i + 1
    BY <1>1
  <2>6. \A j \in 1 .. i + 1 : Alike(j)
    <3> HIDE DEF Alike
    <3> QED  BY <2>2, <2>4, <2>5
  <2> QED  BY <2>1, <2>4, <2>6
<1>4. L \in T
  <2>1. 0 .. L \subseteq T
    <3> HIDE DEF T
    <3> QED  BY <1>1, <1>2, <1>3, UpTo
  <2>2. L \in 0 .. L
    BY <1>1
  <2> HIDE DEF T
  <2> QED  BY <2>1, <2>2
<1>5. x = y
  <2> DEFINE t == texts1[L]
             c == Closing(node)
             cx == c ++ x
             cy == c ++ y
  <2>1. t \in Text
    <3>1. L \in 0 .. L
      BY <1>1
    <3> QED  BY <3>1 DEF Runs
  <2>2. t ++ cx = t ++ cy
    BY <1>4
  <2>3. c \in Text
    BY BracketsTyped
  <2>4. cx \in Text /\ cy \in Text
    <3> HIDE DEF c
    <3> QED  BY <2>3, ThenTyped
  <2>5. cx = cy
    <3> HIDE DEF t, cx, cy
    <3> QED  BY <2>1, <2>2, <2>4, ThenCancel
  <2> HIDE DEF c
  <2> QED  BY <2>3, <2>5, ThenCancel
<1> QED
  BY <1>4, <1>5 DEF AllAlike

-----------------------------------------------------------------------------
\* What the serializer writes is such a text.

\* Everything serialized is the start of a value.
Proper(inside) ==
    \A call \in Calls : inside[call] # None =>
        inside[call].text \in Text /\ Starts(inside[call].text, Inner)

TextsOf(node, inside, seen) ==
    [i \in 0 .. Len(KeyOrder(node)) |-> Items(node, inside, seen)[i].text]

\* What is asked for the i-th key.
CallOf(node, inside, seen, i) ==
    <<node.at[KeyOrder(node)[i]], Items(node, inside, seen)[i - 1].seen>>

PartsOf(node, inside, seen) ==
    [i \in 1 .. Len(KeyOrder(node)) |-> inside[CallOf(node, inside, seen, i)].text]

\* One item refused, all are.
LEMMA ItemsAllThere ==
    ASSUME NEW node, NodeFits(node), NEW inside \in Insides, NEW seen \in SUBSET Nodes,
           Items(node, inside, seen)[Len(KeyOrder(node))] # None,
           NEW i \in 0 .. Len(KeyOrder(node))
    PROVE  Items(node, inside, seen)[i] \in Serialization /\ Items(node, inside, seen)[i] # None
<1> DEFINE L == Len(KeyOrder(node))
           items == Items(node, inside, seen)
           T == {d \in 0 .. L : items[L - d] # None}
<1>1. /\ L \in Nat
      /\ \A j \in 1 .. L : items[j] = NextItems(node, inside, items[j - 1], j)
      /\ \A j \in 0 .. L : items[j] \in Result
  BY OrderTyped, ItemsStepwise
<1> HIDE DEF items, L
<1>2. 0 \in T
  <2>1. 0 \in 0 .. L /\ L - 0 = L
    BY <1>1
  <2>2. items[L] # None
    BY DEF items, L
  <2> QED  BY <2>1, <2>2
<1>3. ASSUME NEW d \in 0 .. L - 1, d \in T PROVE d + 1 \in T
  <2> DEFINE j == L - d
  <2>1. j \in 1 .. L /\ j - 1 = L - (d + 1) /\ d + 1 \in 0 .. L
    BY <1>1
  <2>2. items[j] # None
    BY <1>3
  <2> HIDE DEF j
  <2>3. items[j] = NextItems(node, inside, items[j - 1], j)
    BY <1>1, <2>1
  <2>4. items[j - 1] # None
    BY <2>2, <2>3 DEF NextItems, WithItem
  <2> QED  BY <2>1, <2>4
<1>4. 0 .. L \subseteq T
  <2> HIDE DEF T
  <2> QED  BY <1>1, <1>2, <1>3, UpTo
<1>5. i \in 0 .. L /\ L - i \in 0 .. L /\ L - (L - i) = i
  BY <1>1 DEF L
<1>6. L - i \in T
  BY <1>4, <1>5
<1>7. items[i] # None /\ items[i] \in Result
  BY <1>1, <1>5, <1>6
<1> QED
  BY <1>7 DEF Result, items

\* The items that are serialized are such a run.
LEMMA ItemsRun ==
    ASSUME NEW node, NodeFits(node), NEW inside \in Insides, Proper(inside),
           NEW seen \in SUBSET Nodes,
           Items(node, inside, seen)[Len(KeyOrder(node))] # None
    PROVE  /\ Runs(node, DOMAIN node.at, TextsOf(node, inside, seen),
                   PartsOf(node, inside, seen))
           /\ TextsOf(node, inside, seen)[Len(KeyOrder(node))] =
                  Items(node, inside, seen)[Len(KeyOrder(node))].text
           /\ \A i \in 1 .. Len(KeyOrder(node)) :
                  KeyOrder(node)[i] \in DOMAIN node.at =>
                      LET call == CallOf(node, inside, seen, i) IN
                      /\ call \in Calls
                      /\ call[1] = node.at[KeyOrder(node)[i]]
                      /\ inside[call] # None
                      /\ PartsOf(node, inside, seen)[i] = inside[call].text
<1> DEFINE O == KeyOrder(node)
           L == Len(O)
           items == Items(node, inside, seen)
           texts == TextsOf(node, inside, seen)
           parts == PartsOf(node, inside, seen)
           C(i) == CallOf(node, inside, seen, i)
<1>1. /\ L \in Nat
      /\ items[0] = NoItems(seen)
      /\ \A j \in 1 .. L : items[j] = NextItems(node, inside, items[j - 1], j)
  BY OrderTyped, ItemsStepwise
<1>2. \A j \in 0 .. L : items[j] \in Serialization /\ items[j] # None
  BY ItemsAllThere
<1>3. \A j \in 0 .. L : texts[j] = items[j].text /\ texts[j] \in Text
  BY <1>2 DEF TextsOf, Serialization, Text
<1>4. texts[0] = <<>>
  <2>1. 0 \in 0 .. L
    BY <1>1
  <2> QED  BY <1>1, <1>3, <2>1 DEF NoItems
<1>5. \A i \in 1 .. L : parts[i] = inside[C(i)].text
  BY DEF PartsOf
<1>6. ASSUME NEW i \in 1 .. L, O[i] \in DOMAIN node.at
      PROVE  /\ C(i) \in Calls
             /\ C(i)[1] = node.at[O[i]]
             /\ inside[C(i)] # None
             /\ parts[i] \in Text /\ Starts(parts[i], Inner)
             /\ texts[i] = Joined(node, texts[i - 1], O[i], parts[i])
  <2> DEFINE state == items[i - 1]
             item == inside[C(i)]
  <2>1. i \in 0 .. L /\ i - 1 \in 0 .. L
    BY <1>1
  <2>2. state \in Serialization /\ state # None /\ items[i] # None
    BY <1>2, <2>1
  <2>3. C(i) = <<node.at[O[i]], state.seen>>
    BY DEF CallOf
  <2>4. items[i] = WithItem(node, inside, state, O[i])
    BY <1>1, <1>6 DEF NextItems
  <2>5. C(i) \in Calls /\ C(i)[1] = node.at[O[i]]
    <3>1. state.seen \in SUBSET Nodes
      BY <2>2 DEF Serialization
    <3>2. node.at[O[i]] \in JsValue
      BY <1>6 DEF NodeFits
    <3> HIDE DEF state, C, O
    <3> QED  BY <2>3, <3>1, <3>2 DEF Calls
  <2> HIDE DEF state, items, C
  <2>6. item # None
    BY <2>2, <2>3, <2>4 DEF WithItem
  <2>7. items[i] = [text |-> Joined(node, state.text, O[i], item.text), seen |-> item.seen]
    BY <2>2, <2>3, <2>4, <2>6 DEF WithItem
  <2>8. items[i].text = Joined(node, state.text, O[i], item.text)
    BY <2>7
  <2>9. texts[i - 1] = state.text /\ texts[i] = items[i].text
    BY <1>3, <2>1 DEF state
  <2>10. parts[i] = item.text
    BY <1>5
  <2>11. item.text \in Text /\ Starts(item.text, Inner)
    BY <2>5, <2>6 DEF Proper
  <2> HIDE DEF item, texts, parts, O
  <2>12. texts[i] = Joined(node, texts[i - 1], O[i], parts[i])
    BY <2>8, <2>9, <2>10
  <2> QED  BY <2>5, <2>6, <2>10, <2>11, <2>12 DEF item
<1>7. ASSUME NEW i \in 1 .. L, O[i] \notin DOMAIN node.at PROVE texts[i] = texts[i - 1]
  <2>1. i \in 0 .. L /\ i - 1 \in 0 .. L
    BY <1>1
  <2>2. items[i] = items[i - 1]
    BY <1>1, <1>7 DEF NextItems
  <2> QED  BY <1>3, <2>1, <2>2
<1>8. Runs(node, DOMAIN node.at, texts, parts)
  <2> HIDE DEF texts, parts
  <2> QED  BY <1>3, <1>4, <1>6, <1>7 DEF Runs
<1>9. texts[L] = items[L].text
  <2>1. L \in 0 .. L
    BY <1>1
  <2> QED  BY <1>3, <2>1
<1> HIDE DEF texts, parts, C
<1> QED
  BY <1>5, <1>6, <1>8, <1>9 DEF texts, parts, C

\* The forms that a serialized value has.
LEMMA SerializedAs ==
    ASSUME NEW heap \in Heap, NEW inside \in Insides, NEW call \in Calls,
           Deeper(heap, inside)[call] # None
    PROVE  LET v == call[1]
               r == Deeper(heap, inside)[call]
               node == heap[v.chars]
               more == call[2] \cup {v.chars}
               items == Items(node, inside, more)[Len(KeyOrder(node))]
           IN  /\ v \in JsValue /\ r.text \in Text
               /\ \/ v.type = "string" /\ r.text = Quoted(v.chars)
                  \/ v.type = "number" /\ r.text = v.chars
                  \/ /\ v.type = "reference" /\ node.kind \in {"array", "object"}
                     /\ NodeFits(node) /\ more \in SUBSET Nodes
                     /\ items # None
                     /\ r.text = Bracketed(node, items.text)
<1> DEFINE v == call[1]
           r == Deeper(heap, inside)[call]
           node == heap[v.chars]
           more == call[2] \cup {v.chars}
           items == Items(node, inside, more)[Len(KeyOrder(node))]
<1>1. v \in JsValue /\ call[2] \in SUBSET Nodes
  BY DEF Calls
<1>2. r = Serialize(heap, inside, v, call[2])
  BY DEF Deeper
<1>3. r.text \in Text
  <2>1. r \in Result /\ r # None
    BY DeeperTyped DEF Insides
  <2> QED  BY <2>1 DEF Result, Serialization, Text
<1>4. v.type # "unsupported"
  BY <1>2 DEF Serialize
<1>5. CASE v.type = "string"
  <2>1. r = [text |-> Quoted(v.chars), seen |-> call[2]]
    BY <1>2, <1>5 DEF Serialize
  <2>2. r.text = Quoted(v.chars)
    BY <2>1
  <2> QED  BY <1>1, <1>3, <1>5, <2>2
<1>6. CASE v.type = "number"
  <2>1. r = [text |-> v.chars, seen |-> call[2]]
    BY <1>2, <1>6 DEF Serialize
  <2>2. r.text = v.chars
    BY <2>1
  <2> QED  BY <1>1, <1>3, <1>6, <2>2
<1>7. CASE v.type = "reference"
  <2>1. v.chars \in Nodes
    BY <1>1, <1>7, ValueKinds
  <2>2. NodeFits(node) /\ more \in SUBSET Nodes
    BY <1>1, <2>1, NodeTyped
  <2>3. r = SerializeNode(heap, inside, v.chars, call[2])
    BY <1>2, <1>7 DEF Serialize
  <2>4. v.chars \notin call[2] /\ node.kind # "exotic"
    BY <2>3 DEF SerializeNode
  <2>5. r = IF items = None THEN None
            ELSE [text |-> Bracketed(node, items.text), seen |-> items.seen]
    BY <2>3, <2>4 DEF SerializeNode
  <2>6. items # None /\ r.text = Bracketed(node, items.text)
    <3> HIDE DEF items, node
    <3>1. items # None
      BY <2>5
    <3>2. r = [text |-> Bracketed(node, items.text), seen |-> items.seen]
      BY <2>5, <3>1
    <3> QED  BY <3>1, <3>2
  <2>7. node.kind \in {"array", "object"}
    BY <2>2, <2>4 DEF NodeFits
  <2> HIDE DEF items, node, more, r
  <2> QED  BY <1>1, <1>3, <1>7, <2>2, <2>6, <2>7 DEF items, node, more, r
<1> QED
  BY <1>1, <1>4, <1>5, <1>6, <1>7, ValueKinds

\* How its text starts says what a value is.
FirstOf(heap, v) ==
    CASE v.type = "string" -> {"'"}
      [] v.type = "number" -> Bare
      [] v.type = "reference" ->
             IF heap[v.chars].kind = "array" THEN {"["} ELSE {"{"}

\* What is serialized starts as its value does.
LEMMA SerializedStarts ==
    ASSUME NEW heap \in Heap, NEW inside \in Insides, NEW call \in Calls,
           Deeper(heap, inside)[call] # None
    PROVE  Starts(Deeper(heap, inside)[call].text, FirstOf(heap, call[1]))
<1> DEFINE v == call[1]
           r == Deeper(heap, inside)[call]
           node == heap[v.chars]
           more == call[2] \cup {v.chars}
           items == Items(node, inside, more)[Len(KeyOrder(node))]
<1>1. /\ v \in JsValue /\ r.text \in Text
      /\ \/ v.type = "string" /\ r.text = Quoted(v.chars)
         \/ v.type = "number" /\ r.text = v.chars
         \/ /\ v.type = "reference" /\ node.kind \in {"array", "object"}
            /\ NodeFits(node) /\ more \in SUBSET Nodes
            /\ items # None
            /\ r.text = Bracketed(node, items.text)
  BY SerializedAs
<1> HIDE DEF r, items, more
<1>2. CASE v.type = "string"
  <2>1. v.chars \in Text /\ r.text = Quoted(v.chars)
    BY <1>1, <1>2, ValueKinds
  <2>2. "'" \in Characters /\ <<"'">> \in Text
    BY PunctuationTyped, JsonAssumption DEF Punctuation
  <2>3. Starts(<<"'">>, {"'"})
    BY <2>2, StartsOne
  <2> DEFINE q == <<"'">>
             s == v.chars \o q
  <2>4. s \in Text /\ q \in Text /\ Starts(q, {"'"})
    BY <2>1, <2>2, <2>3, CatTyped
  <2>5. Quoted(v.chars) = q ++ s
    <3>1. (q \o v.chars) \o q = q \o s
      <4> DEFINE vc == v.chars
      <4>1. vc \in Text
        BY <2>1
      <4> HIDE DEF q, vc
      <4> QED  BY <2>4, <4>1, CatAssoc DEF vc
    <3> QED  BY <3>1 DEF Quoted, ++
  <2>6. FirstOf(heap, v) = {"'"}
    BY <1>2 DEF FirstOf
  <2> HIDE DEF q, s
  <2>7. Starts(r.text, {"'"})
    BY <2>1, <2>4, <2>5, ThenStarts
  <2> QED  BY <2>6, <2>7 DEF r
<1>3. CASE v.type = "number"
  <2> DEFINE cs == v.chars
  <2>1. cs \in Text /\ r.text = cs /\ cs # <<>> /\ Range(cs) \subseteq Bare
    BY <1>1, <1>3, ValueKinds DEF Bare
  <2>2. FirstOf(heap, v) = Bare
    BY <1>3 DEF FirstOf
  <2> HIDE DEF cs
  <2>3. cs[1] \in Range(cs)
    <3>1. Len(cs) \in Nat \ {0}
      BY <2>1, EmptySeq, LenProperties DEF Text
    <3>2. 1 \in 1 .. Len(cs)
      BY <3>1
    <3> QED  BY <2>1, <3>2, RangeEquality DEF Text
  <2>4. Starts(cs, Bare)
    BY <2>1, <2>3 DEF Starts
  <2> QED  BY <2>1, <2>2, <2>4 DEF r
<1>4. CASE v.type = "reference"
  <2> DEFINE it == items.text
             o == Opening(node)
             oc == it ++ Closing(node)
  <2>1. NodeFits(node) /\ more \in SUBSET Nodes /\ items # None /\ r.text = Bracketed(node, it)
    BY <1>1, <1>4
  <2>2. it \in Text
    <3>1. Len(KeyOrder(node)) \in 0 .. Len(KeyOrder(node))
      BY OrderTyped
    <3>2. items \in Serialization
      <4> HIDE DEF node
      <4> QED  BY <2>1, <3>1, ItemsAllThere DEF items
    <3> QED  BY <3>2 DEF Serialization, Text
  <2>3. Closing(node) \in Text /\ o \in Text /\ Starts(o, FirstOf(heap, v))
    <3>1. o = IF node.kind = "array" THEN <<"[">> ELSE <<"{">>
      BY DEF Opening
    <3>2. FirstOf(heap, v) = IF node.kind = "array" THEN {"["} ELSE {"{"}
      BY <1>4 DEF FirstOf
    <3>3. "[" \in Characters /\ "{" \in Characters
      BY JsonAssumption DEF Punctuation
    <3>4. Starts(<<"[">>, {"["}) /\ Starts(<<"{">>, {"{"})
      BY <3>3, StartsOne
    <3> HIDE DEF o
    <3> QED  BY <3>1, <3>2, <3>4, BracketsTyped DEF o
  <2> HIDE DEF it, node
  <2>4. oc \in Text
    BY <2>2, <2>3, ThenTyped
  <2>5. r.text = o ++ oc
    <3> DEFINE c == Closing(node)
    <3>1. Bracketed(node, it) = (o ++ it) ++ c
      BY DEF Bracketed, Opening, Closing, ++
    <3>2. c \in Text
      BY <2>3
    <3> HIDE DEF c, o
    <3>3. (o ++ it) ++ c = o ++ (it ++ c)
      BY <2>2, <2>3, <3>2, ThenThen
    <3> QED  BY <2>1, <3>1, <3>3 DEF c
  <2> HIDE DEF o, oc
  <2>6. Starts(r.text, FirstOf(heap, v))
    BY <2>3, <2>4, <2>5, ThenStarts
  <2> QED  BY <2>6 DEF r
<1> QED
  BY <1>1, <1>2, <1>3, <1>4

\* One node deeper, every text still starts as a value does.
LEMMA DeeperProper ==
    ASSUME NEW heap \in Heap, NEW inside \in Insides
    PROVE  Proper(Deeper(heap, inside))
<1> SUFFICES ASSUME NEW call \in Calls, Deeper(heap, inside)[call] # None
             PROVE  /\ Deeper(heap, inside)[call].text \in Text
                    /\ Starts(Deeper(heap, inside)[call].text, Inner)
  BY DEF Proper
<1> DEFINE v == call[1]
           text == Deeper(heap, inside)[call].text
<1>1. text \in Text
  BY SerializedAs
<1>2. v.type \in {"string", "number", "reference"}
  BY SerializedAs
<1>3. Starts(text, FirstOf(heap, v))
  BY SerializedStarts
<1>4. FirstOf(heap, v) \subseteq Inner
  BY <1>2, JsonAssumption DEF FirstOf, Inner, Closers, Bare, Punctuation
<1> HIDE DEF text
<1>5. Starts(text, Inner)
  BY <1>3, <1>4 DEF Starts
<1> QED
  BY <1>1, <1>5 DEF text

\* So it does at every depth.
LEMMA InsideProper ==
    ASSUME NEW heap \in Heap, NEW n \in 0 .. Cardinality(Nodes)
    PROVE  Proper(Inside(heap, n))
<1>1. CASE n = 0
  BY <1>1 DEF Inside, Nothing, Proper, Calls
<1>2. CASE n # 0
  <2>1. n - 1 \in 0 .. Cardinality(Nodes)
    BY <1>2, NodeCount
  <2>2. /\ Inside(heap, n - 1) \in Insides
        /\ Serializers(heap)[n - 1] = Deeper(heap, Inside(heap, n - 1))
    BY <2>1, SerializersStepwise
  <2>3. Inside(heap, n) = Serializers(heap)[n - 1]
    BY <1>2 DEF Inside
  <2> QED  BY <2>2, <2>3, DeeperProper
<1> QED  BY <1>1, <1>2

-----------------------------------------------------------------------------
\* Texts against data.

\* Equal data has equal texts; and whatever follows, texts that start the same
\* are of equal data.
Told(data1, text1, data2, text2) ==
    /\ data1 = data2 => text1 = text2
    /\ \A x, y \in Text :
           Stops(Bare, x) /\ Stops(Bare, y) /\ text1 ++ x = text2 ++ y
               => data1 = data2 /\ x = y

Agree(g, h, inside1, inside2, below1, below2) ==
    \A c, d \in Calls : inside1[c] # None /\ inside2[d] # None =>
        Told(DataOf(g, below1[c[1]]), inside1[c].text,
             DataOf(h, below2[d[1]]), inside2[d].text)

\* What is known of every depth.
Ready(heap, inside, below) ==
    /\ inside \in Insides /\ Proper(inside)
    /\ below \in PlaceMaps
    /\ \A call \in Calls : inside[call] # None => DataOf(heap, below[call[1]]) # {}

\* What is known of every depth holds at every depth.
LEMMA InsideReady ==
    ASSUME NEW heap \in Heap, NEW n \in 0 .. Cardinality(Nodes)
    PROVE  Ready(heap, Inside(heap, n), PlacesInside(heap, n))
<1>1. Inside(heap, n) \in Insides /\ PlacesInside(heap, n) \in PlaceMaps
  BY SerializersStepwise, PlacesStepwise
<1>2. Proper(Inside(heap, n))
  BY InsideProper
<1>3. CASE n = 0
  <2>1. \A call \in Calls : Inside(heap, n)[call] = None
    BY <1>3 DEF Inside, Nothing, Calls
  <2> QED  BY <1>1, <1>2, <2>1 DEF Ready
<1>4. CASE n # 0
  <2>1. n - 1 \in 0 .. Cardinality(Nodes)
    BY <1>4, NodeCount
  <2>2. /\ PlacesInside(heap, n - 1) \in PlaceMaps
        /\ Places(heap)[n - 1] = Farther(heap, PlacesInside(heap, n - 1))
    BY <2>1, PlacesStepwise
  <2>3. PlacesInside(heap, n) = Places(heap)[n - 1]
    BY <1>4 DEF PlacesInside
  <2>4. ASSUME NEW call \in Calls PROVE DataOf(heap, PlacesInside(heap, n)[call[1]]) # {}
    <3> DEFINE v == call[1]
    <3>1. v \in JsValue
      BY DEF Calls
    <3>2. PlacesInside(heap, n)[v] = PlacesOf(heap, PlacesInside(heap, n - 1), v)
      BY <2>2, <2>3, <3>1 DEF Farther
    <3> HIDE DEF v
    <3>3. Datum(heap, <<>>, v) \in DataOf(heap, PlacesOf(heap, PlacesInside(heap, n - 1), v))
      BY <2>2, <3>1, DataOfPlaces
    <3> QED  BY <3>2, <3>3 DEF v
  <2> QED  BY <1>1, <1>2, <2>4 DEF Ready
<1> QED  BY <1>3, <1>4

\* Of a node, only the kind matters for how its text is put together.
LEMMA KindOnly ==
    ASSUME NEW node1, NEW node2, node1.kind = node2.kind
    PROVE  /\ KeyOrder(node1) = KeyOrder(node2)
           /\ Opening(node1) = Opening(node2)
           /\ Closing(node1) = Closing(node2)
           /\ \A items : Bracketed(node1, items) = Bracketed(node2, items)
           /\ \A items, key, item :
                  Joined(node1, items, key, item) = Joined(node2, items, key, item)
BY DEF KeyOrder, Opening, Closing, Bracketed, Joined

\* A run for a node is one for every node of its kind.
LEMMA RunsKind ==
    ASSUME NEW node1, NEW node2, node1.kind = node2.kind,
           NEW keys, NEW texts, NEW parts, Runs(node2, keys, texts, parts)
    PROVE  Runs(node1, keys, texts, parts)
BY KindOnly DEF Runs

\* Equal items under equal keys join to equal texts.
LEMMA JoinSame ==
    ASSUME NEW node, NEW keys, NEW texts1, NEW texts2, NEW parts1, NEW parts2,
           Runs(node, keys, texts1, parts1), Runs(node, keys, texts2, parts2),
           \A i \in 1 .. Len(KeyOrder(node)) :
               KeyOrder(node)[i] \in keys => parts1[i] = parts2[i]
    PROVE  texts1[Len(KeyOrder(node))] = texts2[Len(KeyOrder(node))]
<1> DEFINE O == KeyOrder(node)
           L == Len(O)
           T == {i \in 0 .. L : texts1[i] = texts2[i]}
<1>1. L \in Nat
  BY OrderTyped
<1>2. 0 \in T
  <2>1. texts1[0] = texts2[0]
    BY DEF Runs
  <2> QED  BY <1>1, <2>1
<1>3. ASSUME NEW i \in 0 .. L - 1, i \in T PROVE i + 1 \in T
  <2>1. i + 1 \in 1 .. L /\ i + 1 \in 0 .. L /\ (i + 1) - 1 = i
    BY <1>1
  <2>2. CASE O[i + 1] \in keys
    <3>1. /\ texts1[i + 1] = Joined(node, texts1[i], O[i + 1], parts1[i + 1])
          /\ texts2[i + 1] = Joined(node, texts2[i], O[i + 1], parts2[i + 1])
      BY <2>1, <2>2 DEF Runs
    <3>2. texts1[i] = texts2[i] /\ parts1[i + 1] = parts2[i + 1]
      BY <1>3, <2>1, <2>2
    <3>3. texts1[i + 1] = texts2[i + 1]
      BY <3>1, <3>2
    <3> QED  BY <2>1, <3>3
  <2>3. CASE O[i + 1] \notin keys
    <3>1. texts1[i + 1] = texts1[i] /\ texts2[i + 1] = texts2[i]
      BY <2>1, <2>3 DEF Runs
    <3>2. texts1[i + 1] = texts2[i + 1]
      BY <1>3, <3>1
    <3> QED  BY <2>1, <3>2
  <2> QED  BY <2>2, <2>3
<1>4. 0 .. L \subseteq T
  <2> HIDE DEF T
  <2> QED  BY <1>1, <1>2, <1>3, UpTo
<1>5. L \in 0 .. L
  BY <1>1
<1> QED
  BY <1>4, <1>5

\* The items of a node: their texts, and their data.
NodeAsItems(heap, inside, below, node, data, texts, parts, whole) ==
    /\ ItemData(DOMAIN node.at, data)
    /\ NoGaps(node, DOMAIN node.at)
    /\ \A k \in DOMAIN node.at : \E i \in 1 .. Len(KeyOrder(node)) : k = KeyOrder(node)[i]
    /\ Runs(node, DOMAIN node.at, texts, parts)
    /\ texts[Len(KeyOrder(node))] = whole
    /\ \A i \in 1 .. Len(KeyOrder(node)) : KeyOrder(node)[i] \in DOMAIN node.at =>
           \E call \in Calls :
               /\ inside[call] # None
               /\ parts[i] = inside[call].text
               /\ data[KeyOrder(node)[i]] = DataOf(heap, below[call[1]])

\* What is serialized of a node is its items, read so.
LEMMA NodeItems ==
    ASSUME NEW heap \in Heap, NEW inside, NEW below, Ready(heap, inside, below),
           NEW v \in JsValue, v.type = "reference", heap[v.chars].kind # "exotic",
           NEW seen \in SUBSET Nodes,
           Items(heap[v.chars], inside, seen)[Len(KeyOrder(heap[v.chars]))] # None
    PROVE  NodeAsItems(heap, inside, below, heap[v.chars], DataInside(heap, below, v),
                       TextsOf(heap[v.chars], inside, seen),
                       PartsOf(heap[v.chars], inside, seen),
                       Items(heap[v.chars], inside, seen)[Len(KeyOrder(heap[v.chars]))].text)
<1> DEFINE node == heap[v.chars]
           keys == DOMAIN node.at
           data == DataInside(heap, below, v)
           O == KeyOrder(node)
           L == Len(O)
           texts == TextsOf(node, inside, seen)
           parts == PartsOf(node, inside, seen)
           C(i) == CallOf(node, inside, seen, i)
           whole == Items(node, inside, seen)[L].text
<1>1. NodeFits(node)
  BY ValueKinds, NodeTyped
<1>2. inside \in Insides /\ Proper(inside) /\ below \in PlaceMaps
  BY DEF Ready
<1>3. /\ Runs(node, keys, texts, parts)
      /\ texts[L] = whole
      /\ \A i \in 1 .. L : O[i] \in keys =>
             /\ C(i) \in Calls /\ C(i)[1] = node.at[O[i]]
             /\ inside[C(i)] # None /\ parts[i] = inside[C(i)].text
  <2> HIDE DEF node
  <2> QED  BY <1>1, <1>2, ItemsRun DEF node
<1>4. \A k \in keys : data[k] = DataOf(heap, below[node.at[k]])
  BY DEF DataInside
<1>5. \A k \in keys : \E i \in 1 .. L : k = O[i]
  BY <1>1 DEF NodeFits
<1>6. NoGaps(node, keys)
  BY <1>1 DEF NodeFits, NoGaps
<1>7. ASSUME NEW i \in 1 .. L, O[i] \in keys
      PROVE  \E call \in Calls :
                 /\ inside[call] # None /\ parts[i] = inside[call].text
                 /\ data[O[i]] = DataOf(heap, below[call[1]])
  <2> HIDE DEF C, O, parts, data, keys, L
  <2>1. C(i) \in Calls /\ C(i)[1] = node.at[O[i]]
        /\ inside[C(i)] # None /\ parts[i] = inside[C(i)].text
    BY <1>3, <1>7
  <2>2. data[O[i]] = DataOf(heap, below[node.at[O[i]]])
    BY <1>4, <1>7
  <2> QED  BY <2>1, <2>2
<1>8. ItemData(keys, data)
  <2> SUFFICES ASSUME NEW k \in keys
               PROVE  k \in Characters /\ data[k] # {} /\ data[k] \subseteq Datums
    BY DEF ItemData
  <2>1. k \in Characters /\ node.at[k] \in JsValue
    BY <1>1 DEF NodeFits
  <2>2. PICK i \in 1 .. L : k = O[i]
    BY <1>5
  <2>3. PICK call \in Calls : inside[call] # None /\ data[k] = DataOf(heap, below[call[1]])
    <3> HIDE DEF O, parts, data, keys, L
    <3> QED  BY <1>7, <2>2
  <2>4. data[k] # {}
    <3> HIDE DEF data
    <3> QED  BY <2>3 DEF Ready
  <2>5. below[call[1]] \in PlaceSets
    BY <1>2 DEF PlaceMaps, Calls
  <2>6. DataOf(heap, below[call[1]]) \subseteq Datums
    BY <2>5, DataOfTyped
  <2> HIDE DEF data
  <2> QED  BY <2>1, <2>3, <2>4, <2>6
<1> HIDE DEF keys, data, O, L, texts, parts, C, whole
<1> QED
  BY <1>3, <1>5, <1>6, <1>7, <1>8
     DEF NodeAsItems, keys, data, O, L, texts, parts, whole

\* Nodes of the same kind agree if what stands in them does.
LEMMA NodesAgree ==
    ASSUME NEW g \in Heap, NEW h \in Heap, NEW inside1, NEW inside2, NEW below1, NEW below2,
           Ready(g, inside1, below1), Ready(h, inside2, below2),
           Agree(g, h, inside1, inside2, below1, below2),
           NEW v \in JsValue, v.type = "reference", g[v.chars].kind # "exotic",
           NEW w \in JsValue, w.type = "reference", g[v.chars].kind = h[w.chars].kind,
           NEW seen1 \in SUBSET Nodes, NEW seen2 \in SUBSET Nodes,
           Items(g[v.chars], inside1, seen1)[Len(KeyOrder(g[v.chars]))] # None,
           Items(h[w.chars], inside2, seen2)[Len(KeyOrder(h[w.chars]))] # None
    PROVE  Told(DataOf(g, PlacesOf(g, below1, v)),
                Bracketed(g[v.chars],
                    Items(g[v.chars], inside1, seen1)[Len(KeyOrder(g[v.chars]))].text),
                DataOf(h, PlacesOf(h, below2, w)),
                Bracketed(h[w.chars],
                    Items(h[w.chars], inside2, seen2)[Len(KeyOrder(h[w.chars]))].text))
<1> DEFINE node1 == g[v.chars]
           node2 == h[w.chars]
           keys1 == DOMAIN node1.at
           keys2 == DOMAIN node2.at
           O == KeyOrder(node1)
           L == Len(O)
           data1 == DataInside(g, below1, v)
           data2 == DataInside(h, below2, w)
           texts1 == TextsOf(node1, inside1, seen1)
           texts2 == TextsOf(node2, inside2, seen2)
           parts1 == PartsOf(node1, inside1, seen1)
           parts2 == PartsOf(node2, inside2, seen2)
           items1 == Items(node1, inside1, seen1)[Len(KeyOrder(node1))].text
           items2 == Items(node2, inside2, seen2)[Len(KeyOrder(node2))].text
           head1 == Datum(g, <<>>, v)
           head2 == Datum(h, <<>>, w)
           D1 == DataOf(g, PlacesOf(g, below1, v))
           D2 == DataOf(h, PlacesOf(h, below2, w))
           text1 == Bracketed(node1, items1)
           text2 == Bracketed(node2, items2)
<1>1. /\ KeyOrder(node2) = O
      /\ Closing(node2) = Closing(node1) /\ Opening(node2) = Opening(node1)
      /\ \A items : Bracketed(node2, items) = Bracketed(node1, items)
  BY KindOnly
<1>2. /\ ItemData(keys1, data1) /\ NoGaps(node1, keys1)
      /\ \A k \in keys1 : \E i \in 1 .. L : k = O[i]
      /\ Runs(node1, keys1, texts1, parts1)
      /\ texts1[L] = items1
      /\ \A i \in 1 .. L : O[i] \in keys1 =>
             \E call \in Calls :
                 /\ inside1[call] # None /\ parts1[i] = inside1[call].text
                 /\ data1[O[i]] = DataOf(g, below1[call[1]])
  <2>1. NodeAsItems(g, inside1, below1, node1, data1, texts1, parts1, items1)
    BY NodeItems
  <2> HIDE DEF node1, data1, texts1, parts1, items1
  <2> QED  BY <2>1 DEF NodeAsItems
<1>3. /\ ItemData(keys2, data2) /\ NoGaps(node2, keys2)
      /\ \A k \in keys2 : \E i \in 1 .. Len(KeyOrder(node2)) : k = KeyOrder(node2)[i]
      /\ Runs(node2, keys2, texts2, parts2)
      /\ texts2[Len(KeyOrder(node2))] = items2
      /\ \A i \in 1 .. Len(KeyOrder(node2)) : KeyOrder(node2)[i] \in keys2 =>
             \E call \in Calls :
                 /\ inside2[call] # None /\ parts2[i] = inside2[call].text
                 /\ data2[KeyOrder(node2)[i]] = DataOf(h, below2[call[1]])
  <2>1. node2.kind # "exotic"
    OBVIOUS
  <2>2. NodeAsItems(h, inside2, below2, node2, data2, texts2, parts2, items2)
    BY <2>1, NodeItems
  <2> HIDE DEF node2, data2, texts2, parts2, items2
  <2> QED  BY <2>2 DEF NodeAsItems
<1>4. /\ NoGaps(node1, keys2) /\ Runs(node1, keys2, texts2, parts2)
      /\ \A k \in keys2 : \E i \in 1 .. L : k = O[i]
      /\ texts2[L] = items2
      /\ \A i \in 1 .. L : O[i] \in keys2 =>
             \E call \in Calls :
                 /\ inside2[call] # None /\ parts2[i] = inside2[call].text
                 /\ data2[O[i]] = DataOf(h, below2[call[1]])
  <2>1. Runs(node1, keys2, texts2, parts2)
    <3>1. node1.kind = node2.kind
      OBVIOUS
    <3> HIDE DEF node1, node2, keys2, texts2, parts2
    <3> QED  BY <1>3, <3>1, RunsKind
  <2>2. NoGaps(node1, keys2)
    BY <1>1, <1>3 DEF NoGaps
  <2> HIDE DEF node1, node2, keys2, texts2, parts2, data2, items2, O
  <2> QED  BY <1>1, <1>3, <2>1, <2>2 DEF L
<1>5. D1 = Tree(head1, keys1, data1) /\ D2 = Tree(head2, keys2, data2)
      /\ head1.path = <<>> /\ head2.path = <<>>
  <2>1. below1 \in PlaceMaps /\ below2 \in PlaceMaps
    BY DEF Ready
  <2> QED  BY <2>1, DataOfPlaces
<1>6. head1 = head2
  BY DEF Datum
<1>7. D1 = D2 <=> keys1 = keys2 /\ \A k \in keys1 : data1[k] = data2[k]
  <2> HIDE DEF D1, D2, head1, head2, keys1, keys2, data1, data2
  <2> QED  BY <1>2, <1>3, <1>5, <1>6, TreesAgree
<1>8. ASSUME NEW i \in 1 .. L, O[i] \in keys1, O[i] \in keys2
      PROVE  Told(data1[O[i]], parts1[i], data2[O[i]], parts2[i])
  <2> HIDE DEF keys1, keys2, parts1, parts2, data1, data2, O, L
  <2>1. PICK c \in Calls :
            /\ inside1[c] # None /\ parts1[i] = inside1[c].text
            /\ data1[O[i]] = DataOf(g, below1[c[1]])
    BY <1>2, <1>8
  <2>2. PICK d \in Calls :
            /\ inside2[d] # None /\ parts2[i] = inside2[d].text
            /\ data2[O[i]] = DataOf(h, below2[d[1]])
    BY <1>4, <1>8
  <2> QED  BY <2>1, <2>2 DEF Agree
<1> HIDE DEF keys1, keys2, parts1, parts2, data1, data2, texts1, texts2, items1, items2,
             head1, head2, D1, D2
<1>9. ASSUME D1 = D2 PROVE text1 = text2
  <2>1. keys1 = keys2 /\ \A k \in keys1 : data1[k] = data2[k]
    BY <1>7, <1>9
  <2>2. \A i \in 1 .. L : O[i] \in keys1 => parts1[i] = parts2[i]
    BY <1>8, <2>1 DEF Told
  <2>3. Runs(node1, keys1, texts2, parts2)
    BY <1>4, <2>1
  <2>4. texts1[L] = texts2[L]
    <3> HIDE DEF node1
    <3> QED  BY <1>2, <2>2, <2>3, JoinSame DEF L, O
  <2>5. items1 = items2
    BY <1>2, <1>4, <2>4
  <2> HIDE DEF node1, node2
  <2> QED  BY <1>1, <2>5
<1>10. ASSUME NEW x \in Text, NEW y \in Text, Stops(Bare, x), Stops(Bare, y),
              text1 ++ x = text2 ++ y
       PROVE  D1 = D2 /\ x = y
  <2> DEFINE o == Opening(node1)
             cx == Closing(node1) ++ x
             cy == Closing(node1) ++ y
             ix == items1 ++ cx
             iy == items2 ++ cy
             same == {i \in 1 .. L : data1[O[i]] = data2[O[i]]}
  <2>1. items1 \in Text /\ items2 \in Text
    <3>1. L \in 0 .. L
      BY OrderTyped
    <3>2. texts1[L] \in Text /\ texts2[L] \in Text
      BY <1>2, <1>4, <3>1 DEF Runs
    <3> HIDE DEF L
    <3> QED  BY <1>2, <1>4, <3>2
  <2>2. o \in Text /\ Closing(node1) \in Text
    BY BracketsTyped
  <2>3. text2 = Bracketed(node1, items2)
    BY <1>1
  <2> HIDE DEF node1, node2
  <2>4. text1 ++ x = o ++ ix /\ text2 ++ y = o ++ iy
    BY <2>1, <2>3, BracketedThen
  <2>5. cx \in Text /\ cy \in Text
    BY <2>2, ThenTyped
  <2> HIDE DEF o, cx, cy
  <2>6. ix \in Text /\ iy \in Text
    BY <2>1, <2>5, ThenTyped
  <2> HIDE DEF ix, iy, text1, text2
  <2>7. ix = iy
    BY <1>10, <2>2, <2>4, <2>6, ThenCancel
  <2>8. texts1[L] ++ (Closing(node1) ++ x) = texts2[L] ++ (Closing(node1) ++ y)
    <3>1. texts1[L] ++ cx = texts2[L] ++ cy
      <4> HIDE DEF L
      <4> QED  BY <1>2, <1>4, <2>7 DEF ix, iy
    <3> QED  BY <3>1 DEF cx, cy
  <2>9. \A i \in 1 .. L : O[i] \in keys1 \cap keys2 => Readable(parts1[i], parts2[i], i, same)
    <3> SUFFICES ASSUME NEW i \in 1 .. L, O[i] \in keys1, O[i] \in keys2
                 PROVE  Readable(parts1[i], parts2[i], i, same)
      OBVIOUS
    <3>1. Told(data1[O[i]], parts1[i], data2[O[i]], parts2[i])
      BY <1>8
    <3> DEFINE d1 == data1[O[i]]
               d2 == data2[O[i]]
               p1 == parts1[i]
               p2 == parts2[i]
    <3>2. ASSUME NEW a \in Text, NEW b \in Text, Stops(Bare, a), Stops(Bare, b),
                 p1 ++ a = p2 ++ b
          PROVE  i \in same /\ p1 = p2
      <4>1. d1 = d2 /\ p1 = p2
        <5> HIDE DEF d1, d2, p1, p2
        <5> QED  BY <3>1, <3>2 DEF Told, d1, d2, p1, p2
      <4> QED  BY <4>1
    <3> HIDE DEF same
    <3> QED  BY <3>2 DEF Readable
  <2> HIDE DEF same
  <2>10. /\ \A i \in 1 .. L :
                /\ O[i] \in keys1 <=> O[i] \in keys2
                /\ O[i] \in keys1 => i \in same
         /\ x = y
    <3>1. /\ Runs(node1, keys1, texts1, parts1) /\ NoGaps(node1, keys1)
          /\ Runs(node1, keys2, texts2, parts2) /\ NoGaps(node1, keys2)
      BY <1>2, <1>4
    <3>2. AllReadable(node1, keys1, keys2, parts1, parts2, same)
      BY <2>9 DEF AllReadable
    <3>3. AllAlike(node1, keys1, keys2, same) /\ x = y
      BY <2>8, <3>1, <3>2, ParseNode
    <3> QED  BY <3>3 DEF AllAlike
  <2>11. keys1 = keys2
    <3>1. /\ \A k \in keys1 : \E i \in 1 .. L : k = O[i]
          /\ \A k \in keys2 : \E i \in 1 .. L : k = O[i]
      BY <1>2, <1>4
    <3>2. \A i \in 1 .. L : O[i] \in keys1 <=> O[i] \in keys2
      BY <2>10
    <3>3. \A k : k \in keys1 => k \in keys2
      BY <3>1, <3>2
    <3>4. \A k : k \in keys2 => k \in keys1
      BY <3>1, <3>2
    <3> QED  BY <3>3, <3>4
  <2>12. \A k \in keys1 : data1[k] = data2[k]
    <3> TAKE k \in keys1
    <3>1. PICK i \in 1 .. L : k = O[i]
      BY <1>2
    <3>2. i \in same
      BY <2>10, <3>1
    <3> QED  BY <3>1, <3>2 DEF same
  <2> QED  BY <1>7, <2>10, <2>11, <2>12
<1> HIDE DEF text1, text2
<1>11. Told(D1, text1, D2, text2)
  BY <1>9, <1>10 DEF Told
<1> QED
  BY <1>11 DEF D1, D2, text1, text2, items1, items2

\* A string ends at the first quote: it is told by its text.
LEMMA QuotedTold ==
    ASSUME NEW a \in Text, NEW b \in Text, NEW x \in Text, NEW y \in Text,
           Range(a) \subseteq Characters \ {"'"}, Range(b) \subseteq Characters \ {"'"},
           Quoted(a) ++ x = Quoted(b) ++ y
    PROVE  a = b /\ x = y
<1> DEFINE q == <<"'">>
           qx == q ++ x
           qy == q ++ y
           ax == a ++ qx
           by == b ++ qy
           C == Characters \ {"'"}
<1>1. q \in Text /\ Starts(q, {"'"})
  <2>1. "'" \in Characters /\ "'" \in {"'"}
    BY JsonAssumption DEF Punctuation
  <2> QED  BY <2>1, StartsOne
<1>2. Quoted(a) ++ x = q ++ ax /\ Quoted(b) ++ y = q ++ by
  BY QuotedThen
<1> HIDE DEF q
<1>3. /\ qx \in Text /\ Starts(qx, {"'"})
      /\ qy \in Text /\ Starts(qy, {"'"})
  BY <1>1, ThenTyped, ThenStarts
<1>4. Stops(C, qx) /\ Stops(C, qy)
  <2> HIDE DEF qx, qy
  <2> QED  BY <1>3 DEF Starts, Stops
<1> HIDE DEF qx, qy
<1>5. ax \in Text /\ by \in Text
  BY <1>3, ThenTyped
<1>6. ax = by
  <2> HIDE DEF ax, by
  <2> QED  BY <1>1, <1>2, <1>5, ThenCancel
<1>7. a = b /\ qx = qy
  <2> HIDE DEF C
  <2>1. Range(a) \subseteq C /\ Range(b) \subseteq C
    BY DEF C
  <2> QED  BY <1>3, <1>4, <1>6, <2>1, ThenRun
<1>8. x = y
  BY <1>1, <1>7, ThenCancel DEF qx, qy
<1> QED  BY <1>7, <1>8

\* Texts that start the same are of values of the same kind.
LEMMA SameStart ==
    ASSUME NEW g \in Heap, NEW h \in Heap, NEW inside1 \in Insides, NEW inside2 \in Insides,
           NEW c \in Calls, NEW d \in Calls,
           Deeper(g, inside1)[c] # None, Deeper(h, inside2)[d] # None,
           NEW x \in Text, NEW y \in Text,
           Deeper(g, inside1)[c].text ++ x = Deeper(h, inside2)[d].text ++ y
    PROVE  /\ c[1].type = d[1].type
           /\ c[1].type = "reference" => g[c[1].chars].kind = h[d[1].chars].kind
<1> DEFINE v == c[1]
           w == d[1]
           t1 == Deeper(g, inside1)[c].text
           t2 == Deeper(h, inside2)[d].text
<1>1. t1 \in Text /\ t2 \in Text
  BY SerializedAs
<1>2. /\ v.type \in {"string", "number", "reference"}
      /\ v.type = "reference" => g[v.chars].kind \in {"array", "object"}
      /\ w.type \in {"string", "number", "reference"}
      /\ w.type = "reference" => h[w.chars].kind \in {"array", "object"}
  BY SerializedAs
<1>3. Starts(t1, FirstOf(g, v)) /\ Starts(t2, FirstOf(h, w))
  BY SerializedStarts
<1> HIDE DEF t1, t2
<1>4. Starts(t1 ++ x, FirstOf(g, v)) /\ Starts(t2 ++ y, FirstOf(h, w))
  BY <1>1, <1>3, ThenStarts
<1>5. t1 ++ x = t2 ++ y
  BY DEF t1, t2
<1>6. FirstOf(g, v) \cap FirstOf(h, w) # {}
  <2> DEFINE tx == t1 ++ x
  <2>1. Starts(tx, FirstOf(g, v)) /\ Starts(tx, FirstOf(h, w))
    BY <1>4, <1>5
  <2> HIDE DEF tx
  <2> QED  BY <2>1 DEF Starts
<1> DEFINE kg == g[v.chars].kind
           kh == h[w.chars].kind
<1>7. FirstOf(g, v) = IF v.type = "string" THEN {"'"} ELSE IF v.type = "number" THEN Bare
                      ELSE IF kg = "array" THEN {"["} ELSE {"{"}
  BY <1>2 DEF FirstOf
<1>8. FirstOf(h, w) = IF w.type = "string" THEN {"'"} ELSE IF w.type = "number" THEN Bare
                      ELSE IF kh = "array" THEN {"["} ELSE {"{"}
  BY <1>2 DEF FirstOf
<1> HIDE DEF kg, kh, v, w
<1>9. "'" \notin Bare /\ "[" \notin Bare /\ "{" \notin Bare
  BY DEF Bare, Punctuation
<1>10. v.type = w.type /\ (v.type = "reference" => kg = kh)
  BY <1>2, <1>6, <1>7, <1>8, <1>9 DEF kg, kh
<1> QED
  BY <1>10 DEF kg, kh, v, w

\* Equal data is of values of the same kind.
LEMMA SameHead ==
    ASSUME NEW g \in Heap, NEW h \in Heap, NEW below1 \in PlaceMaps, NEW below2 \in PlaceMaps,
           NEW v \in JsValue, NEW w \in JsValue,
           DataOf(g, PlacesOf(g, below1, v)) = DataOf(h, PlacesOf(h, below2, w))
    PROVE  /\ v.type = w.type
           /\ v.type = "reference" => g[v.chars].kind = h[w.chars].kind
           /\ v.type # "reference" => v.chars = w.chars
<1> DEFINE head1 == Datum(g, <<>>, v)
           head2 == Datum(h, <<>>, w)
           D1 == DataOf(g, PlacesOf(g, below1, v))
           D2 == DataOf(h, PlacesOf(h, below2, w))
<1>1. head1.path = <<>> /\ head1 \in D1
  BY DataOfPlaces
<1>2. \A e \in D2 : e.path = <<>> => e = head2
  BY DataOfPlaces
<1>3. D1 = D2
  OBVIOUS
<1>4. head1 = head2
  <2> HIDE DEF head1, head2, D1, D2
  <2> QED  BY <1>1, <1>2, <1>3
<1>5. head1.type = head2.type /\ head1.chars = head2.chars
  BY <1>4
<1>6. head1.type = v.type /\ head2.type = w.type
      /\ head1.chars = (IF v.type = "reference" THEN <<g[v.chars].kind>> ELSE v.chars)
      /\ head2.chars = (IF w.type = "reference" THEN <<h[w.chars].kind>> ELSE w.chars)
  BY DEF Datum
<1> DEFINE k1 == g[v.chars].kind
           k2 == h[w.chars].kind
<1> HIDE DEF head1, head2
<1>7. v.type = w.type /\ (v.type # "reference" => v.chars = w.chars)
  BY <1>5, <1>6
<1>8. v.type = "reference" => <<k1>> = <<k2>>
  BY <1>5, <1>6
<1>9. <<k1>> = <<k2>> => k1 = k2
  <2> HIDE DEF k1, k2
  <2> QED  OBVIOUS
<1> QED
  BY <1>7, <1>8, <1>9

\* One node deeper, texts still tell data.
LEMMA AgreeDeeper ==
    ASSUME NEW g \in Heap, NEW h \in Heap, NEW inside1, NEW inside2, NEW below1, NEW below2,
           Ready(g, inside1, below1), Ready(h, inside2, below2),
           Agree(g, h, inside1, inside2, below1, below2)
    PROVE  Agree(g, h, Deeper(g, inside1), Deeper(h, inside2),
                 Farther(g, below1), Farther(h, below2))
<1>1. /\ inside1 \in Insides /\ inside2 \in Insides
      /\ below1 \in PlaceMaps /\ below2 \in PlaceMaps
  BY DEF Ready
<1> SUFFICES ASSUME NEW c \in Calls, NEW d \in Calls,
                    Deeper(g, inside1)[c] # None, Deeper(h, inside2)[d] # None
             PROVE  Told(DataOf(g, Farther(g, below1)[c[1]]), Deeper(g, inside1)[c].text,
                         DataOf(h, Farther(h, below2)[d[1]]), Deeper(h, inside2)[d].text)
  BY DEF Agree
<1> DEFINE v == c[1]
           w == d[1]
           node1 == g[v.chars]
           node2 == h[w.chars]
           t1 == Deeper(g, inside1)[c].text
           t2 == Deeper(h, inside2)[d].text
           more1 == c[2] \cup {v.chars}
           more2 == d[2] \cup {w.chars}
           items1 == Items(node1, inside1, more1)[Len(KeyOrder(node1))]
           items2 == Items(node2, inside2, more2)[Len(KeyOrder(node2))]
           D1 == DataOf(g, PlacesOf(g, below1, v))
           D2 == DataOf(h, PlacesOf(h, below2, w))
<1>2. v \in JsValue /\ w \in JsValue
  BY DEF Calls
<1>3. Farther(g, below1)[v] = PlacesOf(g, below1, v)
      /\ Farther(h, below2)[w] = PlacesOf(h, below2, w)
  BY <1>2 DEF Farther
<1>4. /\ t1 \in Text
      /\ \/ v.type = "string" /\ t1 = Quoted(v.chars)
         \/ v.type = "number" /\ t1 = v.chars
         \/ /\ v.type = "reference" /\ node1.kind \in {"array", "object"}
            /\ NodeFits(node1) /\ more1 \in SUBSET Nodes
            /\ items1 # None /\ t1 = Bracketed(node1, items1.text)
  BY <1>1, SerializedAs
<1>5. /\ t2 \in Text
      /\ \/ w.type = "string" /\ t2 = Quoted(w.chars)
         \/ w.type = "number" /\ t2 = w.chars
         \/ /\ w.type = "reference" /\ node2.kind \in {"array", "object"}
            /\ NodeFits(node2) /\ more2 \in SUBSET Nodes
            /\ items2 # None /\ t2 = Bracketed(node2, items2.text)
  BY <1>1, SerializedAs
<1>6. ASSUME D1 = D2
      PROVE  /\ v.type = w.type
             /\ v.type = "reference" => node1.kind = node2.kind
             /\ v.type # "reference" => v.chars = w.chars
  BY <1>1, <1>2, <1>6, SameHead
<1>7. ASSUME NEW x \in Text, NEW y \in Text, t1 ++ x = t2 ++ y
      PROVE  /\ v.type = w.type
             /\ v.type = "reference" => node1.kind = node2.kind
  BY <1>1, <1>7, SameStart
<1>8. /\ v.type # "reference" => D1 = {Datum(g, <<>>, v)}
      /\ w.type # "reference" => D2 = {Datum(h, <<>>, w)}
  BY <1>1, <1>2, DataOfPlaces
<1>9. ASSUME v.type = w.type, v.type # "reference", v.chars = w.chars PROVE D1 = D2
  <2>1. Datum(g, <<>>, v) = Datum(h, <<>>, w)
    BY <1>9 DEF Datum
  <2> HIDE DEF D1, D2
  <2> QED  BY <1>8, <1>9, <2>1
<1> HIDE DEF D1, D2, t1, t2, items1, items2, more1, more2, node1, node2
<1>10. CASE v.type = "string" /\ w.type = "string"
  <2> DEFINE a == v.chars
             b == w.chars
  <2>1. a \in Text /\ b \in Text
        /\ Range(a) \subseteq Characters \ {"'"} /\ Range(b) \subseteq Characters \ {"'"}
    BY <1>2, <1>10, ValueKinds
  <2>2. t1 = Quoted(a) /\ t2 = Quoted(b)
    BY <1>4, <1>5, <1>10
  <2>3. (a = b => D1 = D2) /\ (D1 = D2 => a = b)
    BY <1>6, <1>9, <1>10
  <2> HIDE DEF a, b, v, w
  <2>4. D1 = D2 => t1 = t2
    BY <2>2, <2>3
  <2>5. ASSUME NEW x \in Text, NEW y \in Text, t1 ++ x = t2 ++ y PROVE D1 = D2 /\ x = y
    <3>1. a = b /\ x = y
      BY <2>1, <2>2, <2>5, QuotedTold
    <3> QED  BY <2>3, <3>1
  <2> QED  BY <1>3, <2>4, <2>5 DEF Told, D1, D2, t1, t2, v, w
<1>11. CASE v.type = "number" /\ w.type = "number"
  <2> DEFINE a == v.chars
             b == w.chars
  <2>1. a \in Text /\ b \in Text /\ Range(a) \subseteq Bare /\ Range(b) \subseteq Bare
    BY <1>2, <1>11, ValueKinds DEF Bare
  <2>2. t1 = a /\ t2 = b
    BY <1>4, <1>5, <1>11
  <2>3. (a = b => D1 = D2) /\ (D1 = D2 => a = b)
    BY <1>6, <1>9, <1>11
  <2> HIDE DEF a, b, v, w
  <2>4. D1 = D2 => t1 = t2
    BY <2>2, <2>3
  <2>5. ASSUME NEW x \in Text, NEW y \in Text, Stops(Bare, x), Stops(Bare, y),
               t1 ++ x = t2 ++ y
        PROVE  D1 = D2 /\ x = y
    <3>1. a ++ x = b ++ y
      BY <2>2, <2>5
    <3>2. a = b /\ x = y
      BY <2>1, <2>5, <3>1, ThenRun
    <3> QED  BY <2>3, <3>2
  <2> QED  BY <1>3, <2>4, <2>5 DEF Told, D1, D2, t1, t2, v, w
<1>12. CASE v.type = "reference" /\ w.type = "reference" /\ node1.kind = node2.kind
  <2>1. /\ node1.kind # "exotic" /\ more1 \in SUBSET Nodes /\ items1 # None
        /\ t1 = Bracketed(node1, items1.text)
    BY <1>4, <1>12
  <2>2. /\ more2 \in SUBSET Nodes /\ items2 # None
        /\ t2 = Bracketed(node2, items2.text)
    BY <1>5, <1>12
  <2>3. Told(D1, Bracketed(node1, items1.text), D2, Bracketed(node2, items2.text))
    BY <1>2, <1>12, <2>1, <2>2, NodesAgree
       DEF D1, D2, items1, items2, node1, node2
  <2>4. Told(D1, t1, D2, t2)
    BY <2>1, <2>2, <2>3
  <2> QED  BY <1>3, <2>4 DEF D1, D2, t1, t2
<1>13. CASE ~(v.type = w.type /\ (v.type = "reference" => node1.kind = node2.kind))
  <2>1. D1 # D2
    BY <1>6, <1>13
  <2>2. \A x, y \in Text : t1 ++ x # t2 ++ y
    BY <1>7, <1>13
  <2>3. Told(D1, t1, D2, t2)
    BY <2>1, <2>2 DEF Told
  <2> QED  BY <1>3, <2>3 DEF D1, D2, t1, t2
<1> QED
  BY <1>4, <1>5, <1>10, <1>11, <1>12, <1>13

\* At every depth, texts tell data.
LEMMA AgreeEverywhere ==
    ASSUME NEW g \in Heap, NEW h \in Heap, NEW n \in 0 .. Cardinality(Nodes)
    PROVE  Agree(g, h, Serializers(g)[n], Serializers(h)[n], Places(g)[n], Places(h)[n])
<1> DEFINE N == Cardinality(Nodes)
           T == {i \in 0 .. N : Agree(g, h, Serializers(g)[i], Serializers(h)[i],
                                      Places(g)[i], Places(h)[i])}
<1>1. N \in Nat
  BY NodeCount
<1>2. ASSUME NEW i \in 0 .. N, i # 0 => i - 1 \in T
      PROVE  i \in T
  <2>1. /\ Serializers(g)[i] = Deeper(g, Inside(g, i))
        /\ Serializers(h)[i] = Deeper(h, Inside(h, i))
        /\ Places(g)[i] = Farther(g, PlacesInside(g, i))
        /\ Places(h)[i] = Farther(h, PlacesInside(h, i))
    BY SerializersStepwise, PlacesStepwise
  <2>2. Ready(g, Inside(g, i), PlacesInside(g, i)) /\ Ready(h, Inside(h, i), PlacesInside(h, i))
    BY InsideReady
  <2>3. Agree(g, h, Inside(g, i), Inside(h, i), PlacesInside(g, i), PlacesInside(h, i))
    <3>1. CASE i = 0
      <4>1. \A c \in Calls : Inside(g, i)[c] = None
        BY <3>1 DEF Inside, Nothing, Calls
      <4> QED  BY <4>1 DEF Agree
    <3>2. CASE i # 0
      <4>1. /\ Inside(g, i) = Serializers(g)[i - 1] /\ Inside(h, i) = Serializers(h)[i - 1]
            /\ PlacesInside(g, i) = Places(g)[i - 1] /\ PlacesInside(h, i) = Places(h)[i - 1]
        BY <3>2 DEF Inside, PlacesInside
      <4>2. Agree(g, h, Serializers(g)[i - 1], Serializers(h)[i - 1],
                  Places(g)[i - 1], Places(h)[i - 1])
        BY <1>2, <3>2
      <4> QED  BY <4>1, <4>2
    <3> QED  BY <3>1, <3>2
  <2>4. Agree(g, h, Deeper(g, Inside(g, i)), Deeper(h, Inside(h, i)),
              Farther(g, PlacesInside(g, i)), Farther(h, PlacesInside(h, i)))
    BY <2>2, <2>3, AgreeDeeper
  <2> QED  BY <2>1, <2>4
<1> HIDE DEF T
<1>3. 0 \in T
  <2>1. 0 \in 0 .. N
    BY <1>1
  <2> QED  BY <1>2, <2>1
<1>4. ASSUME NEW i \in 0 .. N - 1, i \in T PROVE i + 1 \in T
  <2>1. i + 1 \in 0 .. N /\ (i + 1) - 1 = i
    BY <1>1
  <2> QED  BY <1>2, <1>4, <2>1
<1>5. n \in T
  BY <1>1, <1>3, <1>4, UpTo
<1> QED
  BY <1>5 DEF T

\* Theorem: whatever the heap, canonicalJson is defined on exactly the values
\* that JSON carries, and texts are equal exactly if the data is.
THEOREM TextsTellData ==
    \A heaps \in SUBSET Heap, v \in JsValue : SerializesExactly(heaps, v)
<1> SUFFICES ASSUME NEW heaps \in SUBSET Heap, NEW v \in JsValue
             PROVE  SerializesExactly(heaps, v)
  OBVIOUS
<1> DEFINE N == Cardinality(Nodes)
           R(g) == Serializers(g)[N][<<v, {}>>]
<1>1. N \in 0 .. N
  BY NodeCount
<1>2. ASSUME NEW g \in Heap
      PROVE  /\ R(g) \in Result
             /\ CanonicalText(g, v) = IF R(g) = None THEN None ELSE R(g).text
             /\ IsJson(g, v) <=> R(g) # None
             /\ R(g) # None => CanonicalText(g, v) # None
             /\ Data(g, v) = DataOf(g, Places(g)[N][v])
  <2>1. /\ R(g) \in Result
        /\ CanonicalText(g, v) = IF R(g) = None THEN None ELSE R(g).text
    BY WholeIs
  <2>2. IsJson(g, v) <=> R(g) # None
    BY AcceptsJson
  <2>3. R(g) # None => CanonicalText(g, v) # None
    <3> SUFFICES ASSUME R(g) # None PROVE R(g).text # None
      BY <2>1
    <3>1. R(g).text \in Seq(Characters)
      BY <2>1 DEF Result, Serialization
    <3> QED  BY <3>1, JsonAssumption
  <2>4. Data(g, v) = DataOf(g, Places(g)[N][v])
    BY DEF Data, DataOf, Datum, AllPlaces
  <2> QED  BY <2>1, <2>2, <2>3, <2>4
<1> HIDE DEF R
<1>3. \A g \in heaps : IsJson(g, v) <=> CanonicalText(g, v) # None
  BY <1>2
<1>4. ASSUME NEW g \in heaps, NEW h \in heaps, IsJson(g, v), IsJson(h, v)
      PROVE  CanonicalText(g, v) = CanonicalText(h, v) <=> Data(g, v) = Data(h, v)
  <2>1. R(g) # None /\ R(h) # None
    BY <1>2, <1>4
  <2> DEFINE t1 == R(g).text
             t2 == R(h).text
             D1 == DataOf(g, Places(g)[N][v])
             D2 == DataOf(h, Places(h)[N][v])
  <2>2. CanonicalText(g, v) = t1 /\ CanonicalText(h, v) = t2
        /\ Data(g, v) = D1 /\ Data(h, v) = D2
    BY <1>2, <2>1
  <2>3. t1 \in Text /\ t2 \in Text
    BY <1>2, <2>1 DEF Result, Serialization, Text
  <2>4. Told(D1, t1, D2, t2)
    <3>1. Agree(g, h, Serializers(g)[N], Serializers(h)[N], Places(g)[N], Places(h)[N])
      BY <1>1, AgreeEverywhere
    <3>2. <<v, {}>> \in Calls /\ <<v, {}>>[1] = v
      BY DEF Calls
    <3> QED  BY <2>1, <3>1, <3>2 DEF Agree, R
  <2> HIDE DEF t1, t2, D1, D2
  <2>5. D1 = D2 => t1 = t2
    BY <2>4 DEF Told
  <2>6. ASSUME t1 = t2 PROVE D1 = D2
    <3>1. Stops(Bare, <<>>) /\ <<>> \in Text
      BY EmptyTyped DEF Stops
    <3>2. t1 ++ <<>> = t2 ++ <<>>
      BY <2>6
    <3> DEFINE e == <<>>
    <3> HIDE DEF e
    <3> QED  BY <2>4, <3>1, <3>2 DEF Told, e
  <2> QED  BY <2>2, <2>5, <2>6
<1> DEFINE json == {g \in heaps : IsJson(g, v)}
           pairs == {<<CanonicalText(g, v), Data(g, v)>> : g \in json}
<1>5. \A p, q \in pairs : p[1] = q[1] <=> p[2] = q[2]
  <2> SUFFICES ASSUME NEW p \in pairs, NEW q \in pairs
               PROVE  p[1] = q[1] <=> p[2] = q[2]
    OBVIOUS
  <2>1. PICK g \in json : p = <<CanonicalText(g, v), Data(g, v)>>
    OBVIOUS
  <2>2. PICK h \in json : q = <<CanonicalText(h, v), Data(h, v)>>
    OBVIOUS
  <2>3. p[1] = CanonicalText(g, v) /\ p[2] = Data(g, v)
        /\ q[1] = CanonicalText(h, v) /\ q[2] = Data(h, v)
    BY <2>1, <2>2
  <2>4. g \in heaps /\ IsJson(g, v) /\ h \in heaps /\ IsJson(h, v)
    OBVIOUS
  <2> QED  BY <1>4, <2>3, <2>4
<1> QED
  BY <1>3, <1>5 DEF SerializesExactly
=============================================================================
