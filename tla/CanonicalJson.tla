---------------------------- MODULE CanonicalJson ----------------------------
(***************************************************************************)
(* The text that approvals hash: canonicalJson, which sorts the keys of    *)
(* objects and refuses whatever JSON could not carry unchanged. The        *)
(* gateway's hashes are modelled as the material they are taken of; this   *)
(* module is about why that is fair.                                       *)
(*                                                                         *)
(* A JavaScript value is a scalar or refers to a node of a heap: an array, *)
(* a plain object with its keys in the order they were inserted, or an     *)
(* exotic object (another prototype, symbols, hidden or computed           *)
(* properties, an array with named ones). Unsupported values are           *)
(* undefined, holes of arrays, functions, NaN, -0 and their like. Booleans *)
(* and null are printed like numbers, bare. A text is a sequence of        *)
(* characters; a string is the ones JSON.stringify puts between its        *)
(* quotes, among which there is no bare quote. A key counts as one.        *)
(***************************************************************************)
EXTENDS Optional, Integers, SequencesExt

CONSTANTS
    Characters,     \* what texts are made of
    Nodes,          \* the arrays and objects in memory
    Scalars,        \* the values that refer to none
    SortedKeys,     \* the keys objects have, as Array.prototype.sort orders them
    Indices         \* the names of an array's positions, in order

Ref(n) == [type |-> "reference", chars |-> n]
Number(chars) == [type |-> "number", chars |-> chars]
String(chars) == [type |-> "string", chars |-> chars]
Unsupported == [type |-> "unsupported", chars |-> <<>>]

Array(values) ==
    [kind |-> "array", keys |-> SubSeq(Indices, 1, Len(values)),
     at |-> [key \in {Indices[i] : i \in DOMAIN values} |->
                values[CHOOSE i \in DOMAIN values : Indices[i] = key]]]
Object(keys, at) == [kind |-> "object", keys |-> keys, at |-> at]
Exotic == [kind |-> "exotic", keys |-> <<>>, at |-> [key \in {} |-> None]]

Punctuation == {"'", ":", ",", "[", "]", "{", "}"}
JsValue == {Ref(n) : n \in Nodes} \cup Scalars

\* The nodes there may be; the positions of an array have no gaps.
Node ==
    {Exotic} \cup
    {node \in [kind : {"array"}, keys : Seq(Characters),
               at : UNION {[keys -> JsValue] : keys \in SUBSET Range(Indices)}] :
        \A i \in 2 .. Len(Indices) :
            Indices[i] \in DOMAIN node.at => Indices[i - 1] \in DOMAIN node.at} \cup
    [kind : {"object"}, keys : Seq(Characters),
     at : UNION {[keys -> JsValue] : keys \in SUBSET Range(SortedKeys)}]
Heap == [Nodes -> Node]

\* What a serialized value comes to: its text, and the nodes seen by then.
Serialization == [text : Seq(Characters), seen : SUBSET Nodes]

ASSUME JsonAssumption ==
    /\ Punctuation \subseteq Characters
    /\ IsFiniteSet(Nodes)
    /\ Scalars \subseteq
           [type : {"unsupported", "string", "number"}, chars : Seq(Characters)]
    /\ \A s \in Scalars : s.type = "string" => "'" \notin Range(s.chars)
    /\ \A s \in Scalars : s.type = "number" =>
           s.chars # <<>> /\ Range(s.chars) \cap Punctuation = {}
    /\ SortedKeys \in Seq(Characters) /\ IsInjective(SortedKeys)
    /\ Indices \in Seq(Characters) /\ IsInjective(Indices)
    /\ None \notin Serialization /\ None \notin Seq(Characters)

-----------------------------------------------------------------------------
Quoted(chars) == <<"'">> \o chars \o <<"'">>

\* Mutant: the keys of an object are taken as they come.
KeysAsInserted(node) == node.keys

\* The order in which keys are visited, those that the node has: by index, and
\* Object.keys(value).sort().
KeyOrder(node) == IF node.kind = "array" THEN Indices ELSE SortedKeys

\* The items joined so far with one more. No item is empty.
Joined(node, items, key, item) ==
    LET comma == IF items = <<>> THEN <<>> ELSE <<",">>
        label == IF node.kind = "array" THEN <<>> ELSE Quoted(<<key>>) \o <<":">>
    IN  items \o comma \o label \o item

Bracketed(node, items) ==
    IF node.kind = "array" THEN <<"[">> \o items \o <<"]">>
    ELSE <<"{">> \o items \o <<"}">>

\* An item is serialized with all that was seen before it, or refused (None).
WithItem(node, inside, state, key) ==
    IF state = None THEN None
    ELSE LET item == inside[<<node.at[key], state.seen>>]
         IN  IF item = None THEN None
             ELSE [text |-> Joined(node, state.text, key, item.text),
                   seen |-> item.seen]

\* The items of a node, key by key. inside serializes what stands in them.
Items(node, inside, seen) ==
    LET order == KeyOrder(node)
        upTo[i \in 0 .. Len(order)] ==
            IF i = 0 THEN [text |-> <<>>, seen |-> seen]
            ELSE IF order[i] \in DOMAIN node.at
                 THEN WithItem(node, inside, upTo[i - 1], order[i])
                 ELSE upTo[i - 1]
    IN  upTo

\* A node seen before, in whatever place, is refused.
SerializeNode(heap, inside, n, seen) ==
    LET node == heap[n]
        items == Items(node, inside, seen \cup {n})[Len(KeyOrder(node))]
    IN  IF n \in seen \/ node.kind = "exotic" THEN None
        ELSE IF items = None THEN None
        ELSE [text |-> Bracketed(node, items.text), seen |-> items.seen]

Serialize(heap, inside, value, seen) ==
    CASE value.type = "unsupported" -> None
      [] value.type = "string" -> [text |-> Quoted(value.chars), seen |-> seen]
      [] value.type = "number" -> [text |-> value.chars, seen |-> seen]
      [] value.type = "reference" -> SerializeNode(heap, inside, value.chars, seen)

\* Serializers that go n nodes deep. Below all nodes there is none unseen.
Nothing == [call \in JsValue \X SUBSET Nodes |-> None]
Serializers(heap) ==
    LET within[n \in 0 .. Cardinality(Nodes)] ==
            [call \in JsValue \X SUBSET Nodes |->
                Serialize(heap, IF n = 0 THEN Nothing ELSE within[n - 1],
                          call[1], call[2])]
    IN  within

\* The text, or None where canonicalJson throws.
CanonicalText(heap, value) ==
    LET result == Serializers(heap)[Cardinality(Nodes)][<<value, {}>>]
    IN  IF result = None THEN None ELSE result.text

-----------------------------------------------------------------------------
\* What a value is, without a serializer: its paths and what stands at their
\* ends. Any path that visits a node twice does so within as many steps as
\* there are nodes.
Place(path, value) == [path |-> path, value |-> value]

\* The places of a value: its own, and those of its items, inside of it.
PlacesOf(heap, inside, value) ==
    {Place(<<>>, value)} \cup
        IF value.type # "reference" THEN {}
        ELSE LET at == heap[value.chars].at
             IN  UNION {{Place(<<key>> \o place.path, place.value) :
                            place \in inside[at[key]]} : key \in DOMAIN at}

\* The places in n steps or less.
Places(heap) ==
    LET within[n \in 0 .. Cardinality(Nodes)] ==
            [value \in JsValue |->
                PlacesOf(heap, IF n = 0 THEN [v \in JsValue |-> {}]
                               ELSE within[n - 1], value)]
    IN  within

AllPlaces(heap, value) == Places(heap)[Cardinality(Nodes)][value]

\* JSON could carry it: nothing unsupported or exotic anywhere, and every node
\* in one place only.
IsJson(heap, value) ==
    \A here \in AllPlaces(heap, value) :
        /\ here.value.type # "unsupported"
        /\ here.value.type = "reference" =>
               /\ heap[here.value.chars].kind # "exotic"
               /\ \A there \in AllPlaces(heap, value) :
                      there.value = here.value => there = here

\* The data: scalars where they stand, and of nodes what they are.
Data(heap, value) ==
    {[path |-> place.path, type |-> place.value.type,
      chars |-> IF place.value.type = "reference"
                THEN <<heap[place.value.chars].kind>> ELSE place.value.chars] :
        place \in AllPlaces(heap, value)}

\* canonicalJson is defined on exactly the JSON values among these, and equal
\* texts are equal data.
SerializesExactly(heaps, value) ==
    LET json == {heap \in heaps : IsJson(heap, value)}
        pairs == {<<CanonicalText(heap, value), Data(heap, value)>> :
                     heap \in json}
    IN  /\ \A heap \in heaps :
               IsJson(heap, value) <=> CanonicalText(heap, value) # None
        /\ \A p, q \in pairs : p[1] = q[1] <=> p[2] = q[2]
=============================================================================
