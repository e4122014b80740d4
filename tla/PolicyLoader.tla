---------------------------- MODULE PolicyLoader ----------------------------
(***************************************************************************)
(* How the text of a policy file becomes the configuration that            *)
(* PolicyEngine evaluates. A file is the sequence of its lines without the *)
(* blank ones and the comments; a line has an indentation, a key and a     *)
(* value, and without a value it opens a section. A parsed file is the set *)
(* of its entries, each with its path. A JSON file arrives as such a set   *)
(* from JSON.parse and takes the same way from there.                      *)
(***************************************************************************)
EXTENDS Optional, PolicyEngine, Integers, SequencesExt

\* What a key without a value is assigned.
Section == "{}"

\* A line with a tab or without a colon has no key; the parser throws.
Supported(file) == \A i \in DOMAIN file : file[i].key # None

-----------------------------------------------------------------------------
\* Assigning to a key replaces what the key held, a whole section included.
Assign(tree, path, value) ==
    {entry \in tree : ~IsPrefix(path, entry.path)}
        \cup {[path |-> path, value |-> value]}

\* Mutant: a line at the indentation of a section belongs to the section.
ClosesIfShallower(indent, section) == indent < section.indent

\* What is indented as deep as the line, or deeper, does not hold it.
Closes(indent, section) == indent <= section.indent

\* Such sections are popped while one is last; the file itself, at the bottom,
\* stays.
OpenSections(stack, indent) ==
    LET last == CHOOSE m \in DOMAIN stack :
                    /\ m = 1 \/ ~Closes(indent, stack[m])
                    /\ \A l \in m + 1 .. Len(stack) : Closes(indent, stack[l])
    IN  SubSeq(stack, 1, last)

ReadLine(state, line) ==
    LET open == OpenSections(state.stack, line.indent)
        path == Append(open[Len(open)].path, line.key)
    IN  [tree |-> Assign(state.tree, path, line.value),
         stack |-> IF line.value = Section
                   THEN Append(open, [indent |-> line.indent, path |-> path])
                   ELSE open]

\* The parser's state after each line.
Reading(file) ==
    LET root == [indent |-> -1, path |-> <<>>]
        state[i \in 0 .. Len(file)] ==
            IF i = 0 THEN [tree |-> {}, stack |-> <<root>>]
            ELSE ReadLine(state[i - 1], file[i])
    IN  state

ParseSimpleYaml(file) == Reading(file)[Len(file)].tree

-----------------------------------------------------------------------------
\* The tools may stand under a section of that name or at the top.
NormalizePolicyRoot(tree) ==
    IF [path |-> <<"tools">>, value |-> Section] \in tree
    THEN {[entry EXCEPT !.path = Tail(entry.path)] :
             entry \in {e \in tree : Len(e.path) > 1 /\ e.path[1] = "tools"}}
    ELSE tree

Holds(tree, path, values) ==
    \E value \in values : [path |-> path, value |-> value] \in tree

\* Every entry at the top is a tool's policy with its risk and its approval
\* mode; what else it may hold decides nothing here.
WellFormed(tree) ==
    \A entry \in tree : Len(entry.path) = 1 =>
        /\ entry.value = Section
        /\ Holds(tree, Append(entry.path, "risk"), RiskClasses)
        /\ Holds(tree, Append(entry.path, "approval"), ApprovalModes)

ConfigOf(tree) ==
    [tool \in {entry.path[1] : entry \in tree} |->
        CHOOSE mode \in ApprovalModes :
            [path |-> <<tool, "approval">>, value |-> mode] \in tree]

\* The configuration, or None when the loader throws.
ParsePolicyConfig(file) ==
    LET tree == NormalizePolicyRoot(ParseSimpleYaml(file))
    IN  IF Supported(file) /\ WellFormed(tree) THEN ConfigOf(tree) ELSE None

-----------------------------------------------------------------------------
\* What a file says by its indentation, without a parser: a line belongs to
\* the nearest section above it that every line since is indented deeper
\* than. Line 0 stands for the file itself.
Encloses(file, j, i) ==
    j = 0 \/ /\ file[j].value = Section
             /\ \A k \in j + 1 .. i : file[k].indent > file[j].indent

Enclosing(file, i) ==
    CHOOSE j \in 0 .. i - 1 :
        /\ Encloses(file, j, i)
        /\ \A k \in j + 1 .. i - 1 : ~Encloses(file, k, i)

\* The path of each line: its section's, and its key.
PathsAsIndented(file) ==
    LET path[i \in 0 .. Len(file)] ==
            IF i = 0 THEN <<>>
            ELSE Append(path[Enclosing(file, i)], file[i].key)
    IN  path

\* A line lasts unless a later one assigns to its path or to a section of it.
TreeAsIndented(file) ==
    LET path == PathsAsIndented(file)
        lasting == {i \in DOMAIN file :
                       \A j \in i + 1 .. Len(file) : ~IsPrefix(path[j], path[i])}
    IN  {[path |-> path[i], value |-> file[i].value] : i \in lasting}
=============================================================================
