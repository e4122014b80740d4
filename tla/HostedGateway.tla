--------------------------- MODULE HostedGateway ---------------------------
(***************************************************************************)
(* The gateway in its process: the policies it loads are parsed from files *)
(* (startHttpServer, PolicyFileLoadResult), operators query the audit log  *)
(* that its calls leave (GET /audit), and the arguments of calls are       *)
(* JavaScript objects, which hashing serializes or refuses.                *)
(***************************************************************************)
EXTENDS Gateway, PolicyLoader, CanonicalJson

CONSTANTS
    PolicyLines,    \* lines that policy files have
    PolicyFiles,    \* policy files that hosts may point the process to
    Filters,        \* what operators ask the audit log
    Heaps,          \* the memory that agents' arguments may be found in
    Root            \* the arguments object in it

ASSUME HostAssumption ==
    /\ \A line \in PolicyLines : line.indent \in Nat
    /\ PolicyFiles \subseteq Seq(PolicyLines)
    /\ PolicyConfigs \subseteq {ParsePolicyConfig(file) : file \in PolicyFiles}
    /\ None \notin PolicyConfigs
    /\ Filters \subseteq
           [tool : Tools \cup {None}, type : EventTypes \cup {None},
            since : Int \cup {None}, limit : (Nat \ {0}) \cup {None}]
    /\ Heaps \subseteq Heap /\ Root \in JsValue
    /\ Arguments \subseteq Heaps
    /\ Uncanonical = {heap \in Arguments : CanonicalText(heap, Root) = None}

-----------------------------------------------------------------------------
\* What the files say to a reader who goes by the indentation.
AsWritten(file) == NormalizePolicyRoot(TreeAsIndented(file))

ConfigsAsWritten ==
    {ConfigOf(AsWritten(file)) :
        file \in {f \in PolicyFiles : Supported(f) /\ WellFormed(AsWritten(f))}}

ReadsAsIndented ==
    \A file \in PolicyFiles : ParseSimpleYaml(file) = TreeAsIndented(file)

\* The policy in force is what its file says to a reader who goes by the
\* indentation, in whichever layout the lines come: a section closed too late
\* or too early would give a tool the entry of another, or of nobody
\* (policy-loader.ts:62, the stack of indentations).
PolicyIsAsWritten ==
    /\ ReadsAsIndented
    /\ policy \in ConfigsAsWritten

\* A call's records, the first n of them made in an earlier millisecond.
Stamped(trail, tool, n) ==
    [i \in DOMAIN trail |->
        [id |-> i, tool |-> tool, type |-> trail[i].type,
         outcome |-> trail[i].outcome, time |-> IF i <= n THEN 1 ELSE 2]]

StampedTrail(c, n) == Stamped(audit[c], calls[c].action.tool, n)

\* Whichever backend keeps the audit log, an operator's query finds the same
\* records, the newest that match, however the records of a call fall on
\* milliseconds; SQLite lists them in the opposite order and without the
\* advice of their outcomes, and between records of one millisecond at the
\* limit it may choose others (audit-log.ts: query; sqlite-audit-log.ts: query,
\* rowToEvent). A limit that cut off the newest instead, which the opposite
\* orders invite, would show here.
AuditAnswersAgree ==
    \A c \in Requests : \A n \in 0 .. Len(audit[c]), filter \in Filters :
        BackendsAgreeOn(StampedTrail(c, n), filter)

SerializerIsExact == SerializesExactly(Heaps, Root)

\* The hashes of two proposals are equal exactly if their data is, whatever the
\* order in which keys were inserted; what JSON could not carry is refused, a
\* value that refers to itself before the serializer loops; and no grant is for
\* such arguments. Otherwise a retry is not recognised, or one approval covers
\* two actions (canonical-hash.ts:110, the keys are sorted at every depth; 99,
\* what was seen is refused).
HashesAreExact ==
    /\ SerializerIsExact
    /\ \A g \in DOMAIN grants :
           IsJson(grants[g].actionHash.action.arguments, Root)
=============================================================================
