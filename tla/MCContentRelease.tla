-------------------------- MODULE MCContentRelease --------------------------
(***************************************************************************)
(* Small content releases: an owned text, the same source after it changed *)
(* to something that looks like a secret and an instruction at once, and a *)
(* script; agents that ask for all of it, or for metadata without saying   *)
(* which fields.                                                           *)
(***************************************************************************)
EXTENDS ContentRelease, TLC

CONSTANTS content1, content2, seen1, seen2, seen3, target, fields, v1, v2

Observed1 == [id |-> seen1, content |-> content1, ownedText |-> TRUE,
              status |-> "COMPLETE", flags |-> {}]
Changed == [Observed1 EXCEPT !.id = seen2, !.content = content2,
    !.flags = {"SECRET_LIKE_CONTENT", "INSTRUCTION_LIKE_CONTENT"}]
Rescanned == [Observed1 EXCEPT !.id = seen3, !.ownedText = FALSE,
    !.flags = {"TYPE_MISMATCH"}]
Script == [Changed EXCEPT !.flags = {"EMBEDDED_SCRIPT"}]

Everything ==
    [exposure |-> "FULL_CONTENT", target |-> target, selection |-> fields]
Metadata ==
    [exposure |-> "SANITIZED_METADATA", target |-> target, selection |-> None]

MCObservations == {Observed1, Changed, Script}
MCRequests == {Everything, Metadata}
AllSurfaces == Exposures \ {"NONE"}
MCSurfaces == {AllSurfaces, {"DERIVED_ONLY"}}
Strict == [version |-> v1, allowFull |-> FALSE]
Trusting == [version |-> v2, allowFull |-> TRUE]
MCConfigs == {Strict, Trusting}
InMemory == [audit |-> "memory", store |-> "memory"]
InFiles == [audit |-> "sqlite", store |-> "sqlite"]
MCDeployments == {InMemory, InFiles}
\* The narrow instance: three reads of one request under one policy, receipts
\* in a file, the log in memory.
OnlyEverything == {Everything}
TwoObservations == {Observed1, Rescanned}
OnlyStrict == {Strict}
OnlyReceiptsInFile == {[audit |-> "memory", store |-> "sqlite"]}
OnlyMemory == {InMemory}

Symmetry == Permutations(Reads) \cup Permutations(ReceiptIds)
=============================================================================
