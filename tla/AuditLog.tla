------------------------------ MODULE AuditLog ------------------------------
(***************************************************************************)
(* Queries on the audit log. In memory the records stand in the order in   *)
(* which they were made and are handed out in that order, a limited answer *)
(* cut at its beginning. The SQLite table is read by timestamp, newest     *)
(* first, to the millisecond, and a limited answer is cut at its end:      *)
(* records of one millisecond come in any order and may fall on either     *)
(* side of the cut. And the table has columns only for an outcome's state, *)
(* reason and data: the recovery advice is read back as constants.         *)
(*                                                                         *)
(* A log is a sequence of records [id, tool, type, outcome, time] in the   *)
(* order in which they were made. A filter names a tool, an event type,    *)
(* the time since when, and a limit, each of which may be absent.          *)
(***************************************************************************)
EXTENDS Optional, Integers, Sequences, FiniteSets

\* The outcome that a row gives back.
WithoutAdvice(outcome) ==
    [outcome EXCEPT !.retryable = FALSE, !.requiresUser = FALSE,
                    !.safeToContinue = TRUE]

\* A record as it comes back from its row.
AsRead(record) ==
    IF record.outcome = None THEN record
    ELSE [record EXCEPT !.outcome = WithoutAdvice(@)]

-----------------------------------------------------------------------------
Matches(record, filter) ==
    /\ filter.tool \in {None, record.tool}
    /\ filter.type \in {None, record.type}
    /\ filter.since = None \/ record.time >= filter.since

Hits(log, filter) == {i \in DOMAIN log : Matches(log[i], filter)}

\* How many of the hits an answer has.
Taken(hits, limit) ==
    IF limit = None \/ Cardinality(hits) < limit THEN Cardinality(hits)
    ELSE limit

\* The k-th of the hits in the order of the log.
Nth(hits, k) == CHOOSE i \in hits : Cardinality({j \in hits : j <= i}) = k

\* Mutant: the limit keeps the beginning of the log.
MemoryAnswerFromStart(log, filter) ==
    LET hits == Hits(log, filter)
    IN  [k \in 1 .. Taken(hits, filter.limit) |-> log[Nth(hits, k)]]

\* results.slice(-limit)
MemoryAnswer(log, filter) ==
    LET hits == Hits(log, filter)
        taken == Taken(hits, filter.limit)
        skipped == Cardinality(hits) - taken
    IN  [k \in 1 .. taken |-> log[Nth(hits, skipped + k)]]

\* The rows that ORDER BY timestamp DESC LIMIT may list, by their positions.
Listings(log, hits, n) ==
    {rows \in [1 .. n -> hits] :
        /\ \A a, b \in 1 .. n :
               a < b => /\ rows[a] # rows[b]
                        /\ log[rows[a]].time >= log[rows[b]].time
        /\ \A i \in hits : \A a \in 1 .. n :
               i \in {rows[b] : b \in 1 .. n}
                   \/ log[i].time <= log[rows[a]].time}

\* The answers SQLite may give.
SqliteAnswers(log, filter) ==
    LET hits == Hits(log, filter)
        n == Taken(hits, filter.limit)
    IN  {[k \in 1 .. n |-> AsRead(log[rows[k]])] :
            rows \in Listings(log, hits, n)}

-----------------------------------------------------------------------------
\* The same records, but for those of the last millisecond when some of them
\* were cut off.
SameRecords(a, b, whole) ==
    \A k \in DOMAIN a :
        whole \/ (\E last \in DOMAIN a : a[last].time < a[k].time)
            => \E m \in DOMAIN b : b[m] = a[k]

\* What one backend answers says what the other would: read backwards and
\* without its advice, the answer from memory is one that SQLite may give; and
\* whichever SQLite gives has as many records, of the same milliseconds one by
\* one, the same ones wherever the limit left no choice.
BackendsAgreeOn(log, filter) ==
    LET memory == MemoryAnswer(log, filter)
        n == Len(memory)
        backwards == [k \in 1 .. n |-> AsRead(memory[n + 1 - k])]
        whole == n = Cardinality(Hits(log, filter))
    IN  /\ backwards \in SqliteAnswers(log, filter)
        /\ \A answer \in SqliteAnswers(log, filter) :
               /\ Len(answer) = n
               /\ \A k \in 1 .. n : answer[k].time = backwards[k].time
               /\ SameRecords(answer, backwards, whole)
               /\ SameRecords(backwards, answer, whole)
=============================================================================
