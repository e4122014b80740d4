# Ananke in TLA+

A verification project for the Ananke gateway: the program that stands between
AI agents and the tools they call, decides whether a call may run, asks a human
when it may not run by itself, classifies what came out of it and keeps an
audit trail. Paths below are relative to the repository (`src/`).

Ananke is TypeScript on one event loop. Everything between two `await`s is
atomic; calls of many agents and decisions of many operators interleave at the
awaits. That, the passing of time, restarts, and audit writes that may throw
are what the models are about.

## 1. Inventory

| component | source (`packages/…`) | state | operations | made correct by |
|---|---|---|---|---|
| approval store, engine | `authority-engine/src/approval-store.ts`, `approval-engine.ts` | a process-wide map from approval id to grant | request, approve, reject, check, consume, clear, list pending | one decision per grant, decisions in time, a dead grant stays dead, an approval covers one action |
| canonical hash | `authority-engine/src/canonical-hash.ts` | none | canonical JSON, SHA-256, what of a call is bound | equal hash exactly for equal material; the request id is not bound |
| policy engine | `policy-engine/src/policy-engine.ts` | the loaded configuration | load, evaluate | a decision for every tool, an unknown one included |
| policy file loader | `policy-engine/src/policy-loader.ts` | none | parse a YAML subset | every line belongs to the right parent |
| risk classifier, registry | `runtime-core/src/classifier.ts`, `registry.ts` | tool name → metadata | register, list, classify | unregistered tools fall in the unknown class |
| tool router | `tool-router/src/execution-wrapper.ts` | none | run an executor, classify its error | never rejects; the first keyword class that matches |
| outcome classifier | `outcome-engine/src/outcome-classifier.ts` | none | result → outcome | well-formed recovery advice |
| gateway | `runtime-core/src/index.ts` | registry, executors, policy, calls in flight | `execute`, register, set executor, load policy | side effects only under authority, complete evidence |
| routes | `runtime-core/src/routes.ts` | none | HTTP around the gateway; approve and reject write audit records | decision and record in one segment |
| authenticators | `runtime-core/src/auth.ts` | none | credential → execution context, session id | stable identity across a retry |
| content preflight | `runtime-core/src/index.ts` (`preflightReadResult`), `content-preflight.ts` | preflight adapters by tool | scan the result of a read, decide, render one surface of it | what is shown is at most what was decided, and the log says so |
| content approval store | `runtime-core/src/content-approval-store.ts` | receipts, in memory or SQLite | request, approve, reject, check, consume, list pending | a receipt lets one read through, and only what was approved, across a restart |
| content policy | `policy-engine/src/content-policy-engine.ts` | its configuration | evaluate | the rules are in the right order: nothing dangerous reaches a permissive one |
| operator sessions | `runtime-core/src/operator-session-store.ts` | sessions, in memory or SQLite | accept, rotate, revoke, expire | a revoked session never acts again, also with two processes |
| audit log | `audit-engine/src/audit-log.ts`, `sqlite-audit-log.ts` | events, in memory or SQLite | record, query | order, and what one backend answers says what the other would |
| MCP adapter | `mcp-adapter` | connections | discover, call | an executor like any other |
| Adrasteia adapter | `adrasteia-adapter` | none | translate contracts | (stateless) |
| schema | `schema/src/index.ts` | none | validation | |
| dashboard | `dashboard/src/App.tsx` | token field, fetched view | refresh, sign out, decide | whatever is in flight, the page comes to show what the gateway would show that token |
| testbench, examples, scripts | `testbench`, `examples`, `scripts` | none of their own | | |

How they interact. An agent's call enters through a route, is given an
execution context by an authenticator, and goes through `Gateway.execute`:
audit, policy check (which reads the registry through the classifier), approval
check (which hashes the call with the canonical hash and asks the store), the
executor behind the tool router, classification, audit, consumption of the
grant. With content preflight enabled the result of a read then waits for the
preflight adapter of its tool; the content policy decides on what the adapter
observed, and the receipt store is asked, written or told to consume. An operator's decision
enters through another route: an authenticator proves the operator, the session
store observes the session, its start or rotation goes on record, the roles are
asked for the permission, and only then is the approval store changed and a
record written. The dashboard polls the read-only routes and sends decisions. The host
program registers tools and reloads policies through public methods at any
time. All of these share state only through the objects in the table.

What is hard here, and therefore what `PROJECT.json` lists as hazards with
their lines:

* *check, await, consume*: a grant is checked before the executor is awaited
  and consumed after it;
* *partial failure*: with a SQLite log each audit write may throw, after a
  grant was stored or after a side effect happened; the serializer may throw in
  mid-pipeline;
* *stale inputs*: server, risk and policy are read anew on a retry;
* *two deciders* and the clock racing on one grant;
* *restart*: grants are in memory, the audit log may be a file, and so may the
  content receipts;
* *a late failure*: content may be allowed, and its release recorded, before the
  adapter turns out not to render it or a write throws;
* *identity across attempts*: what must and what must not be bound;
* *sessions on a shared file*: one process reads a row, another revokes or
  rotates it, the first writes it back; a logout is answered by one process and
  has to be felt at the other;
* *overlapping refreshes*: the dashboard shows whatever answer is applied last,
  for whichever token it was asked;
* *parsing by indentation*, *limits on ordered logs*, *one text per value*: three
  small algorithms that other parts take for granted.

## 2. The modules

| module | what it is |
|---|---|
| `Optional` | the null value |
| `PolicyEngine` | risk classes, decisions, the default policy, overrides, `Classify`, `Evaluate` |
| `OutcomeClassifier` | reason codes, keyword classes of error messages, results, outcomes |
| `ApprovalStore` | the map of grants: every operation of store and engine, with the clock |
| `ApprovalAuthority` | abstract: mandates that are opened, granted, refused, closed, and the effects run under them |
| `Gateway` | `execute()`, the approve and reject routes, host operations, time, restart; extends the three above and implements `ApprovalAuthority` |
| `ContentPolicy` | exposures, risk flags, observations, requests, `EvaluateContent`, the binding of a decision |
| `ContentApproval` | the map of content receipts and its operations, with the clock |
| `ContentAuthority` | abstract: `ApprovalAuthority` with mandates that are closed by the very step that acts on them |
| `ContentRelease` | the second segment of `execute()` with content preflight enabled, the content approval routes, host operations, time, restart; extends the two content modules and implements `ContentAuthority` |
| `OperatorAuth` | tokens and claims, operators, roles and permissions, credentials |
| `SessionAuthority` | abstract: sessions that requests are trusted with, that are closed by such a request and stay closed |
| `OperatorSession` | an operator's request from token to answer, in several processes over their own maps or one file; extends `OperatorAuth`, implements `SessionAuthority` |
| `PolicyLoader` | lines of a policy file → entries → configuration, and what the indentation says without a parser; extends `PolicyEngine` |
| `AuditLog` | the query of both backends, and what a row gives back of an outcome |
| `CanonicalJson` | the canonical serializer over a heap of JavaScript values, and what JSON is without it |
| `HostedGateway` | the gateway in its process: policies that come from files, operators that query the trails its calls leave, arguments that are JavaScript objects; extends `Gateway` and the three above |
| `Dashboard` | the page, its overlapping refreshes, its one click in flight, and the gateway's answers |
| `MCApprovalStore`, `MCGateway`, `MCHostedGateway`, `MCContentRelease`, `MCOperatorSession`, `MCDashboard` | values and symmetry for TLC; `MCHostedGateway` also brings policy files, audit queries and JavaScript values as arguments |
| `GatewayProofs`, `CallProofs` | theorems about the store, the gateway and its refinement; its calls and their retries. The second extends the first |
| `DataProofs` | theorems about the policy parser and the audit queries, for files and logs of every length |
| `JsonProofs` | theorems about the canonical serializer, for heaps of every size; extends `DataProofs` for its induction |
| `HostedGatewayProofs` | the gateway's policies, its audit answers and its hashes; extends `GatewayProofs` and `JsonProofs` |
| `ContentReleaseProofs` | theorems about content release and its refinement |
| `OperatorSessionProofs` | theorems about operator sessions |
| `DashboardProofs` | the type invariant of the page |

### Correspondence with the code

*Grants.* `grants` is the `Map` in `approval-store.ts`, a function whose domain
is the set of stored ids. `issued` is not a program variable: it remembers which
ids were ever generated, in this process or before a restart, which is what
"a UUID is never generated twice" means. A hash is the record of the material
hashed, so two hashes are equal exactly when the material is; that is SHA-256
taken as collision free, and a serializer that gives equal data one text and
different data different ones, which `CanonicalJson` is about. What the material consists of is modelled field by
field (`AuthorityRelevantContext`, `HashApprovalAction`,
`HashApprovalBinding`). Identity, delegation, tenant, scope and purpose are one
value (`principal`) because the code always treats them together. `now` is the
wall clock in ticks; `Date.parse(expiresAt) <= Date.now()` is `Expired`.

*Calls.* Each member of `Requests` is one invocation of `execute()`; the
gateway draws a fresh request id for each. `calls[c].pc` says where it is: not
submitted, awaiting the executor, answered, thrown (the HTTP layer turns that
into a 500), or lost in a restart. The first segment of `execute()` (up to the
call of the executor or an earlier return) is one step, split into one action
per way it can end: `RefuseContext`, `DenyCall`, `AskForApproval`,
`KeepWaiting`, `AnswerRejected`, `AnswerInvalidated`, `FailToHash`,
`AnswerNoExecutor`, `Invoke`. Their guards are the code's conditions in the
code's order. `Finish` is the second segment. `calls[c].ran` and
`calls[c].decision` remember what the properties need.

*The preflight's own await.* After the executor has settled `execute()` awaits
`preflightReadResult`. With content preflight disabled (the default, and what
`Gateway` covers) that returns `undefined` at once; between the two resumptions
the call reads and writes nothing, so `Finish`, the code after the last await,
is the whole second segment. With content preflight enabled this await is long,
and `ContentRelease` is about what happens in it. The two halves are separate
modules because they share no state: grants and receipts are different stores
with different ids, and a read enters the second half with its data and the
access request it came with.

*Reads.* A member of `Reads` is a `READ_ONLY` call whose executor has settled
with data. `RefuseUnscanned` and `StartScan` are the part of
`preflightReadResult` before the adapter is awaited. When the adapter settles,
everything up to the return is one segment: observe, evaluate, check the
receipt, pick the surface, consume the receipt. It is one action per way it can
end. `AnswerRead` is what `execute()` does when it resumes: two more audit
records and the answer, in a later step, so a restart may come in between.
A read is `lost` when it does. What `execute()` does to the tool's own grant at
its end is in `Finish`, and not repeated here.

*Failures.* `deployment` says whether the audit log and the receipt store are
in memory or in files; only files throw. `CutShort` is what is on record of a
trail when one of its writes throws, and `Caught` is the catch block: one more
record, `DENY`, which may itself throw, and then `execute()` rejects. So every
action has the outcome it was meant to have and all the ways it is cut short.
A receipt is stored before its record is written and consumed after the last
record, and the actions keep that order.

*What an adapter does* is an input: any observation of `Observations`, any set
of surfaces. `ownedText` stands for the two facts the policy asks of the source
(trusted as owned, a text media type); `target` for destination runtime, agent
and purpose, which the code always takes together. A binding hash is the record
of what is hashed, as with grants. Hashing refuses a request without a
selection, which is `CanBeBound`.

*Approvals of content.* Their audit record follows the decision and belongs to
no read; no property is about it, so it is left out. `Restart` starts a process
that may have another content policy, and that is how a policy changes here: the
configuration of a running gateway is fixed.

*Audit.* `audit[c]` is the trail of call `c`, `decisionLog` the records of the
approval routes. `Written` is the point of failure: an in-memory log always
takes all of the records of a segment, a SQLite log may throw at any of them and
the rest of the handler is then skipped. A record stands in the trail as the log
gives it back: the SQLite table has columns for an outcome's state, reason and
data only, and every row is read back as not retryable, not requiring a user and
safe to continue (`sqlite-audit-log.ts:68`-`77`), which is `WithoutAdvice`. So
`AuditTellsOutcome` demands the whole outcome of a log in memory, and its state
and reason of one in a file.

*The host.* `RegisterTool`, `SetExecutor`, `LoadPolicy` are the public methods
of the gateway. `Restart` ends the process and starts another: grants, calls in
flight and an in-memory log are gone, registrations are those of the start-up
code.

*Operator sessions.* `requests[q].pc` is where an operator's request is:
`arrived` (the token is being verified), `observed` (the store has read the row),
`noting` (the row is written, its record is not), `trusted` (on its way to the
route's own work), `revoked` (the logout has closed the row, its record is not
written). `Observe` to `NoteSession` is one synchronous piece of code, and so is
`Revoke` to `NoteRevocation`; they are several steps because the statements of
another process on the same file come in between, and `Busy` keeps a process
from running two at once. With a map in memory they are steps of one process
that no other sees. The verdict of the JWT library is free: any JWT may be
refused at any time. Display names, roles and timestamps of a row decide nothing
and are left out; the roles that count are those of the token presented. `told`,
`untold`, `loggedOut` and `late` are not program variables: they remember what
the properties need. A store on a file may throw (`StoreFails`): reading or
writing an observation, and the request is answered 401; or updating the row of a
logout, and the answer is 500 with the session still open. A throw after the
update (the row is read once more) is `NoteFails`, like a record that cannot be
written. A request that was trusted before a logout is still
answered, a decision included: the code looks at the session once, and no
property claims more. `Crash` loses what a process holds in memory; the file
stays.

*Policy files.* A file is the sequence of its lines without blank ones and
comments, a line an indentation, a key and a value. The parser's nested objects
are a set of entries with paths. `TreeAsIndented` is the reference: it goes by
what a reader sees, the nearest section above that every line since is indented
deeper than. JSON files come from `JSON.parse` as such a set. In `HostedGateway`
every policy the gateway loads is what the loader makes of some file, and
`PolicyIsAsWritten` says that it is what the file's reader expects. The parser is
a recursive function of the lines read (`Reading`) and not a fold, which is what
makes it possible to prove things about it.

*Audit queries.* A log is a sequence of records, an answer the sequence of records
an operator gets: `results.slice(-limit)` in memory, in the order of the log;
`ORDER BY timestamp DESC LIMIT` in SQLite, newest first, where records of one
millisecond come in any order and may fall on either side of the limit
(`Listings`), and each is what its row gives back (`AsRead`). `BackendsAgreeOn`
compares the answers record by record and in order: the answer from memory, read
backwards and without its advice, is one that SQLite may give, and any other that
SQLite may give differs among records of one millisecond only. Records are taken
to be made in the order of their timestamps: a wall clock that is set back is not
modelled.

*Canonical JSON.* Values refer to nodes of a heap, so that one array may be
referred to twice, or an object by itself; `seen` is threaded through the
serializer as in the code and never shrinks. A heap may be cyclic, so descending
into it is no recursion on the value; but the code refuses a node it has seen, and
each level of its recursion sees one more. `Serializers` therefore counts levels:
at level `n` a serializer calls, for what stands in a node, the one of level
`n - 1`, and below level 0 there is none (`Nothing`). With as many levels as
there are nodes the last one is never reached before the refusal, which is part of
what `TextsTellData` proves. Keys are visited in the order of the code (indices,
or `Object.keys(value).sort()`), as far as the node has them. `IsJson` and `Data`
say what a JSON value is and what data it carries without serializing anything:
by its paths and what stands at their ends.

*Dashboard.* A member of `Slots` is one run of `refresh()`, from `/auth/me` over
the three lists fetched together to the content approvals, with the token its
closure was created with. Of each list only whether there is something in it is
kept. `request` is the click in flight: sign-out or a decision. Agents that ask,
approvals decided elsewhere and tokens that expire are the environment. The
lists of one stage are answered in one step; the tab, messages and
`sessionStorage` are left out. A refresh may meet a failure in three ways: a fetch
is rejected and the refresh ends (`FailRefresh`); `/auth/me` is answered 401 or 500
although the token is good, and the page takes it for unknown (`MisanswerMe`); or
some of the lists come back with an error and are shown empty (`MisanswerLists`).
`Unpinned` are the development tokens that get a session per request, which a
logout does not close.

*Only issued ids are submitted.* A call may carry any id that was ever
generated, its own or another's. One that was never generated is answered like
one that a restart has forgotten (both are absent from the map), so leaving it
out loses no behaviour but the coincidence of guessing a future UUID.

## 3. The runs

All runs check for deadlock; none of the models can stop (a policy can always
be loaded again, the store can always be cleared, requests arrive, the page
polls).

*Fairness.* Only the dashboard has any. A refresh that was started goes on (`WF`
of its steps): the gateway answers or the fetch is rejected, and the page's code
then runs. The click in flight is answered or fails (`WF`). The interval fires
for as long as the page lives; it is `SF` because the bound on refreshes in
flight, which the code does not have, disables it now and then. Nothing is owed
by the operator or the agents, and `MaxFailures` stands for a network that fails
finitely often: with one that fails for ever the page need not show anything.
The gateway and the sessions have no fairness, because the code gives none to
rely on: a tool call has no timeout, a human may never decide, an agent may
never retry.

| run | config | what it shows |
|---|---|---|
| `store` | `MCApprovalStore.cfg` | One grant, two operators, two servers, tools, argument values, principals, stable action ids (or none) and request ids, so that every bound field varies in the proposals made and in those checked; a TTL of 2 ticks and 4 ticks in all. Types; `ExclusiveDecision`: racing operators never both decide, and the recorded binding is that of the approver named; `ApprovedInTime`; `ApprovalPinsAction`: of any two proposals that differ in a bound field at most one is accepted, and a fresh request id changes nothing; `NoRevival`: used, expired, rejected, cleared is for good. |
| `gateway` | `MCGateway.cfg` | Three calls, two grants, two argument values, a strict and a lax policy, expiry, restarts, in-memory log. `AuthoritySpec` (refinement of `ApprovalAuthority`), `NoReuseAfterReturn`, `RetryIsRecognised`, `AuditTellsOutcome`, `EvidenceBeforeEffect`, types. |
| `gateway_edges` | `MCHostedGateway.cfg` | Two calls over an unregistered tool, no executor at the start, a refused context, arguments that refer to themselves, three policies loaded in turn. `AuthoritySpec` and `AuditTellsOutcome` over every early return of `execute()`. `PolicyIsAsWritten`: the policies are parsed from files; those, and a file of seven and one of five lines, in every layout over three indentations, read as their indentation says. `AuditAnswersAgree`: on the trails that arise, however they fall on milliseconds, and for every filter, what one backend answers says what the other would, record by record and in order. `HashesAreExact`: over all heaps of two nodes; and every grant is for arguments that JSON carries. |
| `gateway_sqlite` | `MCGatewaySqlite.cfg` | Three calls and one grant over a log whose writes may throw and which keeps no advice, with a tool registered anew under another server and risk. `AuthoritySpec`, `NoReuseAfterReturn`; `AuditTellsOutcome`: state and reason of each answer are on record; `EvidenceBeforeEffect`: request and policy check are (the record of the approval is not demanded here, since it may have thrown after the approval took effect). |
| `content` | `MCContentRelease.cfg` | Two reads, one tool, one receipt; clean content, content that looks like a secret and an instruction at once, and a script; requests for everything and for metadata without a selection; two policies; all surfaces or derived facts only; log and receipts in memory or both in files. `ContentAuthoritySpec` (refinement), `RiskStaysIn`, `LogTellsRelease`, `SpentForARelease`, types. |
| `content_retries` | `MCContentRetries.cfg` | Three reads of two tools and one receipt in a file: one asks, two present it while the content is scanned anew. `ContentAuthoritySpec`: the wrong tool, another observation, and the second of two retries are turned away. |
| `content_selection` | `MCContentSelection.cfg` | Violation, see below. |
| `operator_sessions` | `MCOperatorSession.cfg` | Two processes, two requests. Over one file: an older and a newer JWT of a session, one without a `jti`, one of another operator with the same session id, one that names no session. With a map each: development tokens, with and without a pinned session. Crashes, failing stores and failing records. `LogoutIsFelt`, `RevokedForGood`, `CredentialsMoveForward`, `TrailTellsSession`, `SessionsImplementAuthority` (refinement), types. |
| `dashboard` | `MCDashboard.cfg` | One page, an administrator's token with a pinned session and an auditor's without, two refreshes that overlap, one failure of any kind, content approvals that come and go. `ViewSettles`: once the token field is left alone the page comes to agree with the gateway and stays so. Types. |
| `one_time_use` | `MCGatewayOneTimeUse.cfg` | Violation, see below. |
| `consumed_was_approved` | `MCGatewayConsume.cfg` | Violation, see below. |
| `retry_session` | `MCGatewaySession.cfg` | Violation, see below. |

*Why the bounds are enough.* The conflicts are between a request and a retry,
between two retries, and between a call and a decision: three calls hold a
request and two overlapping retries; two grants let a call present the wrong
one; two operators race. In `store` every bound field has two values or more, to tell "same" from
"different", and one grant is enough since each operation of the store is on one
grant or on all; the runs of the gateway have two grants, and vary arguments,
principal or server as their question needs. A clock that passes one expiry, with a TTL of two ticks and three
ticks in all in the larger runs, has a moment before, at and after it, and a
grant that is requested later than another. In the content runs one receipt and
one tick are enough: receipts do not meet (the code never looks at two), and what
a receipt competes with is the reads that present it, of which there are two or
three. A session race needs an observation that is overtaken and the request that
overtakes it, at one process or at two: two of each; an older and a newer
credential, one without a `jti` and a stranger's are the cases that
`CredentialTransition` tells apart. On the page a late answer needs another
refresh to be late against: two at once. Two nodes suffice for a heap that
nests, shares or refers to itself, three indentations for a stack of three
sections, two milliseconds for a tie at a limit. What the runs leave open, the
theorems below close for every value of the constants. `MaxTime` bounds the
clock, `MaxRefreshes` and `MaxFailures` the refreshes in flight on the page and the
failures that they meet. Symmetry is over request ids, grant ids and operators,
which no property distinguishes.

### Where documents and code differ

**One-time use.** `docs/APPROVAL_BINDING.md:47` says grants are one-time use.
`execute()` checks the grant (`index.ts:629`–`660`), awaits the executor
(`696`) and marks the grant used afterwards (`711`): two retries that overlap
in the executor both run under one grant (`OneTimeUse` is violated by a request,
an approval and two retries; the threat model concedes as much). What
does hold is `NoReuseAfterReturn`: once a call that ran with a grant has been
*answered*, no later call runs with it. A call that threw (an audit write
failed after the executor ran) leaves its grant unused, which is why the
property speaks of answered calls. `ApprovalAuthority` is silent on the number
of effects per mandate for the same reason.

**What is consumed.** `docs/operations/retry-and-idempotency.md:44` says that a
valid approved grant is consumed. The code consumes whatever approval id the
call carried, also when the policy allowed the call without looking at the
grant; a call to a read-only tool can use up a pending grant
(`ConsumedWasApproved`).

**Retries without a pinned session.** `docs/APPROVAL_BINDING.md:49` says
that an approved action can be retried with a fresh request id. A credential
whose profile names no session id gets a random one on each request
(`auth.ts:175`), and the session is bound: its own retry is answered
`APPROVAL_INVALIDATED` (`RetryNeedsNoPinnedSession`). With a session in the
profile `RetryIsRecognised` holds.

**Optional selections.** `docs/CONTENT_PREFLIGHT_CONTRACT.md:28` calls the field
or range selection of a request optional, and so does the schema. The policy
hashes `selection: request.selection` before it looks at any rule
(`content-policy-engine.ts:195`) and the serializer refuses an undefined value
(`canonical-hash.ts:54`), so a request without one is always answered
`CONTENT_SCAN_FAILED`, whatever the scanner found (`SelectionIsOptional`). It
fails closed: `RiskStaysIn` holds all the same.

### Other sentences that the code does not bear out

No run is spent on these; the properties named say what the code does.

* *The tool's name.* `docs/operations/retry-and-idempotency.md:51` says that
  validation does not re-check `toolName`. It is in the material that
  `hashApprovalAction` hashes (`canonical-hash.ts:135`), and `ApprovalPinsAction`
  includes it: a grant for one tool is invalid for another.
* *Expiry.* Line 49 of that document says that the normal flow does not define
  when `expiresAt` is set. `execute()` sets it to `approvalTtlMs` from now on every
  grant it asks for (`index.ts:604`-`610`), as `RequestApproval` does.
* *Success.* A comment in `approval-engine.ts:64` says that a grant is consumed after
  a successful execution. It is consumed after a failed one too (`index.ts:711`, and
  line 48 of the document above), which `Finish` and `NoReuseAfterReturn` follow.
* *The same API.* A comment in `sqlite-audit-log.ts:12` promises the API of the
  in-memory log. The same query lists records in the opposite order (`259`) and
  without the advice of their outcomes (`68`-`77`); `AuditAnswersAgree` is what
  remains.

### What the properties do not claim

These are no disagreements that a run shows, but a reader of the properties
should know of them.

* *An older credential is refused after a rotation*
  (`docs/AUTHENTICATION_AND_RBAC.md:60`) holds in one process. With two on one
  file an observation that read the row before the rotation writes the older
  credential back (`operator-session-store.ts:216`), and the newer one then
  counts as another rotation. `CredentialsMoveForward` excepts exactly that.
* *Two first requests* of two operators with one session id may both find no row;
  the second to write keeps the first one's owner and puts its own credential
  into the row.
* *Development tokens without a pinned session* start a session per request: a
  logout closes that one, and the token goes on working.
* *A record that cannot be written* turns a started session or an answered logout
  into a 500; the session stands, or is revoked, all the same. Session records
  carry no credential id, so the log tells of a rotation and not to what.
* *The page* sends a decision with the token in its field, not with that of the
  operator it shows; the answer to a sign-out empties whatever the field then
  holds; and a rejected content approval is announced as approved
  (`App.tsx:205`).
* *A request in flight at a logout* that was trusted before it is served after it.

## 4. The proofs

| theorem | states |
|---|---|
| `StoreTypeCorrect`, `DecisionIsExclusive`, `ApprovalIsInTime`, `DeadForGood` (`GatewayProofs`) | the store's type invariant, its two decision invariants and `NoRevival` |
| `ApprovalPins` | `ApprovalPinsAction`: one approval, one action |
| `TypeCorrect` | `TypeOK` and the store's invariant hold in the gateway |
| `GatewayUsesStore` | `Spec => StoreSpec`: the gateway touches grants through the store's operations only, so every theorem about the store holds in it |
| `GatewayImplementsAuthority` | `Spec => AuthoritySpec` |
| `NoReuse` (`CallProofs`) | `Spec => NoReuseAfterReturn` |
| `EvidenceFirst` | `Spec => []EvidenceBeforeEffect` |
| `LogTellsTheAnswer` | `Spec => []AuditTellsOutcome` |
| `RetriesAreRecognised` | `Spec => []RetryIsRecognised` |
| `ContentTypeCorrect` (`ContentReleaseProofs`) | `Spec => []TypeOK` of content release |
| `RiskAlwaysStaysIn` | `Spec => []RiskStaysIn` |
| `ReceiptsAreSpentForReleases` | `Spec => []SpentForARelease` |
| `LogTellsWhatWasReleased` | `Spec => []LogTellsRelease` |
| `ContentImplementsAuthority` | `Spec => ContentAuthoritySpec` |
| `SessionTypeCorrect` (`OperatorSessionProofs`) | `Spec => []SessionTypeOK` |
| `RevocationStays` | `Spec => RevokedForGood` |
| `LogoutWorks` | `Spec => []LogoutIsFelt` |
| `SessionsKeepThePromise` | `Spec => SessionsImplementAuthority` |
| `CredentialsAdvance` | `Spec => CredentialsMoveForward` |
| `TrailIsComplete` | `Spec => []TrailTellsSession` |
| `FilesReadAsIndented` (`DataProofs`) | every file is parsed to the tree its indentation shows: `ParseSimpleYaml(file) = TreeAsIndented(file)` |
| `BackendsAgree` | on every log in the order of time and for every filter the answer of one backend says what the other would be, record by record: `BackendsAgreeOn(log, filter)` |
| `PolicyAlwaysAsWritten` (`HostedGatewayProofs`) | `Spec => []PolicyIsAsWritten` |
| `AnswersAlwaysAgree` | `Spec => []AuditAnswersAgree` |
| `HashesAlwaysExact` | `Spec => []HashesAreExact` |
| `TextsTellData` (`JsonProofs`) | whatever the heaps and the value, `canonicalJson` is defined on exactly the JSON values, and texts are equal exactly if the data is: `SerializesExactly(heaps, v)` |
| `DashboardTypeCorrect` (`DashboardProofs`) | `Spec => []DashboardTypeOK` |

*Assumptions.* Those in the modules: a positive TTL (the constructor refuses
less than one), metadata and policies drawn from the schema's enumerations,
`None` being no id, operator or hash. The sets of agents, tools, calls, grants
and operators are arbitrary and may be infinite; `AuditBackend` is arbitrary.
For content: the same of its TTL, its requests, observations, surfaces and
configurations drawn from their types, `None` being no exposure, id, operator
or outcome, and every deployment naming the two backends there are. For sessions:
tokens that name sessions among the ids, times of issue that are numbers, the
file being no process; the table of tokens, the processes and the requests are
arbitrary. For the host (`HostAssumption`): lines indented by naturals, policy
files that are sequences of such lines, every configuration being what
`parsePolicyConfig` returns for one of them, and filters whose limit, if there is
one, is positive (`if (filter.limit)` takes 0 for none). `FilesReadAsIndented`
assumes nothing else about a file, and `BackendsAgree` nothing about a log but
that a later event has no earlier time. For JSON (`JsonAssumption`): finitely many
nodes, of which a heap may put any number in arrays and objects of any size; the
keys of objects and the names of positions come in a fixed order, each once; a
string holds no bare quote (`JSON.stringify` escapes it) and a number is printed
with at least one character and no punctuation; `None` is no text. `HostAssumption`
adds that arguments are such heaps, and that those which cannot be hashed are the
ones the serializer refuses. For the page: tokens that are
not the empty field, each with its permissions, and room for one refresh.

*The argument.* `StoreInv` is the inductive invariant of the store. Exclusive
decision is not inductive without types, and "approved in time" needs that the
expiry in the hash is the expiry of the grant, so all three are proved together,
one lemma per operation. `NoRevival` follows from it.

The gateway has nine ways through its first segment and each may be cut short
by a failing audit write. `Settled` says what they have in common: one call gets
its record and its trail, the executor starts only for a cleared call with its
preamble on record, and the store is left alone or gets one fresh grant for
this very proposal. `Ended` says the same of the second segment.
`ExecuteSettles` and `FinishEnds` are the only lemmas that look inside the
handlers; everything after them uses the summaries.

The refinement maps a grant to its mandate: none before the id is issued,
closed once it is used, expired or gone, else what its status says. Every store
operation opens, grants, refuses or closes mandates, or is a stutter (approving
again, rejecting an expired grant, consuming an unknown id). The start of an
executor for a gated tool is `Run`: the check and the start are in one segment,
so the mandate is still granted and the hash pins the action. `IdleIsBlank`
(what was never submitted has not run) makes effects grow only.

`NoReuse` rests on `SpentIsDead`: a call that ran and was answered has a dead
grant. It is inductive because `Finish` consumes the grant in the step that
answers, ids that calls carry were issued, and dead grants stay dead.
`EvidenceFirst` rests on `ApprovalLogged`: with a log that cannot fail, every
approved grant has its record. It is not provable from the calls alone, because
the approval may be a long way back.

Content release is proved the same way. `InFlight` is all that types need to be
inductive: a read that is being scanned has a request, and has no outcome yet.
`PreflightEnds` is the summary of the long segment: nothing is shown and no
receipt is touched but a fresh one (`Withholds`), the policy's own `ALLOW` is
shown (`ReleasesFreely`), or exactly what was requested is shown and the receipt
is consumed (`ReleasesOnce`). `PreflightsEnd` proves it for every handler and
every way of cutting it short; nothing after it looks at audit trails.
`RiskStaysIn` then rests on two lemmas about the policy alone:
`OnlyTamedContentIsDecided` (what is allowed or put to a human was scanned and
carries nothing active, and what is put to a human holds no secret) and
`AllowedIsModest`. `SpentForARelease` rests on `OutcomesStay`: once a read has an
outcome no step replaces it. The refinement adds one fact: the check and the
consumption are one step, so the mandate is granted before it and closed after
it. That is the difference from the gateway, where the executor is awaited in
between, and why `ContentAuthority` can promise one use and `ApprovalAuthority`
cannot.

`LogTellsTheAnswer` ties each answer to its trail: `Tells` says of an answered
call what `AuditTellsOutcome` says in terms of how the trail ends (`EndsWith`),
`Underway` that a call in its executor has an execution and no outcome on record
yet. `GeneratedReports` says that what the log gives back of an outcome reports it,
on either backend. `TrailsEndWell` computes the trails of the nine ways through the first
segment once; the rest is about who else may touch a trail (nobody).
`RetriesAreRecognised` adds what the grant ids of calls mean: `OwnGrant` (the
grant handed to a call is dead or for that call's own action), `OtherGrant` (the
id that a call was told is invalid is dead or for another action), `OneSession`
(a credential that names its session has that one). Invalid is what a check says
of a grant that is dead or of another action (`CheckFailsForCause`), dead grants
stay dead and stored ones keep their action, so a faithful retry can only have
been told so of a dead one.

`LogTellsWhatWasReleased` says of every read that the last decision in its trail
is the one acted on (`RecordsKeepTelling`), also when the trail was cut short: a
write that throws leaves a prefix of the records and the catch block appends a
`DENY` (`CaughtTells`).

For sessions, `StepKinds` sorts the steps into those that dismiss a request,
admit one, move it, write a row, close one or lose a process, and the invariants
are checked per kind. `LogoutInv` says that a session whose logout was answered is
revoked in its store, and that a late request still waits with a token of such a
session (`SessionIsTheTokens`: it can only prove an operator of that session).
For the refinement `ReadInv` records that an observation goes on only with what
it found open; the abstract step is at the read and not at the write, so an
overtaken write-back closes and opens nothing (`WriteClosesNothing`). `CredentialsAdvance` needs
`FreshInv`: in memory nothing comes between a read and its write, since a process
is `Busy`. `TrailInv` adds to `TrailTellsSession` what a request between read and
write has read, because that is what it writes back.

*Data.* The library's induction theorems take the induction hypothesis as an
operator parameter, which no installed prover can instantiate. `Induct` says the
same of a set of naturals, `{n \in Nat : ...}`, and follows from the order of the
naturals being well-founded (`Least`); `Greatest` finds the last of finitely many.
With these, `ReadingStepwise` and `PathsStepwise` unfold the two recursive
functions, the parser's and the reader's, line by line.

`FilesReadAsIndented` is the invariant of the parser's loop (`LineIsRead`). The
tree after line `i` is what lines 1 to `i` show (`TreeIs`): an assignment
replaces exactly the entries that the new line overrides. And the stack holds the
sections, and only those, that every line since, up to `i`, is indented deeper
than, in their order (`StackIs`). Such a section stays open at the next line
unless that line is indented as deep or less (`OpenAtNext`); a later section is
indented deeper than an earlier one, so what the loop pops from the end is
exactly what ends there (`OpenSectionsAre`), and the last one left is the nearest
section that encloses the line.

`BackendsAgree` goes by ranks: hits stand in the order of their ranks
(`RanksAreOrdered`), and there is one of every rank (`NthHasRank`, an injection of a
finite set into one of its size being onto). Hence the answer from memory, read
backwards, is a listing (`BackwardsIsListing`). Of two listings none has an older
record in a place than the other: else the other's records up to that place, all
of them newer, would be among the fewer that come before that place in the one
(`NoListingIsOlder`). So they go through the same milliseconds, and a record
that is newer than the last one listed, or any if nothing was cut off, is in both
(`ListingsAgree`). Reading rows keeps the times (`TimeIsRead`), so the same is true
of answers (`AnswersHaveTheSame`). In the gateway the trail of a call is such a log
however it falls on milliseconds, which needs the type invariant and no more.

`TextsTellData` has two halves, each an induction over the levels of `Serializers`
and, within a node, over its keys. `StepsExist` and `UpTo` are what both rest on:
that a function defined step by step exists, so that `SerializersStepwise`,
`ItemsStepwise` and `PlacesStepwise` may unfold the recursions.

*What is accepted* (`AcceptsJson`). `Accepts` says of a serializer of level `n`
that, as long as at most `n` nodes are unseen, it accepts a value exactly if its
places are clean (nothing unsupported or exotic, no node in two places, none seen
before), and has then seen exactly the nodes there. Within a node the items are
accepted as far as each is clean given what the earlier ones saw
(`ItemsAccepted`), which is that all together are clean, and meet nowhere
(`CleanNode`). Entering a node leaves one node fewer unseen, so the levels
suffice (`AcceptsDeeper`).

*What texts tell* (`AgreeEverywhere`). That equal texts have equal data is not
inductive by itself: the texts of items end where the next one begins. `Told`
says more: whatever follows two serialized values (that does not go on with a
number's characters), if the wholes are equal then so are the values' data and
what follows. The first character says what a value is (`SerializedStarts`). A
string ends at the first bare quote, a number at the first punctuation mark
(`RunsAgree`). Of a node, `ParseNode` reads two equal texts key by key: after a
common start, both go on with the next item or both close, labels name the same
key (`LabelsAgree`), neither can skip a key that the other has (`NoSkip`: an
object's key comes only after those before it, an array has no gaps), and what
stands there is told by the level below. `TreesAgree` says the same of data,
node by node. The converse, equal data has equal text, is what the sorting is
for: of two nodes of one kind the keys are visited in one order (`KindOnly`),
whichever way they were inserted.

In the gateway `HashesAlwaysExact` needs one invariant more (`GrantsCanonical`):
`AskForApproval` is the only step that stores a grant, and only for arguments that
could be hashed; everything else keeps the hashes that are there
(`DecidingKeepsHashes`).

The page's type invariant is not inductive: an answer is filed under what the
token that was used allows, so `DashInv` says of every refresh in flight that what it has
and what it is owed are disjoint and within its token's permissions at its stage.

*Only model-checked.* `ViewSettles` and the four violations. Liveness under
fairness and `ENABLED` are out of this prover's reach. Every safety property that a
run checks is also a theorem.

## 5. Not modelled

* The inside of strings: `JSON.stringify` of a scalar is taken as injective.
* Request validation (zod), advice texts, display copies of arguments, reference
  formatting, redaction.
* Signatures, key sets, issuers, audiences and expiry of JWTs: the verdict of the
  `jose` library is free.
* An executor's effect: it is opaque and either succeeds or fails with a
  message.
* How the JSON preflight adapter finds risk flags and renders surfaces: an input.
* Two gateway processes on one receipt file. The store is written for one.
* Aliasing: a host that changes the argument object after it was hashed.
* Redaction of audit records, and a wall clock that is set back between two of them.
* The tab, the messages and the stored token of the dashboard.
* The MCP adapter: a thin wrapper around an SDK's client; its executors are any
  executors.
* What agents do: they are outside of the code, and nothing in it makes one retry,
  an executor settle or an operator decide. So there is no liveness of
  `execute()` to state.
* The Adrasteia adapter (stateless translation), the testbench, examples and
  scripts (sequential programs around the gateway).

## 6. Plan

Done: policy and outcome operators → approval store → abstract authority →
gateway → content policy → receipt store → content release → operator sessions →
policy files, audit queries, canonical JSON → dashboard → proofs of all that TLC
checks but liveness.

What is left, in this order: the decisions of content receipts on record (as
`EvidenceBeforeEffect` has it for grants); the heuristics of the JSON preflight
adapter, as operators over small documents; the connection of the MCP adapter.
