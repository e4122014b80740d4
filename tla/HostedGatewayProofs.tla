------------------------ MODULE HostedGatewayProofs ------------------------
(***************************************************************************)
(* Theorems about the gateway in its process, for every set of policy      *)
(* files, every set of queries and all memory that arguments may be in.    *)
(***************************************************************************)
EXTENDS HostedGateway, GatewayProofs, JsonProofs

USE HostAssumption

\* Every policy that may be loaded is as its file is written.
LEMMA PoliciesAreAsWritten == ReadsAsIndented /\ PolicyConfigs \subseteq ConfigsAsWritten
<1>1. ReadsAsIndented
  <2> SUFFICES ASSUME NEW file \in PolicyFiles
               PROVE  ParseSimpleYaml(file) = TreeAsIndented(file)
    BY DEF ReadsAsIndented
  <2>1. file \in Seq(PolicyLines) /\ Indented(PolicyLines)
    BY DEF Indented
  <2> QED  BY <2>1, FilesReadAsIndented
<1>2. ASSUME NEW config \in PolicyConfigs
      PROVE  config \in ConfigsAsWritten
  <2>1. PICK file \in PolicyFiles : config = ParsePolicyConfig(file)
    OBVIOUS
  <2>2. config # None
    OBVIOUS
  <2>3. NormalizePolicyRoot(ParseSimpleYaml(file)) = AsWritten(file)
    BY <1>1 DEF ReadsAsIndented, AsWritten
  <2>4. /\ Supported(file) /\ WellFormed(AsWritten(file))
        /\ config = ConfigOf(AsWritten(file))
    BY <2>1, <2>2, <2>3 DEF ParsePolicyConfig
  <2> QED  BY <2>4 DEF ConfigsAsWritten
<1> QED  BY <1>1, <1>2

\* The policy in force is always what its file says to a reader who goes by
\* the indentation (policy-loader.ts: parsePolicyConfig).
THEOREM PolicyAlwaysAsWritten == Spec => []PolicyIsAsWritten
<1>1. TypeOK => PolicyIsAsWritten
  BY PoliciesAreAsWritten DEF TypeOK, PolicyIsAsWritten
<1> QED  BY <1>1, TypeCorrect, PTL

\* Records that are stamped one after the other are a log.
LEMMA StampedIsLog ==
    ASSUME NEW S, NEW trail \in Seq(S), NEW tool, NEW n \in Nat
    PROVE  LET types == {trail[i].type : i \in DOMAIN trail}
               outcomes == {trail[i].outcome : i \in DOMAIN trail} IN
           /\ Stamped(trail, tool, n) \in Seq(Record({tool}, types, outcomes))
           /\ InOrder(Stamped(trail, tool, n))
<1> DEFINE types == {trail[i].type : i \in DOMAIN trail}
           outcomes == {trail[i].outcome : i \in DOMAIN trail}
           At(i) == [id |-> i, tool |-> tool, type |-> trail[i].type,
                     outcome |-> trail[i].outcome,
                     time |-> IF i <= n THEN 1 ELSE 2]
           log == [i \in DOMAIN trail |-> At(i)]
           records == Record({tool}, types, outcomes)
<1>1. Len(trail) \in Nat /\ DOMAIN trail = 1 .. Len(trail)
  OBVIOUS
<1>2. \A i \in DOMAIN trail : At(i) \in records
  BY <1>1 DEF Record
<1>3. log \in [1 .. Len(trail) -> records]
  <2> HIDE DEF At, records
  <2> QED  BY <1>1, <1>2
<1>4. log \in Seq(records)
  <2> HIDE DEF log, records
  <2> QED  BY <1>1, <1>3, SeqDef
<1>5. \A i \in 1 .. Len(trail) : log[i].time = IF i <= n THEN 1 ELSE 2
  BY <1>1
<1>6. InOrder(log)
  <2>1. DOMAIN log = 1 .. Len(trail)
    BY <1>1
  <2> HIDE DEF log
  <2>2. \A i, j \in 1 .. Len(trail) : i <= j => log[i].time <= log[j].time
    BY <1>1, <1>5
  <2> QED  BY <2>1, <2>2 DEF InOrder
<1> QED  BY <1>4, <1>6 DEF Stamped

\* After every step, what one backend answers to a query says what the other
\* would: the same records, the newest that match, whatever milliseconds they
\* fall on, SQLite's backwards and without the advice of their outcomes; the
\* choice that the limit leaves within a millisecond is all that is open
\* (audit-log.ts: query; sqlite-audit-log.ts: query, rowToEvent).
THEOREM AnswersAlwaysAgree == Spec => []AuditAnswersAgree
<1>1. TypeOK => AuditAnswersAgree
  <2> SUFFICES ASSUME TypeOK, NEW c \in Requests,
                      NEW n \in 0 .. Len(audit[c]), NEW filter \in Filters
               PROVE  BackendsAgreeOn(StampedTrail(c, n), filter)
    BY DEF AuditAnswersAgree
  <2>1. filter.limit \in Nat \cup {None}
    OBVIOUS
  <2>2. audit[c] \in Seq(Event) /\ n \in Nat
    BY DEF TypeOK
  <2> DEFINE types == {audit[c][i].type : i \in DOMAIN audit[c]}
             outcomes == {audit[c][i].outcome : i \in DOMAIN audit[c]}
             tool == calls[c].action.tool
  <2>3. /\ StampedTrail(c, n) \in Seq(Record({tool}, types, outcomes))
        /\ InOrder(StampedTrail(c, n))
    BY <2>2, StampedIsLog DEF StampedTrail
  <2> HIDE DEF types, outcomes, tool
  <2> QED  BY <2>1, <2>3, BackendsAgree
<1> QED  BY <1>1, TypeCorrect, PTL

-----------------------------------------------------------------------------
\* Every grant was stored for arguments that could be hashed.
GrantsCanonical ==
    \A g \in DOMAIN grants :
        grants[g].actionHash.action.arguments \notin Uncanonical

\* What the operations other than requestApproval do to the store.
Decides ==
    \/ \E g \in GrantIds, operator \in Operators :
           Approve(g, operator) \/ Reject(g, operator)
    \/ \E g \in GrantIds : Consume(g)
    \/ Clear
    \/ Tick
    \/ UNCHANGED storeVars

\* Only a new grant is for other arguments.
LEMMA DecidingKeepsHashes ==
    ASSUME StoreTypeOK, Decides, NEW g \in DOMAIN grants'
    PROVE  g \in DOMAIN grants /\ grants'[g].actionHash = grants[g].actionHash
<1>1. \A h \in DOMAIN grants : grants[h] \in Grant
  BY DEF StoreTypeOK
<1>2. ASSUME NEW h \in GrantIds, NEW operator \in Operators, Approve(h, operator)
      PROVE  g \in DOMAIN grants /\ grants'[g].actionHash = grants[g].actionHash
  BY <1>1, <1>2 DEF Approve, ApproveApproval, Grant
<1>3. ASSUME NEW h \in GrantIds, NEW operator \in Operators, Reject(h, operator)
      PROVE  g \in DOMAIN grants /\ grants'[g].actionHash = grants[g].actionHash
  BY <1>1, <1>3 DEF Reject, RejectApproval, Grant
<1>4. ASSUME NEW h \in GrantIds, Consume(h)
      PROVE  g \in DOMAIN grants /\ grants'[g].actionHash = grants[g].actionHash
  BY <1>1, <1>4 DEF Consume, ConsumeApproval, Grant
<1>5. CASE Clear
  BY <1>5 DEF Clear, ClearApprovals
<1>6. CASE Tick \/ UNCHANGED storeVars
  BY <1>6 DEF Tick, storeVars
<1> QED  BY <1>2, <1>3, <1>4, <1>5, <1>6 DEF Decides

\* A submission stores a grant for canonical arguments, or none.
LEMMA ExecuteKeepsCanonical ==
    ASSUME TypeOK, GrantsCanonical, NEW c \in Requests, NEW r \in Submission,
           Execute(c, r)
    PROVE  GrantsCanonical'
<1>1. ASSUME UNCHANGED storeVars PROVE GrantsCanonical'
  BY <1>1 DEF GrantsCanonical, storeVars
<1>2. ASSUME NEW g \in GrantIds, AskForApproval(c, r, g)
      PROVE  GrantsCanonical'
  <2>1. r.arguments \notin Uncanonical
    BY <1>2 DEF AskForApproval, Canonical
  <2>2. \/ UNCHANGED storeVars
        \/ StoreApproval(g, ProposalOf(c, r), now + TTL)
    BY <1>2 DEF AskForApproval, storeVars
  <2>3. CASE StoreApproval(g, ProposalOf(c, r), now + TTL)
    <3>1. /\ DOMAIN grants' = DOMAIN grants \cup {g}
          /\ grants'[g] = PendingGrant(ProposalOf(c, r), now + TTL)
          /\ \A h \in DOMAIN grants : h # g => grants'[h] = grants[h]
      BY <2>3 DEF StoreApproval
    <3>2. grants'[g].actionHash.action.arguments = r.arguments
      BY <3>1 DEF PendingGrant, HashApprovalAction, ActionOf, ProposalOf
    <3> QED  BY <2>1, <3>1, <3>2 DEF GrantsCanonical
  <2> QED  BY <1>1, <2>2, <2>3
<1>3. ASSUME ~\E g \in GrantIds : AskForApproval(c, r, g)
      PROVE  UNCHANGED storeVars
  BY <1>3 DEF Execute, RefuseContext, DenyCall, KeepWaiting, AnswerRejected,
              AnswerInvalidated, FailToHash, AnswerNoExecutor, Invoke, Answer
<1> QED  BY <1>1, <1>2, <1>3

\* Every other step of the gateway only decides, or leaves the store alone.
LEMMA OthersDecide ==
    ASSUME TypeOK, [Next]_vars,
           ~\E c \in Requests, r \in Submission : Execute(c, r)
    PROVE  Decides
<1>1. ASSUME NEW c \in Requests, NEW result \in Results, Finish(c, result)
      PROVE  Decides
  BY <1>1, FinishEnds DEF Ended, Decides
<1>2. ASSUME NEW g \in GrantIds, NEW operator \in Operators,
             PostApprove(g, operator) \/ PostReject(g, operator)
      PROVE  Decides
  BY <1>2 DEF PostApprove, PostReject, Decides, Approve, Reject
<1>3. CASE \/ \E tool \in Tools, metadata \in Metadata : RegisterTool(tool, metadata)
           \/ \E tool \in Tools : SetExecutor(tool)
           \/ \E config \in PolicyConfigs : LoadPolicy(config)
           \/ UNCHANGED vars
  BY <1>3 DEF RegisterTool, SetExecutor, LoadPolicy, vars, Decides
<1>4. CASE PassTime \/ Restart
  BY <1>4 DEF PassTime, Restart, Clear, Decides
<1> QED  BY <1>1, <1>2, <1>3, <1>4 DEF Next

\* Arguments that can be hashed are JSON.
LEMMA CanonicalIsJson ==
    ASSUME NEW heap \in Arguments, heap \notin Uncanonical
    PROVE  IsJson(heap, Root)
<1>1. heap \in Heap /\ Root \in JsValue
  OBVIOUS
<1>2. CanonicalText(heap, Root) # None
  OBVIOUS
<1>3. SerializesExactly(Heaps, Root)
  BY TextsTellData
<1> QED  BY <1>2, <1>3 DEF SerializesExactly

\* Hashes are always exact: of proposals that JSON carries they are equal
\* exactly if the data is, and no grant was ever stored for others
\* (canonical-hash.ts: canonicalJson; approval-engine.ts: requestApproval).
THEOREM HashesAlwaysExact == Spec => []HashesAreExact
<1>1. Init => GrantsCanonical
  BY DEF Init, StoreInit, GrantsCanonical
<1>2. TypeOK /\ GrantsCanonical /\ [Next]_vars => GrantsCanonical'
  <2> SUFFICES ASSUME TypeOK, GrantsCanonical, [Next]_vars
               PROVE  GrantsCanonical'
    OBVIOUS
  <2>1. ASSUME NEW c \in Requests, NEW r \in Submission, Execute(c, r)
        PROVE  GrantsCanonical'
    BY <2>1, ExecuteKeepsCanonical
  <2>2. CASE ~\E c \in Requests, r \in Submission : Execute(c, r)
    BY <2>2, OthersDecide, DecidingKeepsHashes DEF GrantsCanonical, TypeOK
  <2> QED  BY <2>1, <2>2
<1>3. SerializerIsExact
  BY TextsTellData DEF SerializerIsExact
<1>4. TypeOK /\ GrantsCanonical => HashesAreExact
  <2> SUFFICES ASSUME TypeOK, GrantsCanonical, NEW g \in DOMAIN grants
               PROVE  IsJson(grants[g].actionHash.action.arguments, Root)
    BY <1>3 DEF HashesAreExact
  <2>1. grants[g].actionHash.action.arguments \in Arguments
    BY DEF TypeOK, StoreTypeOK, Grant, ActionHash, Action
  <2> QED  BY <2>1, CanonicalIsJson DEF GrantsCanonical
<1> QED  BY <1>1, <1>2, <1>4, TypeCorrect, PTL DEF Spec
=============================================================================
