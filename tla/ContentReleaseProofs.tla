------------------------ MODULE ContentReleaseProofs ------------------------
(***************************************************************************)
(* Theorems about content release, for every set of reads, tools, content, *)
(* observations, policies and receipts, and for every choice of backends.  *)
(* It implements ContentAuthority: the operations of the receipt store     *)
(* open, grant, refuse or close mandates, and the step that releases       *)
(* content under a receipt closes the mandate it acts on.                  *)
(***************************************************************************)
EXTENDS ContentRelease, SequenceTheorems, TLAPS

USE ReceiptAssumption, ReleaseAssumption, OutcomeAssumption

-----------------------------------------------------------------------------
\* What the policy promises on its own.

\* Every decision is well formed.
LEMMA DecisionTyped ==
    ASSUME NEW cfg \in ContentConfig, NEW o \in Observation,
           NEW q \in AccessRequest
    PROVE  EvaluateContent(cfg, o, q) \in Decision
<1>1. q.exposure \in Exposures
  BY DEF AccessRequest
<1>2. DowngradeToDerived(q) \in Decision
  BY <1>1 DEF DowngradeToDerived, Decide, Decision, Actions, ReasonCodes,
              Exposures, ExposureOrder
<1>3. CleanContentDecision(cfg, o, q) \in Decision
  BY <1>1 DEF CleanContentDecision, Decide, Decision, Actions, ReasonCodes,
              Exposures, ExposureOrder
<1> QED  BY <1>2, <1>3 DEF EvaluateContent, Decide, Decision, Actions,
                           ReasonCodes, Exposures, ExposureOrder

\* Whatever the flags, only scanned content without a script, a macro or a
\* bomb is allowed or put to a human, and what may be a secret is never put
\* to a human at all.
LEMMA OnlyTamedContentIsDecided ==
    ASSUME NEW cfg \in ContentConfig, NEW o \in Observation,
           NEW q \in AccessRequest,
           EvaluateContent(cfg, o, q).action \in {"ALLOW", "REQUIRE_APPROVAL"}
    PROVE  /\ o.status = "COMPLETE"
           /\ ~HasFlag(o, {"ARCHIVE_BOMB", "OVERSIZED_PAYLOAD"})
           /\ ~HasFlag(o, {"EMBEDDED_SCRIPT", "MACRO_PRESENT"})
           /\ EvaluateContent(cfg, o, q).action = "REQUIRE_APPROVAL" =>
                  ~HasFlag(o, {"SECRET_LIKE_CONTENT"})
BY DEF EvaluateContent, DowngradeToDerived, Decide, Observation

\* What is allowed without a human is at most what was asked for, and of what
\* may be a secret at most derived facts.
LEMMA AllowedIsModest ==
    ASSUME NEW cfg \in ContentConfig, NEW o \in Observation,
           NEW q \in AccessRequest,
           EvaluateContent(cfg, o, q).action = "ALLOW"
    PROVE  LET level == EvaluateContent(cfg, o, q).granted IN
           /\ IsAtMost(level, q.exposure)
           /\ HasFlag(o, {"SECRET_LIKE_CONTENT"}) =>
                  IsAtMost(level, "DERIVED_ONLY")
<1>1. q.exposure \in Exposures
  BY DEF AccessRequest
<1>2. \A e \in Exposures : IsAtMost(e, e)
  BY DEF IsAtMost, Exposures, ExposureOrder
<1>3. \A e \in Exposures :
          IsAtMost(e, "DERIVED_ONLY") \/ IsAtMost("DERIVED_ONLY", e)
  BY DEF IsAtMost, Exposures, ExposureOrder
<1>4. IsAtMost("DERIVED_ONLY", "DERIVED_ONLY")
  BY DEF IsAtMost, ExposureOrder
<1>5. CASE HasFlag(o, {"SECRET_LIKE_CONTENT"})
  <2>1. EvaluateContent(cfg, o, q) = DowngradeToDerived(q)
    BY <1>5 DEF EvaluateContent, Decide
  <2> QED  BY <1>1, <1>2, <1>3, <1>4, <2>1 DEF DowngradeToDerived, Decide
<1>6. CASE ~HasFlag(o, {"SECRET_LIKE_CONTENT"})
  <2>1. EvaluateContent(cfg, o, q) = CleanContentDecision(cfg, o, q)
    BY <1>6 DEF EvaluateContent, Decide
  <2>2. EvaluateContent(cfg, o, q).granted = q.exposure
    BY <2>1 DEF CleanContentDecision, Decide
  <2> QED  BY <1>1, <1>2, <1>6, <2>2
<1> QED  BY <1>5, <1>6

\* A request that can be hashed has a well-formed binding.
LEMMA BindingTyped ==
    ASSUME NEW cfg \in ContentConfig, NEW o \in Observation,
           NEW q \in AccessRequest, CanBeBound(q)
    PROVE  BindingOf(cfg, o, q) \in Binding
BY DEF BindingOf, Binding, CanBeBound, Observation, AccessRequest,
       ContentConfig

-----------------------------------------------------------------------------
\* How a preflight ends.

\* A read in flight has no outcome, and one being scanned was asked for.
InFlight ==
    \A c \in Reads :
        /\ reads[c].pc \in {"idle", "scanning"} => reads[c].outcome = None
        /\ reads[c].pc = "scanning" =>
               reads[c].request \in AccessRequest /\ reads[c].tool \in ReadTools

IInv == TypeOK /\ InFlight

\* The preflight of read c is over: these records, this outcome, and the read
\* is still the one that was asked for.
Ended(c, o, outcome) ==
    /\ \E r \in Read :
           /\ reads' = [reads EXCEPT ![c] = r]
           /\ r.pc \in {"settled", "threw"}
           /\ r.tool = reads[c].tool
           /\ r.request = reads[c].request
           /\ r.receiptId = reads[c].receiptId
           /\ r.observation = o
           /\ r.version = config.version
           /\ r.outcome = outcome
    /\ \E trail \in Seq(Event) : Record(c, trail)
    /\ UNCHANGED <<now, hostVars>>

\* Nothing is shown, and no receipt is said to have been honoured.
HeldBack(outcome) ==
    outcome # None =>
        outcome.exposure = None /\ outcome.state # "COMPLETED"

Withholds(c, o, outcome) ==
    /\ HeldBack(outcome)
    /\ \/ UNCHANGED <<receipts, issued>>
       \/ \E g \in ReceiptIds \ issued :
              NeedsReceipt(c, o) /\ StoreReceipt(g, reads[c].tool, BindingFor(c, o))

ReleasesFreely(c, o, outcome) ==
    /\ Scanned(c)
    /\ DecisionOn(c, o).action = "ALLOW"
    /\ outcome = Completed(DecisionOn(c, o), None)
    /\ UNCHANGED <<receipts, issued>>

ReleasesOnce(c, o, outcome) ==
    /\ Honoured(c, o)
    /\ outcome = Completed(ApprovedDecision(c), reads[c].receiptId)
    /\ ConsumeReceipt(reads[c].receiptId)

\* A denial, a request to wait and the like show nothing.
LEMMA DenialsHoldBack ==
    ASSUME NEW state \in {"DENIED", "WAITING_FOR_APPROVAL",
                          "APPROVAL_INVALIDATED"},
           NEW reason \in ReasonCodes, NEW g \in ReceiptIds \cup {None}
    PROVE  /\ MkOutcome(state, reason, g) \in Outcome
           /\ HeldBack(MkOutcome(state, reason, g))
BY DEF MkOutcome, Outcome, HeldBack

\* The two ways in which a failure ends.
LEMMA FailuresHoldBack ==
    /\ Denied("CONTENT_SCAN_FAILED") \in Outcome
    /\ HeldBack(Denied("CONTENT_SCAN_FAILED"))
    /\ HeldBack(None)
BY DenialsHoldBack DEF Denied, HeldBack, ReasonCodes

\* A handler that resolves or throws ends the preflight.
LEMMA SettledEnds ==
    ASSUME IInv, NEW c \in Reads, NEW o \in Observation \cup {None},
           NEW outcome \in Outcome \cup {None}, NEW trail \in Seq(Event),
           Record(c, trail), UNCHANGED <<now, hostVars>>,
           NEW pc \in {"settled", "threw"},
           reads' = [reads EXCEPT
               ![c] = [SettledRead(c, o, outcome) EXCEPT !.pc = pc]]
    PROVE  Ended(c, o, outcome)
<1> DEFINE r == [SettledRead(c, o, outcome) EXCEPT !.pc = pc]
<1>1. reads[c] \in Read /\ config.version \in Versions
  BY DEF IInv, TypeOK, ContentConfig
<1>2. r \in Read
  BY <1>1 DEF SettledRead, Read, ReadStates
<1>3. /\ r.pc = pc /\ r.tool = reads[c].tool /\ r.request = reads[c].request
      /\ r.receiptId = reads[c].receiptId /\ r.observation = o
      /\ r.version = config.version /\ r.outcome = outcome
  BY <1>1 DEF SettledRead, Read
<1> QED  BY <1>2, <1>3 DEF Ended

\* A handler that simply resolves.
LEMMA ResolvedEnds ==
    ASSUME IInv, NEW c \in Reads, NEW o \in Observation \cup {None},
           NEW outcome \in Outcome \cup {None}, NEW trail \in Seq(Event),
           Record(c, trail), UNCHANGED <<now, hostVars>>,
           reads' = [reads EXCEPT ![c] = SettledRead(c, o, outcome)]
    PROVE  Ended(c, o, outcome)
<1>1. reads[c] \in Read
  BY DEF IInv, TypeOK
<1>2. SettledRead(c, o, outcome)
          = [SettledRead(c, o, outcome) EXCEPT !.pc = "settled"]
  BY <1>1 DEF SettledRead, Read
<1>3. reads' = [reads EXCEPT
          ![c] = [SettledRead(c, o, outcome) EXCEPT !.pc = "settled"]]
  BY <1>2
<1> QED  BY <1>3, SettledEnds

\* Whatever the catch block answers, it shows nothing.
LEMMA CaughtEnds ==
    ASSUME IInv, NEW c \in Reads, NEW o \in Observation \cup {None},
           NEW events \in Seq(Event), Caught(c, o, events),
           UNCHANGED <<now, hostVars>>
    PROVE  \E outcome \in Outcome \cup {None} :
               Ended(c, o, outcome) /\ HeldBack(outcome)
<1>1. DecidedDeny \in Event
  BY DEF DecidedDeny, Event, EventTypes, Actions
<1>2. Append(events, DecidedDeny) \in Seq(Event)
  BY <1>1, AppendProperties
<1>3. CASE /\ Record(c, Append(events, DecidedDeny))
           /\ reads' = [reads EXCEPT
                  ![c] = SettledRead(c, o, Denied("CONTENT_SCAN_FAILED"))]
  BY <1>2, <1>3, FailuresHoldBack, ResolvedEnds
<1>4. CASE /\ Record(c, events)
           /\ reads' = [reads EXCEPT
                  ![c] = [SettledRead(c, o, None) EXCEPT !.pc = "threw"]]
  BY <1>4, FailuresHoldBack, SettledEnds
<1> QED  BY <1>3, <1>4 DEF Caught

\* What is on record of a trail that was cut short are events, too.
LEMMA CutShortTyped ==
    ASSUME NEW trail \in Seq(Event)
    PROVE  CutShort(trail) \subseteq Seq(Event)
<1>1. ASSUME NEW n \in 0 .. Len(trail) - 1
      PROVE  SubSeq(trail, 1, n) \in Seq(Event)
  <2>1. Len(trail) \in Nat /\ \A i \in 1 .. Len(trail) : trail[i] \in Event
    BY LenProperties, ElementOfSeq
  <2> QED  BY <2>1, SubSeqProperties
<1> QED  BY <1>1 DEF CutShort

\* A handler that settles answers as it meant to, or shows nothing.
LEMMA SettleEnds ==
    ASSUME IInv, NEW c \in Reads, NEW o \in Observation \cup {None},
           NEW outcome \in Outcome \cup {None}, NEW trail \in Seq(Event),
           Settle(c, o, trail, outcome), UNCHANGED <<now, hostVars>>
    PROVE  \/ Ended(c, o, outcome)
           \/ \E other \in Outcome \cup {None} :
                  Ended(c, o, other) /\ HeldBack(other)
<1>1. CASE /\ Record(c, trail)
           /\ reads' = [reads EXCEPT ![c] = SettledRead(c, o, outcome)]
  BY <1>1, ResolvedEnds
<1>2. CASE \E events \in CutShort(trail) : Caught(c, o, events)
  BY <1>2, CutShortTyped, CaughtEnds
<1> QED  BY <1>1, <1>2 DEF Settle

\* The trails the handler writes consist of events.
LEMMA TrailsTyped ==
    /\ \A type \in EventTypes : Mark(type) \in Event
    /\ \A d \in Decision : Decided(d) \in Event
    /\ \A d \in Decision : [d EXCEPT !.action = "DENY"] \in Decision
    /\ \A t \in Seq(Event), e \in Event : Append(t, e) \in Seq(Event)
    /\ <<Mark("CONTENT_PREFLIGHTED")>> \in Seq(Event)
    /\ <<>> \in Seq(Event)
<1>1. \A type \in EventTypes : Mark(type) \in Event
  BY DEF Mark, Event
<1>2. \A d \in Decision : Decided(d) \in Event
  BY DEF Decided, Event, EventTypes, Decision
<1>3. \A d \in Decision : [d EXCEPT !.action = "DENY"] \in Decision
  BY DEF Decision, Actions
<1>4. \A t \in Seq(Event), e \in Event : Append(t, e) \in Seq(Event)
  BY AppendProperties
<1>5. <<Mark("CONTENT_PREFLIGHTED")>> \in Seq(Event)
  BY <1>1 DEF EventTypes
<1> QED  BY <1>1, <1>2, <1>3, <1>4, <1>5, EmptySeq

\* What is known once an adapter has settled with an observation.
LEMMA ScannedTyped ==
    ASSUME IInv, NEW c \in Reads, NEW o \in Observation, Scanned(c)
    PROVE  /\ reads[c].request \in AccessRequest
           /\ reads[c].tool \in ReadTools
           /\ reads[c].outcome = None
           /\ config \in ContentConfig
           /\ DecisionOn(c, o) \in Decision
           /\ BindingFor(c, o) \in Binding
           /\ ApprovedDecision(c) \in Decision
           /\ Observed(c, o) \in Seq(Event)
           /\ ReleaseTrail(c, o) \in Seq(Event)
<1>1. /\ reads[c].request \in AccessRequest
      /\ reads[c].tool \in ReadTools
      /\ reads[c].outcome = None
      /\ CanBeBound(reads[c].request)
      /\ config \in ContentConfig
  BY DEF IInv, InFlight, TypeOK, Scanned
<1>2. DecisionOn(c, o) \in Decision
  BY <1>1, DecisionTyped DEF DecisionOn
<1>3. BindingFor(c, o) \in Binding
  BY <1>1, BindingTyped DEF BindingFor
<1>4. ApprovedDecision(c) \in Decision
  BY <1>1 DEF ApprovedDecision, Decide, Decision, Actions, ReasonCodes,
              AccessRequest
<1>5. Observed(c, o) \in Seq(Event)
  <2>1. /\ Mark("CONTENT_PREFLIGHTED") \in Event
        /\ Decided(DecisionOn(c, o)) \in Event
    BY <1>2, TrailsTyped DEF EventTypes
  <2> QED  BY <2>1 DEF Observed
<1>6. ReleaseTrail(c, o) \in Seq(Event)
  BY <1>4, <1>5, TrailsTyped DEF ReleaseTrail
<1> QED  BY <1>1, <1>2, <1>3, <1>4, <1>5, <1>6

\* A release answers with a well-formed outcome.
LEMMA CompletedTyped ==
    ASSUME NEW d \in Decision, NEW g \in ReceiptIds \cup {None}
    PROVE  Completed(d, g) \in Outcome
BY DEF Completed, Outcome, Decision

\* A handler that shows nothing and touches no receipt, whatever it records.
LEMMA HeldBackEnds ==
    ASSUME IInv, NEW c \in Reads, NEW o \in Observation,
           NEW outcome \in Outcome, HeldBack(outcome),
           NEW trail \in Seq(Event), Settle(c, o, trail, outcome),
           UNCHANGED <<receiptVars, hostVars>>
    PROVE  \E other \in Outcome \cup {None} :
               Ended(c, o, other) /\ Withholds(c, o, other)
BY SettleEnds DEF Withholds, receiptVars

\* What can come of the adapter of read c settling with observation o.
PreflightEnds(c, o) ==
    \E outcome \in Outcome \cup {None} :
        /\ Ended(c, o, outcome)
        /\ \/ Withholds(c, o, outcome)
           \/ ReleasesFreely(c, o, outcome)
           \/ ReleasesOnce(c, o, outcome)

\* An adapter that fails, and a request that cannot be hashed.
LEMMA FailuresEnd ==
    ASSUME IInv, NEW c \in Reads
    PROVE  /\ AdapterFails(c) => PreflightEnds(c, None)
           /\ \A o \in Observation : CannotDecide(c, o) => PreflightEnds(c, o)
<1>1. ASSUME NEW o \in Observation \cup {None}, NEW events \in Seq(Event),
             Caught(c, o, events), UNCHANGED <<receiptVars, hostVars>>
      PROVE  PreflightEnds(c, o)
  BY <1>1, CaughtEnds DEF PreflightEnds, Withholds, receiptVars
<1>2. AdapterFails(c) => PreflightEnds(c, None)
  BY <1>1, TrailsTyped DEF AdapterFails
<1>3. ASSUME NEW o \in Observation, CannotDecide(c, o)
      PROVE  PreflightEnds(c, o)
  <2> DEFINE trail == <<Mark("CONTENT_PREFLIGHTED")>>
  <2>1. trail \in Seq(Event)
    BY TrailsTyped
  <2>2. /\ \E events \in CutShort(trail) \cup {trail} : Caught(c, o, events)
        /\ UNCHANGED <<receiptVars, hostVars>>
    BY <1>3 DEF CannotDecide
  <2> HIDE DEF trail
  <2> QED  BY <1>1, <2>1, <2>2, CutShortTyped
<1> QED  BY <1>2, <1>3

\* Denials, quarantines and answers that leave the receipt alone.
LEMMA AnswersEnd ==
    ASSUME IInv, NEW c \in Reads, NEW o \in Observation,
           \/ Withhold(c, o)
           \/ KeepWaiting(c, o)
           \/ AnswerRejected(c, o)
           \/ AnswerInvalidated(c, o)
    PROVE  PreflightEnds(c, o)
<1>1. Scanned(c) /\ UNCHANGED <<receiptVars, hostVars>>
  BY DEF Withhold, KeepWaiting, AnswerRejected, AnswerInvalidated, Presents,
         NeedsReceipt
<1>2. /\ Observed(c, o) \in Seq(Event)
      /\ DecisionOn(c, o).reason \in ReasonCodes
      /\ Presents(c, o) => reads[c].receiptId \in ReceiptIds
  BY <1>1, ScannedTyped DEF Decision, Presents, IInv, TypeOK, Read
<1>3. CASE Withhold(c, o)
  <2>1. /\ Denied(DecisionOn(c, o).reason) \in Outcome
        /\ HeldBack(Denied(DecisionOn(c, o).reason))
    BY <1>2, DenialsHoldBack DEF Denied
  <2> QED  BY <1>1, <1>2, <1>3, <2>1, HeldBackEnds DEF Withhold, PreflightEnds
<1>4. CASE KeepWaiting(c, o)
  <2>1. /\ Waiting(reads[c].receiptId) \in Outcome
        /\ HeldBack(Waiting(reads[c].receiptId))
    BY <1>2, <1>4, DenialsHoldBack DEF Waiting, KeepWaiting, ReasonCodes
  <2> QED  BY <1>1, <1>2, <1>4, <2>1, HeldBackEnds DEF KeepWaiting, PreflightEnds
<1>5. CASE AnswerRejected(c, o)
  <2> DEFINE answer == MkOutcome("DENIED", "CONTENT_APPROVAL_REJECTED",
                                 reads[c].receiptId)
  <2>1. answer \in Outcome /\ HeldBack(answer)
    BY <1>2, <1>5, DenialsHoldBack DEF AnswerRejected, ReasonCodes
  <2>2. Settle(c, o, Observed(c, o), answer)
    BY <1>5 DEF AnswerRejected
  <2> HIDE DEF answer
  <2> QED  BY <1>1, <1>2, <2>1, <2>2, HeldBackEnds DEF PreflightEnds
<1>6. CASE AnswerInvalidated(c, o)
  <2>1. PICK reason \in ReasonCodes :
            Settle(c, o, Append(Observed(c, o),
                                Mark("CONTENT_APPROVAL_INVALIDATED")),
                   MkOutcome("APPROVAL_INVALIDATED", reason,
                             reads[c].receiptId))
    <3>1. {"CONTENT_RECEIPT_STALE", "CONTENT_APPROVAL_INVALIDATED"}
              \subseteq ReasonCodes
      BY DEF ReasonCodes
    <3> QED  BY <1>6, <3>1 DEF AnswerInvalidated
  <2> DEFINE answer == MkOutcome("APPROVAL_INVALIDATED", reason,
                                 reads[c].receiptId)
  <2>2. answer \in Outcome /\ HeldBack(answer)
    BY <1>2, <1>6, DenialsHoldBack DEF AnswerInvalidated
  <2>3. Append(Observed(c, o), Mark("CONTENT_APPROVAL_INVALIDATED"))
            \in Seq(Event)
    BY <1>2, TrailsTyped DEF EventTypes
  <2>4. Settle(c, o, Append(Observed(c, o),
                            Mark("CONTENT_APPROVAL_INVALIDATED")), answer)
    BY <2>1
  <2> HIDE DEF answer
  <2> QED  BY <1>1, <2>2, <2>3, <2>4, HeldBackEnds DEF PreflightEnds
<1> QED  BY <1>3, <1>4, <1>5, <1>6

\* A new receipt is asked for.
LEMMA AskingEnds ==
    ASSUME IInv, NEW c \in Reads, NEW o \in Observation,
           NEW g \in ReceiptIds, AskForReceipt(c, o, g)
    PROVE  PreflightEnds(c, o)
<1> DEFINE trail == Append(Observed(c, o), Mark("CONTENT_APPROVAL_REQUESTED"))
<1>1. /\ NeedsReceipt(c, o)
      /\ g \in ReceiptIds \ issued
      /\ UNCHANGED <<now, hostVars>>
  BY DEF AskForReceipt
<1>2. trail \in Seq(Event)
  BY <1>1, ScannedTyped, TrailsTyped DEF NeedsReceipt, EventTypes
<1>3. Waiting(g) \in Outcome /\ HeldBack(Waiting(g))
  BY DenialsHoldBack DEF Waiting, ReasonCodes
<1>4. CASE /\ Record(c, trail)
           /\ reads' = [reads EXCEPT ![c] = SettledRead(c, o, Waiting(g))]
           /\ StoreReceipt(g, reads[c].tool, BindingFor(c, o))
  <2>1. Ended(c, o, Waiting(g))
    BY <1>1, <1>2, <1>3, <1>4, ResolvedEnds
  <2> QED  BY <1>1, <1>3, <1>4, <2>1 DEF PreflightEnds, Withholds
<1>5. ASSUME NEW events \in CutShort(trail), Caught(c, o, events),
             \/ StoreReceipt(g, reads[c].tool, BindingFor(c, o))
             \/ UNCHANGED <<receipts, issued>>
      PROVE  PreflightEnds(c, o)
  <2>1. events \in Seq(Event)
    BY <1>2, CutShortTyped
  <2> QED  BY <1>1, <1>5, <2>1, CaughtEnds DEF PreflightEnds, Withholds
<1> QED  BY <1>4, <1>5 DEF AskForReceipt

\* Content is released because the policy allows it.
LEMMA AllowingEnds ==
    ASSUME IInv, NEW c \in Reads, NEW o \in Observation,
           NEW surfaces, ReleaseAllowed(c, o, surfaces)
    PROVE  PreflightEnds(c, o)
<1> DEFINE decision == DecisionOn(c, o)
           denied == [decision EXCEPT !.action = "DENY"]
<1>1. /\ Scanned(c) /\ decision.action = "ALLOW"
      /\ UNCHANGED <<receiptVars, hostVars>>
      /\ decision \in Decision
      /\ Observed(c, o) \in Seq(Event)
  BY ScannedTyped DEF ReleaseAllowed
<1>2. CASE Settle(c, o, Observed(c, o), Completed(decision, None))
  <2>1. Completed(decision, None) \in Outcome
    BY <1>1, CompletedTyped
  <2>2. CASE Ended(c, o, Completed(decision, None))
    BY <1>1, <2>1, <2>2 DEF PreflightEnds, ReleasesFreely, receiptVars
  <2>3. CASE \E other \in Outcome \cup {None} :
                 Ended(c, o, other) /\ HeldBack(other)
    BY <1>1, <2>3 DEF PreflightEnds, Withholds, receiptVars
  <2> QED  BY <1>1, <1>2, <2>1, <2>2, <2>3, SettleEnds DEF receiptVars
<1>3. CASE Settle(c, o, Append(Observed(c, o), Decided(denied)),
                  Denied("CONTENT_UNSUPPORTED"))
  <2>1. Append(Observed(c, o), Decided(denied)) \in Seq(Event)
    BY <1>1, TrailsTyped
  <2>2. /\ Denied("CONTENT_UNSUPPORTED") \in Outcome
        /\ HeldBack(Denied("CONTENT_UNSUPPORTED"))
    BY DenialsHoldBack DEF Denied, ReasonCodes
  <2> QED  BY <1>1, <1>3, <2>1, <2>2, HeldBackEnds DEF PreflightEnds
<1> QED  BY <1>2, <1>3 DEF ReleaseAllowed

\* Content is released under a receipt, or would be if it could be rendered.
LEMMA ReceiptEnds ==
    ASSUME IInv, NEW c \in Reads, NEW o \in Observation, NEW surfaces,
           ReleaseApproved(c, o, surfaces) \/ CannotRender(c, o, surfaces)
    PROVE  PreflightEnds(c, o)
<1> DEFINE answer == Completed(ApprovedDecision(c), reads[c].receiptId)
           denied == [ApprovedDecision(c) EXCEPT !.action = "DENY"]
<1>1. /\ Honoured(c, o) /\ Scanned(c)
      /\ UNCHANGED <<now, hostVars>>
      /\ reads[c].receiptId \in ReceiptIds
  BY DEF ReleaseApproved, CannotRender, Honoured, Presents, NeedsReceipt,
         receiptVars, IInv, TypeOK, Read
<1>2. /\ ApprovedDecision(c) \in Decision
      /\ ReleaseTrail(c, o) \in Seq(Event)
  BY <1>1, ScannedTyped
<1>3. answer \in Outcome
  BY <1>1, <1>2, CompletedTyped
<1>4. CASE /\ Record(c, ReleaseTrail(c, o))
           /\ reads' = [reads EXCEPT ![c] = SettledRead(c, o, answer)]
           /\ ConsumeReceipt(reads[c].receiptId)
  <2>1. Ended(c, o, answer)
    BY <1>1, <1>2, <1>3, <1>4, ResolvedEnds
  <2> QED  BY <1>1, <1>3, <1>4, <2>1 DEF PreflightEnds, ReleasesOnce
<1>5. CASE \E events \in CutShort(ReleaseTrail(c, o)) :
               Caught(c, o, events) /\ UNCHANGED <<receipts, issued>>
  BY <1>1, <1>2, <1>5, CutShortTyped, CaughtEnds DEF PreflightEnds, Withholds
<1>6. CASE CannotRender(c, o, surfaces)
  <2>1. Append(ReleaseTrail(c, o), Decided(denied)) \in Seq(Event)
    BY <1>2, TrailsTyped
  <2>2. /\ Denied("CONTENT_UNSUPPORTED") \in Outcome
        /\ HeldBack(Denied("CONTENT_UNSUPPORTED"))
    BY DenialsHoldBack DEF Denied, ReasonCodes
  <2> QED  BY <1>6, <2>1, <2>2, HeldBackEnds DEF CannotRender, PreflightEnds
<1> QED  BY <1>4, <1>5, <1>6 DEF ReleaseApproved

\* The receipt store throws.
LEMMA ThrowingEnds ==
    ASSUME IInv, NEW c \in Reads, NEW o \in Observation, StoreThrows(c, o)
    PROVE  PreflightEnds(c, o)
<1>1. PICK events \in {Observed(c, o), ReleaseTrail(c, o)} :
          Caught(c, o, events)
  BY DEF StoreThrows
<1>2. Scanned(c) /\ UNCHANGED <<receiptVars, hostVars>>
  BY DEF StoreThrows, Honoured, Presents, NeedsReceipt
<1>3. events \in Seq(Event)
  BY <1>2, ScannedTyped
<1> QED  BY <1>1, <1>2, <1>3, CaughtEnds
         DEF PreflightEnds, Withholds, receiptVars

\* However the adapter settles: nothing is shown, or what the policy allows,
\* or what a receipt allows that is used up by it.
LEMMA PreflightsEnd ==
    ASSUME IInv, NEW c \in Reads, NEW o \in Observations, Preflight(c, o)
    PROVE  PreflightEnds(c, o)
BY FailuresEnd, AnswersEnd, AskingEnds, AllowingEnds, ReceiptEnds,
   ThrowingEnds DEF Preflight

-----------------------------------------------------------------------------
\* Type correctness.

\* What was on record stays, and events are added to it.
LEMMA RecordTyped ==
    ASSUME IInv, NEW c \in Reads, NEW trail \in Seq(Event), Record(c, trail)
    PROVE  audit' \in [Reads -> Seq(Event)]
BY ConcatProperties DEF Record, IInv, TypeOK

\* What a preflight that ended means for the reads.
LEMMA EndedFacts ==
    ASSUME IInv, NEW c \in Reads, NEW o, NEW outcome, Ended(c, o, outcome)
    PROVE  /\ \A d \in Reads \ {c} : reads'[d] = reads[d]
           /\ reads'[c] \in Read
           /\ reads'[c].pc \in {"settled", "threw"}
           /\ reads'[c].tool = reads[c].tool
           /\ reads'[c].request = reads[c].request
           /\ reads'[c].receiptId = reads[c].receiptId
           /\ reads'[c].observation = o
           /\ reads'[c].version = config.version
           /\ reads'[c].outcome = outcome
           /\ reads' \in [Reads -> Read]
           /\ audit' \in [Reads -> Seq(Event)]
           /\ UNCHANGED <<now, hostVars>>
<1>1. reads \in [Reads -> Read] /\ audit \in [Reads -> Seq(Event)]
  BY DEF IInv, TypeOK
<1>2. audit' \in [Reads -> Seq(Event)]
  BY RecordTyped DEF Ended
<1> QED  BY <1>1, <1>2 DEF Ended

\* The operations of the store keep receipts well formed.
LEMMA StoringTyped ==
    ASSUME ReceiptsTypeOK, NEW g \in ReceiptIds, NEW tool \in ReadTools,
           NEW binding \in Binding, StoreReceipt(g, tool, binding), now' = now
    PROVE  ReceiptsTypeOK'
<1>1. now + TTL \in Nat
  BY DEF ReceiptsTypeOK
<1> QED  BY <1>1 DEF ReceiptsTypeOK, StoreReceipt, Receipt

\* A decision changes the status of one receipt that was pending.
LEMMA DecidingFacts ==
    ASSUME ReceiptsTypeOK, NEW g \in ReceiptIds, NEW operator \in Operators,
           ApproveReceipt(g, operator) \/ RejectReceipt(g, operator)
    PROVE  /\ StillPending(g)
           /\ receipts[g] \in Receipt
           /\ issued' = issued
           /\ DOMAIN receipts' = DOMAIN receipts
           /\ receipts' \in [DOMAIN receipts -> Receipt]
           /\ receipts'[g].tool = receipts[g].tool
           /\ receipts'[g].binding = receipts[g].binding
           /\ receipts'[g].expiresAt = receipts[g].expiresAt
           /\ receipts'[g].used = receipts[g].used
           /\ receipts'[g].status =
                  IF ApproveReceipt(g, operator) THEN "approved" ELSE "rejected"
           /\ \A h \in DOMAIN receipts : h # g => receipts'[h] = receipts[h]
<1> DEFINE old == receipts[g]
           yes == [old EXCEPT !.status = "approved", !.approvedBy = operator]
           no == [old EXCEPT !.status = "rejected", !.rejectedBy = operator]
<1>1. /\ StillPending(g) /\ g \in DOMAIN receipts /\ issued' = issued
      /\ receipts \in [DOMAIN receipts -> Receipt] /\ old \in Receipt
  BY DEF ReceiptsTypeOK, ApproveReceipt, RejectReceipt, StillPending, Current,
         Stored
<1>2. /\ yes \in Receipt /\ yes.status = "approved"
      /\ yes.tool = old.tool /\ yes.binding = old.binding
      /\ yes.expiresAt = old.expiresAt /\ yes.used = old.used
  BY <1>1 DEF Receipt
<1>3. /\ no \in Receipt /\ no.status = "rejected"
      /\ no.tool = old.tool /\ no.binding = old.binding
      /\ no.expiresAt = old.expiresAt /\ no.used = old.used
  BY <1>1 DEF Receipt
<1>4. CASE ApproveReceipt(g, operator)
  <2>1. receipts' = [receipts EXCEPT ![g] = yes]
    BY <1>1, <1>4 DEF ApproveReceipt, Receipt
  <2> HIDE DEF yes, no
  <2> QED  BY <1>1, <1>2, <1>4, <2>1
<1>5. CASE ~ApproveReceipt(g, operator)
  <2>1. receipts' = [receipts EXCEPT ![g] = no]
    BY <1>1, <1>5 DEF RejectReceipt, Receipt
  <2> HIDE DEF yes, no
  <2> QED  BY <1>1, <1>3, <1>5, <2>1
<1> QED  BY <1>4, <1>5

\* Consumption marks one receipt, if it is stored and approved.
LEMMA ConsumingFacts ==
    ASSUME ReceiptsTypeOK, NEW g, ConsumeReceipt(g)
    PROVE  /\ issued' = issued
           /\ DOMAIN receipts' = DOMAIN receipts
           /\ receipts' \in [DOMAIN receipts -> Receipt]
           /\ \A h \in DOMAIN receipts :
                  /\ h # g => receipts'[h] = receipts[h]
                  /\ receipts'[h].used <=>
                         \/ receipts[h].used
                         \/ h = g /\ receipts[h].status = "approved"
                  /\ receipts'[h].status = receipts[h].status
<1>1. \A h \in DOMAIN receipts : receipts[h] \in Receipt
  BY DEF ReceiptsTypeOK
<1>2. ASSUME NEW h \in DOMAIN receipts
      PROVE  /\ receipts'[h] \in Receipt
             /\ h # g => receipts'[h] = receipts[h]
             /\ receipts'[h].used <=>
                    \/ receipts[h].used
                    \/ h = g /\ receipts[h].status = "approved"
             /\ receipts'[h].status = receipts[h].status
  <2> DEFINE old == receipts[h]
             mark == old.used \/ (h = g /\ old.status = "approved")
             new == [old EXCEPT !.used = mark]
  <2>1. receipts'[h] = new
    BY DEF ConsumeReceipt
  <2>2. old \in Receipt /\ mark \in BOOLEAN
    BY <1>1
  <2>3. h # g => mark = old.used
    BY <2>2 DEF Receipt
  <2> HIDE DEF mark
  <2>4. /\ new \in Receipt /\ new.used = mark /\ new.status = old.status
        /\ mark = old.used => new = old
    BY <2>2 DEF Receipt
  <2> QED  BY <2>1, <2>3, <2>4 DEF mark
<1> QED  BY <1>2 DEF ConsumeReceipt

\* A preflight that ends keeps the invariant.
LEMMA EndingTyped ==
    ASSUME IInv, NEW c \in Reads, NEW o \in Observation \cup {None},
           o \in Observation \/ AdapterFails(c),
           PreflightEnds(c, o)
    PROVE  IInv'
<1>1. PICK outcome \in Outcome \cup {None} :
          /\ Ended(c, o, outcome)
          /\ \/ Withholds(c, o, outcome)
             \/ ReleasesFreely(c, o, outcome)
             \/ ReleasesOnce(c, o, outcome)
  BY DEF PreflightEnds
<1>2. ReceiptsTypeOK'
  <2>1. ReceiptsTypeOK /\ now' = now
    BY <1>1, EndedFacts DEF IInv, TypeOK
  <2>2. CASE UNCHANGED <<receipts, issued>>
    BY <2>1, <2>2 DEF ReceiptsTypeOK
  <2>3. ASSUME NEW g \in ReceiptIds, NeedsReceipt(c, o), o \in Observation,
               StoreReceipt(g, reads[c].tool, BindingFor(c, o))
        PROVE  ReceiptsTypeOK'
    BY <2>1, <2>3, ScannedTyped, StoringTyped DEF NeedsReceipt
  <2>4. CASE ReleasesOnce(c, o, outcome)
    BY <2>1, <2>4, ConsumingFacts DEF ReleasesOnce, ReceiptsTypeOK
  <2>5. CASE AdapterFails(c)
    BY <2>1, <2>5 DEF AdapterFails, receiptVars, ReceiptsTypeOK
  <2> QED  BY <1>1, <2>2, <2>3, <2>4, <2>5 DEF Withholds, ReleasesFreely
<1>3. TypeOK'
  BY <1>1, <1>2, EndedFacts DEF IInv, TypeOK, hostVars
<1>4. InFlight'
  BY <1>1, EndedFacts DEF IInv, InFlight
<1> QED  BY <1>3, <1>4 DEF IInv

\* The initial states.
LEMMA InitTyped == Init => IInv
<1> SUFFICES ASSUME Init PROVE IInv
  OBVIOUS
<1>1. ReceiptsTypeOK
  BY DEF Init, ReceiptInit, ReceiptsTypeOK
<1>2. IdleRead \in Read
  BY DEF IdleRead, Read, ReadStates
<1>3. TypeOK
  BY <1>1, <1>2 DEF Init, TypeOK
<1>4. InFlight
  BY DEF Init, InFlight, IdleRead
<1> QED  BY <1>3, <1>4 DEF IInv

\* A read that enters is refused at once or waits for its adapter.
LEMMA EnteringFacts ==
    ASSUME IInv, NEW c \in Reads, Enter(c)
    PROVE  /\ reads[c].pc = "idle"
           /\ reads[c].outcome = None
           /\ \A d \in Reads \ {c} : reads'[d] = reads[d]
           /\ reads'[c] \in Read
           /\ reads'[c].pc \in {"scanning", "settled", "threw"}
           /\ reads'[c].pc = "scanning" =>
                  /\ reads'[c].request \in AccessRequest
                  /\ reads'[c].tool \in ReadTools
                  /\ reads'[c].outcome = None
           /\ HeldBack(reads'[c].outcome)
           /\ reads' \in [Reads -> Read]
           /\ audit' \in [Reads -> Seq(Event)]
           /\ UNCHANGED <<receiptVars, hostVars>>
<1>1. PICK tool \in ReadTools, request \in Requests \cup {None},
           g \in issued \cup {None} :
          RefuseUnscanned(c, tool, request, g) \/ StartScan(c, tool, request, g)
  BY DEF Enter
<1>2. /\ reads \in [Reads -> Read] /\ audit \in [Reads -> Seq(Event)]
      /\ g \in ReceiptIds \cup {None}
      /\ request \in AccessRequest \cup {None}
  BY DEF IInv, TypeOK, ReceiptsTypeOK
<1> DEFINE entered == [IdleRead EXCEPT !.tool = tool, !.request = request,
                                       !.receiptId = g]
<1>3. entered \in Read /\ entered.outcome = None
  <2>1. IdleRead \in Read
    BY DEF IdleRead, Read, ReadStates
  <2> QED  BY <1>2, <2>1 DEF Read, IdleRead
<1>4. CASE RefuseUnscanned(c, tool, request, g)
  <2> DEFINE refusal == Denied("CONTENT_PREFLIGHT_REQUIRED")
             denied == [entered EXCEPT !.pc = "settled", !.outcome = refusal]
             threw == [entered EXCEPT !.pc = "threw"]
  <2>1. refusal \in Outcome /\ HeldBack(refusal) /\ HeldBack(None)
    BY DenialsHoldBack, FailuresHoldBack DEF Denied, ReasonCodes
  <2>2. /\ reads[c].pc = "idle"
        /\ \/ reads' = [reads EXCEPT ![c] = denied]
           \/ reads' = [reads EXCEPT ![c] = threw]
        /\ UNCHANGED <<receiptVars, hostVars>>
    BY <1>4 DEF RefuseUnscanned
  <2> HIDE DEF refusal
  <2>3. /\ denied \in Read /\ denied.pc = "settled"
        /\ denied.outcome = refusal
        /\ threw \in Read /\ threw.pc = "threw" /\ threw.outcome = None
    <3> HIDE DEF entered
    <3> QED  BY <1>3, <2>1 DEF Read, ReadStates
  <2>4. <<DecidedDeny>> \in Seq(Event)
    <3>1. DecidedDeny \in Event
      BY DEF DecidedDeny, Event, EventTypes, Actions
    <3> QED  BY <3>1
  <2>5. audit' \in [Reads -> Seq(Event)]
    BY <1>2, <1>4, <2>4, RecordTyped DEF RefuseUnscanned
  <2>6. reads[c].outcome = None
    BY <2>2 DEF IInv, InFlight
  <2> HIDE DEF denied, threw
  <2>7. PICK r \in {denied, threw} : reads' = [reads EXCEPT ![c] = r]
    BY <2>2
  <2>8. /\ reads'[c] = r
        /\ \A d \in Reads \ {c} : reads'[d] = reads[d]
        /\ reads' \in [Reads -> Read]
    BY <1>2, <2>3, <2>7
  <2> QED  BY <2>1, <2>2, <2>3, <2>5, <2>6, <2>8
<1>5. CASE StartScan(c, tool, request, g)
  <2> DEFINE started == [IdleRead EXCEPT !.pc = "scanning", !.tool = tool,
                                         !.request = request, !.receiptId = g]
  <2>1. /\ started \in Read /\ started.pc = "scanning"
        /\ started.tool = tool /\ started.request = request
        /\ started.outcome = None
    BY <1>2 DEF IdleRead, Read, ReadStates
  <2>2. /\ reads[c].pc = "idle" /\ request # None
        /\ reads' = [reads EXCEPT ![c] = started]
        /\ UNCHANGED <<receiptVars, hostVars, audit>>
    BY <1>5 DEF StartScan
  <2>3. reads[c].outcome = None
    BY <2>2 DEF IInv, InFlight
  <2> HIDE DEF started
  <2> QED  BY <1>2, <2>1, <2>2, <2>3 DEF HeldBack
<1> QED  BY <1>1, <1>4, <1>5

\* Once an outcome is settled, answering it or losing the process changes
\* nothing in a read but where it stands.
LEMMA OtherStepsKeepReads ==
    ASSUME IInv,
           \/ \E c \in Reads : AnswerRead(c)
           \/ \E g \in ReceiptIds, operator \in Operators :
                  PostApprove(g, operator) \/ PostReject(g, operator)
           \/ \E tool \in ReadTools : SetContentPreflightAdapter(tool)
           \/ PassTime
           \/ Restart
           \/ UNCHANGED vars
    PROVE  /\ \A c \in Reads :
                  \/ reads'[c] = reads[c]
                  \/ \E pc \in {"answered", "threw", "lost"} :
                         reads'[c] = [reads[c] EXCEPT !.pc = pc]
           /\ reads' \in [Reads -> Read]
           /\ audit' \in [Reads -> Seq(Event)]
<1>1. reads \in [Reads -> Read] /\ audit \in [Reads -> Seq(Event)]
  BY DEF IInv, TypeOK
<1>2. \A r \in Read : \A pc \in ReadStates : [r EXCEPT !.pc = pc] \in Read
  BY DEF Read
<1>3. ASSUME NEW c \in Reads, AnswerRead(c)
      PROVE  /\ \E pc \in {"answered", "threw"} :
                    reads' = [reads EXCEPT ![c].pc = pc]
             /\ audit' \in [Reads -> Seq(Event)]
  <2> DEFINE trail == <<Mark("TOOL_EXECUTED"), Mark("OUTCOME_GENERATED")>>
  <2>1. trail \in Seq(Event)
    <3>1. /\ Mark("TOOL_EXECUTED") \in Event
          /\ Mark("OUTCOME_GENERATED") \in Event
      BY TrailsTyped DEF EventTypes
    <3> QED  BY <3>1
  <2>2. \/ Record(c, trail) /\ reads' = [reads EXCEPT ![c].pc = "answered"]
        \/ \E events \in CutShort(trail) :
               Record(c, events) /\ reads' = [reads EXCEPT ![c].pc = "threw"]
    BY <1>3 DEF AnswerRead
  <2> HIDE DEF trail
  <2>3. \E events \in Seq(Event) : Record(c, events)
    BY <2>1, <2>2, CutShortTyped
  <2> QED  BY <2>2, <2>3, RecordTyped
<1>4. ASSUME NEW c \in Reads, AnswerRead(c)
      PROVE  /\ \A d \in Reads :
                  \/ reads'[d] = reads[d]
                  \/ \E pc \in {"answered", "threw", "lost"} :
                         reads'[d] = [reads[d] EXCEPT !.pc = pc]
             /\ reads' \in [Reads -> Read]
  <2>1. PICK pc \in {"answered", "threw"} :
            reads' = [reads EXCEPT ![c].pc = pc]
    BY <1>3, <1>4
  <2> QED  BY <1>1, <1>2, <2>1 DEF ReadStates
<1>5. CASE Restart
  <2>1. /\ reads' = [c \in Reads |->
               IF reads[c].pc \in {"scanning", "settled"}
               THEN [reads[c] EXCEPT !.pc = "lost"] ELSE reads[c]]
        /\ audit' = audit \/ audit' = [c \in Reads |-> <<>>]
    BY <1>5 DEF Restart
  <2>2. audit' \in [Reads -> Seq(Event)]
    <3>1. CASE audit' = audit
      BY <1>1, <3>1
    <3>2. CASE audit' = [c \in Reads |-> <<>>]
      <4>1. <<>> \in Seq(Event)
        BY TrailsTyped
      <4> QED  BY <3>2, <4>1
    <3> QED  BY <2>1, <3>1, <3>2
  <2>3. ASSUME NEW c \in Reads
        PROVE  /\ \/ reads'[c] = reads[c]
                  \/ reads'[c] = [reads[c] EXCEPT !.pc = "lost"]
               /\ reads'[c] \in Read
    BY <1>1, <1>2, <2>1 DEF ReadStates
  <2> QED  BY <2>1, <2>2, <2>3
<1>6. CASE ~Restart /\ ~\E c \in Reads : AnswerRead(c)
  BY <1>1, <1>6 DEF PostApprove, PostReject, SetContentPreflightAdapter,
                    PassTime, vars
<1> QED  BY <1>3, <1>4, <1>5, <1>6

\* An adapter that fails shows nothing and leaves every receipt alone.
LEMMA ScanFailureEnds ==
    ASSUME IInv, NEW c \in Reads, AdapterFails(c)
    PROVE  /\ reads[c].pc = "scanning"
           /\ UNCHANGED <<receipts, issued>>
           /\ \E outcome \in Outcome \cup {None} :
                  Ended(c, None, outcome) /\ HeldBack(outcome)
<1>1. PICK events \in Seq(Event) : Caught(c, None, events)
  BY TrailsTyped DEF AdapterFails
<1>2. UNCHANGED <<receiptVars, hostVars>> /\ reads[c].pc = "scanning"
  BY DEF AdapterFails
<1> QED  BY <1>1, <1>2, CaughtEnds DEF receiptVars

\* An adapter only settles while it is awaited.
LEMMA PreflightsWereScanning ==
    ASSUME NEW c, NEW o, Preflight(c, o)
    PROVE  reads[c].pc = "scanning"
BY DEF Preflight, CannotDecide, Withhold, AskForReceipt, KeepWaiting,
       AnswerRejected, AnswerInvalidated, StoreThrows, ReleaseAllowed,
       ReleaseApproved, CannotRender, Honoured, Presents, NeedsReceipt, Scanned

\* The read is the same but for where it stands.
SameRead(r, s) ==
    /\ r.tool = s.tool /\ r.request = s.request /\ r.receiptId = s.receiptId
    /\ r.observation = s.observation /\ r.version = s.version
    /\ r.outcome = s.outcome
    /\ r.pc = s.pc \/ r.pc \in {"answered", "threw", "lost"}

\* The operations that end no preflight and start none.
AsideStep ==
    \/ \E c \in Reads : AnswerRead(c)
    \/ \E g \in ReceiptIds, operator \in Operators :
           PostApprove(g, operator) \/ PostReject(g, operator)
    \/ \E tool \in ReadTools : SetContentPreflightAdapter(tool)
    \/ PassTime
    \/ Restart
    \/ UNCHANGED vars

\* They leave every read the same.
LEMMA AsideKeepsReads ==
    ASSUME IInv, AsideStep
    PROVE  /\ \A c \in Reads : SameRead(reads'[c], reads[c])
           /\ reads' \in [Reads -> Read]
           /\ audit' \in [Reads -> Seq(Event)]
<1>1. ASSUME NEW c \in Reads
      PROVE  SameRead(reads'[c], reads[c])
  <2>1. reads[c] \in Read
    BY DEF IInv, TypeOK
  <2>2. CASE reads'[c] = reads[c]
    BY <2>2 DEF SameRead
  <2>3. ASSUME NEW pc \in {"answered", "threw", "lost"},
               reads'[c] = [reads[c] EXCEPT !.pc = pc]
        PROVE  SameRead(reads'[c], reads[c])
    BY <2>1, <2>3 DEF SameRead, Read
  <2> QED  BY <2>2, <2>3, OtherStepsKeepReads DEF AsideStep
<1> QED  BY <1>1, OtherStepsKeepReads DEF AsideStep

\* Every step keeps the invariant.
LEMMA StepTyped == IInv /\ [Next]_vars => IInv'
<1> SUFFICES ASSUME IInv, [Next]_vars PROVE IInv'
  OBVIOUS
<1>1. ASSUME NEW c \in Reads, Enter(c)
      PROVE  IInv'
  <2>1. TypeOK'
    BY <1>1, EnteringFacts DEF IInv, TypeOK, ReceiptsTypeOK, receiptVars,
                               hostVars
  <2>2. InFlight'
    BY <1>1, EnteringFacts DEF IInv, InFlight
  <2> QED  BY <2>1, <2>2 DEF IInv
<1>2. ASSUME NEW c \in Reads, AdapterFails(c)
      PROVE  IInv'
  BY <1>2, FailuresEnd, EndingTyped
<1>3. ASSUME NEW c \in Reads, NEW o \in Observations, Preflight(c, o)
      PROVE  IInv'
  BY <1>3, PreflightsEnd, EndingTyped
<1>4. ASSUME AsideStep
      PROVE  IInv'
  <2>1. ReceiptsTypeOK /\ TypeOK
    BY DEF IInv, TypeOK
  <2>2. ReceiptsTypeOK'
    <3>1. ASSUME NEW g \in ReceiptIds, NEW operator \in Operators,
                 PostApprove(g, operator) \/ PostReject(g, operator)
          PROVE  ReceiptsTypeOK'
      BY <2>1, <3>1, DecidingFacts DEF PostApprove, PostReject, ReceiptsTypeOK
    <3>2. CASE PassTime
      BY <2>1, <3>2 DEF PassTime, ReceiptsTypeOK
    <3>3. CASE Restart
      <4>1. now' = now /\ issued' = issued
        BY <3>3 DEF Restart, ForgetReceipts
      <4>2. CASE receipts' = [g \in {} |-> {}]
        <5>1. DOMAIN receipts' = {} /\ receipts' \in [{} -> Receipt]
          BY <4>2
        <5> QED  BY <2>1, <4>1, <5>1 DEF ReceiptsTypeOK
      <4>3. CASE receipts' = receipts
        BY <2>1, <4>1, <4>3 DEF ReceiptsTypeOK
      <4> QED  BY <3>3, <4>2, <4>3 DEF Restart, ForgetReceipts
    <3>4. CASE UNCHANGED receiptVars
      BY <2>1, <3>4 DEF ReceiptsTypeOK, receiptVars
    <3> QED  BY <1>4, <3>1, <3>2, <3>3, <3>4
             DEF AsideStep, AnswerRead, SetContentPreflightAdapter, vars
  <2>3. /\ deployment' \in Deployments
        /\ config' \in ContentConfigs
        /\ adapters' \subseteq ReadTools
    <3>1. CASE UNCHANGED hostVars
      BY <2>1, <3>1 DEF hostVars, TypeOK
    <3>2. ASSUME NEW tool \in ReadTools, SetContentPreflightAdapter(tool)
          PROVE  /\ UNCHANGED <<deployment, config>>
                 /\ adapters' \subseteq ReadTools
      BY <2>1, <3>2 DEF SetContentPreflightAdapter, TypeOK
    <3>3. CASE Restart
      BY <2>1, <3>3 DEF Restart, TypeOK
    <3> QED  BY <1>4, <2>1, <3>1, <3>2, <3>3
             DEF AsideStep, AnswerRead, PostApprove, PostReject, PassTime,
                 vars, TypeOK
  <2>4. TypeOK'
    BY <1>4, <2>2, <2>3, AsideKeepsReads DEF TypeOK
  <2>5. InFlight'
    BY <1>4, AsideKeepsReads DEF SameRead, IInv, InFlight
  <2> QED  BY <2>4, <2>5 DEF IInv
<1> QED  BY <1>1, <1>2, <1>3, <1>4 DEF Next, AsideStep

\* The type invariant, together with what is known of reads in flight.
THEOREM ReleaseTypeCorrect == Spec => []IInv
BY InitTyped, StepTyped, PTL DEF Spec

\* Type correctness alone (index.ts: preflightReadResult).
THEOREM ContentTypeCorrect == Spec => []TypeOK
<1>1. IInv => TypeOK
  BY DEF IInv
<1> QED  BY <1>1, ReleaseTypeCorrect, PTL

-----------------------------------------------------------------------------
\* What is shown of content.

\* What may be shown of o to a request q.
Modest(level, o, q) ==
    /\ IsAtMost(level, q.exposure)
    /\ o.status = "COMPLETE"
    /\ ~HasFlag(o, {"ARCHIVE_BOMB", "OVERSIZED_PAYLOAD",
                    "EMBEDDED_SCRIPT", "MACRO_PRESENT"})
    /\ HasFlag(o, {"SECRET_LIKE_CONTENT"}) => IsAtMost(level, "DERIVED_ONLY")

\* Whatever a preflight shows is modest.
LEMMA EndingIsModest ==
    ASSUME IInv, NEW c \in Reads, NEW o \in Observation, NEW outcome,
           \/ Withholds(c, o, outcome)
           \/ ReleasesFreely(c, o, outcome)
           \/ ReleasesOnce(c, o, outcome),
           outcome # None, outcome.exposure # None
    PROVE  Modest(outcome.exposure, o, reads[c].request)
<1> DEFINE q == reads[c].request
           decision == EvaluateContent(config, o, q)
<1>1. Scanned(c) /\ decision.action \in {"ALLOW", "REQUIRE_APPROVAL"}
  BY DEF Withholds, HeldBack, ReleasesFreely, ReleasesOnce, Honoured, Presents,
         NeedsReceipt, DecisionOn
<1>2. q \in AccessRequest /\ config \in ContentConfig
  BY <1>1, ScannedTyped
<1>3. /\ o.status = "COMPLETE"
      /\ ~HasFlag(o, {"ARCHIVE_BOMB", "OVERSIZED_PAYLOAD"})
      /\ ~HasFlag(o, {"EMBEDDED_SCRIPT", "MACRO_PRESENT"})
      /\ decision.action = "REQUIRE_APPROVAL" =>
             ~HasFlag(o, {"SECRET_LIKE_CONTENT"})
  BY <1>1, <1>2, OnlyTamedContentIsDecided
<1>4. ~HasFlag(o, {"ARCHIVE_BOMB", "OVERSIZED_PAYLOAD",
                   "EMBEDDED_SCRIPT", "MACRO_PRESENT"})
  BY <1>3 DEF HasFlag
<1>5. CASE ReleasesFreely(c, o, outcome)
  <2>1. outcome.exposure = decision.granted /\ decision.action = "ALLOW"
    BY <1>5 DEF ReleasesFreely, Completed, DecisionOn
  <2> HIDE DEF q
  <2>2. /\ IsAtMost(decision.granted, q.exposure)
        /\ HasFlag(o, {"SECRET_LIKE_CONTENT"}) =>
               IsAtMost(decision.granted, "DERIVED_ONLY")
    BY <1>2, <2>1, AllowedIsModest
  <2> QED  BY <1>3, <1>4, <2>1, <2>2 DEF Modest, q
<1>6. CASE ReleasesOnce(c, o, outcome)
  <2>1. /\ outcome.exposure = q.exposure
        /\ decision.action = "REQUIRE_APPROVAL"
    BY <1>6 DEF ReleasesOnce, Completed, ApprovedDecision, Decide, Honoured,
                Presents, NeedsReceipt, DecisionOn
  <2>2. IsAtMost(q.exposure, q.exposure)
    BY <1>2 DEF AccessRequest, IsAtMost, Exposures, ExposureOrder
  <2> QED  BY <1>3, <1>4, <2>1, <2>2 DEF Modest
<1> QED  BY <1>5, <1>6 DEF Withholds, HeldBack

\* Once modest, always modest: no later step changes what was shown, and the
\* steps that show something look at what was observed.
LEMMA StepKeepsRiskIn == IInv /\ RiskStaysIn /\ [Next]_vars => RiskStaysIn'
<1> SUFFICES ASSUME IInv, RiskStaysIn, [Next]_vars,
                    NEW c \in Reads, Released(c)'
             PROVE  Modest(reads'[c].outcome.exposure, reads'[c].observation,
                           reads'[c].request)
  BY DEF RiskStaysIn, Modest
<1>1. ASSUME SameRead(reads'[c], reads[c])
      PROVE  Modest(reads'[c].outcome.exposure, reads'[c].observation,
                    reads'[c].request)
  BY <1>1 DEF SameRead, RiskStaysIn, Released, Modest
<1>2. ASSUME NEW d \in Reads, Enter(d)
      PROVE  SameRead(reads'[c], reads[c])
  BY <1>2, EnteringFacts DEF SameRead, Released, HeldBack
<1>3. ASSUME NEW d \in Reads, NEW o \in Observation, PreflightEnds(d, o)
      PROVE  \/ SameRead(reads'[c], reads[c])
             \/ Modest(reads'[c].outcome.exposure, reads'[c].observation,
                       reads'[c].request)
  <2>1. PICK outcome \in Outcome \cup {None} :
            /\ Ended(d, o, outcome)
            /\ \/ Withholds(d, o, outcome)
               \/ ReleasesFreely(d, o, outcome)
               \/ ReleasesOnce(d, o, outcome)
    BY <1>3 DEF PreflightEnds
  <2>2. CASE c = d
    <3>1. /\ reads'[c].outcome = outcome /\ reads'[c].observation = o
          /\ reads'[c].request = reads[c].request
      BY <2>1, <2>2, EndedFacts
    <3>2. outcome # None /\ outcome.exposure # None
      BY <3>1 DEF Released
    <3> QED  BY <2>1, <2>2, <3>1, <3>2, EndingIsModest
  <2>3. CASE c # d
    BY <2>1, <2>3, EndedFacts DEF SameRead
  <2> QED  BY <2>2, <2>3
<1>4. ASSUME NEW d \in Reads, AdapterFails(d)
      PROVE  SameRead(reads'[c], reads[c])
  <2>1. PICK outcome \in Outcome \cup {None} :
            Ended(d, None, outcome) /\ HeldBack(outcome)
    BY <1>4, ScanFailureEnds
  <2>2. c # d
    BY <2>1, EndedFacts DEF HeldBack, Released
  <2> QED  BY <2>1, <2>2, EndedFacts DEF SameRead
<1>5. ASSUME AsideStep
      PROVE  SameRead(reads'[c], reads[c])
  BY <1>5, AsideKeepsReads
<1> QED  BY <1>1, <1>2, <1>3, <1>4, <1>5, PreflightsEnd DEF Next, AsideStep

\* No agent sees more than it asked for, more than derived facts of what may
\* be a secret, or anything of a script, a macro or a bomb
\* (content-policy-engine.ts: evaluate, index.ts: preflightReadResult).
THEOREM RiskAlwaysStaysIn == Spec => []RiskStaysIn
<1>1. Init => RiskStaysIn
  BY DEF Init, RiskStaysIn, Released, IdleRead
<1> QED  BY <1>1, StepKeepsRiskIn, ReleaseTypeCorrect, PTL DEF Spec

-----------------------------------------------------------------------------
\* What receipts are spent for.

\* An outcome, once there, is never replaced by another.
LEMMA OutcomesStay ==
    ASSUME IInv, [Next]_vars, NEW c \in Reads, reads[c].outcome # None
    PROVE  SameRead(reads'[c], reads[c])
<1>1. reads[c].pc \notin {"idle", "scanning"}
  BY DEF IInv, InFlight
<1>2. ASSUME NEW d \in Reads, reads[d].pc = "scanning",
             NEW o, NEW outcome, Ended(d, o, outcome)
      PROVE  SameRead(reads'[c], reads[c])
  BY <1>1, <1>2, EndedFacts DEF SameRead
<1>3. ASSUME NEW d \in Reads, AdapterFails(d)
      PROVE  SameRead(reads'[c], reads[c])
  BY <1>2, <1>3, ScanFailureEnds
<1>4. ASSUME NEW d \in Reads, NEW o \in Observations, Preflight(d, o)
      PROVE  SameRead(reads'[c], reads[c])
  <2>1. reads[d].pc = "scanning" /\ PreflightEnds(d, o)
    BY <1>4, PreflightsEnd, PreflightsWereScanning
  <2> QED  BY <1>2, <2>1 DEF PreflightEnds
<1>5. ASSUME NEW d \in Reads, Enter(d)
      PROVE  SameRead(reads'[c], reads[c])
  BY <1>1, <1>5, EnteringFacts DEF SameRead
<1> QED  BY <1>3, <1>4, <1>5, AsideKeepsReads DEF Next, AsideStep

\* Receipt g was spent on an approval, for a release.
SpentWell(g) ==
    /\ receipts[g].status = "approved"
    /\ \E c \in Reads :
           ReleasedUnderReceipt(c) /\ reads[c].outcome.receipt = g

\* A receipt that was already spent stays so, whatever happens around it.
LEMMA SpentStaysSpent ==
    ASSUME IInv, SpentForARelease, [Next]_vars,
           NEW g \in DOMAIN receipts, receipts[g].used,
           receipts'[g].status = receipts[g].status
    PROVE  SpentWell(g)'
<1>1. PICK c \in Reads : ReleasedUnderReceipt(c) /\ reads[c].outcome.receipt = g
  BY DEF SpentForARelease
<1>2. SameRead(reads'[c], reads[c])
  BY <1>1, OutcomesStay DEF ReleasedUnderReceipt
<1>3. ReleasedUnderReceipt(c)' /\ reads'[c].outcome.receipt = g
  BY <1>1, <1>2 DEF SameRead, ReleasedUnderReceipt
<1> QED  BY <1>3 DEF SpentWell, SpentForARelease

\* No step spends a receipt without a release.
LEMMA StepSpendsWell ==
    IInv /\ SpentForARelease /\ [Next]_vars => SpentForARelease'
<1> SUFFICES ASSUME IInv, SpentForARelease, [Next]_vars,
                    NEW g \in DOMAIN receipts', receipts'[g].used
             PROVE  SpentWell(g)'
  BY DEF SpentForARelease, SpentWell
<1> DEFINE Old == g \in DOMAIN receipts /\ receipts'[g] = receipts[g]
<1>1. Old => SpentWell(g)'
  BY SpentStaysSpent
<1>2. ASSUME NEW c \in Reads, NEW o \in Observations, Preflight(c, o)
      PROVE  SpentWell(g)'
  <2>1. PICK outcome \in Outcome \cup {None} :
            /\ Ended(c, o, outcome)
            /\ \/ Withholds(c, o, outcome)
               \/ ReleasesFreely(c, o, outcome)
               \/ ReleasesOnce(c, o, outcome)
    BY <1>2, PreflightsEnd DEF PreflightEnds
  <2>2. CASE Withholds(c, o, outcome)
    <3>1. CASE UNCHANGED <<receipts, issued>>
      BY <1>1, <3>1
    <3>2. ASSUME NEW h, StoreReceipt(h, reads[c].tool, BindingFor(c, o))
          PROVE  SpentWell(g)'
      <4>1. g # h
        BY <3>2 DEF StoreReceipt
      <4>2. Old
        BY <3>2, <4>1 DEF StoreReceipt
      <4> QED  BY <1>1, <4>2
    <3> QED  BY <2>2, <3>1, <3>2 DEF Withholds
  <2>3. CASE ReleasesFreely(c, o, outcome)
    BY <1>1, <2>3 DEF ReleasesFreely
  <2>4. CASE ReleasesOnce(c, o, outcome)
    <3>1. /\ ConsumeReceipt(reads[c].receiptId)
          /\ outcome = Completed(ApprovedDecision(c), reads[c].receiptId)
          /\ reads[c].receiptId # None
      BY <2>4 DEF ReleasesOnce, Honoured, Presents
    <3>2. /\ g \in DOMAIN receipts
          /\ receipts'[g].status = receipts[g].status
          /\ \/ receipts[g].used
             \/ g = reads[c].receiptId /\ receipts[g].status = "approved"
      BY <3>1, ConsumingFacts DEF IInv, TypeOK
    <3>3. reads'[c].outcome = outcome /\ outcome # None
      <4>1. ApprovedDecision(c) \in Decision
        BY <2>4, ScannedTyped DEF ReleasesOnce, Honoured, Presents, NeedsReceipt
      <4>2. reads[c].receiptId \in ReceiptIds \cup {None}
        BY DEF IInv, TypeOK, Read
      <4>3. outcome \in Outcome
        BY <3>1, <4>1, <4>2, CompletedTyped
      <4> QED  BY <2>1, <4>3, EndedFacts
    <3>4. ReleasedUnderReceipt(c)' /\ reads'[c].outcome.receipt = reads[c].receiptId
      BY <3>1, <3>3 DEF ReleasedUnderReceipt, Completed
    <3> QED  BY <3>2, <3>4, SpentStaysSpent DEF SpentWell
  <2> QED  BY <2>1, <2>2, <2>3, <2>4
<1>3. ASSUME NEW h \in ReceiptIds, NEW operator \in Operators,
             PostApprove(h, operator) \/ PostReject(h, operator)
      PROVE  SpentWell(g)'
  <2>1. /\ StillPending(h)
        /\ DOMAIN receipts' = DOMAIN receipts
        /\ receipts'[h].used = receipts[h].used
        /\ \A i \in DOMAIN receipts : i # h => receipts'[i] = receipts[i]
    BY <1>3, DecidingFacts DEF PostApprove, PostReject, IInv, TypeOK
  <2>2. g # h
    BY <2>1 DEF StillPending, Current
  <2> QED  BY <1>1, <2>1, <2>2
<1>4. CASE Restart
  BY <1>1, <1>4 DEF Restart, ForgetReceipts
<1>5. ASSUME receipts' = receipts
      PROVE  SpentWell(g)'
  BY <1>1, <1>5
<1>6. ASSUME NEW c \in Reads,
             Enter(c) \/ AdapterFails(c) \/ AnswerRead(c)
      PROVE  receipts' = receipts
  BY <1>6, EnteringFacts, ScanFailureEnds DEF AnswerRead, receiptVars
<1>7. ASSUME NEW tool \in ReadTools,
             SetContentPreflightAdapter(tool) \/ PassTime \/ UNCHANGED vars
      PROVE  receipts' = receipts
  BY <1>7 DEF SetContentPreflightAdapter, PassTime, vars, receiptVars
<1> QED  BY <1>2, <1>3, <1>4, <1>5, <1>6, <1>7
         DEF Next, PassTime, vars, receiptVars

\* A receipt is used up by a release that a human approved and by nothing
\* else (index.ts: preflightReadResult, content-approval-store.ts: consume).
THEOREM ReceiptsAreSpentForReleases == Spec => []SpentForARelease
<1>1. Init => SpentForARelease
  BY DEF Init, ReceiptInit, SpentForARelease
<1> QED  BY <1>1, StepSpendsWell, ReleaseTypeCorrect, PTL DEF Spec

-----------------------------------------------------------------------------
\* What the log says of a release.

Shown(outcome) == outcome # None /\ outcome.exposure # None

\* The decision on record, e, is the one that led to the outcome.
Says(e, outcome) ==
    /\ e.type = "CONTENT_ACCESS_DECIDED"
    /\ e.action = "ALLOW" <=> Shown(outcome)
    /\ Shown(outcome) => e.exposure = outcome.exposure

\* The last decision of the trail is the one that led to the outcome.
Tells(trail, outcome) ==
    \E i \in DOMAIN trail :
        /\ Says(trail[i], outcome)
        /\ \A j \in DOMAIN trail :
               j > i => trail[j].type # "CONTENT_ACCESS_DECIDED"

\* The records of a read that can still be, or has been, answered.
RecordsTell(c) ==
    /\ reads[c].pc \in {"idle", "scanning"} => audit[c] = <<>>
    /\ reads[c].pc = "settled" => Tells(audit[c], reads[c].outcome)
    /\ reads[c].pc = "answered" /\ audit[c] # <<>> =>
           Tells(audit[c], reads[c].outcome)

\* A trail that a decision closes, and one to which other records are added.
LEMMA AppendedTells ==
    ASSUME NEW t \in Seq(Event), NEW e \in Event, NEW outcome
    PROVE  /\ Says(e, outcome) => Tells(Append(t, e), outcome)
           /\ /\ Tells(t, outcome)
              /\ e.type # "CONTENT_ACCESS_DECIDED"
              => Tells(Append(t, e), outcome)
<1> DEFINE s == Append(t, e)
<1>1. /\ Len(t) \in Nat /\ DOMAIN t = 1 .. Len(t)
      /\ DOMAIN s = 1 .. Len(t) + 1
      /\ s[Len(t) + 1] = e
      /\ \A i \in 1 .. Len(t) : s[i] = t[i]
  BY AppendProperties, LenProperties
<1> HIDE DEF s
<1>2. ASSUME Says(e, outcome) PROVE Tells(s, outcome)
  BY <1>1, <1>2 DEF Tells
<1>3. ASSUME Tells(t, outcome), e.type # "CONTENT_ACCESS_DECIDED"
      PROVE  Tells(s, outcome)
  <2>1. PICK i \in 1 .. Len(t) :
            /\ Says(t[i], outcome)
            /\ \A j \in 1 .. Len(t) :
                   j > i => t[j].type # "CONTENT_ACCESS_DECIDED"
    BY <1>1, <1>3 DEF Tells
  <2>2. \A j \in 1 .. Len(t) + 1 :
            j > i => s[j].type # "CONTENT_ACCESS_DECIDED"
    BY <1>1, <1>3, <2>1
  <2> QED  BY <1>1, <2>1, <2>2 DEF Tells
<1> QED  BY <1>2, <1>3 DEF s

\* The first records of a read are its trail.
LEMMA FirstRecords ==
    ASSUME IInv, NEW c \in Reads, audit[c] = <<>>,
           NEW trail \in Seq(Event), Record(c, trail)
    PROVE  audit'[c] = trail
<1>1. audit'[c] = <<>> \o trail
  BY DEF Record, IInv, TypeOK
<1> QED  BY <1>1

\* A caught failure is on record as a denial.
LEMMA CaughtTells ==
    ASSUME IInv, NEW c \in Reads, NEW o \in Observation \cup {None},
           NEW events \in Seq(Event), Caught(c, o, events), audit[c] = <<>>,
           reads'[c].pc = "settled"
    PROVE  Tells(audit'[c], reads'[c].outcome)
<1> DEFINE denied == Denied("CONTENT_SCAN_FAILED")
<1>1. reads[c] \in Read /\ reads \in [Reads -> Read]
  BY DEF IInv, TypeOK
<1>2. /\ Record(c, Append(events, DecidedDeny))
      /\ reads'[c].outcome = denied
  <2>1. CASE /\ Record(c, Append(events, DecidedDeny))
             /\ reads' = [reads EXCEPT ![c] = SettledRead(c, o, denied)]
    <3>1. reads'[c].outcome = denied
      BY <1>1, <2>1 DEF SettledRead, Read
    <3> QED  BY <2>1, <3>1
  <2>2. CASE reads' = [reads EXCEPT
                 ![c] = [SettledRead(c, o, None) EXCEPT !.pc = "threw"]]
    <3>1. reads'[c] = [SettledRead(c, o, None) EXCEPT !.pc = "threw"]
      BY <1>1, <2>2
    <3>2. reads'[c].pc = "threw"
      BY <1>1, <3>1 DEF SettledRead, Read
    <3> QED  BY <3>2
  <2> QED  BY <2>1, <2>2 DEF Caught
<1>3. DecidedDeny \in Event /\ Append(events, DecidedDeny) \in Seq(Event)
  BY TrailsTyped DEF DecidedDeny, Event, EventTypes, Actions
<1>4. Says(DecidedDeny, denied)
  BY DEF Says, Shown, DecidedDeny, Denied, MkOutcome
<1>5. audit'[c] = Append(events, DecidedDeny)
  BY <1>2, <1>3, FirstRecords
<1> HIDE DEF denied
<1> QED  BY <1>2, <1>3, <1>4, <1>5, AppendedTells

\* A handler that settles leaves the trail it meant to, or a denial.
LEMMA SettleTells ==
    ASSUME IInv, NEW c \in Reads, NEW o \in Observation \cup {None},
           NEW trail \in Seq(Event), NEW outcome,
           Settle(c, o, trail, outcome), audit[c] = <<>>,
           Tells(trail, outcome), reads'[c].pc = "settled"
    PROVE  Tells(audit'[c], reads'[c].outcome)
<1>1. CASE /\ Record(c, trail)
           /\ reads' = [reads EXCEPT ![c] = SettledRead(c, o, outcome)]
  <2>1. reads'[c].outcome = outcome
    BY <1>1 DEF IInv, TypeOK, SettledRead, Read
  <2> QED  BY <1>1, <2>1, FirstRecords
<1>2. CASE \E events \in CutShort(trail) : Caught(c, o, events)
  BY <1>2, CutShortTyped, CaughtTells
<1> QED  BY <1>1, <1>2 DEF Settle

\* What the trails of the handlers say.
LEMMA TrailsTell ==
    ASSUME IInv, NEW c \in Reads, NEW o \in Observation, Scanned(c)
    PROVE  LET d == DecisionOn(c, o) IN
           /\ \A outcome :
                  d.action # "ALLOW" /\ ~Shown(outcome) =>
                      /\ Tells(Observed(c, o), outcome)
                      /\ \A type \in {"CONTENT_APPROVAL_REQUESTED",
                                      "CONTENT_APPROVAL_INVALIDATED"} :
                             Tells(Append(Observed(c, o), Mark(type)), outcome)
           /\ d.action = "ALLOW" =>
                  Tells(Observed(c, o), Completed(d, None))
<1> DEFINE d == DecisionOn(c, o)
<1>1. d \in Decision /\ Observed(c, o) \in Seq(Event)
  BY ScannedTyped
<1>2. /\ <<Mark("CONTENT_PREFLIGHTED")>> \in Seq(Event)
      /\ Decided(d) \in Event
      /\ \A type \in EventTypes : Mark(type) \in Event
  BY <1>1, TrailsTyped
<1>3. Observed(c, o) = Append(<<Mark("CONTENT_PREFLIGHTED")>>, Decided(d))
  BY DEF Observed
<1> HIDE DEF d
<1>4. ASSUME NEW outcome, d.action # "ALLOW", ~Shown(outcome)
      PROVE  /\ Tells(Observed(c, o), outcome)
             /\ \A type \in {"CONTENT_APPROVAL_REQUESTED",
                             "CONTENT_APPROVAL_INVALIDATED"} :
                    Tells(Append(Observed(c, o), Mark(type)), outcome)
  <2>1. Says(Decided(d), outcome)
    BY <1>4 DEF Says, Decided
  <2>2. Tells(Observed(c, o), outcome)
    <3>1. Tells(Append(<<Mark("CONTENT_PREFLIGHTED")>>, Decided(d)), outcome)
      BY <1>2, <2>1, AppendedTells
    <3> QED  BY <1>3, <3>1
  <2>3. ASSUME NEW type \in {"CONTENT_APPROVAL_REQUESTED",
                             "CONTENT_APPROVAL_INVALIDATED"}
        PROVE  Tells(Append(Observed(c, o), Mark(type)), outcome)
    <3>1. Mark(type).type # "CONTENT_ACCESS_DECIDED"
      BY DEF Mark
    <3>2. Mark(type) \in Event
      BY <1>2 DEF EventTypes
    <3> QED  BY <1>1, <2>2, <3>1, <3>2, AppendedTells
  <2> QED  BY <2>2, <2>3
<1>5. ASSUME d.action = "ALLOW"
      PROVE  Tells(Observed(c, o), Completed(d, None))
  <2>1. Completed(d, None) # None
    BY <1>1, CompletedTyped
  <2>2. Completed(d, None).exposure = d.granted /\ d.granted # None
    BY <1>1 DEF Completed, Decision
  <2>3. Says(Decided(d), Completed(d, None))
    BY <1>5, <2>1, <2>2 DEF Says, Shown, Decided
  <2>4. Tells(Append(<<Mark("CONTENT_PREFLIGHTED")>>, Decided(d)),
              Completed(d, None))
    BY <1>2, <2>3, AppendedTells
  <2> QED  BY <1>3, <2>4
<1> QED  BY <1>4, <1>5 DEF d

\* The same of the trails under a receipt.
LEMMA ReceiptTrailsTell ==
    ASSUME IInv, NEW c \in Reads, NEW o \in Observation, Scanned(c),
           NEW g \in ReceiptIds
    PROVE  LET d == ApprovedDecision(c)
               denied == [d EXCEPT !.action = "DENY"]
               trail == Append(ReleaseTrail(c, o), Decided(denied))
           IN  /\ Tells(ReleaseTrail(c, o), Completed(d, g))
               /\ trail \in Seq(Event)
               /\ Tells(trail, Denied("CONTENT_UNSUPPORTED"))
<1> DEFINE d == ApprovedDecision(c)
           denied == [d EXCEPT !.action = "DENY"]
<1>1. /\ d \in Decision /\ Observed(c, o) \in Seq(Event)
      /\ ReleaseTrail(c, o) \in Seq(Event)
  BY ScannedTyped
<1>2. d.action = "ALLOW"
  BY DEF ApprovedDecision, Decide
<1>3. ReleaseTrail(c, o) = Append(Observed(c, o), Decided(d))
  BY DEF ReleaseTrail
<1> HIDE DEF d
<1>4. denied \in Decision /\ denied.action = "DENY"
  BY <1>1, TrailsTyped DEF Decision
<1>5. Decided(d) \in Event /\ Decided(denied) \in Event
  BY <1>1, <1>4, TrailsTyped
<1>6. Says(Decided(d), Completed(d, g))
  <2>1. Completed(d, g) # None
    BY <1>1, CompletedTyped
  <2>2. Completed(d, g).exposure = d.granted /\ d.granted # None
    BY <1>1 DEF Completed, Decision
  <2> QED  BY <1>2, <2>1, <2>2 DEF Says, Shown, Decided
<1>7. Says(Decided(denied), Denied("CONTENT_UNSUPPORTED"))
  BY <1>4 DEF Says, Shown, Decided, Denied, MkOutcome
<1> HIDE DEF denied
<1>8. /\ Tells(ReleaseTrail(c, o), Completed(d, g))
      /\ Append(ReleaseTrail(c, o), Decided(denied)) \in Seq(Event)
      /\ Tells(Append(ReleaseTrail(c, o), Decided(denied)),
               Denied("CONTENT_UNSUPPORTED"))
  <2>1. Tells(Append(Observed(c, o), Decided(d)), Completed(d, g))
    BY <1>1, <1>5, <1>6, AppendedTells
  <2>2. Tells(ReleaseTrail(c, o), Completed(d, g))
    BY <1>3, <2>1
  <2>3. Append(ReleaseTrail(c, o), Decided(denied)) \in Seq(Event)
    BY <1>1, <1>5, AppendProperties
  <2>4. Tells(Append(ReleaseTrail(c, o), Decided(denied)),
              Denied("CONTENT_UNSUPPORTED"))
    BY <1>1, <1>5, <1>7, AppendedTells
  <2> QED  BY <2>2, <2>3, <2>4
<1> QED  BY <1>8 DEF d, denied

\* However the preflight of a read ends, its trail tells what comes of it.
LEMMA PreflightTells ==
    ASSUME IInv, NEW c \in Reads, NEW o \in Observation, Preflight(c, o),
           audit[c] = <<>>, reads'[c].pc = "settled"
    PROVE  Tells(audit'[c], reads'[c].outcome)
<1>0. reads[c] \in Read /\ reads \in [Reads -> Read]
  BY DEF IInv, TypeOK
<1>1. CASE CannotDecide(c, o)
  <2> DEFINE trail == <<Mark("CONTENT_PREFLIGHTED")>>
  <2>1. trail \in Seq(Event)
    BY TrailsTyped
  <2>2. \E events \in CutShort(trail) \cup {trail} : Caught(c, o, events)
    BY <1>1 DEF CannotDecide
  <2> HIDE DEF trail
  <2> QED  BY <2>1, <2>2, CutShortTyped, CaughtTells
<1>2. CASE Scanned(c)
  <2> DEFINE d == DecisionOn(c, o)
  <2>1. /\ Observed(c, o) \in Seq(Event) /\ d \in Decision
        /\ ReleaseTrail(c, o) \in Seq(Event)
        /\ \A type \in EventTypes : Mark(type) \in Event
    BY <1>2, ScannedTyped, TrailsTyped
  <2>2. ASSUME NEW outcome, ~Shown(outcome), d.action # "ALLOW"
        PROVE  /\ Tells(Observed(c, o), outcome)
               /\ \A type \in {"CONTENT_APPROVAL_REQUESTED",
                               "CONTENT_APPROVAL_INVALIDATED"} :
                      LET trail == Append(Observed(c, o), Mark(type))
                      IN  trail \in Seq(Event) /\ Tells(trail, outcome)
    BY <1>2, <2>1, <2>2, TrailsTell, AppendProperties DEF EventTypes
  <2>3. \A state, reason, g : ~Shown(MkOutcome(state, reason, g))
    BY DEF Shown, MkOutcome
  <2>4. NeedsReceipt(c, o) => d.action = "REQUIRE_APPROVAL"
    BY DEF NeedsReceipt
  <2>5. CASE Withhold(c, o)
    <3>1. /\ Settle(c, o, Observed(c, o), Denied(d.reason))
          /\ d.action # "ALLOW"
      BY <2>5 DEF Withhold
    <3> QED  BY <2>1, <2>2, <2>3, <3>1, SettleTells DEF Denied
  <2>6. ASSUME NEW g \in ReceiptIds, AskForReceipt(c, o, g)
        PROVE  Tells(audit'[c], reads'[c].outcome)
    <3> DEFINE trail ==
            Append(Observed(c, o), Mark("CONTENT_APPROVAL_REQUESTED"))
    <3>1. d.action # "ALLOW"
      BY <2>4, <2>6 DEF AskForReceipt
    <3>2. trail \in Seq(Event) /\ Tells(trail, Waiting(g))
      BY <2>2, <2>3, <3>1 DEF Waiting
    <3>3. \/ /\ Record(c, trail)
             /\ reads' = [reads EXCEPT ![c] = SettledRead(c, o, Waiting(g))]
          \/ \E events \in CutShort(trail) : Caught(c, o, events)
      BY <2>6 DEF AskForReceipt
    <3> HIDE DEF trail
    <3>4. Settle(c, o, trail, Waiting(g))
      BY <3>3 DEF Settle
    <3> QED  BY <3>2, <3>4, SettleTells
  <2>7. CASE KeepWaiting(c, o) \/ AnswerRejected(c, o)
    <3>1. PICK state, reason, g :
              Settle(c, o, Observed(c, o), MkOutcome(state, reason, g))
      BY <2>7 DEF KeepWaiting, AnswerRejected, Waiting
    <3>2. d.action # "ALLOW"
      BY <2>4, <2>7 DEF KeepWaiting, AnswerRejected, Presents
    <3> QED  BY <2>1, <2>2, <2>3, <3>1, <3>2, SettleTells
  <2>8. CASE AnswerInvalidated(c, o)
    <3> DEFINE trail ==
            Append(Observed(c, o), Mark("CONTENT_APPROVAL_INVALIDATED"))
    <3>1. PICK reason, g :
              Settle(c, o, trail, MkOutcome("APPROVAL_INVALIDATED", reason, g))
      BY <2>8 DEF AnswerInvalidated
    <3>2. d.action # "ALLOW"
      BY <2>4, <2>8 DEF AnswerInvalidated, Presents
    <3>3. /\ trail \in Seq(Event)
          /\ Tells(trail, MkOutcome("APPROVAL_INVALIDATED", reason, g))
      BY <2>2, <2>3, <3>2
    <3> QED  BY <3>1, <3>3, SettleTells
  <2>9. CASE StoreThrows(c, o)
    BY <2>1, <2>9, CaughtTells DEF StoreThrows
  <2>10. ASSUME NEW surfaces \in SurfaceSets, ReleaseAllowed(c, o, surfaces)
         PROVE  Tells(audit'[c], reads'[c].outcome)
    <3> DEFINE denied == [d EXCEPT !.action = "DENY"]
               trail == Append(Observed(c, o), Decided(denied))
    <3>1. CASE Settle(c, o, Observed(c, o), Completed(d, None))
      <4>1. Tells(Observed(c, o), Completed(d, None))
        BY <1>2, <2>10, TrailsTell DEF ReleaseAllowed
      <4> QED  BY <2>1, <3>1, <4>1, SettleTells
    <3>2. CASE Settle(c, o, trail, Denied("CONTENT_UNSUPPORTED"))
      <4>1. Decided(denied) \in Event
        BY <2>1, TrailsTyped
      <4>2. denied.action = "DENY"
        BY <2>1 DEF Decision
      <4> HIDE DEF denied
      <4>3. Says(Decided(denied), Denied("CONTENT_UNSUPPORTED"))
        BY <4>2 DEF Says, Shown, Decided, Denied, MkOutcome
      <4>4. trail \in Seq(Event) /\ Tells(trail, Denied("CONTENT_UNSUPPORTED"))
        BY <2>1, <4>1, <4>3, AppendedTells, AppendProperties
      <4> QED  BY <3>2, <4>4, SettleTells
    <3> QED  BY <2>10, <3>1, <3>2 DEF ReleaseAllowed
  <2>11. ASSUME NEW surfaces \in SurfaceSets, ReleaseApproved(c, o, surfaces)
         PROVE  Tells(audit'[c], reads'[c].outcome)
    <3> DEFINE outcome == Completed(ApprovedDecision(c), reads[c].receiptId)
    <3>1. reads[c].receiptId \in ReceiptIds
      BY <1>0, <2>11 DEF ReleaseApproved, Honoured, Presents, Read
    <3>2. Tells(ReleaseTrail(c, o), outcome)
      BY <1>2, <3>1, ReceiptTrailsTell
    <3>3. Settle(c, o, ReleaseTrail(c, o), outcome)
      BY <2>11 DEF ReleaseApproved, Settle
    <3> QED  BY <2>1, <3>2, <3>3, SettleTells
  <2>12. ASSUME NEW surfaces \in SurfaceSets, CannotRender(c, o, surfaces)
         PROVE  Tells(audit'[c], reads'[c].outcome)
    <3> DEFINE denied == [ApprovedDecision(c) EXCEPT !.action = "DENY"]
               trail == Append(ReleaseTrail(c, o), Decided(denied))
    <3>1. reads[c].receiptId \in ReceiptIds
      BY <1>0, <2>12 DEF CannotRender, Honoured, Presents, Read
    <3>2. trail \in Seq(Event) /\ Tells(trail, Denied("CONTENT_UNSUPPORTED"))
      BY <1>2, <3>1, ReceiptTrailsTell
    <3>3. Settle(c, o, trail, Denied("CONTENT_UNSUPPORTED"))
      BY <2>12 DEF CannotRender
    <3> QED  BY <3>2, <3>3, SettleTells
  <2> HIDE DEF d
  <2>13. ~CannotDecide(c, o)
    BY <1>2 DEF CannotDecide, Scanned
  <2> QED  BY <2>5, <2>6, <2>7, <2>8, <2>9, <2>10, <2>11, <2>12, <2>13
           DEF Preflight
<1>3. CannotDecide(c, o) \/ Scanned(c)
  BY DEF Preflight, CannotDecide, Withhold, AskForReceipt, KeepWaiting,
         AnswerRejected, AnswerInvalidated, StoreThrows, ReleaseAllowed,
         ReleaseApproved, CannotRender, Honoured, Presents, NeedsReceipt
<1> QED  BY <1>1, <1>2, <1>3

\* A refused read says so; a scan that starts has recorded nothing.
LEMMA EnteringTells ==
    ASSUME IInv, NEW c \in Reads, Enter(c), audit[c] = <<>>
    PROVE  /\ reads'[c].pc = "scanning" => audit'[c] = <<>>
           /\ reads'[c].pc = "settled" => Tells(audit'[c], reads'[c].outcome)
<1>1. PICK tool \in ReadTools, request \in Requests \cup {None},
           g \in issued \cup {None} :
          RefuseUnscanned(c, tool, request, g) \/ StartScan(c, tool, request, g)
  BY DEF Enter
<1>2. reads \in [Reads -> Read]
  BY DEF IInv, TypeOK
<1>3. CASE StartScan(c, tool, request, g)
  BY <1>2, <1>3 DEF StartScan, IdleRead
<1>4. CASE RefuseUnscanned(c, tool, request, g)
  <2> DEFINE entered == [IdleRead EXCEPT !.tool = tool, !.request = request,
                                         !.receiptId = g]
             refusal == Denied("CONTENT_PREFLIGHT_REQUIRED")
             denied == [entered EXCEPT !.pc = "settled", !.outcome = refusal]
             threw == [entered EXCEPT !.pc = "threw"]
  <2>1. \/ Record(c, <<DecidedDeny>>) /\ reads'[c] = denied
        \/ reads'[c] = threw
    BY <1>2, <1>4 DEF RefuseUnscanned
  <2>2. /\ denied.pc = "settled" /\ denied.outcome = refusal
        /\ threw.pc = "threw"
    BY DEF IdleRead
  <2> HIDE DEF denied, threw
  <2>3. DecidedDeny \in Event
    BY DEF DecidedDeny, Event, EventTypes, Actions
  <2>4. Says(DecidedDeny, refusal)
    BY DEF Says, Shown, DecidedDeny, Denied, MkOutcome
  <2> HIDE DEF refusal
  <2>5. <<DecidedDeny>> \in Seq(Event) /\ Tells(<<DecidedDeny>>, refusal)
    BY <2>3, <2>4 DEF Tells
  <2>6. Record(c, <<DecidedDeny>>) => audit'[c] = <<DecidedDeny>>
    BY <2>5, FirstRecords
  <2> QED  BY <2>1, <2>2, <2>5, <2>6
<1> QED  BY <1>1, <1>3, <1>4

\* The records that precede the answer leave the last decision the last.
LEMMA AnswerTells ==
    ASSUME IInv, NEW c \in Reads, RecordsTell(c), AnswerRead(c)
    PROVE  RecordsTell(c)'
<1> DEFINE done == Mark("TOOL_EXECUTED")
           answered == Mark("OUTCOME_GENERATED")
           trail == <<done, answered>>
<1>1. reads[c] \in Read /\ reads \in [Reads -> Read] /\ audit[c] \in Seq(Event)
      /\ audit \in [Reads -> Seq(Event)]
  BY DEF IInv, TypeOK
<1>2. Tells(audit[c], reads[c].outcome)
  BY DEF RecordsTell, AnswerRead
<1>3. /\ done \in Event /\ answered \in Event
      /\ done.type # "CONTENT_ACCESS_DECIDED"
      /\ answered.type # "CONTENT_ACCESS_DECIDED"
  BY TrailsTyped DEF EventTypes, Mark
<1>4. \/ /\ audit'[c] = audit[c] \o trail
         /\ reads'[c].pc = "answered"
         /\ reads'[c].outcome = reads[c].outcome
      \/ reads'[c].pc = "threw"
  BY <1>1 DEF AnswerRead, Record, Read
<1> HIDE DEF done, answered
<1>5. audit[c] \o trail = Append(Append(audit[c], done), answered)
  BY <1>1, <1>3
<1>6. /\ Append(audit[c], done) \in Seq(Event)
      /\ Tells(Append(audit[c], done), reads[c].outcome)
  BY <1>1, <1>2, <1>3, AppendedTells, AppendProperties
<1>7. Tells(Append(Append(audit[c], done), answered), reads[c].outcome)
  BY <1>3, <1>6, AppendedTells
<1> HIDE DEF trail
<1>8. audit'[c] = Append(Append(audit[c], done), answered) =>
          Tells(audit'[c], reads[c].outcome)
  BY <1>7
<1> QED  BY <1>4, <1>5, <1>8 DEF RecordsTell

\* A read that a step leaves alone, with its records, stays as it is told.
LEMMA UntouchedTells ==
    ASSUME NEW c \in Reads, RecordsTell(c),
           reads'[c] = reads[c], audit'[c] = audit[c]
    PROVE  RecordsTell(c)'
BY DEF RecordsTell

\* The records of a read are its own.
LEMMA OwnRecords ==
    ASSUME IInv, NEW c \in Reads, NEW d \in Reads, c # d,
           \/ Enter(d) \/ AdapterFails(d) \/ AnswerRead(d)
           \/ \E o \in Observations : Preflight(d, o)
    PROVE  reads'[c] = reads[c] /\ audit'[c] = audit[c]
<1>1. reads \in [Reads -> Read] /\ audit \in [Reads -> Seq(Event)]
  BY DEF IInv, TypeOK
<1>2. ASSUME NEW trail, Record(d, trail) PROVE audit'[c] = audit[c]
  BY <1>1, <1>2 DEF Record
<1>3. CASE Enter(d)
  BY <1>1, <1>2, <1>3 DEF Enter, RefuseUnscanned, StartScan
<1>4. CASE AnswerRead(d)
  BY <1>1, <1>2, <1>4 DEF AnswerRead
<1>5. ASSUME NEW o, NEW outcome, Ended(d, o, outcome)
      PROVE  reads'[c] = reads[c] /\ audit'[c] = audit[c]
  BY <1>1, <1>2, <1>5 DEF Ended
<1>6. CASE AdapterFails(d)
  BY <1>5, <1>6, ScanFailureEnds
<1>7. CASE \E o \in Observations : Preflight(d, o)
  BY <1>5, <1>7, PreflightsEnd DEF PreflightEnds
<1> QED  BY <1>3, <1>4, <1>6, <1>7

\* No step separates what was released from what is on record of it.
LEMMA RecordsKeepTelling ==
    ASSUME IInv, NEW c \in Reads, RecordsTell(c), [Next]_vars
    PROVE  RecordsTell(c)'
<1>1. reads[c] \in Read /\ reads \in [Reads -> Read]
  BY DEF IInv, TypeOK
<1>2. ASSUME NEW d \in Reads,
             \/ Enter(d) \/ AdapterFails(d) \/ AnswerRead(d)
             \/ \E o \in Observations : Preflight(d, o)
      PROVE  RecordsTell(c)'
  <2>1. CASE c # d
    BY <1>2, <2>1, OwnRecords, UntouchedTells
  <2>2. CASE c = d /\ Enter(d)
    <3>1. audit[c] = <<>> /\ reads'[c].pc \in {"scanning", "settled", "threw"}
      BY <2>2, EnteringFacts DEF RecordsTell
    <3> QED  BY <2>2, <3>1, EnteringTells DEF RecordsTell
  <2>3. CASE c = d /\ AdapterFails(d)
    <3>1. audit[c] = <<>> /\ reads'[c].pc \in {"settled", "threw"}
      BY <2>3, ScanFailureEnds, EndedFacts DEF RecordsTell
    <3>2. PICK events \in Seq(Event) : Caught(c, None, events)
      BY <2>3, TrailsTyped DEF AdapterFails
    <3> QED  BY <3>1, <3>2, CaughtTells DEF RecordsTell
  <2>4. ASSUME c = d, NEW o \in Observations, Preflight(d, o)
        PROVE  RecordsTell(c)'
    <3>1. audit[c] = <<>>
      BY <2>4, PreflightsWereScanning DEF RecordsTell
    <3>2. reads'[c].pc \in {"settled", "threw"}
      BY <2>4, PreflightsEnd, EndedFacts DEF PreflightEnds
    <3> QED  BY <2>4, <3>1, <3>2, PreflightTells DEF RecordsTell
  <2>5. CASE c = d /\ AnswerRead(d)
    BY <2>5, AnswerTells
  <2> QED  BY <1>2, <2>1, <2>2, <2>3, <2>4, <2>5
<1>3. CASE Restart
  <2>1. /\ reads'[c] = IF reads[c].pc \in {"scanning", "settled"}
                       THEN [reads[c] EXCEPT !.pc = "lost"] ELSE reads[c]
        /\ audit'[c] \in {<<>>, audit[c]}
    BY <1>3 DEF Restart
  <2>2. CASE reads[c].pc \in {"scanning", "settled"}
    <3>1. reads'[c].pc = "lost"
      BY <1>1, <2>1, <2>2 DEF Read
    <3> QED  BY <3>1 DEF RecordsTell
  <2>3. CASE reads[c].pc \notin {"scanning", "settled"}
    BY <2>1, <2>3 DEF RecordsTell
  <2> QED  BY <2>2, <2>3
<1>4. ASSUME reads' = reads, audit' = audit
      PROVE  RecordsTell(c)'
  BY <1>4, UntouchedTells
<1> QED  BY <1>2, <1>3, <1>4
         DEF Next, PostApprove, PostReject, SetContentPreflightAdapter,
             PassTime, vars

\* What the last decision on record says.
LEMMA LastDecisionTells ==
    ASSUME TypeOK, NEW c \in Reads, Tells(audit[c], reads[c].outcome)
    PROVE  LET last == audit[c][LastDecision(c)] IN
           /\ last.action = "ALLOW" <=> Released(c)
           /\ Released(c) => last.exposure = reads[c].outcome.exposure
<1> DEFINE trail == audit[c]
           IsLast(i) == /\ trail[i].type = "CONTENT_ACCESS_DECIDED"
                        /\ \A j \in DOMAIN trail :
                               trail[j].type = "CONTENT_ACCESS_DECIDED"
                                   => j <= i
<1>1. trail \in Seq(Event) /\ DOMAIN trail \subseteq Nat
  BY DEF TypeOK
<1>2. PICK i \in DOMAIN trail :
          /\ Says(trail[i], reads[c].outcome)
          /\ \A j \in DOMAIN trail :
                 j > i => trail[j].type # "CONTENT_ACCESS_DECIDED"
  BY DEF Tells
<1> HIDE DEF trail
<1>3. IsLast(i)
  BY <1>1, <1>2 DEF Says
<1>4. \A k \in DOMAIN trail : IsLast(k) => k = i
  BY <1>1, <1>3
<1>5. LastDecision(c) = CHOOSE k \in DOMAIN trail : IsLast(k)
  BY DEF LastDecision, trail
<1>6. LastDecision(c) = i
  BY <1>3, <1>4, <1>5
<1> QED  BY <1>2, <1>6 DEF Says, Shown, Released, trail

\* The log tells what was released: the last decision on record of an
\* answered read is an ALLOW exactly when a surface was handed out, and names
\* its level (index.ts: preflightReadResult).
THEOREM LogTellsWhatWasReleased == Spec => []LogTellsRelease
<1> DEFINE Told == \A c \in Reads : RecordsTell(c)
<1>1. Init => Told
  BY DEF Init, RecordsTell, IdleRead
<1>2. IInv /\ Told /\ [Next]_vars => Told'
  BY RecordsKeepTelling
<1>3. IInv /\ Told => LogTellsRelease
  <2> SUFFICES ASSUME IInv, Told, NEW c \in Reads,
                      reads[c].pc = "answered", audit[c] # <<>>
               PROVE  LET last == audit[c][LastDecision(c)] IN
                      /\ last.action = "ALLOW" <=> Released(c)
                      /\ Released(c) =>
                             last.exposure = reads[c].outcome.exposure
    BY DEF LogTellsRelease
  <2>1. Tells(audit[c], reads[c].outcome)
    BY DEF RecordsTell
  <2> QED  BY <2>1, LastDecisionTells DEF IInv
<1> HIDE DEF Told
<1> QED  BY <1>1, <1>2, <1>3, ReleaseTypeCorrect, PTL DEF Spec

-----------------------------------------------------------------------------
\* From single mandates to steps of ContentAuthority.

\* The mandate of g and what it was asked for are as they were.
Kept(g) == Mandate(g)' = Mandate(g) /\ Asked(g)' = Asked(g)

\* A step that changes no mandate and releases nothing is invisible.
LEMMA NothingHappens ==
    ASSUME \A h \in ReceiptIds : Kept(h), Releases' = Releases
    PROVE  [Authority!OnceNext]_(Authority!vars)
BY DEF Kept, Authority!vars

\* A step that turns one mandate from none to open opens it.
LEMMA OneOpens ==
    ASSUME NEW g \in ReceiptIds,
           NEW a \in [tool : ReadTools, binding : Binding],
           Mandate(g) = "none", Mandate(g)' = "open", Asked(g)' = a,
           \A h \in ReceiptIds \ {g} : Kept(h), Releases' = Releases
    PROVE  Authority!OnceNext
<1>1. Authority!Open(g, a)
  BY DEF Authority!Open, Kept
<1> QED  BY <1>1 DEF Authority!OnceNext

\* A step that decides one open mandate grants or refuses it.
LEMMA OneIsDecided ==
    ASSUME NEW g \in ReceiptIds, Mandate(g) = "open",
           Mandate(g)' \in {"granted", "refused"}, Asked(g)' = Asked(g),
           \A h \in ReceiptIds \ {g} : Kept(h), Releases' = Releases
    PROVE  Authority!OnceNext
<1>1. CASE Mandate(g)' = "granted"
  <2>1. Authority!Grant(g)
    BY <1>1 DEF Authority!Grant, Kept
  <2> QED  BY <2>1 DEF Authority!OnceNext
<1>2. CASE Mandate(g)' = "refused"
  <2>1. Authority!Refuse(g)
    BY <1>2 DEF Authority!Refuse, Kept
  <2> QED  BY <2>1 DEF Authority!OnceNext
<1> QED  BY <1>1, <1>2

\* An issued receipt whose mandate is not live has a closed one.
LEMMA MandateOfIssued ==
    ASSUME NEW g \in issued
    PROVE  Mandate(g) \in {"open", "granted", "refused", "closed"}
BY DEF Mandate

\* A step that does nothing but end mandates closes the live ones.
LEMMA SomeClose ==
    ASSUME NEW T \in SUBSET ReceiptIds, Releases' = Releases,
           \A g \in T : g \in issued /\ Mandate(g)' = "closed",
           \A g \in ReceiptIds \ T : Kept(g)
    PROVE  Authority!OnceNext
<1> DEFINE S == {g \in ReceiptIds : ~Kept(g)}
<1>1. ASSUME NEW g \in S
      PROVE  Mandate(g) \in {"open", "granted", "refused"} /\ Mandate(g)' = "closed"
  BY MandateOfIssued DEF Kept, Asked
<1>2. \A g \in ReceiptIds :
          /\ Mandate(g)' = IF g \in S THEN "closed" ELSE Mandate(g)
          /\ Asked(g)' = IF g \in S THEN None ELSE Asked(g)
  BY <1>1 DEF Kept, Asked
<1>3. Authority!Close(S)
  BY <1>1, <1>2 DEF Authority!Close, Authority!Live
<1> QED  BY <1>3 DEF Authority!OnceNext

\* A granted mandate that one read acts on, and that is closed by it.
LEMMA OneRunsOnce ==
    ASSUME NEW c \in Reads, NEW g \in ReceiptIds, Mandate(g) = "granted",
           Mandate(g)' = "closed", \A h \in ReceiptIds \ {g} : Kept(h),
           Releases' = Releases \cup {[call |-> c, id |-> g, action |-> Asked(g)]}
    PROVE  Authority!OnceNext
<1>1. Asked(g)' = None
  BY DEF Asked
<1>2. Authority!RunOnce(c, g)
  BY <1>1 DEF Authority!RunOnce, Kept
<1> QED  BY <1>2 DEF Authority!OnceNext

-----------------------------------------------------------------------------
\* From operations of the receipt store to steps of ContentAuthority.

\* A receipt that is not touched keeps its mandate while the clock stands.
LEMMA UntouchedIsKept ==
    ASSUME NEW g, now' = now, (g \in issued)' <=> g \in issued,
           Stored(g)' <=> Stored(g), Stored(g) => receipts'[g] = receipts[g]
    PROVE  Kept(g)
BY DEF Kept, Mandate, Asked, Current, Stored, Expired

\* No receipt is touched at all.
LEMMA QuietStepRefines ==
    ASSUME UNCHANGED receiptVars, Releases' = Releases
    PROVE  [Authority!OnceNext]_(Authority!vars)
BY UntouchedIsKept, NothingHappens DEF receiptVars, Stored

\* A receipt that is asked for opens a mandate for the tool and the binding.
LEMMA AskingOpens ==
    ASSUME ReceiptsTypeOK, NEW g \in ReceiptIds \ issued,
           NEW tool \in ReadTools, NEW binding \in Binding,
           StoreReceipt(g, tool, binding), now' = now, Releases' = Releases
    PROVE  Authority!OnceNext
<1>1. /\ now \in Nat /\ ~(now + TTL <= now)
      /\ g \in issued' /\ g \in DOMAIN receipts'
      /\ \A h \in ReceiptIds \ {g} :
             /\ h \in issued' <=> h \in issued
             /\ h \in DOMAIN receipts' <=> h \in DOMAIN receipts
             /\ h \in DOMAIN receipts => receipts'[h] = receipts[h]
  BY DEF StoreReceipt, ReceiptsTypeOK
<1>2. /\ ~receipts'[g].used
      /\ receipts'[g].expiresAt = now + TTL
      /\ receipts'[g].status = "pending"
      /\ receipts'[g].tool = tool
      /\ receipts'[g].binding = binding
  BY DEF StoreReceipt
<1>3. Mandate(g) = "none" /\ Mandate(g)' = "open"
  BY <1>1, <1>2 DEF Mandate, Current, Stored, Expired
<1>4. Asked(g)' = ReleaseOf(tool, binding)
  BY <1>2, <1>3 DEF Asked
<1>5. ReleaseOf(tool, binding) \in [tool : ReadTools, binding : Binding]
  BY DEF ReleaseOf
<1>6. \A h \in ReceiptIds \ {g} : Kept(h)
  BY <1>1, UntouchedIsKept DEF Stored
<1> QED  BY <1>3, <1>4, <1>5, <1>6, OneOpens

\* A decision grants or refuses an open mandate.
LEMMA DecidingDecides ==
    ASSUME ReceiptsTypeOK, NEW g \in ReceiptIds, NEW operator \in Operators,
           ApproveReceipt(g, operator) \/ RejectReceipt(g, operator),
           now' = now, Releases' = Releases
    PROVE  Authority!OnceNext
<1>1. /\ StillPending(g) /\ g \in issued /\ issued' = issued
      /\ DOMAIN receipts' = DOMAIN receipts
      /\ receipts'[g].tool = receipts[g].tool
      /\ receipts'[g].binding = receipts[g].binding
      /\ receipts'[g].expiresAt = receipts[g].expiresAt
      /\ receipts'[g].used = receipts[g].used
      /\ receipts'[g].status \in {"approved", "rejected"}
      /\ \A h \in DOMAIN receipts : h # g => receipts'[h] = receipts[h]
  BY DecidingFacts DEF StillPending, Current, Stored, ReceiptsTypeOK
<1>2. Mandate(g) = "open" /\ Mandate(g)' \in {"granted", "refused"}
  BY <1>1 DEF Mandate, StillPending, Current, Stored, Expired
<1>3. Asked(g)' = Asked(g)
  BY <1>1, <1>2 DEF Asked
<1>4. \A h \in ReceiptIds \ {g} : Kept(h)
  BY <1>1, UntouchedIsKept DEF Stored
<1> QED  BY <1>2, <1>3, <1>4, OneIsDecided

\* A release under a receipt is covered by its mandate, and closes it.
LEMMA ReleasingRunsOnce ==
    ASSUME ReceiptsTypeOK, NEW c \in Reads, NEW g \in ReceiptIds,
           NEW tool, NEW binding, ValidReceipt(g, tool, binding),
           ConsumeReceipt(g), now' = now,
           Releases' = Releases \cup
               {[call |-> c, id |-> g, action |-> ReleaseOf(tool, binding)]}
    PROVE  Authority!OnceNext
<1>1. /\ Current(g) /\ receipts[g].status = "approved"
      /\ receipts[g].tool = tool /\ receipts[g].binding = binding
      /\ g \in issued /\ g \in DOMAIN receipts
  BY DEF ValidReceipt, Current, Stored, ReceiptsTypeOK
<1>2. /\ issued' = issued /\ DOMAIN receipts' = DOMAIN receipts
      /\ receipts'[g].used
      /\ \A h \in DOMAIN receipts : h # g => receipts'[h] = receipts[h]
  BY <1>1, ConsumingFacts
<1>3. Mandate(g) = "granted" /\ Asked(g) = ReleaseOf(tool, binding)
  BY <1>1 DEF Mandate, Asked
<1>4. Mandate(g)' = "closed"
  BY <1>1, <1>2 DEF Mandate, Current
<1>5. \A h \in ReceiptIds \ {g} : Kept(h)
  BY <1>2, UntouchedIsKept DEF Stored
<1> QED  BY <1>3, <1>4, <1>5, OneRunsOnce

\* A tick of the clock closes the mandates that expire on it.
LEMMA TickCloses ==
    ASSUME IInv, PassTime, Releases' = Releases
    PROVE  Authority!OnceNext
<1> DEFINE T == {h \in ReceiptIds : Stored(h) /\ Expired(h)'}
<1>1. /\ issued' = issued /\ receipts' = receipts /\ now' = now + 1
      /\ now \in Nat /\ ReceiptsTypeOK
  BY DEF PassTime, IInv, TypeOK, ReceiptsTypeOK
<1>2. ASSUME NEW h \in T
      PROVE  h \in issued /\ Mandate(h)' = "closed"
  BY <1>1 DEF Mandate, Current, Stored, ReceiptsTypeOK
<1>3. ASSUME NEW h \in ReceiptIds \ T
      PROVE  Kept(h)
  <2>1. Stored(h) => receipts[h].expiresAt \in Nat
    BY <1>1 DEF Stored, ReceiptsTypeOK, Receipt
  <2>2. Stored(h) => ~Expired(h) /\ ~Expired(h)'
    BY <1>1, <2>1 DEF Expired
  <2> QED  BY <1>1, <2>2 DEF Kept, Mandate, Asked, Current, Stored
<1> QED  BY <1>2, <1>3, SomeClose

\* A restart closes the mandates that were in memory only.
LEMMA RestartCloses ==
    ASSUME IInv, Restart, Releases' = Releases
    PROVE  [Authority!OnceNext]_(Authority!vars)
<1>1. now' = now /\ issued' = issued /\ ReceiptsTypeOK
  BY DEF Restart, ForgetReceipts, IInv, TypeOK
<1>2. CASE receipts' = receipts
  BY <1>1, <1>2, QuietStepRefines DEF receiptVars
<1>3. CASE receipts' = [g \in {} |-> {}]
  <2> DEFINE T == {h \in ReceiptIds : Stored(h)}
  <2>1. ASSUME NEW h \in T
        PROVE  h \in issued /\ Mandate(h)' = "closed"
    BY <1>1, <1>3 DEF Mandate, Current, Stored, ReceiptsTypeOK
  <2>2. ASSUME NEW h \in ReceiptIds \ T
        PROVE  Kept(h)
    BY <1>1, <1>3, UntouchedIsKept DEF Stored
  <2>3. Authority!OnceNext
    BY <2>1, <2>2, SomeClose
  <2> QED  BY <2>3
<1> QED  BY <1>2, <1>3 DEF Restart, ForgetReceipts

-----------------------------------------------------------------------------
\* From steps of content release to steps of ContentAuthority.

\* What read c contributes to the releases.
ReleaseBy(c) == [call |-> c, id |-> reads[c].outcome.receipt,
                 action |-> ReleaseOf(reads[c].tool, BindingOfRead(c))]

\* Releases that happened stay what they were.
LEMMA ReleasesStay ==
    ASSUME IInv, [Next]_vars, NEW c \in Reads, ReleasedUnderReceipt(c)
    PROVE  ReleasedUnderReceipt(c)' /\ ReleaseBy(c)' = ReleaseBy(c)
<1>1. SameRead(reads'[c], reads[c])
  BY OutcomesStay DEF ReleasedUnderReceipt
<1> QED  BY <1>1 DEF SameRead, ReleasedUnderReceipt, ReleaseBy, BindingOfRead

\* Without a new release there are the same ones.
LEMMA SameReleases ==
    ASSUME IInv, [Next]_vars,
           \A c \in Reads :
               ReleasedUnderReceipt(c)' => ReleasedUnderReceipt(c)
    PROVE  Releases' = Releases
<1>1. Releases = {ReleaseBy(c) : c \in {d \in Reads : ReleasedUnderReceipt(d)}}
  BY DEF Releases, ReleaseBy
<1>2. Releases' = {ReleaseBy(c)' : c \in {d \in Reads : ReleasedUnderReceipt(d)'}}
  BY DEF Releases, ReleaseBy
<1> QED  BY <1>1, <1>2, ReleasesStay

\* With a new release there is that one more.
LEMMA OneMoreRelease ==
    ASSUME IInv, [Next]_vars, NEW c \in Reads, ReleasedUnderReceipt(c)',
           \A d \in Reads \ {c} :
               ReleasedUnderReceipt(d)' => ReleasedUnderReceipt(d)
    PROVE  Releases' = Releases \cup {ReleaseBy(c)'}
<1>1. Releases = {ReleaseBy(d) : d \in {e \in Reads : ReleasedUnderReceipt(e)}}
  BY DEF Releases, ReleaseBy
<1>2. Releases' = {ReleaseBy(d)' : d \in {e \in Reads : ReleasedUnderReceipt(e)'}}
  BY DEF Releases, ReleaseBy
<1> QED  BY <1>1, <1>2, ReleasesStay

\* A preflight that holds content back, or that the policy alone lets through,
\* adds no release.
LEMMA EndingWithoutReceipt ==
    ASSUME IInv, [Next]_vars, NEW c \in Reads, NEW o, NEW outcome,
           Ended(c, o, outcome),
           HeldBack(outcome) \/ outcome.receipt = None
    PROVE  Releases' = Releases
<1>1. ~ReleasedUnderReceipt(c)'
  BY EndedFacts DEF ReleasedUnderReceipt, HeldBack
<1>2. \A d \in Reads \ {c} : ReleasedUnderReceipt(d)' => ReleasedUnderReceipt(d)
  BY EndedFacts DEF ReleasedUnderReceipt
<1> QED  BY <1>1, <1>2, SameReleases

\* The release of content under a receipt is one step of the authority.
LEMMA ReleaseRefines ==
    ASSUME IInv, [Next]_vars, NEW c \in Reads, NEW o \in Observation,
           NEW outcome \in Outcome \cup {None},
           Ended(c, o, outcome), ReleasesOnce(c, o, outcome)
    PROVE  Authority!OnceNext
<1> DEFINE g == reads[c].receiptId
<1>1. /\ Scanned(c) /\ g \in ReceiptIds /\ now' = now
      /\ ValidReceipt(g, reads[c].tool, BindingFor(c, o))
      /\ ConsumeReceipt(g)
      /\ outcome = Completed(ApprovedDecision(c), g)
  BY EndedFacts DEF ReleasesOnce, Honoured, Presents, NeedsReceipt, IInv,
                    TypeOK, Read
<1>2. outcome # None /\ outcome.state = "COMPLETED" /\ outcome.receipt = g
  BY <1>1, ScannedTyped, CompletedTyped DEF Completed
<1>3. ReleasedUnderReceipt(c)'
  BY <1>1, <1>2, EndedFacts DEF ReleasedUnderReceipt
<1>4. ReleaseBy(c)' = [call |-> c, id |-> g,
                       action |-> ReleaseOf(reads[c].tool, BindingFor(c, o))]
  <2>1. /\ reads'[c].tool = reads[c].tool
        /\ reads'[c].request = reads[c].request
        /\ reads'[c].observation = o
        /\ reads'[c].version = config.version
        /\ reads'[c].outcome.receipt = g
    BY <1>2, EndedFacts
  <2>2. BindingOfRead(c)' = BindingFor(c, o)
    BY <2>1 DEF BindingOfRead, BindingFor, BindingOf
  <2> QED  BY <2>1, <2>2 DEF ReleaseBy
<1>5. \A d \in Reads \ {c} : ReleasedUnderReceipt(d)' => ReleasedUnderReceipt(d)
  BY EndedFacts DEF ReleasedUnderReceipt
<1>6. Releases' = Releases \cup
          {[call |-> c, id |-> g,
            action |-> ReleaseOf(reads[c].tool, BindingFor(c, o))]}
  BY <1>3, <1>4, <1>5, OneMoreRelease
<1> HIDE DEF g
<1> QED  BY <1>1, <1>6, ReleasingRunsOnce DEF IInv, TypeOK

\* However the adapter settles, the authority takes a step or none.
LEMMA PreflightRefines ==
    ASSUME IInv, [Next]_vars, NEW c \in Reads, NEW o \in Observations,
           Preflight(c, o)
    PROVE  [Authority!OnceNext]_(Authority!vars)
<1>1. PICK outcome \in Outcome \cup {None} :
          /\ Ended(c, o, outcome)
          /\ \/ Withholds(c, o, outcome)
             \/ ReleasesFreely(c, o, outcome)
             \/ ReleasesOnce(c, o, outcome)
  BY PreflightsEnd DEF PreflightEnds
<1>2. now' = now /\ ReceiptsTypeOK
  BY <1>1, EndedFacts DEF IInv, TypeOK
<1>3. CASE Withholds(c, o, outcome)
  <2>1. Releases' = Releases
    BY <1>1, <1>3, EndingWithoutReceipt DEF Withholds
  <2>2. CASE UNCHANGED <<receipts, issued>>
    BY <1>2, <2>1, <2>2, QuietStepRefines DEF receiptVars
  <2>3. ASSUME NEW g \in ReceiptIds \ issued, NeedsReceipt(c, o),
               StoreReceipt(g, reads[c].tool, BindingFor(c, o))
        PROVE  Authority!OnceNext
    <3>1. reads[c].tool \in ReadTools /\ BindingFor(c, o) \in Binding
      BY <2>3, ScannedTyped DEF NeedsReceipt
    <3> QED  BY <1>2, <2>1, <2>3, <3>1, AskingOpens
  <2> QED  BY <1>3, <2>2, <2>3 DEF Withholds
<1>4. CASE ReleasesFreely(c, o, outcome)
  <2>1. Releases' = Releases
    BY <1>1, <1>4, EndingWithoutReceipt DEF ReleasesFreely, Completed
  <2> QED  BY <1>2, <1>4, <2>1, QuietStepRefines DEF ReleasesFreely, receiptVars
<1>5. CASE ReleasesOnce(c, o, outcome)
  BY <1>1, <1>5, ReleaseRefines
<1> QED  BY <1>1, <1>3, <1>4, <1>5

\* Every step of content release is a step of the authority, or none.
LEMMA StepRefines ==
    IInv /\ [Next]_vars => [Authority!OnceNext]_(Authority!vars)
<1> SUFFICES ASSUME IInv, [Next]_vars
             PROVE  [Authority!OnceNext]_(Authority!vars)
  OBVIOUS
<1>1. ASSUME NEW c \in Reads, Enter(c)
      PROVE  [Authority!OnceNext]_(Authority!vars)
  <2>1. UNCHANGED receiptVars
    BY <1>1, EnteringFacts
  <2>2. \A d \in Reads : ReleasedUnderReceipt(d)' => ReleasedUnderReceipt(d)
    BY <1>1, EnteringFacts DEF ReleasedUnderReceipt, HeldBack
  <2> QED  BY <2>1, <2>2, SameReleases, QuietStepRefines
<1>2. ASSUME NEW c \in Reads, AdapterFails(c)
      PROVE  [Authority!OnceNext]_(Authority!vars)
  <2>1. UNCHANGED receiptVars
    BY <1>2 DEF AdapterFails
  <2> QED  BY <1>2, <2>1, ScanFailureEnds, EndingWithoutReceipt, QuietStepRefines
<1>3. ASSUME NEW c \in Reads, NEW o \in Observations, Preflight(c, o)
      PROVE  [Authority!OnceNext]_(Authority!vars)
  BY <1>3, PreflightRefines
<1>4. ASSUME AsideStep
      PROVE  [Authority!OnceNext]_(Authority!vars)
  <2>1. Releases' = Releases
    BY <1>4, AsideKeepsReads, SameReleases DEF SameRead, ReleasedUnderReceipt
  <2>2. ASSUME NEW g \in ReceiptIds, NEW operator \in Operators,
               PostApprove(g, operator) \/ PostReject(g, operator)
        PROVE  Authority!OnceNext
    BY <2>1, <2>2, DecidingDecides DEF PostApprove, PostReject, IInv, TypeOK
  <2>3. CASE PassTime
    BY <2>1, <2>3, TickCloses
  <2>4. CASE Restart
    BY <2>1, <2>4, RestartCloses
  <2>5. CASE UNCHANGED receiptVars
    BY <2>1, <2>5, QuietStepRefines
  <2> QED  BY <1>4, <2>2, <2>3, <2>4, <2>5
           DEF AsideStep, AnswerRead, SetContentPreflightAdapter, vars
<1> QED  BY <1>1, <1>2, <1>3, <1>4 DEF Next, AsideStep

\* Content release keeps the authority's stronger promise: a receipt lets at
\* most one read through, and only one of exactly the tool, content,
\* observation, exposure, target, selection and policy version that a human
\* approved, in time (index.ts: preflightReadResult).
THEOREM ContentImplementsAuthority == Spec => ContentAuthoritySpec
<1>1. Init => Authority!Init
  <2> SUFFICES ASSUME Init PROVE Authority!Init
    OBVIOUS
  <2>1. \A g \in ReceiptIds : Mandate(g) = "none" /\ Asked(g) = None
    BY DEF Init, ReceiptInit, Mandate, Asked
  <2>2. Releases = {}
    BY DEF Init, Releases, ReleasedUnderReceipt, IdleRead
  <2> QED  BY <2>1, <2>2 DEF Authority!Init
<1>2. IInv /\ [Next]_vars => [Authority!OnceNext]_(Authority!vars)
  BY StepRefines
<1> QED  BY <1>1, <1>2, ReleaseTypeCorrect, PTL
         DEF Spec, ContentAuthoritySpec, Authority!OnceSpec
=============================================================================
