----------------------------- MODULE SdkTheorems ------------------------------
(* What the theorems about traced calls say of the wrappers the SDK has: the  *)
(* shapes they ask for are those the assumptions of MCTracedCall find, wrapper *)
(* by wrapper, and no bound on the settings, the answers, the items of a      *)
(* stream or the polls past its end is left.                                  *)
EXTENDS MCTracedCall, TracedReportProofs

\* The types, for the wrappers modelled.
LEMMA SdkTypes ==
    ASSUME Wrappers \subseteq AllWrappers
    PROVE  Spec => []TypeOK
<1>1. \A v \in Wrappers : ReportsOnce(v) /\ KeepsAnswers(v)
  BY AllShape
<1> QED
  BY <1>1, CallTypes

\* No call of any instrumented function leaves its types, hands on what the
\* library did not answer, or is reported twice, but by a stream of those that
\* run their report again when polled past the end (otel metrics and events).
THEOREM EveryWrapper ==
    ASSUME Wrappers \subseteq AllWrappers
    PROVE  Spec => [](TypeOK /\ NeverInvented /\ ReportedOnceByAll)
<1>1. TypeOK /\ (ReportsOnce(w) => (~w.stream.again \/ polls = 0 => ReportedOnce))
          => ReportedOnceByAll
  BY AllShape, RepeatShape DEF TypeOK, ReportedOnceByAll
<1> QED
  BY SdkTypes, <1>1, OneReportPerCall, NothingInvented, PTL

\* No wrapper but those of Firecrawl and Letta runs an operation again that
\* raised (the sdk_recall run shows one that does).
THEOREM NoOtherRecalls ==
    ASSUME Wrappers \subseteq AllWrappers \ RecallingCalls
    PROVE  Spec => RaisedOutside
<1>1. \A v \in Wrappers : LeavesRaised(v)
  BY OneCallShape
<1> QED
  BY <1>1, RaisedOnce

\* The caller of a function whose wrapper is sound sees a behaviour of the bare
\* function, when no process_chunk raises.
THEOREM SoundIsTransparent ==
    ASSUME Wrappers \subseteq SoundWrappers, ~ChunksFail
    PROVE  Spec => Transparent
<1>1. \A v \in Wrappers : HandsOn(v)
  BY SoundShape
<1> QED
  BY <1>1, Transparency

\* Every call that is over has ended all the spans it started and detached its
\* context, whatever its chunk functions do, but those of the wrappers that
\* start a second span or forget theirs (span.end, context.detach).
THEOREM EveryWrapperTidies ==
    ASSUME Wrappers \subseteq AllWrappers
    PROVE  Spec => []Tidied
<1>1. TypeOK /\ (Closes(w) => NothingLeft) => Tidied
  BY TidyShape DEF TypeOK, Tidied
<1> QED
  BY SdkTypes, <1>1, NothingLeftBehind, PTL

\* A span says OK only of a call that went well, and ERROR of every exception
\* recorded before OK, but for the wrappers that say OK too early or too late
\* (set_status and handle_exception).
THEOREM EveryStatusIsTold ==
    ASSUME Wrappers \subseteq AllWrappers
    PROVE  Spec => []StatusTold
<1>1. TypeOK /\ (Tells(w) => OkEarned /\ (Quiet => ExceptionShows)) => StatusTold
  BY TruthfulShape DEF TypeOK, StatusTold, Quiet
<1> QED
  BY SdkTypes, <1>1, StatusAgrees, PTL

\* No message text is on the span of a call made without the capture setting,
\* but by the wrappers that do not ask for it (capture_message_content).
THEOREM EveryWrapperGates ==
    ASSUME Wrappers \subseteq AllWrappers
    PROVE  Spec => []Gated
<1>1. TypeOK /\ (Gates(w) => ContentGated) => Gated
  BY GatedShape DEF TypeOK, Gated
<1> QED
  BY SdkTypes, <1>1, ContentStaysHome, PTL

\* A usage the library reported is never replaced by an estimate, but by
\* PremAI's stream, and where OpenAI's chats take a zero for a missing one
\* (the token counts of the response logic).
THEOREM EveryUsageIsTold ==
    ASSUME Wrappers \subseteq AllWrappers
    PROVE  Spec => []UsageTold
<1> DEFINE Kept == Tallies(w) /\ ReportsOnce(w) /\ (CountsZero(w) \/ "zero" \notin given)
<1>1. TypeOK /\ (Kept => UsageKept) => UsageTold
  BY TallyShape, ZeroShape, AllShape DEF TypeOK, UsageTold
<1> QED
  BY SdkTypes, <1>1, UsageReported, PTL
===============================================================================
