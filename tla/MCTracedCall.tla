---------------------------- MODULE MCTracedCall -----------------------------
(* The wrappers of the SDK, the lists of those that break a promise of module *)
(* TracedCall, and the calls made of them in the runs.                        *)
EXTENDS TracedCall, LlmProviders, Frameworks, DataStores

\* Every wrapper modelled.  Wrappers with the same behaviour are one element.
AllWrappers ==
    WholeCalls \cup StartingStreams \cup ClosingStreams \cup ReplacingStreams
    \cup LateStreams \cup OpaqueCalls \cup StoreCalls \cup FrameworkCalls
    \cup FragileBefore \cup GeneratorStreams \cup OverruledStreams
    \cup UnawaitedCalls \cup RecallingCalls

\* Those that do not always hand on what the library did.
AlteringCalls ==
    LateStreams \cup OpaqueCalls \cup FragileBefore \cup UnawaitedCalls
    \cup RecallingCalls

SoundWrappers == AllWrappers \ AlteringCalls

\* Those that leave a span open: the one started with the call when another is
\* written at the end, the first of two, or one that __exit__ forgets.
UntidyCalls ==
    ReplacingStreams \cup LateStreams
    \cup {premai_chat, letta_send_message, letta_async_send_message}

\* Those whose OK may stand over a failure: set in a finally, after a helper
\* marked the span, before the coroutine is awaited, or before a duration whose
\* recording raises to the caller.
MistakenCalls ==
    OverruledStreams \cup NotingCalls \cup UnawaitedCalls \cup LateStreams
    \cup {premai_chat, transformers_pipeline_wrapper, langchain_wrap_embed,
          langchain_wrap_embed_async}

\* Those that put content on the span whatever the capture setting.
UngatedCalls == UngatedContent \cup UngatedFrameworks \cup UngatedStores

\* Those that run their report again when polled past the end (Letta's has no
\* event and no duration).
RepeatingCalls ==
    StartingStreams \cup ClosingStreams \cup ReplacingStreams
    \cup {letta_send_message}

\* The shapes the theorems ask for; the lists are the wrappers without them.
ASSUME AllShape ==
    \A v \in AllWrappers : ReportsOnce(v) /\ KeepsAnswers(v)
ASSUME SoundShape ==
    SoundWrappers = {v \in AllWrappers : HandsOn(v)}
ASSUME OneCallShape ==
    RecallingCalls = {v \in AllWrappers : ~LeavesRaised(v)}
                     \cup {letta_async_send_message}
ASSUME TidyShape == UntidyCalls = {v \in AllWrappers : ~Closes(v)}
ASSUME TruthfulShape == MistakenCalls = {v \in AllWrappers : ~Tells(v)}
ASSUME GatedShape == UngatedCalls = {v \in AllWrappers : ~Gates(v)}
ASSUME TallyShape == {premai_chat} = {v \in AllWrappers : ~Tallies(v)}
ASSUME ZeroShape == EstimatingOnZero = {v \in AllWrappers : ~CountsZero(v)}
ASSUME RepeatShape == RepeatingCalls = {v \in AllWrappers : v.stream.again}

-----------------------------------------------------------------------------
(* The promises, and who keeps them.                                          *)

\* One report per call, from every wrapper; only the traced streams listed
\* make another one, when they are polled past their end.
ReportedOnceByAll == w \notin RepeatingCalls \/ polls = 0 => ReportedOnce

\* OK is earned and a recorded exception shows, but for the wrappers listed; an
\* exception in the recording of the duration shows where that comes before OK.
StatusTold ==
    w \notin MistakenCalls =>
        OkEarned /\ (MetersBeforeOk(w) \/ "metrics" \notin on => ExceptionShows)

\* No span or context is left, but by the wrappers listed.
Tidied == w \notin UntidyCalls => NothingLeft

\* Content needs the capture setting, but in the wrappers listed.
Gated == w \notin UngatedCalls => ContentGated

\* Reported usage is kept, but by PremAI's stream, and by OpenAI's chats when it
\* is zero.
UsageTold ==
    w # premai_chat /\ (w \in EstimatingOnZero => "zero" \notin given) => UsageKept

-----------------------------------------------------------------------------
\* The two wrappers of Firecrawl.
FirecrawlCalls == {firecrawl_general_wrap, firecrawl_async_general_wrap}

\* Settings on, and off; a stream asked for; every ambient flag raised.
MCCalls ==
    {{"capture", "events", "metrics"}, {},
     {"capture", "events", "metrics", "stream"}, {"stream"},
     {"metrics", "suppress"}, {"metrics", "stream", "framework", "langgraph",
      "create_agent"}}

\* An answer that reports everything the telemetry looks for, with a usage of
\* zero or not, or nothing.
MCReplies == {Facts, Facts \ {"zero"}, {}}
==============================================================================
