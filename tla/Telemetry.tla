------------------------------ MODULE Telemetry ------------------------------
(* What the Python SDK's instrumentations are made of.  An instrumentation's  *)
(* response logic is a sequence of steps; a step is executed in the calls     *)
(* whose settings, ambient flags and gathered facts include its "when", and a *)
(* step that is not "safe" (no try of its own surrounds what it reads of the  *)
(* call and of the answer) may raise instead.                                 *)
EXTENDS Naturals, Sequences

\* What an answer of the library may report and the telemetry may pick up;
\* "zero": the usage it reports is zero.
Facts == {"text", "usage", "id", "model", "finish", "tools", "reasoning", "zero"}

\* init's capture_message_content, an event provider, not disable_metrics.
Settings == {"capture", "events", "metrics"}

\* Flags of the OpenTelemetry context and of the helpers' context variables.
Ambient == {"suppress", "framework", "langgraph", "create_agent"}

Step(do, what, when, safe) ==
    [do |-> do, what |-> what, when |-> when, safe |-> safe]

\* Reading the answer into a scope: the facts the code looks for.
response_as_dict(F) == Step("gather", F, {}, FALSE)

\* Preparing the text of the request.
format_content == Step("build", {}, {}, FALSE)

\* Token counts: the scope's, which start at zero and are then what the answer
\* reported; an estimate where those are zero, reported or not; an estimate in
\* any case.
reported_tokens       == Step("tokens", {"scope"}, {}, TRUE)
general_tokens        == Step("tokens", {"unless"}, {}, TRUE)
always_general_tokens == Step("tokens", {"always"}, {}, TRUE)

\* Attributes of the operation, its configuration and the arguments of tools.
common_span_attributes           == Step("attrs", {}, {}, FALSE)
common_db_span_attributes        == Step("attrs", {}, {}, FALSE)
common_framework_span_attributes == Step("attrs", {}, {}, FALSE)
set_attributes                   == Step("attrs", {}, {}, FALSE)
tool_args                        == Step("attrs", {}, {"tools"}, FALSE)

\* Content is what the application passes and receives: messages, queries,
\* documents, the text of a task, results.  It is put on the span one by one, or
\* as the two arrays of structured messages built first.
content_attributes         == Step("content", {}, {}, FALSE)
build_messages             == Step("build", {}, {}, FALSE)
set_span_messages_as_array == Step("content", {}, {}, TRUE)

\* A helper whose own handler marks the span with the exception and goes on;
\* one that says OK says it last.
noting_helper    == Step("noted", {}, {}, TRUE)
noting_helper_ok == Step("noted", {"ok"}, {}, TRUE)

\* The inference event, inside a try, where there is an event provider.
emit_inference_event == Step("event", {}, {"events"}, TRUE)

set_status_ok == Step("ok", {}, {}, TRUE)

\* The duration of the operation, the tokens and the costs.  These functions
\* have no try and use values of the answer no later than they record the
\* duration; the one for MCP has a try.
record_completion_metrics == Step("meter", {"completion"}, {"metrics"}, FALSE)
record_embedding_metrics  == Step("meter", {"embedding"}, {"metrics"}, FALSE)
record_audio_metrics      == Step("meter", {"audio"}, {"metrics"}, FALSE)
record_image_metrics      == Step("meter", {"image"}, {"metrics"}, FALSE)
record_db_metrics         == Step("meter", {"db"}, {"metrics"}, FALSE)
record_framework_metrics  == Step("meter", {"framework"}, {"metrics"}, FALSE)
record_mcp_metrics        == Step("meter", {"mcp"}, {"metrics"}, TRUE)

\* A step, and the steps, under an if.
If(W, s) == [s EXCEPT !.when = @ \cup W]

IfCapture(steps) == [i \in DOMAIN steps |-> If({"capture"}, steps[i])]

\* The same step made not to raise: a try of the caller surrounds it.
Guarded(s) == [s EXCEPT !.safe = TRUE]

SaysOk(s) == s.do = "ok" \/ (s.do = "noted" /\ "ok" \in s.what)

-----------------------------------------------------------------------------
(* Spans, as the OpenTelemetry SDK keeps them: writes to an ended span are    *)
(* ignored, and so is every status that follows OK.                           *)

NewSpan == [open |-> TRUE, status |-> "UNSET", exc |-> FALSE, said |-> FALSE]

SetStatus(s, code) ==
    IF s.open /\ s.status # "OK" THEN [s EXCEPT !.status = code] ELSE s

RecordException(s) == IF s.open THEN [s EXCEPT !.exc = TRUE] ELSE s

\* Mutant: the exception is recorded and the status left as it is.
handle_exception_records(s) == RecordException(s)

handle_exception(s) == SetStatus(RecordException(s), "ERROR")

SetContent(s) == IF s.open THEN [s EXCEPT !.said = TRUE] ELSE s

End(s) == [s EXCEPT !.open = FALSE]

\* Leaving "with start_as_current_span" by an exception.
EndByException(s) == End(handle_exception(s))

-----------------------------------------------------------------------------
(* Streams.  opens: when the span is started ("call", "poll" for a generator  *)
(* that runs on the first poll, "none", "within" the span of the wrapper,     *)
(* "twice": the stream is asked for again, in a second span); ends: what      *)
(* exhaustion does ("replace" writes a new span, "own" finishes the started   *)
(* one, "late" leaves it to __exit__, "ended" had the span closed before,     *)
(* "iter": there is no __next__ and __iter__ reads one chunk); fails and      *)
(* quits: what an error inside the stream and an early leave do ("leave"      *)
(* nothing, "mark", "close", "finish" runs the logic); again: whether polling *)
(* past the end repeats it.                                                   *)

Stream(opens, ends, fails, quits, again, chunk, logic) ==
    [opens |-> opens, ends |-> ends, fails |-> fails, quits |-> quits,
     again |-> again, chunk |-> chunk, logic |-> logic]

NoStream == Stream("no", "own", "leave", "leave", FALSE, set_status_ok, <<>>)

\* except StopIteration: try: with tracer.start_as_current_span(...): logic
Replacing(chunk, logic) ==
    Stream("call", "replace", "leave", "leave", TRUE, chunk, logic)

\* except StopIteration: try: with self._span: logic
Closing(chunk, logic) ==
    Stream("call", "own", "leave", "leave", TRUE, chunk, logic)

\* As Replacing, with no span started by the call.
StartingAtEnd(chunk, logic) ==
    Stream("none", "replace", "leave", "leave", TRUE, chunk, logic)

\* def __exit__: logic
ExitingLate(chunk, logic) ==
    Stream("call", "late", "leave", "finish", FALSE, chunk, logic)

\* def __iter__: try: return next chunk finally: with a new span: logic
IteratedOnce(chunk, logic) ==
    Stream("call", "iter", "leave", "leave", FALSE, chunk, logic)

\* A generator: with span: for chunk in wrapped(): ...; yield chunk
Generator(fails, quits, chunk, logic) ==
    Stream("poll", "own", fails, quits, FALSE, chunk, logic)

-----------------------------------------------------------------------------
(* Wrappers.  skip: ambient flags on which the wrapped function is called     *)
(* bare; only: every answer is a stream; before: the library runs before the  *)
(* span is opened; pre: steps between the span's start and the call, preKept  *)
(* if they have a try of their own; lib / proc: what an exception of the      *)
(* library / of the response logic becomes ("escape", "reraise", "kept",      *)
(* "lost": the handler returns a response never assigned, "recall" and        *)
(* "afresh": the handler calls the library again, inside or outside the       *)
(* span); libErr / procErr: the handler records a duration; ctx: a context is *)
(* attached around the library call and detached in a finally; lazy: the      *)
(* wrapped coroutine function is called and not awaited.                      *)

\* with span: response = wrapped(); try: logic except: handle; return response
Wrapper(logic) ==
    [skip |-> {}, only |-> FALSE, async |-> FALSE, before |-> FALSE,
     pre |-> <<>>, preKept |-> FALSE, lib |-> "escape", proc |-> "kept",
     libErr |-> FALSE, procErr |-> FALSE, ctx |-> FALSE, lazy |-> FALSE,
     logic |-> logic, stream |-> NoStream]

\* ... and the handler records the failed operation's metrics.
Metered(logic) == [Wrapper(logic) EXCEPT !.procErr = TRUE]

\* with span: try: pre; wrapped(); logic except: handle; raise
Raising(pre, logic) ==
    [Wrapper(logic) EXCEPT !.pre = pre, !.lib = "reraise", !.proc = "reraise"]

\* with span: try: pre except: handle; try: wrapped() except: handle; raise
\* finally: try: logic except: handle
KeepingBoth(pre, logic) ==
    [Wrapper(logic) EXCEPT !.pre = pre, !.preKept = TRUE, !.lib = "reraise",
                           !.libErr = TRUE]

\* with span: response = wrapped(); logic
Exposed(logic) == [Wrapper(logic) EXCEPT !.proc = "escape"]

\* with span: try: response = wrapped(); logic except: handle; return response
Losing(logic) == [Wrapper(logic) EXCEPT !.lib = "lost"]

OnlyStreams(s) == [Wrapper(<<>>) EXCEPT !.only = TRUE, !.stream = s]
Streamed(w, s) == [w EXCEPT !.stream = s]
Suppressible(w) == [w EXCEPT !.skip = @ \cup {"suppress"}]
UnlessFramework(w) == [w EXCEPT !.skip = @ \cup {"framework"}]
Async(w) == [w EXCEPT !.async = TRUE]
Nested(w) == [w EXCEPT !.skip = @ \cup {"suppress", "langgraph"}]
UnlessCreating(w) == [w EXCEPT !.skip = @ \cup {"create_agent"}]
Before(pre, w) == [w EXCEPT !.pre = pre]
MeteredErrors(w) == [w EXCEPT !.libErr = TRUE, !.procErr = TRUE]
Recalling(w, lib, proc) == [w EXCEPT !.lib = lib, !.proc = proc]
Lazy(w) == [w EXCEPT !.async = TRUE, !.lazy = TRUE]
Attaching(w) == [w EXCEPT !.ctx = TRUE]

StepShape == [do : STRING, what : SUBSET STRING, when : SUBSET STRING,
              safe : BOOLEAN]

WrapperShape ==
    [skip : SUBSET Ambient, only : BOOLEAN, async : BOOLEAN, before : BOOLEAN,
     pre : Seq(StepShape), preKept : BOOLEAN,
     lib : {"escape", "reraise", "lost", "recall", "afresh"},
     proc : {"escape", "reraise", "kept", "recall"},
     libErr : BOOLEAN, procErr : BOOLEAN, ctx : BOOLEAN, lazy : BOOLEAN,
     logic : Seq(StepShape),
     stream : [opens : {"no", "call", "poll", "none", "within", "twice"},
               ends : {"replace", "own", "late", "ended", "iter"},
               fails : {"leave", "mark", "close", "finish"},
               quits : {"leave", "close", "finish"},
               again : BOOLEAN, chunk : StepShape, logic : Seq(StepShape)]]

-----------------------------------------------------------------------------
(* Shapes of wrappers, which say what one may rely on (TracedCallProofs).     *)

\* The library's exceptions pass, the exceptions of the telemetry do not, and
\* the library is asked once, by a call that is made and awaited.
HandsOn(v) ==
    /\ v.lib \in {"escape", "reraise"} /\ v.proc = "kept"
    /\ v.pre = <<>> \/ v.preKept
    /\ ~v.lazy
    /\ v.stream.opens # "twice" /\ v.stream.ends \notin {"late", "iter", "ended"}

\* Every span started is ended: a stream writes a new one at its end only where
\* the call started none, and leaves none to __exit__; a generator has a handler
\* around its loop; and only calls that answer whole attach a context.
Closes(v) ==
    /\ v.stream.opens = "poll" => v.stream.fails \in {"close", "finish"}
    /\ v.stream.ends = "replace" <=> v.stream.opens = "none"
    /\ v.stream.ends = "ended" => v.stream.opens = "within"
    /\ v.stream.opens # "twice" /\ v.stream.ends \notin {"late", "iter"}
    /\ v.ctx => v.stream.opens = "no"

\* Every step that sets content is under the capture setting.
GatedSteps(steps) ==
    \A i \in 1..Len(steps) : steps[i].do = "content" => "capture" \in steps[i].when

Gates(v) ==
    GatedSteps(v.pre) /\ GatedSteps(v.logic) /\ GatedSteps(v.stream.logic)

\* One event; one duration, after which nothing raises; and a stream that
\* reports its failure is over.
OneReport(steps) ==
    \A i, j \in 1..Len(steps) : i < j =>
        /\ steps[i].do = "event" => steps[j].do # "event"
        /\ steps[i].do = "meter" => steps[j].do # "meter" /\ steps[j].safe

ReportsOnce(v) ==
    /\ \A i \in 1..Len(v.pre) : v.pre[i].do \notin {"event", "meter"}
    /\ OneReport(v.logic) /\ OneReport(v.stream.logic)
    /\ v.stream.fails = "finish" => v.stream.opens = "poll"

\* What a wrapper returns when it keeps an exception of its logic to itself is
\* an answer, not a coroutine it has not awaited.
KeepsAnswers(v) == v.proc = "kept" => ~v.lazy

\* No handler answers an exception of the library with another call.
LeavesRaised(v) == v.lib \notin {"recall", "afresh"}

\* Nothing that may go wrong follows OK, but the recording of the duration; or
\* not even that.
NeverOk(steps) == \A i \in 1..Len(steps) : ~SaysOk(steps[i])
MayRaise(steps) == \E i \in 1..Len(steps) : ~steps[i].safe
OkThenMeter(steps) ==
    \A i, j \in 1..Len(steps) : i < j /\ SaysOk(steps[i]) =>
        steps[j].do # "noted" /\ (steps[j].safe \/ "metrics" \in steps[j].when)
OkLast(steps) ==
    \A i, j \in 1..Len(steps) : i < j /\ SaysOk(steps[i]) =>
        steps[j].do # "noted" /\ steps[j].safe

\* No exception a helper noted is followed by OK.
NotedLast(steps) ==
    \A i, j \in 1..Len(steps) : i < j /\ steps[i].do = "noted" => ~SaysOk(steps[j])

\* The duration is recorded before OK, or where nothing can go wrong.
MetersBeforeOk(v) == OkLast(v.logic) /\ OkLast(v.stream.logic)

\* OK is not set before the call, no logic sets it after a handled exception,
\* and the span the report is on is the one its stream ends: a stream that marks
\* it with its failure and is read on writes another at its end.
Tells(v) ==
    /\ NeverOk(v.pre) /\ OkThenMeter(v.logic) /\ OkThenMeter(v.stream.logic)
    /\ NotedLast(v.logic) /\ NotedLast(v.stream.logic)
    /\ \A i \in 1..Len(v.pre) : v.pre[i].do # "noted"
    /\ v.proc # "kept" => OkLast(v.logic)
    /\ v.preKept /\ MayRaise(v.pre) => NeverOk(v.logic) /\ NeverOk(v.stream.logic)
    /\ v.stream.fails = "finish" => NeverOk(v.stream.logic)
    /\ v.stream.fails = "mark" =>
           v.stream.ends = "ended" \/ (v.stream.ends = "replace" /\ v.stream.quits = "leave")
    /\ v.stream.ends = "ended" <=> v.stream.opens = "within"
    /\ v.stream.ends \notin {"late", "iter"} /\ ~v.lazy

\* Tokens are counted after the answer's usage was read, and estimated in any
\* case only where no usage is ever read; they are never estimated because the
\* usage read is zero.
ReadsUsage(steps) ==
    \E i \in 1..Len(steps) : steps[i].do = "gather" /\ "usage" \in steps[i].what
AlwaysEstimates(steps) ==
    \E i \in 1..Len(steps) : steps[i].do = "tokens" /\ steps[i].what = {"always"}
CountsLast(steps) ==
    \A i, j \in 1..Len(steps) : i < j /\ steps[i].do = "tokens" =>
        ~(steps[j].do = "gather" /\ "usage" \in steps[j].what)

Tallies(v) ==
    /\ \A i \in 1..Len(v.pre) : v.pre[i].do # "tokens"
    /\ CountsLast(v.logic) /\ ~ReadsUsage(v.stream.logic)
    /\ AlwaysEstimates(v.logic) => ~ReadsUsage(v.pre) /\ ~ReadsUsage(v.logic)
    /\ AlwaysEstimates(v.stream.logic) =>
           ~ReadsUsage(v.pre) /\ "usage" \notin v.stream.chunk.what

\* An estimate replaces a count of zero.
TakesZeroForNone(steps) ==
    \E i \in 1..Len(steps) : steps[i].do = "tokens" /\ steps[i].what = {"unless"}
CountsZero(v) == ~TakesZeroForNone(v.logic) /\ ~TakesZeroForNone(v.stream.logic)
==============================================================================
