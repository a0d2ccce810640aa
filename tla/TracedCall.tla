------------------------------ MODULE TracedCall ------------------------------
(* One call the application makes of an instrumented library function: the    *)
(* wrapper that serves it, the library, the response logic and, for a         *)
(* streamed answer, the traced stream the application reads.  The wrapper is  *)
(* data (module Telemetry); the actions interpret it.                         *)
EXTENDS Telemetry, FiniteSets

CONSTANTS
    Wrappers,   \* the wrappers considered
    Calls,      \* the sets of settings and ambient flags calls are made under
    Replies,    \* the sets of facts the library's answer may report
    MaxItems,   \* bound on the items a stream yields
    MaxPolls,   \* bound on polls past a stream's end, and past an exception
    ChunksFail  \* whether process_chunk may raise on an item

ASSUME CallAssumption ==
    /\ Wrappers \subseteq WrapperShape
    /\ Calls \subseteq SUBSET (Settings \cup Ambient \cup {"stream"})
    /\ Replies \subseteq SUBSET Facts
    /\ MaxItems \in Nat /\ MaxPolls \in Nat /\ ChunksFail \in BOOLEAN

VARIABLES
    w,        \* the wrapper serving the call
    on,       \* settings, ambient flags and "stream" if a stream is asked for
    given,    \* the facts the library's answer reports
    pc,       \* where the wrapper is
    todo,     \* the steps of the response logic left
    calls,    \* invocations of the library function
    answer,   \* what the library did
    sent,     \* items its stream yielded
    seen,     \* items the application received
    app,      \* what the application has
    spans,    \* the spans started, in order
    cur,      \* the span being written
    got,      \* facts gathered from the answer so far
    tokens,   \* where the token counts reported come from
    meter,    \* operation durations recorded
    events,   \* inference events emitted
    ctx,      \* "inner" while a context attached by the wrapper is current
    thrown,   \* polls of a stream that raised
    polls     \* polls past its end

call == <<w, on, given>>
lib  == <<calls, answer, sent>>
tele == <<spans, cur, got, tokens, meter, events>>
past == <<thrown, polls>>
vars == <<call, pc, todo, lib, seen, app, tele, ctx, past>>

PC == {"enter", "bare", "pre", "wait", "logic", "first", "stream", "broke",
       "final", "raise", "again", "owed", "done"}
Outcomes == {"waiting", "value", "error", "cancelled", "stream", "stopped",
             "raised", "left", "broken", "unbound"}

TokenSources == {"none", "reported", "estimated", "zero"}

TypeOK ==
    /\ w \in Wrappers /\ on \in Calls /\ given \in Replies
    /\ pc \in PC /\ app \in Outcomes
    /\ calls \in 0..3 /\ sent \in 0..MaxItems /\ seen \in 0..MaxItems
    /\ answer \in {"none", "value", "error", "cancelled"}
    /\ Len(spans) \in 0..(2 + MaxPolls) /\ cur \in 0..Len(spans)
    /\ got \subseteq Facts /\ tokens \in TokenSources
    /\ meter \in 0..(1 + MaxPolls) /\ events \in 0..(1 + MaxPolls)
    /\ ctx \in {"outer", "inner"}
    /\ thrown \in 0..(1 + MaxPolls) /\ polls \in 0..MaxPolls

Init ==
    /\ w \in Wrappers /\ on \in Calls /\ given \in Replies
    /\ pc = "enter" /\ todo = <<>> /\ calls = 0 /\ answer = "none"
    /\ sent = 0 /\ seen = 0 /\ app = "waiting"
    /\ spans = <<>> /\ cur = 0 /\ got = {} /\ tokens = "none"
    /\ meter = 0 /\ events = 0 /\ ctx = "outer" /\ thrown = 0 /\ polls = 0

Skipped == w.skip \cap on # {}
AsksForStream == w.stream.opens # "no" /\ ("stream" \in on \/ w.only)
Streaming == AsksForStream /\ w.stream.opens # "within"
Polled == w.stream.opens = "poll" /\ AsksForStream
Faults == {"error"} \cup (IF w.async THEN {"cancelled"} ELSE {})
Metering == IF "metrics" \in on THEN 1 ELSE 0
OnCur(Op(_)) == IF cur = 0 THEN spans ELSE [spans EXCEPT ![cur] = Op(@)]

-----------------------------------------------------------------------------
(* Entering the wrapper.                                                      *)

\* An ambient flag is set: return wrapped(...), no telemetry.
Skip ==
    /\ pc = "enter" /\ Skipped
    /\ pc' = "bare" /\ calls' = calls + 1
    /\ UNCHANGED <<call, todo, answer, sent, seen, app, tele, ctx, past>>

BareAnswers ==
    /\ pc = "bare"
    /\ answer' \in {"value"} \cup Faults
    /\ app' = answer' /\ pc' = "done"
    /\ UNCHANGED <<call, todo, calls, sent, seen, tele, ctx, past>>

\* with tracer.start_as_current_span(...) as span
OpenSpan ==
    /\ pc = "enter" /\ ~Skipped /\ ~Streaming /\ ~w.before
    /\ spans' = <<NewSpan>> /\ cur' = 1
    /\ todo' = w.pre /\ pc' = "pre"
    /\ UNCHANGED <<call, lib, seen, app, got, tokens, meter, events, ctx, past>>

\* The library is called before a span is opened.
CallFirst ==
    /\ pc = "enter" /\ ~Skipped
    /\ IF Streaming THEN w.stream.opens # "poll" ELSE w.before
    /\ calls' = calls + 1 /\ pc' = "first"
    /\ UNCHANGED <<call, todo, answer, sent, seen, app, tele, ctx, past>>

\* A generator function: nothing runs until the application polls.
HandGenerator ==
    /\ pc = "enter" /\ ~Skipped /\ Streaming /\ w.stream.opens = "poll"
    /\ app' = "stream" /\ pc' = "stream"
    /\ UNCHANGED <<call, todo, lib, seen, tele, ctx, past>>

FirstRaises ==
    /\ pc = "first"
    /\ answer' \in Faults /\ app' = answer' /\ pc' = "done"
    /\ UNCHANGED <<call, todo, calls, sent, seen, tele, ctx, past>>

FirstStreams ==
    /\ pc = "first" /\ Streaming /\ w.stream.opens # "twice"
    /\ app' = "stream" /\ pc' = "stream"
    /\ \/ w.stream.opens = "none" /\ UNCHANGED <<spans, cur>>
       \/ /\ w.stream.opens = "call"
          /\ spans' = <<NewSpan>> /\ cur' = 1
    /\ UNCHANGED <<call, todo, lib, seen, got, tokens, meter, events, ctx, past>>

\* The stream answered is dropped with its span and the library asked again.
StreamAgain ==
    /\ pc = "first" /\ Streaming /\ w.stream.opens = "twice"
    /\ spans' = <<NewSpan, NewSpan>> /\ cur' = 2
    /\ todo' = w.pre /\ pc' = "pre"
    /\ UNCHANGED <<call, lib, seen, app, got, tokens, meter, events, ctx, past>>

FirstReturns ==
    /\ pc = "first" /\ ~Streaming
    /\ answer' = "value" /\ spans' = <<NewSpan>> /\ cur' = 1
    /\ todo' = w.logic /\ pc' = "logic"
    /\ UNCHANGED <<call, calls, sent, seen, app, got, tokens, meter, events,
                   ctx, past>>

-----------------------------------------------------------------------------
(* The steps of the response logic, shared by the whole and streamed answers. *)

\* Mutant: the capture setting is not asked for.
Takes_captures(s) == s.when \subseteq on \cup got \cup {"capture"}

\* if capture_message_content, if event_provider, if not disable_metrics, ...
Takes(s) == s.when \subseteq on \cup got

\* Mutant: an estimate is made without asking whether usage was reported.
Counted_estimates(s) ==
    IF s.what \in {{"always"}, {"unless"}} THEN "estimated"
    ELSE IF "usage" \in got THEN "reported" ELSE "zero"

\* Where the token counts of step s come from: "if scope._input_tokens and
\* scope._output_tokens" takes a reported zero for none.
Counted(s) ==
    IF s.what = {"always"} \/ (s.what = {"unless"} /\ "zero" \in given)
    THEN "estimated"
    ELSE IF "usage" \in got THEN "reported"
    ELSE IF s.what = {"scope"} THEN "zero" ELSE "estimated"

\* Executes step s, in the calls that have what it asks for.
Run(s) ==
    /\ got' = IF s.do = "gather" THEN got \cup (s.what \cap given) ELSE got
    /\ tokens' = IF s.do = "tokens" THEN Counted(s) ELSE tokens
    /\ spans' = IF ~Takes(s) THEN spans
                ELSE IF s.do = "content" THEN OnCur(SetContent)
                ELSE IF SaysOk(s) THEN OnCur(LAMBDA x : SetStatus(x, "OK"))
                ELSE spans
    /\ meter' = IF s.do = "meter" /\ Takes(s) THEN meter + 1 ELSE meter
    /\ events' = IF s.do = "event" /\ Takes(s) THEN events + 1 ELSE events
    /\ UNCHANGED cur

TakeStep ==
    /\ pc \in {"pre", "logic", "final"} /\ todo # <<>>
    /\ Run(Head(todo)) /\ todo' = Tail(todo)
    /\ UNCHANGED <<call, pc, lib, seen, app, ctx, past>>

\* A helper fails: its handler marks the span, and the steps after it follow.
HelperFails ==
    /\ pc \in {"pre", "logic", "final"} /\ todo # <<>>
    /\ Head(todo).do = "noted" /\ Takes(Head(todo))
    /\ spans' = OnCur(handle_exception) /\ todo' = Tail(todo)
    /\ UNCHANGED <<call, pc, lib, seen, app, cur, got, tokens, meter, events,
                   ctx, past>>

Recalls == w.lib \in {"recall", "afresh"}
CanFail == todo # <<>> /\ ~Head(todo).safe /\ Takes(Head(todo))

-----------------------------------------------------------------------------
(* A whole answer.                                                            *)

\* The steps before the call raise: handled on the spot, or by the try that
\* is also the library call's, or by the with block.
PreFails ==
    /\ pc = "pre" /\ CanFail
    /\ \/ w.preKept /\ spans' = OnCur(handle_exception) /\ todo' = <<>>
          /\ UNCHANGED <<pc, app, meter>>
       \/ /\ ~w.preKept /\ ~Recalls
          /\ spans' = OnCur(EndByException) /\ todo' = <<>>
          /\ meter' = meter + (IF w.libErr THEN Metering ELSE 0)
          /\ app' = "broken" /\ pc' = "done"
       \/ /\ ~w.preKept /\ Recalls
          /\ spans' = OnCur(EndByException) /\ todo' = <<>>
          /\ pc' = "raise" /\ UNCHANGED <<app, meter>>
    /\ UNCHANGED <<call, lib, seen, cur, got, tokens, events, ctx, past>>

Call ==
    /\ pc = "pre" /\ todo = <<>> /\ ~w.lazy
    /\ calls' = calls + 1 /\ pc' = IF Polled THEN "stream" ELSE "wait"
    /\ ctx' = IF w.ctx THEN "inner" ELSE ctx
    /\ UNCHANGED <<call, todo, answer, sent, seen, app, tele, past>>

\* The wrapped function is a coroutine function and the wrapper does not await
\* it: the "answer" its logic reads is the coroutine.
CallLazy ==
    /\ pc = "pre" /\ todo = <<>> /\ w.lazy
    /\ todo' = w.logic /\ pc' = "logic"
    /\ UNCHANGED <<call, lib, seen, app, tele, ctx, past>>

\* An asynchronous generator is handed over, and the with block left.
LibraryStreams ==
    /\ pc = "wait" /\ AsksForStream /\ w.stream.opens = "within"
    /\ app' = "stream" /\ pc' = "stream" /\ spans' = OnCur(End)
    /\ UNCHANGED <<call, todo, lib, seen, cur, got, tokens, meter, events, ctx,
                   past>>

LibraryReturns ==
    /\ pc = "wait" /\ ~(AsksForStream /\ w.stream.opens = "within")
    /\ answer' = "value" /\ ctx' = "outer"
    /\ todo' = w.logic /\ pc' = "logic"
    /\ UNCHANGED <<call, calls, sent, seen, app, tele, past>>

\* Mutant: the context is detached only when the library returns.
LibraryRaises_attached ==
    /\ pc = "wait"
    /\ answer' = "error" /\ pc' = "raise"
    /\ UNCHANGED <<call, todo, calls, sent, seen, app, tele, ctx, past>>

LibraryRaises ==
    /\ pc = "wait"
    /\ answer' = "error" /\ ctx' = "outer" /\ pc' = "raise"
    /\ UNCHANGED <<call, todo, calls, sent, seen, app, tele, past>>

\* asyncio.CancelledError is no Exception: no handler of a wrapper sees it,
\* only with blocks and finally clauses do.
LibraryCancelled ==
    /\ pc = "wait" /\ w.async
    /\ answer' = "cancelled" /\ ctx' = "outer"
    /\ app' = "cancelled" /\ pc' = "done"
    /\ spans' = OnCur(End)
    /\ UNCHANGED <<call, todo, calls, sent, seen, cur, got, tokens, meter,
                   events, past>>

\* The exception of the library reaches the handler of the wrapper.
HandleLibrary ==
    /\ pc = "raise" /\ ~Recalls
    /\ spans' = OnCur(EndByException)
    /\ meter' = meter + (IF w.libErr THEN Metering ELSE 0)
    /\ app' = IF w.lib = "lost" THEN "unbound" ELSE "error"
    /\ pc' = "done"
    /\ UNCHANGED <<call, todo, lib, seen, cur, got, tokens, events, ctx, past>>

\* Mutant: the handler of the logic's exception raises it again.
LogicFails_raises ==
    /\ pc = "logic" /\ CanFail /\ w.proc # "recall"
    /\ todo' = <<>> /\ pc' = "done" /\ app' = "broken"
    /\ spans' = OnCur(EndByException)
    /\ meter' = meter + (IF w.procErr THEN Metering ELSE 0)
    /\ UNCHANGED <<call, lib, seen, cur, got, tokens, events, ctx, past>>

LogicFails ==
    /\ pc = "logic" /\ CanFail /\ w.proc # "recall"
    /\ todo' = <<>> /\ pc' = "done"
    /\ app' = IF w.proc = "kept" THEN answer ELSE "broken"
    /\ spans' = OnCur(EndByException)
    /\ meter' = meter + (IF w.procErr THEN Metering ELSE 0)
    /\ UNCHANGED <<call, lib, seen, cur, got, tokens, events, ctx, past>>

\* except Exception: ...; return wrapped(*args, **kwargs)
Recall ==
    /\ \/ pc = "raise" /\ Recalls
       \/ pc = "logic" /\ CanFail /\ w.proc = "recall"
    /\ spans' = IF w.lib = "afresh" THEN OnCur(EndByException)
                ELSE OnCur(handle_exception)
    /\ todo' = <<>>
    /\ calls' = calls + 1 /\ pc' = "again"
    /\ UNCHANGED <<call, answer, sent, seen, app, cur, got, tokens, meter,
                   events, ctx, past>>

\* Mutant: an exception of the second call is handled like that of the first.
AgainAnswers_retries ==
    /\ pc = "again"
    /\ \/ answer' = "value" /\ app' = "value" /\ pc' = "done" /\ spans' = OnCur(End)
       \/ answer' = "error" /\ pc' = "raise" /\ UNCHANGED <<app, spans>>
    /\ UNCHANGED <<call, todo, calls, sent, seen, cur, got, tokens, meter,
                   events, ctx, past>>

AgainAnswers ==
    /\ pc = "again"
    /\ answer' \in {"value", "error"} /\ app' = answer'
    /\ spans' = OnCur(LAMBDA x : IF answer' = "value" THEN End(x)
                                ELSE EndByException(x))
    /\ pc' = "done"
    /\ UNCHANGED <<call, todo, calls, sent, seen, cur, got, tokens, meter,
                   events, ctx, past>>

\* Mutant: the wrapper records the duration after the logic has.
Return_meters ==
    /\ pc = "logic" /\ todo = <<>>
    /\ spans' = OnCur(End) /\ meter' = meter + Metering
    /\ IF w.lazy THEN pc' = "owed" /\ app' = app
       ELSE pc' = "done" /\ app' = answer
    /\ UNCHANGED <<call, todo, lib, seen, cur, got, tokens, events, ctx, past>>

Return ==
    /\ pc = "logic" /\ todo = <<>>
    /\ spans' = OnCur(End)
    /\ IF w.lazy THEN pc' = "owed" /\ app' = app
       ELSE pc' = "done" /\ app' = answer
    /\ UNCHANGED <<call, todo, lib, seen, cur, got, tokens, meter, events, ctx,
                   past>>

\* The application awaits the coroutine: only now does the library run.
Await ==
    /\ pc = "owed"
    /\ calls' = calls + 1 /\ answer' \in {"value"} \cup Faults
    /\ app' = answer' /\ pc' = "done"
    /\ UNCHANGED <<call, todo, sent, seen, tele, ctx, past>>

-----------------------------------------------------------------------------
(* A streamed answer, read by the application through the traced stream.      *)

\* The generator's first poll opens its span and goes on to call the library.
FirstPoll ==
    /\ pc = "stream" /\ Polled /\ calls = 0
    /\ spans' = <<NewSpan>> /\ cur' = 1
    /\ todo' = w.pre /\ pc' = "pre"
    /\ UNCHANGED <<call, lib, seen, app, got, tokens, meter, events, ctx, past>>

Reading == pc = "stream" /\ calls > 0 /\ w.stream.ends # "iter"

\* __next__: an item of the library, process_chunk, the item handed on.
Item ==
    /\ Reading /\ sent < MaxItems
    /\ sent' = sent + 1 /\ seen' = seen + 1
    /\ got' = got \cup (w.stream.chunk.what \cap given)
    /\ UNCHANGED <<call, pc, todo, calls, answer, app, spans, cur, tokens,
                   meter, events, ctx, past>>

\* Mutant: __next__ goes on to the next item when process_chunk raises.
ItemFails_skips ==
    /\ ChunksFail /\ Reading /\ sent < MaxItems /\ ~w.stream.chunk.safe
    /\ sent' = sent + 1
    /\ UNCHANGED <<call, pc, todo, calls, answer, seen, app, tele, ctx, past>>

\* process_chunk raises: the item is lost to the application.
ItemFails ==
    /\ ChunksFail /\ Reading /\ sent < MaxItems /\ ~w.stream.chunk.safe
    /\ sent' = sent + 1 /\ pc' = "broke"
    /\ UNCHANGED <<call, todo, calls, answer, seen, app, tele, ctx, past>>

\* The library's stream raises.
StreamFails ==
    /\ Reading
    /\ answer' = "error" /\ pc' = "broke"
    /\ UNCHANGED <<call, todo, calls, sent, seen, app, tele, ctx, past>>

\* Mutant: the exception is kept to the traced stream, which reads on.
HandleBreak_rereads ==
    /\ pc = "broke"
    /\ pc' = "stream" /\ spans' = OnCur(handle_exception)
    /\ UNCHANGED <<call, todo, lib, seen, app, cur, got, tokens, meter, events,
                   ctx, past>>

\* What the traced stream does with an exception other than StopIteration,
\* which reaches the application.
HandleBreak ==
    /\ pc = "broke"
    /\ app' = "raised" /\ thrown' = thrown + 1
    /\ \/ /\ w.stream.fails = "leave"
          /\ pc' = "done" /\ UNCHANGED <<todo, spans>>
       \/ /\ w.stream.fails = "mark"
          /\ pc' = "done" /\ spans' = OnCur(handle_exception) /\ UNCHANGED todo
       \/ /\ w.stream.fails = "close"
          /\ pc' = "done" /\ spans' = OnCur(EndByException) /\ UNCHANGED todo
       \/ /\ w.stream.fails = "finish"
          /\ pc' = "final" /\ todo' = w.stream.logic
          /\ spans' = OnCur(handle_exception)
    /\ UNCHANGED <<call, lib, seen, cur, got, tokens, meter, events, ctx, polls>>

\* The application holds on to a stream that raised, to poll it again or to
\* leave it.  A generator that raised is over.
PollOn ==
    /\ pc = "done" /\ app = "raised" /\ ~Polled /\ thrown <= MaxPolls
    /\ pc' = "stream" /\ app' = "stream" /\ answer' = "none"
    /\ UNCHANGED <<call, todo, calls, sent, seen, tele, ctx, past>>

\* A span for the end of the stream, or the one started with the call.
FinishSpan ==
    IF w.stream.ends = "replace"
    THEN spans' = Append(spans, NewSpan) /\ cur' = Len(spans) + 1
    ELSE UNCHANGED <<spans, cur>>

\* The library's stream is exhausted: StopIteration.
Stop ==
    /\ Reading /\ w.stream.ends # "late"
    /\ pc' = "final" /\ todo' = w.stream.logic /\ FinishSpan
    /\ UNCHANGED <<call, lib, seen, app, got, tokens, meter, events, ctx, past>>

\* Exhausted, and the report waits for __exit__, which runs only if the
\* application reads the stream in a with block.
StopLate ==
    /\ Reading /\ w.stream.ends = "late"
    /\ \/ app' = "stopped" /\ pc' = "done" /\ UNCHANGED todo
       \/ pc' = "final" /\ todo' = w.stream.logic /\ UNCHANGED app
    /\ UNCHANGED <<call, lib, seen, tele, ctx, past>>

\* for chunk in stream, where __iter__ itself reads a chunk, writes the report
\* in its finally and returns what is no iterator: a TypeError.
IterateOnce ==
    /\ pc = "stream" /\ w.stream.ends = "iter" /\ sent < MaxItems
    /\ sent' = sent + 1 /\ got' = got \cup (w.stream.chunk.what \cap given)
    /\ app' = "broken" /\ pc' = "final" /\ todo' = w.stream.logic
    /\ spans' = Append(spans, NewSpan) /\ cur' = Len(spans) + 1
    /\ UNCHANGED <<call, calls, answer, seen, tokens, meter, events, ctx, past>>

\* The application drops the stream: no code of a traced stream runs.
Leave ==
    /\ pc = "stream" /\ ~Polled
    /\ app' = "left" /\ pc' = "done"
    /\ UNCHANGED <<call, todo, lib, seen, tele, ctx, past>>

\* It leaves a with block, closes a generator, or is cancelled while it waits
\* for the next item of a generator or of a stream that handles cancellation.
Quit ==
    /\ pc = "stream" /\ (Polled \/ w.stream.quits = "finish")
    /\ app' = "left"
    /\ IF w.stream.quits = "finish" /\ calls = 1
       THEN pc' = "final" /\ todo' = w.stream.logic /\ UNCHANGED spans
       ELSE pc' = "done" /\ spans' = OnCur(End) /\ UNCHANGED todo
    /\ UNCHANGED <<call, lib, seen, cur, got, tokens, meter, events, ctx, past>>

\* What the application has once a stream that ended is reported.
Ended == IF app = "stream" THEN "stopped" ELSE app

\* The logic raises while the stream ends: handle_exception; raise (the
\* StopIteration).  A late finish, and one on a span that was ended when the
\* stream was handed over, have no try around them.
FinalFails ==
    /\ pc = "final" /\ CanFail
    /\ IF w.stream.ends \in {"late", "ended"}
       THEN app' = "broken" /\ UNCHANGED spans
       ELSE app' = Ended /\ spans' = OnCur(EndByException)
    /\ todo' = <<>> /\ pc' = "done"
    /\ UNCHANGED <<call, lib, seen, cur, got, tokens, meter, events, ctx, past>>

FinalDone ==
    /\ pc = "final" /\ todo = <<>>
    /\ spans' = IF app = "raised" THEN OnCur(EndByException)
                ELSE IF w.stream.ends = "late" THEN spans ELSE OnCur(End)
    /\ app' = Ended /\ pc' = "done"
    /\ UNCHANGED <<call, todo, lib, seen, cur, got, tokens, meter, events, ctx,
                   past>>

\* next() on a stream already exhausted: StopIteration once more.
PollAgain ==
    /\ pc = "done" /\ app = "stopped" /\ w.stream.again /\ polls < MaxPolls
    /\ polls' = polls + 1
    /\ pc' = "final" /\ todo' = w.stream.logic
    /\ FinishSpan
    /\ UNCHANGED <<call, lib, seen, app, got, tokens, meter, events, ctx, thrown>>

-----------------------------------------------------------------------------
Next ==
    \/ Skip \/ BareAnswers \/ OpenSpan \/ CallFirst \/ HandGenerator
    \/ FirstRaises \/ FirstStreams \/ StreamAgain \/ FirstReturns
    \/ TakeStep \/ HelperFails \/ PreFails \/ Call \/ CallLazy \/ Await
    \/ LibraryStreams \/ LibraryReturns \/ LibraryRaises \/ LibraryCancelled
    \/ HandleLibrary \/ LogicFails \/ Recall \/ AgainAnswers \/ Return
    \/ FirstPoll \/ Item \/ ItemFails \/ StreamFails \/ HandleBreak \/ PollOn
    \/ Stop \/ StopLate \/ IterateOnce \/ Leave \/ Quit
    \/ FinalFails \/ FinalDone \/ PollAgain

\* The library answers every call, and the application reads or leaves every
\* stream it holds; the wrapper's own steps follow one another.
Spec == Init /\ [][Next]_vars /\ WF_vars(Next)

-----------------------------------------------------------------------------
(* Properties.                                                                *)

\* Instrumenting a function does not change what its caller sees: with the
\* telemetry hidden, a traced call is a call of the bare function, whatever the
\* response logic does (the wrapper and __next__ of a traced stream).
Plain == INSTANCE PlainCall WITH outcome <- app
Transparent == Plain!Spec

\* Whatever a wrapper is made of, it never makes an outcome up: a value, error
\* or cancellation the caller sees is the library's last answer, no item is
\* seen twice, and an item is kept from the caller only by a poll that raised.
NeverInvented ==
    /\ app \in {"value", "error", "cancelled"} => app = answer
    /\ seen <= sent
    /\ app \in {"stopped", "raised", "left"} => sent <= seen + thrown

\* "Streaming: accumulate then call common_*_logic once at the end": one call is
\* one operation in the metrics and one inference event, also when a failure is
\* handled after part of the logic has run (response logic and its handlers).
ReportedOnce == meter <= 1 /\ events <= 1

\* OK, written by the response logic and by wrappers, means that the caller got
\* the library's answer, or a stream's end, or left the stream.
OkEarned ==
    pc = "done" /\ cur # 0 /\ spans[cur].status = "OK" =>
        app \in {"value", "stopped", "left"}

\* An exception recorded on the span of the report (handle_exception) shows in
\* its status: it is neither left unset nor covered by an OK before or after it.
ExceptionShows ==
    pc = "done" /\ cur # 0 /\ spans[cur].exc => spans[cur].status = "ERROR"

\* The caller holds a stream it left early or whose poll raised: no code of the
\* SDK runs that could end the span.  A generator's with block does run.
StreamAbandoned == AsksForStream /\ ~Polled /\ app \in {"left", "raised"}

\* When the caller has its answer nothing of the wrapper is left: every span it
\* started has ended and no context of the wrapper is attached, also after an
\* error, a cancellation or a generator closed half-way.
NothingLeft ==
    pc = "done" /\ ~StreamAbandoned =>
        /\ \A i \in 1..Len(spans) : ~spans[i].open
        /\ ctx = "outer"

\* Without capture_message_content no span of the call carries content.
ContentGated ==
    "capture" \notin on => \A i \in 1..Len(spans) : ~spans[i].said

\* Usage the response logic has read from the answer is what the span reports,
\* a usage of zero too: it is not overwritten by an estimate or by the zero the
\* scope started from.
UsageKept ==
    pc = "done" /\ cur # 0 /\ "usage" \in got /\ spans[cur].status = "OK" =>
        tokens \in {"reported", "none"}

\* The wrapped function is executed "outside try block": once it has raised,
\* no handler of the wrapper calls it again (general_wrap of Firecrawl).
RaisedOutside == [][answer = "error" => UNCHANGED calls]_vars

\* Every call is over at last: the steps, handlers and streams of a wrapper
\* never wait for anything but the library and the caller.
Answered == <>(pc = "done")
=============================================================================
