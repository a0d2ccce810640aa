-------------------------- MODULE TracedReportProofs --------------------------
(* Theorems about what a traced call reports: the status of its span and its  *)
(* token counts agree with what happened, for every set of wrappers of the    *)
(* shapes Tells and Tallies; and the types of a call.                         *)
EXTENDS TracedCallProofs

-----------------------------------------------------------------------------
(* Steps left to take.                                                        *)

\* Steps that follow OK.
OnlyMeters(steps) ==
    \A i \in 1..Len(steps) :
        steps[i].do # "noted" /\ (steps[i].safe \/ "metrics" \in steps[i].when)
NoneNoted(steps) == \A i \in 1..Len(steps) : steps[i].do # "noted"

LEMMA NoSteps ==
    /\ NeverOk(<<>>) /\ OkLast(<<>>) /\ ~MayRaise(<<>>) /\ OkThenMeter(<<>>)
    /\ NotedLast(<<>>) /\ OnlyMeters(<<>>) /\ NoneNoted(<<>>)
    /\ CountsLast(<<>>) /\ ~ReadsUsage(<<>>) /\ ~AlwaysEstimates(<<>>)
    /\ ~TakesZeroForNone(<<>>)
BY DEF NeverOk, OkLast, MayRaise, OkThenMeter, NotedLast, OnlyMeters, NoneNoted,
       CountsLast, ReadsUsage, AlwaysEstimates, TakesZeroForNone

LEMMA StepsLeft ==
    ASSUME NEW q \in Seq(StepShape), q # <<>>
    PROVE  /\ 1 \in 1..Len(q) /\ Head(q) = q[1] /\ Head(q) \in StepShape
           /\ \A i \in 1..Len(Tail(q)) : Tail(q)[i] = q[i + 1] /\ i + 1 \in 1..Len(q)
OBVIOUS

LEMMA StatusStepsLeft ==
    ASSUME NEW q \in Seq(StepShape), q # <<>>
    PROVE  /\ NeverOk(q) => NeverOk(Tail(q)) /\ ~SaysOk(Head(q))
           /\ OkLast(q) => /\ OkLast(Tail(q))
                           /\ SaysOk(Head(q)) => ~MayRaise(Tail(q))
           /\ OkThenMeter(q) => /\ OkThenMeter(Tail(q))
                                /\ SaysOk(Head(q)) => OnlyMeters(Tail(q))
           /\ NotedLast(q) => /\ NotedLast(Tail(q))
                              /\ Head(q).do = "noted" => NeverOk(Tail(q))
           /\ OnlyMeters(q) =>
                  /\ OnlyMeters(Tail(q)) /\ Head(q).do # "noted"
                  /\ Head(q).safe \/ "metrics" \in Head(q).when
           /\ NoneNoted(q) => NoneNoted(Tail(q)) /\ Head(q).do # "noted"
           /\ MayRaise(Tail(q)) \/ ~Head(q).safe => MayRaise(q)
<1> DEFINE h == Head(q)
           t == Tail(q)
<1>1. /\ 1 \in 1..Len(q) /\ h = q[1]
      /\ \A i \in 1..Len(t) : t[i] = q[i + 1] /\ i + 1 \in 1..Len(q) /\ 1 < i + 1
      /\ \A i, j \in 1..Len(t) : i < j => i + 1 < j + 1
  BY StepsLeft
<1> HIDE DEF h, t
<1>2. NeverOk(q) => NeverOk(t) /\ ~SaysOk(h)
  BY <1>1 DEF NeverOk
<1>3. OkLast(q) => OkLast(t) /\ (SaysOk(h) => ~MayRaise(t))
  BY <1>1 DEF OkLast, MayRaise
<1>4. OkThenMeter(q) => OkThenMeter(t) /\ (SaysOk(h) => OnlyMeters(t))
  BY <1>1 DEF OkThenMeter, OnlyMeters
<1>5. NotedLast(q) => NotedLast(t) /\ (h.do = "noted" => NeverOk(t))
  BY <1>1 DEF NotedLast, NeverOk
<1>6. /\ OnlyMeters(q) => /\ OnlyMeters(t) /\ h.do # "noted"
                          /\ h.safe \/ "metrics" \in h.when
      /\ NoneNoted(q) => NoneNoted(t) /\ h.do # "noted"
  BY <1>1 DEF OnlyMeters, NoneNoted
<1>7. MayRaise(t) \/ ~h.safe => MayRaise(q)
  BY <1>1 DEF MayRaise
<1> QED
  BY <1>2, <1>3, <1>4, <1>5, <1>6, <1>7 DEF h, t

-----------------------------------------------------------------------------
(* The status of the span.                                                    *)

\* What each operation makes of the span being written.
LEMMA OpsWrite ==
    ASSUME Shaped, cur # 0
    PROVE  LET s == spans[cur] IN
           /\ s \in SpanShape
           /\ LET x == OnCur(End)[cur] IN
                 ~x.open /\ x.status = s.status /\ x.exc = s.exc
           /\ LET x == OnCur(EndByException)[cur] IN
                 /\ ~x.open /\ x.exc = (s.exc \/ s.open)
                 /\ x.status = IF s.open /\ s.status # "OK" THEN "ERROR" ELSE s.status
           /\ LET x == OnCur(handle_exception)[cur] IN
                 /\ x.open = s.open /\ x.exc = (s.exc \/ s.open)
                 /\ x.status = IF s.open /\ s.status # "OK" THEN "ERROR" ELSE s.status
           /\ LET x == OnCur(SetContent)[cur] IN
                 x.open = s.open /\ x.status = s.status /\ x.exc = s.exc
           /\ LET x == OnCur(LAMBDA y : SetStatus(y, "OK"))[cur] IN
                 /\ x.open = s.open /\ x.exc = s.exc
                 /\ x.status = IF s.open THEN "OK" ELSE s.status
<1>1. cur \in 1..Len(spans) /\ spans[cur] \in SpanShape
  BY DEF Shaped
<1>2. OnCur(SetContent)[cur] = SetContent(spans[cur])
  BY <1>1 DEF OnCur, Shaped
<1> DEFINE s == spans[cur]
<1>3. s \in SpanShape
  BY <1>1
<1> HIDE DEF s
<1>4. ~End(s).open /\ End(s).status = s.status /\ End(s).exc = s.exc
  BY <1>3 DEF End, SpanShape
<1>5. LET x == handle_exception(s) IN
      /\ x \in SpanShape
      /\ x.open = s.open /\ x.exc = (s.exc \/ s.open)
      /\ x.status = IF s.open /\ s.status # "OK" THEN "ERROR" ELSE s.status
  BY <1>3 DEF handle_exception, SetStatus, RecordException, SpanShape
<1>6. LET x == EndByException(s) IN
      /\ ~x.open /\ x.exc = (s.exc \/ s.open)
      /\ x.status = IF s.open /\ s.status # "OK" THEN "ERROR" ELSE s.status
  BY <1>3, <1>5 DEF EndByException, End, SpanShape
<1>7. LET x == SetContent(s) IN
      x.open = s.open /\ x.status = s.status /\ x.exc = s.exc
  BY <1>3 DEF SetContent, SpanShape
<1>8. LET x == SetStatus(s, "OK") IN
      /\ x.open = s.open /\ x.exc = s.exc
      /\ x.status = IF s.open THEN "OK" ELSE s.status
  BY <1>3 DEF SetStatus, SpanShape
<1> QED
  BY <1>2, <1>3, <1>4, <1>5, <1>6, <1>7, <1>8, OnCurOps DEF Shaped, s

\* Where the answer and the steps left are, at each place.
Placed ==
    /\ Shaped /\ Honest
    /\ pc # "owed"
    /\ pc = "logic" => answer = "value"
    /\ pc \notin {"pre", "logic", "final"} => todo = <<>>
    /\ pc \in {"enter", "bare", "first"} => cur = 0
    /\ OkThenMeter(todo) /\ NotedLast(todo)
    /\ MetersBeforeOk(w) => OkLast(todo)
    /\ pc = "logic" /\ w.proc # "kept" => OkLast(todo)
    /\ pc = "pre" => /\ NeverOk(todo) /\ NoneNoted(todo)
                     /\ MayRaise(todo) => MayRaise(w.pre)
    /\ pc = "final" => app # "broken" /\ (app = "raised" => NeverOk(todo))

LEMMA PlacedInit == Init => Placed
BY ShapedInit, HonestInit, NoSteps DEF Init, Placed

LEMMA PlacedNext ==
    ASSUME Tells(w), Placed, [Next]_vars
    PROVE  Placed'
<1> Shaped /\ Shaped' /\ Honest /\ Honest' /\ UNCHANGED w
  BY ShapedNext, HonestNext, StepTodo DEF Placed
<1> /\ OkThenMeter(w.pre) /\ NotedLast(w.pre) /\ OkLast(w.pre) /\ NoneNoted(w.pre)
    /\ MetersBeforeOk(w) = MetersBeforeOk(w)'
  BY DEF Tells, NeverOk, OkLast, OkThenMeter, NotedLast, NoneNoted
<1> MetersBeforeOk(w) => OkLast(w.logic) /\ OkLast(w.stream.logic)
  BY DEF MetersBeforeOk
<1> USE NoSteps DEF Placed, Tells, Honest, PC, Polled, AsksForStream, Recalls,
        call, lib, tele, past
<1>1. CASE UNCHANGED vars
  BY <1>1 DEF vars
<1>2. CASE Skip
  BY <1>2 DEF Skip
<1>3. CASE BareAnswers
  BY <1>3 DEF BareAnswers, Faults
<1>4. CASE OpenSpan
  BY <1>4 DEF OpenSpan
<1>5. CASE CallFirst
  BY <1>5 DEF CallFirst
<1>6. CASE HandGenerator
  BY <1>6 DEF HandGenerator
<1>7. CASE FirstRaises
  BY <1>7 DEF FirstRaises, Faults
<1>8. CASE FirstStreams
  BY <1>8 DEF FirstStreams
<1>9. CASE StreamAgain
  BY <1>9 DEF StreamAgain
<1>10. CASE FirstReturns
  BY <1>10 DEF FirstReturns
<1>11. CASE TakeStep
  BY <1>11, StatusStepsLeft DEF TakeStep, Shaped
<1>12. CASE HelperFails
  BY <1>12, StatusStepsLeft DEF HelperFails, Shaped
<1>13. CASE PreFails
  BY <1>13 DEF PreFails
<1>14. CASE Call
  BY <1>14 DEF Call
<1>15. CASE CallLazy
  BY <1>15 DEF CallLazy
<1>16. CASE Await
  BY <1>16 DEF Await, Faults
<1>17. CASE LibraryStreams
  BY <1>17 DEF LibraryStreams
<1>18. CASE LibraryReturns
  BY <1>18 DEF LibraryReturns
<1>19. CASE LibraryRaises
  BY <1>19 DEF LibraryRaises
<1>20. CASE LibraryCancelled
  BY <1>20 DEF LibraryCancelled
<1>21. CASE HandleLibrary
  BY <1>21 DEF HandleLibrary
<1>22. CASE LogicFails
  BY <1>22 DEF LogicFails
<1>23. CASE Recall
  BY <1>23 DEF Recall
<1>24. CASE AgainAnswers
  BY <1>24 DEF AgainAnswers
<1>25. CASE Return
  BY <1>25 DEF Return
<1>26. CASE FirstPoll
  BY <1>26 DEF FirstPoll
<1>27. CASE Item
  BY <1>27 DEF Item, Reading
<1>28. CASE ItemFails
  BY <1>28 DEF ItemFails, Reading
<1>29. CASE StreamFails
  BY <1>29 DEF StreamFails, Reading
<1>30. CASE HandleBreak
  BY <1>30 DEF HandleBreak
<1>31. CASE PollOn
  BY <1>31 DEF PollOn
<1>32. CASE Stop
  BY <1>32 DEF Stop, Reading
<1>33. CASE StopLate
  BY <1>33 DEF StopLate, Reading
<1>34. CASE IterateOnce
  BY <1>34 DEF IterateOnce
<1>35. CASE Leave
  BY <1>35 DEF Leave
<1>36. CASE Quit
  BY <1>36 DEF Quit
<1>37. CASE FinalFails
  BY <1>37 DEF FinalFails, Ended
<1>38. CASE FinalDone
  BY <1>38 DEF FinalDone, Ended
<1>39. CASE PollAgain
  BY <1>39 DEF PollAgain
<1> QED
  BY <1>1, <1>2, <1>3, <1>4, <1>5, <1>6, <1>7, <1>8, <1>9, <1>10, <1>11,
     <1>12, <1>13, <1>14, <1>15, <1>16, <1>17, <1>18, <1>19, <1>20, <1>21,
     <1>22, <1>23, <1>24, <1>25, <1>26, <1>27, <1>28, <1>29, <1>30, <1>31,
     <1>32, <1>33, <1>34, <1>35, <1>36, <1>37, <1>38, <1>39 DEF Next

\* What the span of the report says (o: open, t: status).  OK stands only where
\* the caller has, or will get, its answer, and is followed by the recording of
\* the duration only.
Written(o, t) ==
    /\ t = "OK" => /\ pc \in {"logic", "final", "done"}
                   /\ o => OnlyMeters(todo)
                   /\ o /\ (MetersBeforeOk(w) \/ (pc = "logic" /\ w.proc # "kept")) =>
                          ~MayRaise(todo)
                   /\ pc = "logic" => o
                   /\ pc = "final" => app \in {"stream", "left", "stopped"}
                   /\ pc = "done" => app \in {"value", "stopped", "left"}
    /\ pc = "done" /\ app = "stopped" => ~o
    /\ Within => ~o /\ t # "OK"

\* A recorded exception (e) shows in the status, and no OK is left to be set on
\* the span while it is open.
Shown(o, t, e) ==
    /\ e => t = "ERROR"
    /\ o /\ e => /\ NeverOk(todo)
                 /\ pc \in {"pre", "wait"} => NeverOk(w.logic)
                 /\ pc \in {"pre", "wait", "stream", "broke"}
                    \/ (pc = "done" /\ app = "raised") =>
                        \/ NeverOk(w.stream.logic)
                        \/ w.stream.ends = "replace" /\ w.stream.quits = "leave"

Quiet == MetersBeforeOk(w) \/ "metrics" \notin on

Telling ==
    /\ Placed
    /\ cur # 0 => Written(spans[cur].open, spans[cur].status)
    /\ cur # 0 /\ Quiet => Shown(spans[cur].open, spans[cur].status, spans[cur].exc)

\* A step after OK fails only in recording the duration.
LEMMA FailsAfterOk ==
    ASSUME Placed, CanFail, OnlyMeters(todo)
    PROVE  "metrics" \in on /\ MayRaise(todo)
<1>1. todo \in Seq(StepShape) /\ todo # <<>> /\ ~Head(todo).safe
      /\ Head(todo).when \subseteq on \cup got /\ got \subseteq Facts
  BY DEF Placed, Shaped, CanFail, Takes
<1>2. "metrics" \in Head(todo).when /\ MayRaise(todo)
  BY <1>1, StatusStepsLeft
<1> QED
  BY <1>1, <1>2 DEF Facts

LEMMA WrittenNext ==
    ASSUME Tells(w), Telling, [Next]_vars, cur' # 0
    PROVE  Written(spans[cur].open, spans[cur].status)'
<1> /\ Placed /\ Placed' /\ Shaped /\ Honest /\ UNCHANGED w
    /\ MetersBeforeOk(w) = MetersBeforeOk(w)'
  BY PlacedNext, StepTodo DEF Telling, Placed
<1> NewSpan.open /\ NewSpan.status = "UNSET" /\ ~NewSpan.exc
  BY DEF NewSpan
<1> cur # 0 => Written(spans[cur].open, spans[cur].status)
  BY DEF Telling
<1> USE NoSteps DEF Written, Placed, Tells, Honest, Within, Polled, AsksForStream,
        Recalls, call, lib, tele, past
<1>1. CASE UNCHANGED vars
  BY <1>1 DEF vars
<1>2. CASE Skip
  BY <1>2 DEF Skip
<1>3. CASE BareAnswers
  BY <1>3 DEF BareAnswers, Faults
<1>4. CASE OpenSpan
  BY <1>4 DEF OpenSpan
<1>5. CASE CallFirst
  BY <1>5 DEF CallFirst
<1>6. CASE HandGenerator
  BY <1>6 DEF HandGenerator
<1>7. CASE FirstRaises
  BY <1>7 DEF FirstRaises, Faults
<1>8. CASE FirstStreams
  BY <1>8 DEF FirstStreams
<1>9. CASE StreamAgain
  BY <1>9 DEF StreamAgain
<1>10. CASE FirstReturns
  BY <1>10 DEF FirstReturns
<1>11. CASE TakeStep
  BY <1>11, StatusStepsLeft, OpsWrite DEF TakeStep, Run, Shaped
<1>12. CASE HelperFails
  BY <1>12, StatusStepsLeft, OpsWrite DEF HelperFails, Shaped
<1>13. CASE PreFails
  BY <1>13, OpsWrite DEF PreFails
<1>14. CASE Call
  BY <1>14 DEF Call
<1>15. CASE CallLazy
  BY <1>15 DEF CallLazy
<1>16. CASE Await
  BY <1>16 DEF Await, Faults
<1>17. CASE LibraryStreams
  BY <1>17, OpsWrite DEF LibraryStreams
<1>18. CASE LibraryReturns
  BY <1>18 DEF LibraryReturns
<1>19. CASE LibraryRaises
  BY <1>19 DEF LibraryRaises
<1>20. CASE LibraryCancelled
  BY <1>20, OpsWrite DEF LibraryCancelled
<1>21. CASE HandleLibrary
  BY <1>21, OpsWrite DEF HandleLibrary
<1>22. CASE LogicFails
  BY <1>22, FailsAfterOk, OpsWrite DEF LogicFails
<1>23. CASE Recall
  BY <1>23, FailsAfterOk, OpsWrite DEF Recall
<1>24. CASE AgainAnswers
  BY <1>24, AgainSpans, OpsWrite DEF AgainAnswers
<1>25. CASE Return
  BY <1>25, OpsWrite DEF Return
<1>26. CASE FirstPoll
  BY <1>26 DEF FirstPoll
<1>27. CASE Item
  BY <1>27 DEF Item, Reading
<1>28. CASE ItemFails
  BY <1>28 DEF ItemFails, Reading
<1>29. CASE StreamFails
  BY <1>29 DEF StreamFails, Reading
<1>30. CASE HandleBreak
  BY <1>30, OpsWrite DEF HandleBreak
<1>31. CASE PollOn
  BY <1>31 DEF PollOn
<1>32. CASE Stop
  <2>1. CASE w.stream.ends = "replace"
    <3>1. spans'[cur'] = NewSpan
      BY <1>32, <2>1, NewSpans DEF Stop, FinishSpan, Shaped
    <3> QED
      BY <1>32, <2>1, <3>1 DEF Stop, Reading
  <2>2. CASE w.stream.ends # "replace"
    BY <1>32, <2>2 DEF Stop, Reading, FinishSpan
  <2> QED
    BY <2>1, <2>2
<1>33. CASE StopLate
  BY <1>33 DEF StopLate, Reading
<1>34. CASE IterateOnce
  BY <1>34 DEF IterateOnce
<1>35. CASE Leave
  BY <1>35 DEF Leave
<1>36. CASE Quit
  BY <1>36, OpsWrite DEF Quit
<1>37. CASE FinalFails
  BY <1>37, FailsAfterOk, OpsWrite DEF FinalFails, Ended
<1>38. CASE FinalDone
  BY <1>38, OpsWrite DEF FinalDone, Ended
<1>39. CASE PollAgain
  <2>1. CASE w.stream.ends = "replace"
    <3>1. spans'[cur'] = NewSpan
      BY <1>39, <2>1, NewSpans DEF PollAgain, FinishSpan, Shaped
    <3> QED
      BY <1>39, <2>1, <3>1 DEF PollAgain
  <2>2. CASE w.stream.ends # "replace"
    BY <1>39, <2>2 DEF PollAgain, FinishSpan
  <2> QED
    BY <2>1, <2>2
<1> QED
  BY <1>1, <1>2, <1>3, <1>4, <1>5, <1>6, <1>7, <1>8, <1>9, <1>10, <1>11,
     <1>12, <1>13, <1>14, <1>15, <1>16, <1>17, <1>18, <1>19, <1>20, <1>21,
     <1>22, <1>23, <1>24, <1>25, <1>26, <1>27, <1>28, <1>29, <1>30, <1>31,
     <1>32, <1>33, <1>34, <1>35, <1>36, <1>37, <1>38, <1>39 DEF Next

LEMMA ShownNext ==
    ASSUME Tells(w), Telling, [Next]_vars, cur' # 0, Quiet
    PROVE  Shown(spans[cur].open, spans[cur].status, spans[cur].exc)'
<1> Placed /\ Placed' /\ Shaped /\ Honest /\ UNCHANGED <<w, on>>
  BY PlacedNext, StepTodo DEF Telling, Placed
<1> NewSpan.open /\ NewSpan.status = "UNSET" /\ ~NewSpan.exc
  BY DEF NewSpan
<1> cur # 0 => /\ Written(spans[cur].open, spans[cur].status)
               /\ Shown(spans[cur].open, spans[cur].status, spans[cur].exc)
  BY DEF Telling
<1> CanFail /\ OnlyMeters(todo) => MetersBeforeOk(w) /\ MayRaise(todo)
  BY FailsAfterOk DEF Quiet
<1> USE NoSteps DEF Shown, Written, Placed, Tells, Honest, Within, Polled,
        AsksForStream, Recalls, call, lib, tele, past
<1>1. CASE UNCHANGED vars
  BY <1>1 DEF vars
<1>2. CASE Skip
  BY <1>2 DEF Skip
<1>3. CASE BareAnswers
  BY <1>3 DEF BareAnswers, Faults
<1>4. CASE OpenSpan
  BY <1>4 DEF OpenSpan
<1>5. CASE CallFirst
  BY <1>5 DEF CallFirst
<1>6. CASE HandGenerator
  BY <1>6 DEF HandGenerator
<1>7. CASE FirstRaises
  BY <1>7 DEF FirstRaises, Faults
<1>8. CASE FirstStreams
  BY <1>8 DEF FirstStreams
<1>9. CASE StreamAgain
  BY <1>9 DEF StreamAgain
<1>10. CASE FirstReturns
  BY <1>10 DEF FirstReturns
<1>11. CASE TakeStep
  BY <1>11, StatusStepsLeft, OpsWrite DEF TakeStep, Run, Shaped
<1>12. CASE HelperFails
  BY <1>12, StatusStepsLeft, OpsWrite DEF HelperFails, Shaped
<1>13. CASE PreFails
  <2>1. MayRaise(todo)
    BY <1>13, StatusStepsLeft DEF PreFails, CanFail, Shaped
  <2>2. CASE w.preKept
    BY <1>13, <2>1, <2>2, OpsWrite DEF PreFails
  <2>3. CASE ~w.preKept
    BY <1>13, <2>3, OpsWrite DEF PreFails
  <2> QED
    BY <2>2, <2>3
<1>14. CASE Call
  BY <1>14 DEF Call
<1>15. CASE CallLazy
  BY <1>15 DEF CallLazy
<1>16. CASE Await
  BY <1>16 DEF Await, Faults
<1>17. CASE LibraryStreams
  BY <1>17, OpsWrite DEF LibraryStreams
<1>18. CASE LibraryReturns
  BY <1>18 DEF LibraryReturns
<1>19. CASE LibraryRaises
  BY <1>19 DEF LibraryRaises
<1>20. CASE LibraryCancelled
  BY <1>20, OpsWrite DEF LibraryCancelled
<1>21. CASE HandleLibrary
  BY <1>21, OpsWrite DEF HandleLibrary
<1>22. CASE LogicFails
  BY <1>22, OpsWrite DEF LogicFails
<1>23. CASE Recall
  BY <1>23, OpsWrite DEF Recall
<1>24. CASE AgainAnswers
  BY <1>24, AgainSpans, OpsWrite DEF AgainAnswers
<1>25. CASE Return
  BY <1>25, OpsWrite DEF Return
<1>26. CASE FirstPoll
  BY <1>26 DEF FirstPoll
<1>27. CASE Item
  BY <1>27 DEF Item, Reading
<1>28. CASE ItemFails
  BY <1>28 DEF ItemFails, Reading
<1>29. CASE StreamFails
  BY <1>29 DEF StreamFails, Reading
<1>30. CASE HandleBreak
  BY <1>30, OpsWrite DEF HandleBreak
<1>31. CASE PollOn
  BY <1>31 DEF PollOn
<1>32. CASE Stop
  <2>1. CASE w.stream.ends = "replace"
    <3>1. spans'[cur'] = NewSpan
      BY <1>32, <2>1, NewSpans DEF Stop, FinishSpan, Shaped
    <3> QED
      BY <1>32, <2>1, <3>1 DEF Stop, Reading
  <2>2. CASE w.stream.ends # "replace"
    BY <1>32, <2>2 DEF Stop, Reading, FinishSpan
  <2> QED
    BY <2>1, <2>2
<1>33. CASE StopLate
  BY <1>33 DEF StopLate, Reading
<1>34. CASE IterateOnce
  BY <1>34 DEF IterateOnce
<1>35. CASE Leave
  BY <1>35 DEF Leave
<1>36. CASE Quit
  BY <1>36, OpsWrite DEF Quit
<1>37. CASE FinalFails
  BY <1>37, OpsWrite DEF FinalFails, Ended
<1>38. CASE FinalDone
  BY <1>38, OpsWrite DEF FinalDone, Ended
<1>39. CASE PollAgain
  <2>1. CASE w.stream.ends = "replace"
    <3>1. spans'[cur'] = NewSpan
      BY <1>39, <2>1, NewSpans DEF PollAgain, FinishSpan, Shaped
    <3> QED
      BY <1>39, <2>1, <3>1 DEF PollAgain
  <2>2. CASE w.stream.ends # "replace"
    BY <1>39, <2>2 DEF PollAgain, FinishSpan
  <2> QED
    BY <2>1, <2>2
<1> QED
  BY <1>1, <1>2, <1>3, <1>4, <1>5, <1>6, <1>7, <1>8, <1>9, <1>10, <1>11,
     <1>12, <1>13, <1>14, <1>15, <1>16, <1>17, <1>18, <1>19, <1>20, <1>21,
     <1>22, <1>23, <1>24, <1>25, <1>26, <1>27, <1>28, <1>29, <1>30, <1>31,
     <1>32, <1>33, <1>34, <1>35, <1>36, <1>37, <1>38, <1>39 DEF Next

\* Of a wrapper whose logic says OK at most once, after all that may go wrong
\* but the recording of the duration, and not after a helper that marks the
\* span, OK tells that the caller got the library's answer, a stream's end, or
\* left the stream; and an exception recorded shows as ERROR, those of the
\* recording too where it comes before OK (set_status and handle_exception).
THEOREM StatusAgrees ==
    Spec => [](Tells(w) => OkEarned /\ (Quiet => ExceptionShows))
<1> DEFINE Inv == Tells(w) => Telling
<1>1. Init => Inv
  BY PlacedInit DEF Init, Telling
<1>2. Inv /\ [Next]_vars => Inv'
  <2> SUFFICES ASSUME Tells(w), Telling, [Next]_vars PROVE Telling'
    BY StepTodo
  <2>1. Placed' /\ (Quiet' => Quiet)
    BY PlacedNext, StepTodo DEF Telling, Quiet
  <2> QED
    BY <2>1, WrittenNext, ShownNext DEF Telling
<1>3. Inv => (Tells(w) => OkEarned /\ (Quiet => ExceptionShows))
  BY DEF Telling, Written, Shown, OkEarned, ExceptionShows
<1> QED
  BY <1>1, <1>2, <1>3, PTL DEF Spec

-----------------------------------------------------------------------------
(* The token counts of the report.                                            *)

LEMMA TokenStepsLeft ==
    ASSUME NEW q \in Seq(StepShape), q # <<>>
    PROVE  /\ ReadsUsage(Tail(q)) => ReadsUsage(q)
           /\ Head(q).do = "gather" /\ "usage" \in Head(q).what => ReadsUsage(q)
           /\ AlwaysEstimates(Tail(q)) => AlwaysEstimates(q)
           /\ Head(q).do = "tokens" /\ Head(q).what = {"always"} => AlwaysEstimates(q)
           /\ TakesZeroForNone(Tail(q)) => TakesZeroForNone(q)
           /\ Head(q).do = "tokens" /\ Head(q).what = {"unless"} => TakesZeroForNone(q)
           /\ CountsLast(q) => /\ CountsLast(Tail(q))
                               /\ Head(q).do = "tokens" => ~ReadsUsage(Tail(q))
BY StepsLeft DEF ReadsUsage, AlwaysEstimates, TakesZeroForNone, CountsLast

LEMMA NothingCounted ==
    ASSUME NEW q, \A i \in 1..Len(q) : q[i].do # "tokens"
    PROVE  CountsLast(q) /\ ~AlwaysEstimates(q) /\ ~TakesZeroForNone(q)
BY DEF CountsLast, AlwaysEstimates, TakesZeroForNone

LEMMA NothingRead ==
    ASSUME NEW q, ~ReadsUsage(q)
    PROVE  CountsLast(q)
BY DEF CountsLast, ReadsUsage

\* Where usage may have been read, at each place, and that an estimate, made or
\* still to be made, goes with no usage read or still to be read; a stream that
\* is read on has counted nothing yet.
Tallying ==
    /\ Counts /\ tokens \in TokenSources
    /\ CountsLast(todo)
    /\ TakesZeroForNone(todo) => "zero" \notin given
    /\ tokens \in {"estimated", "zero"} \/ AlwaysEstimates(todo) =>
           "usage" \notin got /\ ~ReadsUsage(todo)
    /\ tokens # "none" => pc \in {"logic", "final", "done", "again", "owed"}
    /\ pc = "done" /\ app = "raised" /\ ~Polled => tokens = "none"
    /\ pc = "pre" => /\ \A i \in 1..Len(todo) : todo[i].do # "tokens"
                     /\ ReadsUsage(todo) => ReadsUsage(w.pre)
    /\ pc = "final" => ~ReadsUsage(todo)
    /\ "usage" \in got =>
         /\ pc \notin {"enter", "bare", "first"}
         /\ pc \in {"pre", "wait"} \/ (pc = "stream" /\ Polled /\ calls = 0) =>
                ReadsUsage(w.pre)
         /\ pc \in {"stream", "broke", "final"}
            \/ (pc = "done" /\ app \in {"stopped", "raised"}) =>
                ReadsUsage(w.pre) \/ "usage" \in w.stream.chunk.what

LEMMA TallyingInit == Init => Tallying
BY CountsInit, NoSteps DEF Init, Tallying, TokenSources

\* A step of the logic.
LEMMA TallyingTaken ==
    ASSUME Tallying, Counts', TakeStep
    PROVE  Tallying'
<1> DEFINE s == Head(todo)
<1>1. /\ todo \in Seq(StepShape) /\ todo # <<>> /\ todo' = Tail(todo)
      /\ pc \in {"pre", "logic", "final"}
      /\ UNCHANGED <<pc, w, on, given, app, calls, answer>>
  BY DEF TakeStep, Tallying, Counts, Shaped, call, lib
<1>2. /\ got' = IF s.do = "gather" THEN got \cup (s.what \cap given) ELSE got
      /\ tokens' = IF s.do = "tokens" THEN Counted(s) ELSE tokens
  BY DEF TakeStep, Run
<1>3. "usage" \in got' /\ "usage" \notin got => ReadsUsage(todo)
  BY <1>1, <1>2, TokenStepsLeft
<1>4. pc = "pre" => /\ \A i \in 1..Len(todo') : todo'[i].do # "tokens"
                    /\ s.do # "tokens"
  BY <1>1, StepsLeft DEF Tallying
<1>5. tokens' # tokens => /\ tokens' \in TokenSources /\ ~ReadsUsage(todo')
                          /\ tokens' \in {"estimated", "zero"} => "usage" \notin got'
                          /\ pc # "pre"
  <2> SUFFICES ASSUME tokens' # tokens
               PROVE  /\ tokens' \in TokenSources /\ ~ReadsUsage(todo')
                      /\ tokens' \in {"estimated", "zero"} => "usage" \notin got'
                      /\ pc # "pre"
    OBVIOUS
  <2>1. s.do = "tokens" /\ tokens' = Counted(s) /\ got' = got
    BY <1>2
  <2>2. ~ReadsUsage(todo') /\ pc # "pre"
    BY <1>1, <1>4, <2>1, TokenStepsLeft DEF Tallying
  <2>3. /\ s.what = {"always"} => "usage" \notin got
        /\ s.what = {"unless"} => "zero" \notin given
    BY <1>1, <2>1, TokenStepsLeft DEF Tallying
  <2> QED
    BY <2>1, <2>2, <2>3 DEF Counted, TokenSources
<1>6. /\ CountsLast(todo') /\ (ReadsUsage(todo') => ReadsUsage(todo))
      /\ AlwaysEstimates(todo') => AlwaysEstimates(todo)
      /\ TakesZeroForNone(todo') => TakesZeroForNone(todo)
  BY <1>1, TokenStepsLeft DEF Tallying
<1> HIDE DEF s
<1> QED
  BY <1>1, <1>2, <1>3, <1>4, <1>5, <1>6 DEF Tallying, Polled, AsksForStream

LEMMA TallyingNext ==
    ASSUME Tallies(w), ReportsOnce(w), CountsZero(w) \/ "zero" \notin given,
           Tallying, [Next]_vars
    PROVE  Tallying'
<1> Counts /\ Counts' /\ Honest /\ Shaped /\ UNCHANGED <<w, on, given>>
  BY CountsNext, StepTodo DEF Tallying, Counts
<1> /\ CountsLast(w.pre) /\ ~AlwaysEstimates(w.pre) /\ CountsLast(w.stream.logic)
    /\ ~TakesZeroForNone(w.pre)
    /\ TakesZeroForNone(w.logic) \/ TakesZeroForNone(w.stream.logic) =>
           "zero" \notin given
    /\ pc \notin {"pre", "logic", "final"} => todo = <<>>
    /\ pc = "final" /\ app = "raised" => Polled
  BY NothingCounted, NothingRead DEF Tallies, CountsZero, Counts
<1> USE NoSteps DEF Tallying, Tallies, Honest, PC, Polled, AsksForStream, Recalls,
        call, lib, tele, past
<1>1. CASE UNCHANGED vars
  BY <1>1 DEF vars
<1>2. CASE Skip
  BY <1>2 DEF Skip
<1>3. CASE BareAnswers
  BY <1>3 DEF BareAnswers, Faults
<1>4. CASE OpenSpan
  BY <1>4 DEF OpenSpan
<1>5. CASE CallFirst
  BY <1>5 DEF CallFirst
<1>6. CASE HandGenerator
  BY <1>6 DEF HandGenerator
<1>7. CASE FirstRaises
  BY <1>7 DEF FirstRaises, Faults
<1>8. CASE FirstStreams
  BY <1>8 DEF FirstStreams
<1>9. CASE StreamAgain
  BY <1>9 DEF StreamAgain
<1>10. CASE FirstReturns
  BY <1>10 DEF FirstReturns
<1>11. CASE TakeStep
  BY <1>11, TallyingTaken
<1>12. CASE HelperFails
  <2>1. todo \in Seq(StepShape) /\ todo # <<>> /\ todo' = Tail(todo)
    BY <1>12 DEF HelperFails, Shaped
  <2>2. /\ CountsLast(todo') /\ (ReadsUsage(todo') => ReadsUsage(todo))
        /\ AlwaysEstimates(todo') => AlwaysEstimates(todo)
        /\ TakesZeroForNone(todo') => TakesZeroForNone(todo)
        /\ pc = "pre" => \A i \in 1..Len(todo') : todo'[i].do # "tokens"
    BY <2>1, TokenStepsLeft, StepsLeft
  <2> QED
    BY <1>12, <2>2 DEF HelperFails
<1>13. CASE PreFails
  BY <1>13 DEF PreFails
<1>14. CASE Call
  BY <1>14 DEF Call
<1>15. CASE CallLazy
  BY <1>15 DEF CallLazy
<1>16. CASE Await
  BY <1>16 DEF Await, Faults
<1>17. CASE LibraryStreams
  BY <1>17 DEF LibraryStreams
<1>18. CASE LibraryReturns
  BY <1>18 DEF LibraryReturns
<1>19. CASE LibraryRaises
  BY <1>19 DEF LibraryRaises
<1>20. CASE LibraryCancelled
  BY <1>20 DEF LibraryCancelled
<1>21. CASE HandleLibrary
  BY <1>21 DEF HandleLibrary
<1>22. CASE LogicFails
  BY <1>22 DEF LogicFails
<1>23. CASE Recall
  BY <1>23 DEF Recall
<1>24. CASE AgainAnswers
  BY <1>24 DEF AgainAnswers
<1>25. CASE Return
  BY <1>25 DEF Return
<1>26. CASE FirstPoll
  BY <1>26 DEF FirstPoll
<1>27. CASE Item
  BY <1>27 DEF Item, Reading
<1>28. CASE ItemFails
  BY <1>28 DEF ItemFails, Reading
<1>29. CASE StreamFails
  BY <1>29 DEF StreamFails, Reading
<1>30. CASE HandleBreak
  BY <1>30 DEF HandleBreak
<1>31. CASE PollOn
  BY <1>31 DEF PollOn
<1>32. CASE Stop
  BY <1>32 DEF Stop, Reading
<1>33. CASE StopLate
  BY <1>33 DEF StopLate, Reading
<1>34. CASE IterateOnce
  BY <1>34 DEF IterateOnce
<1>35. CASE Leave
  BY <1>35 DEF Leave
<1>36. CASE Quit
  BY <1>36 DEF Quit
<1>37. CASE FinalFails
  BY <1>37 DEF FinalFails, Ended
<1>38. CASE FinalDone
  BY <1>38 DEF FinalDone, Ended
<1>39. CASE PollAgain
  BY <1>39 DEF PollAgain
<1> QED
  BY <1>1, <1>2, <1>3, <1>4, <1>5, <1>6, <1>7, <1>8, <1>9, <1>10, <1>11,
     <1>12, <1>13, <1>14, <1>15, <1>16, <1>17, <1>18, <1>19, <1>20, <1>21,
     <1>22, <1>23, <1>24, <1>25, <1>26, <1>27, <1>28, <1>29, <1>30, <1>31,
     <1>32, <1>33, <1>34, <1>35, <1>36, <1>37, <1>38, <1>39 DEF Next

\* Where tokens are counted after the usage is read, and estimated in any case
\* only where no usage is ever read, the counts a finished span reports are the
\* usage its answer carried; a usage of zero too, where no estimate is made of
\* a zero (the token counts of the response logic).
THEOREM UsageReported ==
    Spec => [](Tallies(w) /\ ReportsOnce(w) /\ (CountsZero(w) \/ "zero" \notin given)
                 => UsageKept)
<1> DEFINE Kept == Tallies(w) /\ ReportsOnce(w) /\ (CountsZero(w) \/ "zero" \notin given)
           Inv == Kept => Tallying
<1>1. Init => Inv
  BY TallyingInit
<1>2. Inv /\ [Next]_vars => Inv'
  BY TallyingNext, StepTodo
<1>3. Inv => (Kept => UsageKept)
  BY DEF Tallying, UsageKept, TokenSources
<1> QED
  BY <1>1, <1>2, <1>3, PTL DEF Spec

-----------------------------------------------------------------------------
(* Operations that raised are not run again.                                  *)

\* Where the library may still be called it has not raised.
NotYetRaised ==
    /\ w \in Wrappers
    /\ pc \in {"enter", "first", "pre", "wait", "logic", "owed", "stream"} => answer # "error"

LEMMA NotYetRaisedNext ==
    ASSUME \A v \in Wrappers : LeavesRaised(v),
           NotYetRaised, [Next]_vars
    PROVE  NotYetRaised' /\ (answer = "error" => UNCHANGED calls)
<1> UNCHANGED w
  BY StepTodo
<1> ~Recalls
  BY DEF Recalls, LeavesRaised, NotYetRaised
<1> USE DEF NotYetRaised, lib
<1>1. CASE UNCHANGED vars
  BY <1>1 DEF vars
<1>2. CASE \/ Skip \/ BareAnswers \/ OpenSpan \/ CallFirst \/ HandGenerator
           \/ FirstRaises \/ FirstStreams \/ StreamAgain \/ FirstReturns
  BY <1>2 DEF Skip, BareAnswers, OpenSpan, CallFirst, HandGenerator,
     FirstRaises, FirstStreams, StreamAgain, FirstReturns
<1>3. CASE \/ TakeStep \/ HelperFails \/ PreFails \/ Call \/ CallLazy \/ Await
           \/ LibraryStreams \/ LibraryReturns \/ LibraryRaises
           \/ LibraryCancelled
  BY <1>3 DEF TakeStep, HelperFails, PreFails, Call, CallLazy, Await, LibraryStreams,
     LibraryReturns, LibraryRaises, LibraryCancelled
<1>4. CASE \/ HandleLibrary \/ LogicFails \/ Recall \/ AgainAnswers \/ Return
  BY <1>4 DEF HandleLibrary, LogicFails, Recall, AgainAnswers, Return
<1>5. CASE \/ FirstPoll \/ Item \/ ItemFails \/ StreamFails \/ HandleBreak
           \/ PollOn \/ Stop \/ StopLate \/ IterateOnce
  BY <1>5 DEF FirstPoll, Item, ItemFails, StreamFails, HandleBreak, PollOn, Stop,
     StopLate, IterateOnce
<1>6. CASE \/ Leave \/ Quit \/ FinalFails \/ FinalDone \/ PollAgain
  BY <1>6 DEF Leave, Quit, FinalFails, FinalDone, PollAgain
<1> QED
  BY <1>1, <1>2, <1>3, <1>4, <1>5, <1>6 DEF Next

\* A wrapper whose handler of the library's exception does not call it again
\* runs an operation that raised once only, whatever its telemetry, its chunk
\* handlers and its other handlers do.
THEOREM RaisedOnce ==
    ASSUME \A v \in Wrappers : LeavesRaised(v)
    PROVE  Spec => RaisedOutside
<1>1. Init => NotYetRaised
  BY DEF Init, NotYetRaised
<1>2. NotYetRaised /\ [Next]_vars => NotYetRaised' /\ [answer = "error" => UNCHANGED calls]_vars
  BY NotYetRaisedNext
<1> QED
  BY <1>1, <1>2, PTL DEF Spec, RaisedOutside

-----------------------------------------------------------------------------
(* Types, and how much one call does at most.                                 *)

\* The calls of the library and the spans there are at each place: a wrapper
\* asks three times at most (a stream asked for twice, or a handler that calls
\* again), and starts two spans and one more for each poll past the end.
Bounded ==
    /\ Counts /\ Honest
    /\ on \in Calls /\ given \in Replies
    /\ pc = "logic" /\ ~w.lazy => answer = "value"
    /\ app \in Outcomes /\ tokens \in TokenSources /\ ctx \in {"outer", "inner"}
    /\ sent \in 0..MaxItems /\ polls \in 0..MaxPolls
    /\ calls \in 0..3
    /\ pc \in {"bare", "first", "pre"} => calls <= 1
    /\ pc = "enter" => calls = 0
    /\ pc \in {"wait", "logic", "owed", "raise", "stream", "broke"} => calls <= 2
    /\ app = "raised" => calls <= 2 /\ Len(spans) <= 1
    /\ thrown <= 1 + MaxPolls
    /\ pc \notin {"final", "done"} => thrown <= MaxPolls
    /\ pc \in {"enter", "bare", "first"} => spans = <<>>
    /\ pc \in {"stream", "broke"} => Len(spans) <= 1
    /\ pc \in {"pre", "wait"} /\ w.stream.opens # "twice" => Len(spans) <= 1
    /\ Len(spans) <= 2 + polls

LEMMA BoundedInit == Init => Bounded
BY CountsInit, HonestInit, CallAssumption DEF Init, Bounded, Outcomes, TokenSources

\* The operations on the span being written start none.
LEMMA OpsKeepLength ==
    ASSUME Shaped
    PROVE  /\ Len(OnCur(End)) = Len(spans)
           /\ Len(OnCur(EndByException)) = Len(spans)
           /\ Len(OnCur(handle_exception)) = Len(spans)
           /\ Len(OnCur(SetContent)) = Len(spans)
           /\ Len(OnCur(LAMBDA x : SetStatus(x, "OK"))) = Len(spans)
BY OnCurOps DEF Shaped, Rewrites

LEMMA BoundedNext ==
    ASSUME ReportsOnce(w), KeepsAnswers(w), Bounded, [Next]_vars
    PROVE  Bounded'
<1> /\ Counts /\ Counts' /\ Honest /\ Honest' /\ Shaped /\ Shaped'
    /\ UNCHANGED <<w, on, given>>
  BY CountsNext, HonestNext, StepTodo DEF Bounded, Counts, Shaped
<1> spans \in Seq(SpanShape) /\ spans' \in Seq(SpanShape)
  BY DEF Shaped
<1> MaxItems \in Nat /\ MaxPolls \in Nat
  BY CallAssumption
<1> USE OpsKeepLength DEF Bounded, KeepsAnswers, Outcomes, TokenSources, Polled, AsksForStream, Recalls,
        call, lib, tele, past
<1>1. CASE UNCHANGED vars
  BY <1>1 DEF vars
<1>2. CASE Skip
  BY <1>2 DEF Skip
<1>3. CASE BareAnswers
  BY <1>3 DEF BareAnswers, Faults
<1>4. CASE OpenSpan
  BY <1>4 DEF OpenSpan, Streaming
<1>5. CASE CallFirst
  BY <1>5 DEF CallFirst
<1>6. CASE HandGenerator
  BY <1>6 DEF HandGenerator
<1>7. CASE FirstRaises
  BY <1>7 DEF FirstRaises, Faults
<1>8. CASE FirstStreams
  <2>1. /\ pc = "first" /\ pc' = "stream" /\ app' = "stream"
        /\ spans' = spans \/ spans' = <<NewSpan>>
        /\ UNCHANGED <<w, on, given, calls, answer, sent, polls, thrown, tokens, ctx>>
    BY <1>8 DEF FirstStreams
  <2>2. Len(spans) = 0 /\ Len(<<NewSpan>>) = 1
    BY <2>1
  <2>3. CASE spans' = spans
    BY <2>1, <2>2, <2>3
  <2>4. CASE spans' = <<NewSpan>>
    <3>1. Len(spans') = 1
      BY <2>2, <2>4
    <3> QED
      BY <2>1, <3>1
  <2> QED
    BY <2>1, <2>3, <2>4
<1>9. CASE StreamAgain
  <2>1. /\ pc' = "pre" /\ spans' = <<NewSpan, NewSpan>> /\ w.stream.opens = "twice"
        /\ UNCHANGED <<w, on, given, calls, answer, sent, app, polls, thrown, tokens, ctx>>
    BY <1>9 DEF StreamAgain
  <2>2. Len(spans') = 2 /\ pc = "first" /\ app = "waiting"
    BY <1>9, <2>1 DEF StreamAgain, Honest
  <2> QED
    BY <2>1, <2>2
<1>10. CASE FirstReturns
  BY <1>10 DEF FirstReturns, Streaming
<1>11. CASE TakeStep
  BY <1>11 DEF TakeStep, Run, Counted
<1>12. CASE PreFails
  BY <1>12 DEF PreFails
<1>13. CASE Call
  BY <1>13 DEF Call
<1>14. CASE CallLazy
  BY <1>14 DEF CallLazy
<1>15. CASE Await
  BY <1>15 DEF Await, Faults
<1>16. CASE LibraryStreams
  BY <1>16 DEF LibraryStreams
<1>17. CASE LibraryReturns
  BY <1>17 DEF LibraryReturns
<1>18. CASE LibraryRaises
  BY <1>18 DEF LibraryRaises
<1>19. CASE LibraryCancelled
  BY <1>19 DEF LibraryCancelled
<1>20. CASE HandleLibrary
  BY <1>20 DEF HandleLibrary
<1>21. CASE LogicFails
  BY <1>21 DEF LogicFails
<1>22. CASE Recall
  <2>1. /\ pc \in {"raise", "logic"} /\ pc' = "again" /\ calls' = calls + 1
        /\ UNCHANGED <<w, on, given, answer, sent, app, polls, thrown, tokens, ctx>>
    BY <1>22 DEF Recall
  <2>2. Len(spans') = Len(spans)
    BY <1>22 DEF Recall
  <2>3. app # "raised"
    BY <2>1 DEF Honest
  <2> QED
    BY <2>1, <2>2, <2>3
<1>23. CASE AgainAnswers
  BY <1>23, AgainSpans DEF AgainAnswers
<1>24. CASE Return
  BY <1>24 DEF Return
<1>25. CASE FirstPoll
  BY <1>25 DEF FirstPoll
<1>26. CASE Item
  BY <1>26 DEF Item, Reading
<1>27. CASE ItemFails
  BY <1>27 DEF ItemFails, Reading
<1>28. CASE StreamFails
  BY <1>28 DEF StreamFails, Reading
<1>29. CASE HandleBreak
  <2>1. /\ pc = "broke" /\ pc' \in {"final", "done"}
        /\ app' = "raised" /\ thrown' = thrown + 1
        /\ UNCHANGED <<w, on, given, calls, answer, sent, polls, tokens, ctx>>
    BY <1>29 DEF HandleBreak
  <2>2. Len(spans') = Len(spans)
    BY <1>29 DEF HandleBreak
  <2>3. thrown' <= 1 + MaxPolls
    BY <2>1 DEF Honest
  <2>4. Len(spans') <= 1 /\ Len(spans') <= 2 + polls' /\ calls' <= 2
    BY <2>1, <2>2
  <2> QED
    BY <2>1, <2>3, <2>4
<1>30. CASE Stop
  <2>1. /\ pc = "stream" /\ pc' = "final"
        /\ UNCHANGED <<w, on, given, calls, answer, sent, app, polls, thrown, tokens, ctx>>
    BY <1>30 DEF Stop, Reading
  <2>2. Len(spans') \in {Len(spans), Len(spans) + 1}
    BY <1>30 DEF Stop, FinishSpan
  <2>3. app = "stream"
    BY <2>1 DEF Honest
  <2>4. Len(spans') <= 2 + polls'
    BY <2>1, <2>2
  <2>5. thrown' <= 1 + MaxPolls /\ calls' \in 0..3
    BY <2>1
  <2> QED
    BY <2>1, <2>3, <2>4, <2>5
<1>31. CASE StopLate
  BY <1>31 DEF StopLate, Reading
<1>32. CASE IterateOnce
  BY <1>32 DEF IterateOnce
<1>33. CASE Leave
  BY <1>33 DEF Leave
<1>34. CASE Quit
  BY <1>34 DEF Quit
<1>35. CASE FinalFails
  BY <1>35 DEF FinalFails, Ended
<1>36. CASE FinalDone
  BY <1>36 DEF FinalDone, Ended
<1>37. CASE PollAgain
  BY <1>37 DEF PollAgain, FinishSpan
<1>38. CASE HelperFails
  BY <1>38, OnCurOps DEF HelperFails
<1>39. CASE PollOn
  BY <1>39 DEF PollOn
<1> QED
  BY <1>1, <1>2, <1>3, <1>4, <1>5, <1>6, <1>7, <1>8, <1>9, <1>10, <1>11,
     <1>12, <1>13, <1>14, <1>15, <1>16, <1>17, <1>18, <1>19, <1>20, <1>21,
     <1>22, <1>23, <1>24, <1>25, <1>26, <1>27, <1>28, <1>29, <1>30, <1>31,
     <1>32, <1>33, <1>34, <1>35, <1>36, <1>37, <1>38, <1>39 DEF Next

\* Every variable of a call stays in its type: in particular a call asks the
\* library three times at most and starts two spans at most, one more for each
\* poll past the end, and the recorded durations and events stay bounded.
THEOREM CallTypes ==
    ASSUME \A v \in Wrappers : ReportsOnce(v) /\ KeepsAnswers(v)
    PROVE  Spec => []TypeOK
<1>1. Bounded /\ [Next]_vars => Bounded'
  BY BoundedNext DEF Bounded, Counts, Shaped
<1>2. Bounded => TypeOK
  BY CallAssumption DEF Bounded, TypeOK, Counts, Shaped, Honest, NeverInvented, Reported
<1> QED
  BY BoundedInit, <1>1, <1>2, PTL DEF Spec

===============================================================================
