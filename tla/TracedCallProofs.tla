--------------------------- MODULE TracedCallProofs ---------------------------
(* Theorems about a traced call, for every set of wrappers, every setting and *)
(* every number of items and polls.                                           *)
EXTENDS TracedCall, TLAPS

-----------------------------------------------------------------------------
(* No wrapper invents an outcome.                                             *)

\* What the application has, at each place of the wrapper; and that the items
\* it does not have were each lost to a poll that raised, or is about to.
Honest ==
    /\ pc \in PC /\ sent \in Nat /\ seen \in Nat /\ thrown \in Nat
    /\ answer \in {"none", "value", "error", "cancelled"}
    /\ pc \in {"enter", "bare", "first", "wait"} => app = "waiting"
    /\ pc = "pre" => app = IF Polled THEN "stream" ELSE "waiting"
    /\ pc \in {"stream", "broke"} => app = "stream"
    /\ pc = "final" => app \in {"stream", "broken", "left", "stopped", "raised"}
    /\ pc = "raise" /\ ~Recalls => answer = "error"
    /\ pc \in {"logic", "owed", "raise", "again"} => app \in {"waiting", "stream"}
    /\ app \in {"waiting", "stream", "stopped", "raised", "left"} =>
           sent <= seen + thrown + IF pc = "broke" THEN 1 ELSE 0
    /\ NeverInvented

LEMMA HonestInit == Init => Honest
BY DEF Init, Honest, NeverInvented, PC

LEMMA HonestNext == Honest /\ [Next]_vars => Honest'
<1> SUFFICES ASSUME Honest, [Next]_vars PROVE Honest'
  OBVIOUS
<1> USE DEF Honest, NeverInvented, PC, Polled, AsksForStream, Recalls, call, lib, tele, past
<1>1. CASE UNCHANGED vars
  BY <1>1 DEF vars
<1>2. CASE Skip
  BY <1>2 DEF Skip
<1>3. CASE BareAnswers
  BY <1>3 DEF BareAnswers, Faults
<1>4. CASE OpenSpan
  BY <1>4 DEF OpenSpan, Streaming
<1>5. CASE CallFirst
  BY <1>5 DEF CallFirst
<1>6. CASE HandGenerator
  BY <1>6 DEF HandGenerator
<1>7. CASE FirstRaises
  BY <1>7 DEF FirstRaises, Faults
<1>8. CASE FirstStreams
  BY <1>8 DEF FirstStreams
<1>9. CASE StreamAgain
  BY <1>9 DEF StreamAgain, Streaming
<1>10. CASE FirstReturns
  BY <1>10 DEF FirstReturns
<1>11. CASE TakeStep
  BY <1>11 DEF TakeStep
<1>12. CASE PreFails
  BY <1>12 DEF PreFails
<1>13. CASE Call
  BY <1>13 DEF Call
<1>14. CASE CallLazy
  BY <1>14 DEF CallLazy
<1>15. CASE Await
  BY <1>15 DEF Await, Faults
<1>16. CASE LibraryStreams
  BY <1>16 DEF LibraryStreams
<1>17. CASE LibraryReturns
  BY <1>17 DEF LibraryReturns
<1>18. CASE LibraryRaises
  BY <1>18 DEF LibraryRaises
<1>19. CASE LibraryCancelled
  BY <1>19 DEF LibraryCancelled
<1>20. CASE HandleLibrary
  BY <1>20 DEF HandleLibrary
<1>21. CASE LogicFails
  BY <1>21 DEF LogicFails
<1>22. CASE Recall
  BY <1>22 DEF Recall
<1>23. CASE AgainAnswers
  BY <1>23 DEF AgainAnswers
<1>24. CASE Return
  BY <1>24 DEF Return
<1>25. CASE FirstPoll
  BY <1>25 DEF FirstPoll
<1>26. CASE Item
  BY <1>26 DEF Item, Reading
<1>27. CASE ItemFails
  BY <1>27 DEF ItemFails, Reading
<1>28. CASE StreamFails
  BY <1>28 DEF StreamFails, Reading
<1>29. CASE HandleBreak
  BY <1>29 DEF HandleBreak
<1>30. CASE Stop
  BY <1>30 DEF Stop, Reading, FinishSpan
<1>31. CASE StopLate
  BY <1>31 DEF StopLate, Reading
<1>32. CASE IterateOnce
  BY <1>32 DEF IterateOnce
<1>33. CASE Leave
  BY <1>33 DEF Leave
<1>34. CASE Quit
  BY <1>34 DEF Quit
<1>35. CASE FinalFails
  BY <1>35 DEF FinalFails, Ended
<1>36. CASE FinalDone
  BY <1>36 DEF FinalDone, Ended
<1>37. CASE PollAgain
  BY <1>37 DEF PollAgain
<1>38. CASE HelperFails
  BY <1>38 DEF HelperFails
<1>39. CASE PollOn
  BY <1>39 DEF PollOn
<1> QED
  BY <1>1, <1>2, <1>3, <1>4, <1>5, <1>6, <1>7, <1>8, <1>9, <1>10, <1>11,
     <1>12, <1>13, <1>14, <1>15, <1>16, <1>17, <1>18, <1>19, <1>20, <1>21,
     <1>22, <1>23, <1>24, <1>25, <1>26, <1>27, <1>28, <1>29, <1>30, <1>31,
     <1>32, <1>33, <1>34, <1>35, <1>36, <1>37, <1>38, <1>39 DEF Next

\* Whatever wrappers the SDK is made of, a value, error or cancellation the
\* caller sees is the library's last answer, and of a stream that stopped, raised
\* or was left the caller has every item but those its failed polls lost: read on
\* after an exception of process_chunk, it lacks that item only (all wrappers and
\* traced streams).
THEOREM NothingInvented == Spec => []NeverInvented
<1>1. Honest => NeverInvented
  BY DEF Honest
<1> QED
  BY HonestInit, HonestNext, <1>1, PTL DEF Spec

-----------------------------------------------------------------------------
(* A wrapper that hands on is transparent.                                    *)

\* Where the library's one call and its answer are, at each place.
Through ==
    /\ w \in Wrappers /\ Honest
    /\ pc \notin {"again", "owed"} /\ calls \in {0, 1} /\ seen = sent
    /\ pc \in {"enter", "pre"} => calls = 0 /\ answer = "none"
    /\ pc \in {"bare", "first", "wait"} => calls = 1 /\ answer = "none"
    /\ pc = "logic" => calls = 1 /\ answer = "value" /\ app = "waiting"
    /\ pc = "raise" => calls = 1 /\ answer = "error" /\ app = "waiting"
    /\ pc = "stream" => answer = "none"
    /\ pc = "broke" => answer = "error"
    /\ pc = "final" => app # "broken"
    /\ pc \in {"final", "done"} /\ app \in {"stream", "stopped"} => answer = "none"
    /\ pc = "pre" /\ ~w.preKept => todo = <<>>

LEMMA ThroughInit == Init => Through
BY HonestInit DEF Init, Through

LEMMA ThroughNext ==
    ASSUME ~ChunksFail, \A v \in Wrappers : HandsOn(v), Through, [Next]_vars
    PROVE  Through'
<1> w \in Wrappers /\ HandsOn(w) /\ Honest /\ Honest'
  BY HonestNext DEF Through
<1> USE DEF Through, HandsOn, Honest, Polled, AsksForStream, Recalls, PC, call, lib, tele, past
<1>1. CASE UNCHANGED vars
  BY <1>1 DEF vars
<1>2. CASE Skip
  BY <1>2 DEF Skip
<1>3. CASE BareAnswers
  BY <1>3 DEF BareAnswers, Faults
<1>4. CASE OpenSpan
  BY <1>4 DEF OpenSpan
<1>5. CASE CallFirst
  BY <1>5 DEF CallFirst
<1>6. CASE HandGenerator
  BY <1>6 DEF HandGenerator
<1>7. CASE FirstRaises
  BY <1>7 DEF FirstRaises, Faults
<1>8. CASE FirstStreams
  BY <1>8 DEF FirstStreams
<1>9. CASE StreamAgain
  BY <1>9 DEF StreamAgain
<1>10. CASE FirstReturns
  BY <1>10 DEF FirstReturns
<1>11. CASE TakeStep
  BY <1>11 DEF TakeStep
<1>12. CASE PreFails
  BY <1>12 DEF PreFails, CanFail
<1>13. CASE Call
  BY <1>13 DEF Call
<1>14. CASE CallLazy
  BY <1>14 DEF CallLazy
<1>15. CASE Await
  BY <1>15 DEF Await
<1>16. CASE LibraryStreams
  BY <1>16 DEF LibraryStreams
<1>17. CASE LibraryReturns
  BY <1>17 DEF LibraryReturns
<1>18. CASE LibraryRaises
  BY <1>18 DEF LibraryRaises
<1>19. CASE LibraryCancelled
  BY <1>19 DEF LibraryCancelled
<1>20. CASE HandleLibrary
  BY <1>20 DEF HandleLibrary
<1>21. CASE LogicFails
  BY <1>21 DEF LogicFails
<1>22. CASE Recall
  BY <1>22 DEF Recall
<1>23. CASE AgainAnswers
  BY <1>23 DEF AgainAnswers
<1>24. CASE Return
  BY <1>24 DEF Return
<1>25. CASE FirstPoll
  BY <1>25 DEF FirstPoll
<1>26. CASE Item
  BY <1>26 DEF Item, Reading
<1>27. CASE ItemFails
  BY <1>27 DEF ItemFails, Reading
<1>28. CASE StreamFails
  BY <1>28 DEF StreamFails, Reading
<1>29. CASE HandleBreak
  BY <1>29 DEF HandleBreak
<1>30. CASE Stop
  BY <1>30 DEF Stop, Reading, FinishSpan
<1>31. CASE StopLate
  BY <1>31 DEF StopLate, Reading
<1>32. CASE IterateOnce
  BY <1>32 DEF IterateOnce
<1>33. CASE Leave
  BY <1>33 DEF Leave
<1>34. CASE Quit
  BY <1>34 DEF Quit
<1>35. CASE FinalFails
  BY <1>35 DEF FinalFails, Ended
<1>36. CASE FinalDone
  BY <1>36 DEF FinalDone, Ended
<1>37. CASE PollAgain
  BY <1>37 DEF PollAgain
<1>38. CASE HelperFails
  BY <1>38 DEF HelperFails
<1>39. CASE PollOn
  BY <1>39 DEF PollOn
<1> QED
  BY <1>1, <1>2, <1>3, <1>4, <1>5, <1>6, <1>7, <1>8, <1>9, <1>10, <1>11,
     <1>12, <1>13, <1>14, <1>15, <1>16, <1>17, <1>18, <1>19, <1>20, <1>21,
     <1>22, <1>23, <1>24, <1>25, <1>26, <1>27, <1>28, <1>29, <1>30, <1>31,
     <1>32, <1>33, <1>34, <1>35, <1>36, <1>37, <1>38, <1>39 DEF Next

\* Each step of the traced call is a step of the bare one, or changes nothing
\* the caller sees.
LEMMA ThroughStep ==
    ASSUME ~ChunksFail, \A v \in Wrappers : HandsOn(v), Through, [Next]_vars
    PROVE  [Plain!Next]_(Plain!vars)
<1> w \in Wrappers /\ HandsOn(w)
  BY DEF Through
<1> USE DEF Through, HandsOn, Honest, Polled, AsksForStream, Recalls, PC, call, lib, tele, past,
            Plain!Next, Plain!vars
<1>1. CASE UNCHANGED vars
  BY <1>1 DEF vars
<1>2. CASE Skip
  BY <1>2 DEF Skip, Plain!Invoke
<1>3. CASE BareAnswers
  BY <1>3 DEF BareAnswers, Faults, Plain!RespondAndReceive, Plain!Answers
<1>4. CASE OpenSpan
  BY <1>4 DEF OpenSpan
<1>5. CASE CallFirst
  BY <1>5 DEF CallFirst, Plain!Invoke
<1>6. CASE HandGenerator
  BY <1>6 DEF HandGenerator, Plain!HandOver
<1>7. CASE FirstRaises
  BY <1>7 DEF FirstRaises, Faults, Plain!RespondAndReceive, Plain!Answers
<1>8. CASE FirstStreams
  BY <1>8 DEF FirstStreams, Plain!HandOver
<1>9. CASE StreamAgain
  BY <1>9 DEF StreamAgain
<1>10. CASE FirstReturns
  BY <1>10 DEF FirstReturns, Plain!Respond, Plain!Answers
<1>11. CASE TakeStep
  BY <1>11 DEF TakeStep
<1>12. CASE PreFails
  BY <1>12 DEF PreFails, CanFail
<1>13. CASE Call
  BY <1>13 DEF Call, Plain!Invoke
<1>14. CASE CallLazy
  BY <1>14 DEF CallLazy
<1>15. CASE Await
  BY <1>15 DEF Await
<1>16. CASE LibraryStreams
  BY <1>16 DEF LibraryStreams, Plain!HandOver
<1>17. CASE LibraryReturns
  BY <1>17 DEF LibraryReturns, Plain!Respond, Plain!Answers
<1>18. CASE LibraryRaises
  BY <1>18 DEF LibraryRaises, Plain!Respond, Plain!Answers
<1>19. CASE LibraryCancelled
  BY <1>19 DEF LibraryCancelled, Plain!RespondAndReceive, Plain!Answers
<1>20. CASE HandleLibrary
  BY <1>20 DEF HandleLibrary, Plain!Receive, Plain!Answers
<1>21. CASE LogicFails
  BY <1>21 DEF LogicFails, Plain!Receive, Plain!Answers
<1>22. CASE Recall
  BY <1>22 DEF Recall
<1>23. CASE AgainAnswers
  BY <1>23 DEF AgainAnswers
<1>24. CASE Return
  BY <1>24 DEF Return, Plain!Receive, Plain!Answers
<1>25. CASE FirstPoll
  BY <1>25 DEF FirstPoll
<1>26. CASE Item
  BY <1>26 DEF Item, Reading, Plain!Item
<1>27. CASE ItemFails
  BY <1>27 DEF ItemFails, Reading
<1>28. CASE StreamFails
  BY <1>28 DEF StreamFails, Reading, Plain!Break
<1>29. CASE HandleBreak
  BY <1>29 DEF HandleBreak, Plain!Told
<1>30. CASE Stop
  BY <1>30 DEF Stop, Reading, FinishSpan
<1>31. CASE StopLate
  BY <1>31 DEF StopLate, Reading
<1>32. CASE IterateOnce
  BY <1>32 DEF IterateOnce
<1>33. CASE Leave
  BY <1>33 DEF Leave, Plain!Finish
<1>34. CASE Quit
  BY <1>34 DEF Quit, Plain!Finish
<1>35. CASE FinalFails
  BY <1>35 DEF FinalFails, Ended, Plain!Finish
<1>36. CASE FinalDone
  BY <1>36 DEF FinalDone, Ended, Plain!Finish
<1>37. CASE PollAgain
  BY <1>37 DEF PollAgain
<1>38. CASE HelperFails
  BY <1>38 DEF HelperFails
<1>39. CASE PollOn
  BY <1>39 DEF PollOn, Plain!GoOn
<1> QED
  BY <1>1, <1>2, <1>3, <1>4, <1>5, <1>6, <1>7, <1>8, <1>9, <1>10, <1>11,
     <1>12, <1>13, <1>14, <1>15, <1>16, <1>17, <1>18, <1>19, <1>20, <1>21,
     <1>22, <1>23, <1>24, <1>25, <1>26, <1>27, <1>28, <1>29, <1>30, <1>31,
     <1>32, <1>33, <1>34, <1>35, <1>36, <1>37, <1>38, <1>39 DEF Next

\* With wrappers that hand on, whose chunk functions do not raise, the caller
\* of a traced function sees a behaviour of the bare function, whatever the
\* response logic and the streams' ends do.
THEOREM Transparency ==
    ASSUME ~ChunksFail, \A v \in Wrappers : HandsOn(v)
    PROVE  Spec => Transparent
<1>1. Init => Plain!Init
  BY DEF Init, Plain!Init
<1>2. Through /\ [Next]_vars => Through'
  BY ThroughNext
<1>3. Through /\ [Next]_vars => [Plain!Next]_(Plain!vars)
  BY ThroughStep
<1> QED
  BY ThroughInit, <1>1, <1>2, <1>3, PTL DEF Spec, Transparent, Plain!Spec

-----------------------------------------------------------------------------
(* What the steps and the spans are.                                          *)

SpanShape == [open : BOOLEAN, status : {"UNSET", "OK", "ERROR"}, exc : BOOLEAN,
              said : BOOLEAN]

LEMMA SpanOps ==
    ASSUME NEW s \in SpanShape
    PROVE  /\ End(s) \in SpanShape /\ ~End(s).open
           /\ EndByException(s) \in SpanShape /\ ~EndByException(s).open
           /\ handle_exception(s) \in SpanShape
           /\ SetContent(s) \in SpanShape
           /\ SetStatus(s, "OK") \in SpanShape
           /\ End(s).said = s.said /\ EndByException(s).said = s.said
           /\ handle_exception(s).said = s.said
           /\ SetStatus(s, "OK").said = s.said
<1>1. handle_exception(s) \in SpanShape /\ handle_exception(s).said = s.said
  BY DEF SpanShape, handle_exception, SetStatus, RecordException
<1>2. ASSUME NEW x \in SpanShape
      PROVE  End(x) \in SpanShape /\ ~End(x).open /\ End(x).said = x.said
  BY DEF SpanShape, End
<1>3. SetContent(s) \in SpanShape
  BY DEF SpanShape, SetContent
<1>4. SetStatus(s, "OK") \in SpanShape /\ SetStatus(s, "OK").said = s.said
  BY DEF SpanShape, SetStatus
<1> QED
  BY <1>1, <1>2, <1>3, <1>4 DEF EndByException

LEMMA NewSpanShape == NewSpan \in SpanShape /\ ~NewSpan.said
BY DEF NewSpan, SpanShape

LEMMA Replaced ==
    ASSUME NEW S, NEW q \in Seq(S), NEW k \in 1..Len(q), NEW x \in S
    PROVE  /\ [q EXCEPT ![k] = x] \in Seq(S)
           /\ Len([q EXCEPT ![k] = x]) = Len(q)
           /\ \A i \in 1..Len(q) : [q EXCEPT ![k] = x][i] = IF i = k THEN x ELSE q[i]
OBVIOUS

\* spans rewritten at cur at most.
Rewrites(ss) ==
    /\ ss \in Seq(SpanShape) /\ Len(ss) = Len(spans)
    /\ \A i \in 1..Len(spans) : i # cur => ss[i] = spans[i]

LEMMA OnCurOps ==
    ASSUME spans \in Seq(SpanShape), cur \in 0..Len(spans)
    PROVE  /\ Rewrites(OnCur(End))
           /\ Rewrites(OnCur(EndByException))
           /\ Rewrites(OnCur(handle_exception))
           /\ Rewrites(OnCur(SetContent))
           /\ Rewrites(OnCur(LAMBDA x : SetStatus(x, "OK")))
           /\ cur # 0 => /\ spans[cur] \in SpanShape
                         /\ OnCur(End)[cur] = End(spans[cur])
                         /\ OnCur(EndByException)[cur] = EndByException(spans[cur])
                         /\ OnCur(handle_exception)[cur] = handle_exception(spans[cur])
                         /\ OnCur(LAMBDA x : SetStatus(x, "OK"))[cur]
                              = SetStatus(spans[cur], "OK")
<1>1. CASE cur = 0
  BY <1>1 DEF OnCur, Rewrites
<1>2. CASE cur # 0
  <2>1. cur \in 1..Len(spans) /\ spans[cur] \in SpanShape
    BY <1>2
  <2>2. ASSUME NEW x \in SpanShape
        PROVE  /\ Rewrites([spans EXCEPT ![cur] = x])
               /\ [spans EXCEPT ![cur] = x][cur] = x
    BY <2>1, <2>2, Replaced DEF Rewrites
  <2> HIDE DEF Rewrites, SpanShape
  <2> QED
    BY <1>2, <2>1, <2>2, SpanOps DEF OnCur
<1> QED
  BY <1>1, <1>2

Shaped ==
    /\ w \in Wrappers /\ given \subseteq Facts /\ got \subseteq Facts
    /\ todo \in Seq(StepShape)
    /\ spans \in Seq(SpanShape) /\ cur \in 0..Len(spans)

LEMMA StepsOfWrapper ==
    ASSUME w \in Wrappers
    PROVE  /\ w.pre \in Seq(StepShape) /\ w.logic \in Seq(StepShape)
           /\ w.stream.logic \in Seq(StepShape)
BY CallAssumption DEF WrapperShape

\* The span sequences new spans are started in.
LEMMA NewSpans ==
    ASSUME spans \in Seq(SpanShape), FinishSpan
    PROVE  /\ spans' \in Seq(SpanShape)
           /\ Len(spans) <= Len(spans')
           /\ \A i \in 1..Len(spans) : spans'[i] = spans[i]
           /\ \A i \in 1..Len(spans') : i > Len(spans) => spans'[i] = NewSpan
           /\ cur \in 0..Len(spans) => cur' \in 0..Len(spans')
           /\ cur' # cur => cur' \in 1..Len(spans')
<1>1. CASE w.stream.ends = "replace"
  BY <1>1, NewSpanShape DEF FinishSpan
<1>2. CASE w.stream.ends # "replace"
  BY <1>2 DEF FinishSpan
<1> QED
  BY <1>1, <1>2

LEMMA AgainSpans ==
    ASSUME AgainAnswers
    PROVE  spans' \in {OnCur(End), OnCur(EndByException)}
BY DEF AgainAnswers, OnCur

LEMMA ShapedInit == Init => Shaped
BY CallAssumption DEF Init, Shaped

LEMMA ShapedNext == Shaped /\ [Next]_vars => Shaped'
<1> SUFFICES ASSUME Shaped, [Next]_vars PROVE Shaped'
  OBVIOUS
<1> /\ w.pre \in Seq(StepShape) /\ w.logic \in Seq(StepShape)
    /\ w.stream.logic \in Seq(StepShape)
  BY StepsOfWrapper DEF Shaped
<1> USE DEF Shaped, Rewrites, call, lib, tele, past
<1>1. CASE UNCHANGED vars
  BY <1>1 DEF vars
<1>2. CASE Skip
  BY <1>2 DEF Skip
<1>3. CASE BareAnswers
  BY <1>3 DEF BareAnswers
<1>4. CASE OpenSpan
  BY <1>4, NewSpanShape DEF OpenSpan
<1>5. CASE CallFirst
  BY <1>5 DEF CallFirst
<1>6. CASE HandGenerator
  BY <1>6 DEF HandGenerator
<1>7. CASE FirstRaises
  BY <1>7 DEF FirstRaises
<1>8. CASE FirstStreams
  <2>1. /\ \/ spans' = <<NewSpan>> /\ cur' = 1
           \/ spans' = spans /\ cur' = cur
        /\ UNCHANGED <<w, given, got, todo>>
    BY <1>8 DEF FirstStreams
  <2>2. CASE spans' = <<NewSpan>> /\ cur' = 1
    BY <2>1, <2>2, NewSpanShape
  <2>3. CASE spans' = spans /\ cur' = cur
    BY <2>1, <2>3
  <2> QED
    BY <2>1, <2>2, <2>3
<1>9. CASE StreamAgain
  BY <1>9, NewSpanShape DEF StreamAgain
<1>10. CASE FirstReturns
  BY <1>10, NewSpanShape DEF FirstReturns
<1>11. CASE TakeStep
  BY <1>11, OnCurOps DEF TakeStep, Run
<1>12. CASE PreFails
  <2>1. /\ spans' = OnCur(handle_exception) \/ spans' = OnCur(EndByException)
        /\ todo' = <<>> /\ UNCHANGED <<w, given, got, cur>>
    BY <1>12 DEF PreFails
  <2>2. CASE spans' = OnCur(handle_exception)
    BY <2>1, <2>2, OnCurOps
  <2>3. CASE spans' = OnCur(EndByException)
    BY <2>1, <2>3, OnCurOps
  <2> QED
    BY <2>1, <2>2, <2>3
<1>13. CASE Call
  BY <1>13 DEF Call
<1>14. CASE CallLazy
  BY <1>14 DEF CallLazy
<1>15. CASE Await
  BY <1>15 DEF Await
<1>16. CASE LibraryStreams
  BY <1>16, OnCurOps DEF LibraryStreams
<1>17. CASE LibraryReturns
  BY <1>17 DEF LibraryReturns
<1>18. CASE LibraryRaises
  BY <1>18 DEF LibraryRaises
<1>19. CASE LibraryCancelled
  BY <1>19, OnCurOps DEF LibraryCancelled
<1>20. CASE HandleLibrary
  BY <1>20, OnCurOps DEF HandleLibrary
<1>21. CASE LogicFails
  BY <1>21, OnCurOps DEF LogicFails
<1>22. CASE Recall
  BY <1>22, OnCurOps DEF Recall
<1>23. CASE AgainAnswers
  BY <1>23, AgainSpans, OnCurOps DEF AgainAnswers
<1>24. CASE Return
  BY <1>24, OnCurOps DEF Return
<1>25. CASE FirstPoll
  BY <1>25, NewSpanShape DEF FirstPoll
<1>26. CASE Item
  BY <1>26 DEF Item
<1>27. CASE ItemFails
  BY <1>27 DEF ItemFails
<1>28. CASE StreamFails
  BY <1>28 DEF StreamFails
<1>29. CASE HandleBreak
  BY <1>29, OnCurOps DEF HandleBreak
<1>30. CASE Stop
  BY <1>30, NewSpans DEF Stop
<1>31. CASE StopLate
  BY <1>31 DEF StopLate
<1>32. CASE IterateOnce
  BY <1>32, NewSpanShape DEF IterateOnce
<1>33. CASE Leave
  BY <1>33 DEF Leave
<1>34. CASE Quit
  BY <1>34, OnCurOps DEF Quit
<1>35. CASE FinalFails
  <2>1. /\ spans' = spans \/ spans' = OnCur(EndByException)
        /\ todo' = <<>> /\ UNCHANGED <<w, given, got, cur>>
    BY <1>35 DEF FinalFails
  <2>2. CASE spans' = spans
    BY <2>1, <2>2, OnCurOps
  <2>3. CASE spans' = OnCur(EndByException)
    BY <2>1, <2>3, OnCurOps
  <2> QED
    BY <2>1, <2>2, <2>3
<1>36. CASE FinalDone
  BY <1>36, OnCurOps DEF FinalDone
<1>37. CASE PollAgain
  BY <1>37, NewSpans DEF PollAgain
<1>38. CASE HelperFails
  BY <1>38, OnCurOps DEF HelperFails
<1>39. CASE PollOn
  BY <1>39 DEF PollOn
<1> QED
  BY <1>1, <1>2, <1>3, <1>4, <1>5, <1>6, <1>7, <1>8, <1>9, <1>10, <1>11,
     <1>12, <1>13, <1>14, <1>15, <1>16, <1>17, <1>18, <1>19, <1>20, <1>21,
     <1>22, <1>23, <1>24, <1>25, <1>26, <1>27, <1>28, <1>29, <1>30, <1>31,
     <1>32, <1>33, <1>34, <1>35, <1>36, <1>37, <1>38, <1>39 DEF Next

-----------------------------------------------------------------------------
(* Gated steps keep the content off the spans.                                *)

\* The steps a call has left only change by being taken, dropped or begun.
LEMMA StepTodo ==
    ASSUME [Next]_vars
    PROVE  /\ \/ todo' \in {todo, <<>>, w.pre, w.logic, w.stream.logic}
              \/ todo # <<>> /\ todo' = Tail(todo)
           /\ UNCHANGED <<w, on, given>>
BY DEF Next, vars, Skip, BareAnswers, OpenSpan, CallFirst, HandGenerator,
       FirstRaises, FirstStreams, StreamAgain, FirstReturns, TakeStep, HelperFails,
       PreFails, Call, CallLazy, Await, LibraryStreams, LibraryReturns,
       LibraryRaises, LibraryCancelled, HandleLibrary, LogicFails, Recall,
       AgainAnswers, Return, FirstPoll, Item, ItemFails, StreamFails,
       HandleBreak, PollOn, Stop, StopLate, IterateOnce, Leave, Quit, FinalFails,
       FinalDone, PollAgain, Reading, FinishSpan, call, lib, tele, past

\* All a step does to the spans.
SpansTouched ==
    \/ UNCHANGED spans
    \/ spans' = OnCur(End)
    \/ spans' = OnCur(EndByException)
    \/ spans' = OnCur(handle_exception)
    \/ spans' = <<NewSpan>> \/ spans' = <<NewSpan, NewSpan>>
    \/ spans' = Append(spans, NewSpan)

LEMMA StepSpans ==
    ASSUME [Next]_vars, ~TakeStep
    PROVE  SpansTouched
BY AgainSpans
   DEF SpansTouched, Next, vars, Skip, BareAnswers, OpenSpan, CallFirst,
       HandGenerator,
       FirstRaises, FirstStreams, StreamAgain, FirstReturns, TakeStep, HelperFails,
       PreFails, Call, CallLazy, Await, LibraryStreams, LibraryReturns,
       LibraryRaises, LibraryCancelled, HandleLibrary, LogicFails, Recall,
       Return, FirstPoll, Item, ItemFails, StreamFails,
       HandleBreak, PollOn, Stop, StopLate, IterateOnce, Leave, Quit, FinalFails,
       FinalDone, PollAgain, Reading, FinishSpan, call, lib, tele, past

LEMMA GatedTodo ==
    ASSUME Gates(w), Shaped, GatedSteps(todo), [Next]_vars
    PROVE  GatedSteps(todo')
<1>1. GatedSteps(w.pre) /\ GatedSteps(w.logic) /\ GatedSteps(w.stream.logic)
  BY DEF Gates
<1>2. CASE todo' \in {todo, <<>>, w.pre, w.logic, w.stream.logic}
  BY <1>1, <1>2 DEF GatedSteps
<1>3. CASE todo # <<>> /\ todo' = Tail(todo)
  BY <1>3 DEF Shaped, GatedSteps
<1> QED
  BY <1>2, <1>3, StepTodo

LEMMA RewriteSaysNothing ==
    ASSUME Shaped, \A i \in 1..Len(spans) : ~spans[i].said,
           NEW ss, Rewrites(ss), cur # 0 => ss[cur].said = spans[cur].said
    PROVE  \A i \in 1..Len(ss) : ~ss[i].said
BY DEF Shaped, Rewrites

LEMMA OpsSayNothing ==
    ASSUME Shaped, cur # 0
    PROVE  /\ OnCur(End)[cur].said = spans[cur].said
           /\ OnCur(EndByException)[cur].said = spans[cur].said
           /\ OnCur(handle_exception)[cur].said = spans[cur].said
           /\ OnCur(LAMBDA x : SetStatus(x, "OK"))[cur].said = spans[cur].said
<1>1. spans[cur] \in SpanShape
  BY DEF Shaped
<1> QED
  BY <1>1, OnCurOps, SpanOps DEF Shaped

\* No operation but SetContent, and no new span, carries text.
LEMMA NothingSaid ==
    ASSUME Shaped, SpansTouched, \A i \in 1..Len(spans) : ~spans[i].said
    PROVE  \A i \in 1..Len(spans') : ~spans'[i].said
<1> USE DEF Shaped
<1>1. CASE UNCHANGED spans
  BY <1>1
<1>2. CASE spans' = OnCur(End)
  BY <1>2, OnCurOps, OpsSayNothing, RewriteSaysNothing
<1>3. CASE spans' = OnCur(EndByException)
  BY <1>3, OnCurOps, OpsSayNothing, RewriteSaysNothing
<1>4. CASE spans' = OnCur(handle_exception)
  BY <1>4, OnCurOps, OpsSayNothing, RewriteSaysNothing
<1>5. CASE spans' = <<NewSpan>>
  BY <1>5, NewSpanShape
<1>6. CASE spans' = <<NewSpan, NewSpan>>
  BY <1>6, NewSpanShape
<1>7. CASE spans' = Append(spans, NewSpan)
  BY <1>7, NewSpanShape
<1> QED
  BY <1>1, <1>2, <1>3, <1>4, <1>5, <1>6, <1>7 DEF SpansTouched

\* A step taken without the setting sets no content.
LEMMA StepSaysNothing ==
    ASSUME Shaped, GatedSteps(todo), "capture" \notin on, TakeStep,
           \A i \in 1..Len(spans) : ~spans[i].said
    PROVE  \A i \in 1..Len(spans') : ~spans'[i].said
<1>1. todo \in Seq(StepShape) /\ todo # <<>> /\ Run(Head(todo))
  BY DEF Shaped, TakeStep
<1>2. Head(todo).do = "content" => ~Takes(Head(todo))
  BY <1>1 DEF GatedSteps, Takes, Shaped, Facts
<1>3. \/ spans' = spans
      \/ spans' = OnCur(LAMBDA x : SetStatus(x, "OK"))
  BY <1>1, <1>2 DEF Run
<1>4. CASE spans' = OnCur(LAMBDA x : SetStatus(x, "OK"))
  BY <1>4, OnCurOps, OpsSayNothing, RewriteSaysNothing DEF Shaped
<1> QED
  BY <1>3, <1>4

\* When a wrapper's content steps are under the setting, no span of a call made
\* without it carries content, whatever raises and whatever the answer reports.
THEOREM ContentStaysHome == Spec => [](Gates(w) => ContentGated)
<1> DEFINE Inv == Shaped /\ (Gates(w) => GatedSteps(todo) /\ ContentGated)
<1>1. Init => Inv
  BY ShapedInit DEF Init, GatedSteps, ContentGated
<1>2. Inv /\ [Next]_vars => Inv'
  <2> SUFFICES ASSUME Inv, [Next]_vars PROVE Inv'
    OBVIOUS
  <2>1. Shaped' /\ UNCHANGED <<w, on>>
    BY ShapedNext, StepTodo
  <2>2. ASSUME Gates(w) PROVE GatedSteps(todo')
    BY <2>2, GatedTodo
  <2>3. ASSUME Gates(w), "capture" \notin on
        PROVE  \A i \in 1..Len(spans') : ~spans'[i].said
    <3>1. CASE TakeStep
      BY <2>3, <3>1, StepSaysNothing DEF ContentGated
    <3>2. CASE ~TakeStep
      BY <2>3, <3>2, StepSpans, NothingSaid DEF ContentGated
    <3> QED
      BY <3>1, <3>2
  <2> QED
    BY <2>1, <2>2, <2>3 DEF ContentGated
<1>3. Inv => (Gates(w) => ContentGated)
  OBVIOUS
<1> QED
  BY <1>1, <1>2, <1>3, PTL DEF Spec

-----------------------------------------------------------------------------
(* One report.                                                                *)

\* A call makes one report, and one more for each poll past the end; none has
\* been made of the call or of the poll.
Reported == meter <= 1 + polls /\ events <= 1 + polls
Unmetered == meter <= polls
Unheard == events <= polls

\* The places no report has been made before, a stream that raised among them.
Early == {"enter", "bare", "pre", "wait", "first", "stream", "broke", "raise"}
Unreported ==
    \/ pc \in Early
    \/ pc = "done" /\ app = "raised" /\ ~Polled

\* A report still to be made has not been made, nor has the duration been
\* recorded while a step is left that may raise.
Counts ==
    /\ Shaped /\ Honest /\ meter \in Nat /\ events \in Nat /\ polls \in Nat
    /\ Reported
    /\ polls # 0 => w.stream.again
    /\ OneReport(todo)
    /\ (\E i \in 1..Len(todo) : todo[i].do = "meter" \/ ~todo[i].safe) => Unmetered
    /\ (\E i \in 1..Len(todo) : todo[i].do = "event") => Unheard
    /\ Unreported => Unmetered /\ Unheard
    /\ pc = "pre" => \A i \in 1..Len(todo) : todo[i].do \notin {"event", "meter"}
    /\ pc \notin {"pre", "logic", "final"} => todo = <<>>
    /\ pc \in {"stream", "broke"} \/ app = "raised" => AsksForStream
    /\ pc = "final" /\ app = "raised" => Polled

LEMMA CountsInit == Init => Counts
BY ShapedInit, HonestInit
   DEF Init, Counts, Early, Unreported, Reported, OneReport, Unmetered, Unheard

LEMMA CountsTaken ==
    ASSUME Counts, TakeStep \/ HelperFails
    PROVE  Counts'
<1>1. Shaped' /\ Honest'
  BY ShapedNext, HonestNext DEF Counts, Next
<1>2. /\ todo \in Seq(StepShape) /\ todo # <<>> /\ todo' = Tail(todo)
      /\ \A i \in 1..Len(todo') : todo'[i] = todo[i + 1] /\ i + 1 \in 1..Len(todo)
      /\ Head(todo) = todo[1] /\ 1 \in 1..Len(todo)
  <2>1. todo \in Seq(StepShape) /\ todo # <<>> /\ todo' = Tail(todo)
    BY DEF Counts, Shaped, TakeStep, HelperFails
  <2> QED
    BY <2>1
<1>3. OneReport(todo')
  BY <1>2 DEF Counts, OneReport
<1>4. /\ meter' = meter \/ (meter' = meter + 1 /\ todo[1].do = "meter")
      /\ events' = events \/ (events' = events + 1 /\ todo[1].do = "event")
      /\ UNCHANGED <<polls, pc, app, call>>
  BY <1>2 DEF TakeStep, HelperFails, Run, past
<1>5. meter' # meter => /\ Unmetered /\ pc # "pre"
                        /\ \A i \in 1..Len(todo') : todo'[i].do # "meter" /\ todo'[i].safe
  BY <1>2, <1>4 DEF Counts, OneReport
<1>6. events' # events => /\ Unheard /\ pc # "pre"
                          /\ \A i \in 1..Len(todo') : todo'[i].do # "event"
  BY <1>2, <1>4 DEF Counts, OneReport
<1>7. pc \in {"pre", "logic", "final"}
  BY DEF TakeStep, HelperFails
<1> HIDE DEF TakeStep
<1>8. /\ meter' \in Nat /\ events' \in Nat /\ polls' \in Nat
      /\ Reported'
  BY <1>4, <1>5, <1>6 DEF Counts, Reported, Unmetered, Unheard
<1>9. (\E i \in 1..Len(todo') : todo'[i].do = "meter" \/ ~todo'[i].safe) => Unmetered'
  BY <1>2, <1>4, <1>5 DEF Counts, Unmetered
<1>10. (\E i \in 1..Len(todo') : todo'[i].do = "event") => Unheard'
  BY <1>2, <1>4, <1>6 DEF Counts, Unheard
<1>11. pc' = "pre" => /\ Unmetered' /\ Unheard'
                      /\ \A i \in 1..Len(todo') : todo'[i].do \notin {"event", "meter"}
  BY <1>2, <1>4, <1>5, <1>6 DEF Counts, Early, Unreported, Unmetered, Unheard
<1>12. /\ polls' # 0 => w'.stream.again
       /\ (pc = "final" /\ app = "raised" => Polled)'
       /\ (pc \in {"stream", "broke"} \/ app = "raised" => AsksForStream)'
  BY <1>4, <1>7 DEF Counts, Polled, AsksForStream, call
<1> QED
  BY <1>1, <1>3, <1>4, <1>7, <1>8, <1>9, <1>10, <1>11, <1>12
     DEF Counts, Early, Unreported

\* Any other step makes no report, or one where none was made, or begins
\* another poll; the steps it begins are a wrapper's.
LEMMA CountsOther ==
    ASSUME Counts, ReportsOnce(w), [Next]_vars, ~TakeStep, ~HelperFails
    PROVE  /\ \/ meter' = meter /\ polls' = polls
              \/ /\ Unmetered /\ meter' \in {meter, meter + 1} /\ polls' = polls
                 /\ pc' \in {"pre", "done"} /\ todo' = <<>>
                 /\ pc' = "pre" => meter' = meter
                 /\ pc' = "done" => app' # "raised"
              \/ /\ pc = "done" /\ pc' = "final" /\ meter' = meter
                 /\ polls' = polls + 1 /\ w.stream.again
           /\ events' = events
           /\ \/ todo' = todo \/ todo' = <<>>
              \/ pc' = "pre" /\ todo' = w.pre
              \/ pc' = "logic" /\ todo' = w.logic
              \/ pc' = "final" /\ todo' = w.stream.logic
           /\ pc' \notin {"pre", "logic", "final"} => todo' = <<>>
           /\ Unreported' => Unreported
           /\ ~Unreported /\ pc' = "final" => polls' = polls + 1 \/ UNCHANGED vars
           /\ pc' = "pre" => todo' = <<>> \/ todo' = w.pre \/ UNCHANGED vars
           /\ pc' = "logic" => Unreported \/ UNCHANGED vars
           /\ (pc \in {"stream", "broke"} \/ app = "raised" => AsksForStream)'
           /\ (pc = "final" /\ app = "raised" => Polled)'
<1>1. CanFail => todo # <<>> /\ Head(todo) = todo[1] /\ ~todo[1].safe /\ 1 \in 1..Len(todo)
  BY DEF CanFail, Counts, Shaped
<1>2. CanFail => Unmetered
  BY <1>1 DEF Counts
<1> USE DEF Next, vars, Early, Unreported, Skip, BareAnswers, OpenSpan,
      CallFirst, HandGenerator, FirstRaises, FirstStreams, StreamAgain,
      FirstReturns, PreFails, Call, CallLazy, Await, LibraryStreams,
      LibraryReturns, LibraryRaises, LibraryCancelled, HandleLibrary,
      LogicFails, Recall, AgainAnswers, Return, FirstPoll, Item, ItemFails,
      StreamFails, HandleBreak, PollOn, Stop, StopLate, IterateOnce, Leave,
      Quit, FinalFails, FinalDone, PollAgain, Reading, FinishSpan, call, lib,
      tele, past
<1>3. \/ meter' = meter /\ polls' = polls
      \/ /\ Unmetered /\ meter' \in {meter, meter + 1} /\ polls' = polls
         /\ pc' \in {"pre", "done"} /\ todo' = <<>>
         /\ pc' = "pre" => meter' = meter
         /\ pc' = "done" => app' # "raised"
      \/ /\ pc = "done" /\ pc' = "final" /\ meter' = meter
         /\ polls' = polls + 1 /\ w.stream.again
  BY <1>2 DEF Counts, Honest, Metering
<1>4. events' = events
  OBVIOUS
<1>5. /\ \/ todo' = todo \/ todo' = <<>>
         \/ pc' = "pre" /\ todo' = w.pre
         \/ pc' = "logic" /\ todo' = w.logic
         \/ pc' = "final" /\ todo' = w.stream.logic
      /\ pc' = "pre" => todo' = <<>> \/ todo' = w.pre \/ UNCHANGED vars
      /\ pc' \notin {"pre", "logic", "final"} => todo' = <<>>
  BY DEF Counts
<1>6. Unreported' => Unreported
  BY DEF Counts, Honest, Ended, Polled, AsksForStream, Faults
<1>7. /\ ~Unreported /\ pc' = "final" => polls' = polls + 1 \/ UNCHANGED vars
      /\ pc' = "logic" => Unreported \/ UNCHANGED vars
  OBVIOUS
<1>8. (pc \in {"stream", "broke"} \/ app = "raised" => AsksForStream)'
  BY DEF Counts, Honest, AsksForStream, Polled, Streaming, Faults, Ended
<1>9. (pc = "final" /\ app = "raised" => Polled)'
  BY DEF Counts, Honest, ReportsOnce, AsksForStream, Polled
<1> QED
  BY <1>3, <1>4, <1>5, <1>6, <1>7, <1>8, <1>9

LEMMA CountsNext ==
    ASSUME ReportsOnce(w), Counts, [Next]_vars
    PROVE  Counts'
<1>1. CASE TakeStep \/ HelperFails
  BY <1>1, CountsTaken
<1>2. CASE UNCHANGED vars
  BY <1>2, HonestNext DEF vars, Counts, Shaped, Reported, Unmetered, Unheard, OneReport,
     Unreported, Polled, AsksForStream, call, lib, tele, past
<1>3. CASE ~TakeStep /\ ~HelperFails /\ ~UNCHANGED vars
  <2>1. Shaped' /\ Honest' /\ UNCHANGED w
    BY ShapedNext, HonestNext, StepTodo DEF Counts
  <2>2. /\ \A i \in 1..Len(w.pre) : w.pre[i].do \notin {"event", "meter"}
        /\ OneReport(w.logic) /\ OneReport(w.stream.logic) /\ OneReport(w.pre)
    BY DEF ReportsOnce, OneReport
  <2>3. OneReport(todo')
    <3>1. todo' \in {todo, <<>>, w.pre, w.logic, w.stream.logic}
      BY <1>3, CountsOther
    <3>2. OneReport(<<>>) /\ OneReport(todo)
      BY DEF Counts, OneReport
    <3> QED
      BY <2>2, <3>1, <3>2
  <2>4. pc' = "pre" => \A i \in 1..Len(todo') : todo'[i].do \notin {"event", "meter"}
    BY <1>3, <2>2, CountsOther DEF Counts
  <2>5. /\ meter' \in Nat /\ events' \in Nat /\ polls' \in Nat /\ Reported'
        /\ polls' # 0 => w'.stream.again
    <3>1. /\ \/ meter' = meter /\ polls' = polls
             \/ Unmetered /\ meter' \in {meter, meter + 1} /\ polls' = polls
             \/ meter' = meter /\ polls' = polls + 1 /\ w.stream.again
          /\ events' = events
      BY <1>3, CountsOther
    <3>2. /\ meter \in Nat /\ events \in Nat /\ polls \in Nat /\ Reported
          /\ polls # 0 => w.stream.again
      BY DEF Counts
    <3> QED
      BY <2>1, <3>1, <3>2 DEF Reported, Unmetered
  <2>6. Unreported' => Unmetered' /\ Unheard'
    BY <1>3, CountsOther DEF Counts, Early, Unreported, Unmetered, Unheard
  <2>7. pc' \in {"logic", "final"} => Unmetered' /\ Unheard'
    BY <1>3, CountsOther DEF Counts, Unmetered, Unheard, Reported
  <2>8. /\ pc' \notin {"pre", "logic", "final"} => todo' = <<>>
        /\ (pc \in {"stream", "broke"} \/ app = "raised" => AsksForStream)'
        /\ (pc = "final" /\ app = "raised" => Polled)'
    BY <1>3, CountsOther
  <2> QED
    BY <2>1, <2>3, <2>4, <2>5, <2>6, <2>7, <2>8 DEF Counts, Early, Unreported
<1> QED
  BY <1>1, <1>2, <1>3

\* Where the response logic has one event and one duration, after which it does
\* not raise, one call is one operation and one event, also when handlers record
\* the duration of what failed and a stream that raised is read on: all but the
\* calls whose stream runs its report again when polled past its end.
THEOREM OneReportPerCall ==
    Spec => [](ReportsOnce(w) => (~w.stream.again \/ polls = 0 => ReportedOnce))
<1> DEFINE Inv == ReportsOnce(w) => Counts
<1>1. Init => Inv
  BY CountsInit
<1>2. Inv /\ [Next]_vars => Inv'
  BY CountsNext, StepTodo
<1>3. Inv => (ReportsOnce(w) => (~w.stream.again \/ polls = 0 => ReportedOnce))
  BY DEF Counts, ReportedOnce, Reported
<1> QED
  BY <1>1, <1>2, <1>3, PTL DEF Spec

-----------------------------------------------------------------------------
(* Nothing is left behind.                                                    *)

CurClosed == cur # 0 => ~spans[cur].open
OthersClosed == \A i \in 1..Len(spans) : i # cur => ~spans[i].open

\* A stream read within the with block of its call, which ends the span.
Within ==
    /\ w.stream.opens = "within"
    /\ pc \in {"stream", "broke", "final"} \/ app \in {"stopped", "raised"}

\* Every span but the one being written has ended, because a new one is started
\* only where that one has; and where that one and the context are.
Tidy ==
    /\ Shaped /\ Honest /\ OthersClosed
    /\ pc \in {"enter", "bare", "first"} => cur = 0
    /\ pc \in {"stream", "broke", "final"} \/ app \in {"stopped", "raised"} => AsksForStream
    /\ ctx = "outer" \/ (pc = "wait" /\ w.ctx)
    /\ w.stream.opens = "none" /\ (pc \in {"stream", "broke"} \/ app = "raised") =>
           cur = 0
    /\ Within => CurClosed
    /\ pc = "owed" => CurClosed
    /\ pc = "done" /\ ~StreamAbandoned => CurClosed

\* What a step makes of the spans: it ends the one being written, rewrites it,
\* or starts one when no other is open.
Ends == cur' = cur /\ spans' \in {OnCur(End), OnCur(EndByException)}
Writes ==
    cur' = cur /\ spans' \in {spans, OnCur(handle_exception), OnCur(SetContent),
                              OnCur(LAMBDA x : SetStatus(x, "OK"))}
Starts ==
    \/ spans' = <<NewSpan>> /\ cur' = 1
    \/ CurClosed /\ spans' = Append(spans, NewSpan) /\ cur' = Len(spans) + 1

LEMMA EndsClose ==
    ASSUME Shaped, Ends \/ (Writes /\ CurClosed)
    PROVE  CurClosed'
<1> SUFFICES ASSUME cur' # 0 PROVE ~spans'[cur'].open
  BY DEF CurClosed
<1>1. cur' = cur /\ cur # 0 /\ spans[cur] \in SpanShape
  BY DEF Ends, Writes, Shaped
<1>2. /\ ~OnCur(End)[cur].open /\ ~OnCur(EndByException)[cur].open
  BY <1>1, OnCurOps, SpanOps DEF Shaped
<1>3. ASSUME NEW x \in SpanShape, ~x.open
      PROVE  ~handle_exception(x).open /\ ~SetContent(x).open /\ ~SetStatus(x, "OK").open
  BY <1>3 DEF SpanShape, handle_exception, SetStatus, RecordException, SetContent
<1>4. OnCur(SetContent)[cur] = SetContent(spans[cur])
  BY <1>1 DEF OnCur, Shaped
<1> QED
  BY <1>1, <1>2, <1>3, <1>4, OnCurOps DEF Ends, Writes, Shaped, CurClosed

LEMMA OthersStayClosed ==
    ASSUME Shaped, OthersClosed, Ends \/ Writes \/ Starts
    PROVE  OthersClosed'
<1>1. CASE Ends \/ Writes
  <2>1. Rewrites(spans') /\ cur' = cur
    BY <1>1, OnCurOps DEF Ends, Writes, Shaped, Rewrites
  <2> QED
    BY <2>1 DEF Rewrites, OthersClosed
<1>2. CASE Starts
  <2>1. CASE spans' = <<NewSpan>> /\ cur' = 1
    BY <2>1 DEF OthersClosed
  <2>2. CASE CurClosed /\ spans' = Append(spans, NewSpan) /\ cur' = Len(spans) + 1
    <3>1. \A i \in 1..Len(spans) : ~spans[i].open
      BY <2>2 DEF OthersClosed, CurClosed
    <3>2. \A i \in 1..Len(spans') : i # cur' => i \in 1..Len(spans) /\ spans'[i] = spans[i]
      BY <2>2 DEF Shaped
    <3> QED
      BY <3>1, <3>2 DEF OthersClosed
  <2> QED
    BY <1>2, <2>1, <2>2 DEF Starts
<1> QED
  BY <1>1, <1>2

LEMMA TakenWrites ==
    ASSUME TakeStep
    PROVE  Writes
<1>1. Run(Head(todo))
  BY DEF TakeStep
<1> QED
  BY <1>1 DEF Run, Writes

LEMMA TidySpans ==
    ASSUME Closes(w), Tidy, [Next]_vars
    PROVE  Ends \/ Writes \/ Starts
<1> USE DEF Ends, Writes, Starts, Closes, Tidy, Honest, StreamAbandoned,
       Next, vars, Skip, BareAnswers, OpenSpan, CallFirst, HandGenerator,
       FirstRaises, FirstStreams, StreamAgain, FirstReturns, TakeStep,
       HelperFails, PreFails, Call, CallLazy, Await, LibraryStreams,
       LibraryReturns, LibraryRaises, LibraryCancelled, HandleLibrary,
       LogicFails, Recall, AgainAnswers, Return, FirstPoll, Item, ItemFails,
       StreamFails, HandleBreak, PollOn, Stop, StopLate, IterateOnce, Leave,
       Quit, FinalFails, FinalDone, PollAgain, Reading, FinishSpan, call, lib,
       tele, past
<1>1. CASE TakeStep
  BY <1>1, TakenWrites
<1>2. CASE pc \in {"enter", "bare", "first"}
  BY <1>2
<1>3. CASE pc \in {"pre", "wait", "logic", "raise", "owed", "done"} /\ ~TakeStep
  BY <1>3
<1>4. CASE pc = "again"
  BY <1>4, AgainSpans
<1>5. CASE pc \in {"stream", "broke", "final"} /\ ~TakeStep
  BY <1>5 DEF CurClosed
<1> QED
  BY <1>1, <1>2, <1>3, <1>4, <1>5 DEF PC

\* The places a wrapper of the shape leaves from.
LEMMA TidyLeaves ==
    ASSUME Closes(w), Tidy, [Next]_vars, pc' \in {"owed", "done"}, ~StreamAbandoned'
    PROVE  Ends \/ (Writes /\ CurClosed)
<1> USE DEF Ends, Writes, CurClosed, Closes, Tidy, Honest, Within,
       StreamAbandoned, Polled, AsksForStream, Next, vars, Skip, BareAnswers, OpenSpan, CallFirst, HandGenerator,
       FirstRaises, FirstStreams, StreamAgain, FirstReturns, TakeStep,
       HelperFails, PreFails, Call, CallLazy, Await, LibraryStreams,
       LibraryReturns, LibraryRaises, LibraryCancelled, HandleLibrary,
       LogicFails, Recall, AgainAnswers, Return, FirstPoll, Item, ItemFails,
       StreamFails, HandleBreak, PollOn, Stop, StopLate, IterateOnce, Leave,
       Quit, FinalFails, FinalDone, PollAgain, Reading, FinishSpan, call, lib,
       tele, past
<1>1. CASE pc \in {"owed", "done"}
  BY <1>1
<1>2. CASE pc \in {"pre", "logic", "raise", "wait"}
  BY <1>2
<1>3. CASE pc \in {"stream", "broke"}
  BY <1>3
<1>4. CASE pc = "final"
  BY <1>4
<1>5. CASE pc \in {"enter", "bare", "first"}
  BY <1>5
<1>6. CASE pc = "again"
  BY <1>6, AgainSpans
<1> QED
  BY <1>1, <1>2, <1>3, <1>4, <1>5, <1>6 DEF PC

LEMMA TidyWithin ==
    ASSUME Closes(w), Tidy, [Next]_vars, Within'
    PROVE  Ends \/ (Writes /\ CurClosed)
<1> USE DEF Ends, Writes, Closes, Tidy, Honest, Within, StreamAbandoned, Polled,
       Faults, Ended, AsksForStream, Streaming,
       Next, vars, Skip, BareAnswers, OpenSpan, CallFirst, HandGenerator,
       FirstRaises, FirstStreams, StreamAgain, FirstReturns, TakeStep,
       HelperFails, PreFails, Call, CallLazy, Await, LibraryStreams,
       LibraryReturns, LibraryRaises, LibraryCancelled, HandleLibrary,
       LogicFails, Recall, AgainAnswers, Return, FirstPoll, Item, ItemFails,
       StreamFails, HandleBreak, PollOn, Stop, StopLate, IterateOnce, Leave,
       Quit, FinalFails, FinalDone, PollAgain, Reading, FinishSpan, call, lib,
       tele, past
<1>1. CASE TakeStep
  <2>1. Within
    BY <1>1
  <2> QED
    BY <1>1, <2>1, TakenWrites
<1>2. CASE pc \in {"enter", "bare", "first", "pre", "wait", "logic", "raise",
                   "again", "owed"} /\ ~TakeStep
  BY <1>2
<1>3. CASE pc \in {"stream", "broke"}
  BY <1>3
<1>4. CASE pc = "final" /\ ~TakeStep
  BY <1>4
<1>5. CASE pc = "done"
  BY <1>5
<1> QED
  BY <1>1, <1>2, <1>3, <1>4, <1>5 DEF PC

LEMMA TidyPlaces ==
    ASSUME Closes(w), Tidy, [Next]_vars
    PROVE  /\ (pc \in {"enter", "bare", "first"} => cur = 0)'
           /\ (pc \in {"stream", "broke", "final"} \/ app \in {"stopped", "raised"}
                  => AsksForStream)'
           /\ (ctx = "outer" \/ (pc = "wait" /\ w.ctx))'
           /\ (w.stream.opens = "none" /\ (pc \in {"stream", "broke"} \/ app = "raised")
                  => cur = 0)'
<1> USE DEF Closes, Tidy, Honest, Polled, Faults, Ended, AsksForStream,
       Streaming, Run, Next, vars, Skip, BareAnswers, OpenSpan, CallFirst, HandGenerator,
       FirstRaises, FirstStreams, StreamAgain, FirstReturns, TakeStep,
       HelperFails, PreFails, Call, CallLazy, Await, LibraryStreams,
       LibraryReturns, LibraryRaises, LibraryCancelled, HandleLibrary,
       LogicFails, Recall, AgainAnswers, Return, FirstPoll, Item, ItemFails,
       StreamFails, HandleBreak, PollOn, Stop, StopLate, IterateOnce, Leave,
       Quit, FinalFails, FinalDone, PollAgain, Reading, FinishSpan, call, lib,
       tele, past
<1>1. (pc \in {"enter", "bare", "first"} => cur = 0)'
  OBVIOUS
<1>2. (pc \in {"stream", "broke", "final"} \/ app \in {"stopped", "raised"}
           => AsksForStream)'
  OBVIOUS
<1>3. (ctx = "outer" \/ (pc = "wait" /\ w.ctx))'
  OBVIOUS
<1>4. (w.stream.opens = "none" /\ (pc \in {"stream", "broke"} \/ app = "raised")
           => cur = 0)'
  OBVIOUS
<1> QED
  BY <1>1, <1>2, <1>3, <1>4

\* The call of a wrapper that closes, once it is over, has ended every span it
\* started and detached its context, after an error, a cancellation, a logic or
\* a process_chunk that raised and a generator closed half-way too.
THEOREM NothingLeftBehind == Spec => [](Closes(w) => NothingLeft)
<1> DEFINE Inv == Shaped /\ Honest /\ (Closes(w) => Tidy)
<1>1. Init => Inv
  BY ShapedInit, HonestInit
     DEF Init, Tidy, OthersClosed, Within, StreamAbandoned
<1>2. Inv /\ [Next]_vars => Inv'
  <2> SUFFICES ASSUME Inv, [Next]_vars PROVE Inv'
    OBVIOUS
  <2>1. Shaped' /\ Honest' /\ UNCHANGED w
    BY ShapedNext, HonestNext, StepTodo
  <2>2. ASSUME Closes(w) PROVE Tidy'
    <3>1. OthersClosed'
      BY <2>2, TidySpans, OthersStayClosed DEF Tidy
    <3>2. pc' \in {"owed", "done"} /\ ~StreamAbandoned' => CurClosed'
      BY <2>2, TidyLeaves, EndsClose
    <3>3. pc' = "owed" => ~StreamAbandoned'
      BY <2>1 DEF StreamAbandoned, Honest
    <3>4. Within' => CurClosed'
      BY <2>2, TidyWithin, EndsClose
    <3> QED
      BY <2>1, <2>2, <3>1, <3>2, <3>3, <3>4, TidyPlaces DEF Tidy
  <2> QED
    BY <2>1, <2>2
<1>3. Inv => (Closes(w) => NothingLeft)
  BY DEF Tidy, NothingLeft, CurClosed, OthersClosed
<1> QED
  BY <1>1, <1>2, <1>3, PTL DEF Spec

=============================================================================
