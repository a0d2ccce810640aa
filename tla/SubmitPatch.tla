------------------------------ MODULE SubmitPatch ------------------------------
(* Threads that call mem0 under the SDK's wrapper.  For the time of a call   *)
(* the wrapper replaces ThreadPoolExecutor.submit, which is one attribute of *)
(* the process, by a function that carries the call's context to the workers *)
(* and goes on to the submit it found.  A submit is the sequence of calls    *)
(* whose contexts it carries; the library's own is empty.                    *)
EXTENDS Naturals, Sequences

CONSTANTS Threads, MaxCalls   \* MaxCalls: bound on the calls of one thread

VARIABLES
    submit,            \* ThreadPoolExecutor.submit
    pc,                \* thread -> where its call is
    original_submit,   \* thread -> the submit its patch found
    made               \* thread -> calls it has begun

vars == <<submit, pc, original_submit, made>>

Init ==
    /\ submit = <<>>
    /\ pc = [t \in Threads |-> "idle"]
    /\ original_submit = [t \in Threads |-> <<>>]
    /\ made = [t \in Threads |-> 0]

\* The first line of patch_concurrent_futures_context, and of a call.
FindSubmit(t) ==
    /\ pc[t] = "idle" /\ made[t] < MaxCalls
    /\ original_submit' = [original_submit EXCEPT ![t] = submit]
    /\ made' = [made EXCEPT ![t] = @ + 1]
    /\ pc' = [pc EXCEPT ![t] = "patch"]
    /\ UNCHANGED submit

\* ThreadPoolExecutor.submit = patched_submit; then the library runs.
Patch(t) ==
    /\ pc[t] = "patch"
    /\ submit' = <<t>> \o original_submit[t]
    /\ pc' = [pc EXCEPT ![t] = "library"]
    /\ UNCHANGED <<original_submit, made>>

\* The library returns or raises: finally: restore_patch().
Restore(t) ==
    /\ pc[t] = "library"
    /\ submit' = original_submit[t]
    /\ pc' = [pc EXCEPT ![t] = "idle"]
    /\ UNCHANGED <<original_submit, made>>

Next == \E t \in Threads : FindSubmit(t) \/ Patch(t) \/ Restore(t)

Spec == Init /\ [][Next]_vars

-----------------------------------------------------------------------------
\* "Function to restore original ThreadPoolExecutor.submit": when no thread is
\* inside a call, the attribute is the library's function again.
Restored == (\A t \in Threads : pc[t] = "idle") => submit = <<>>
=============================================================================
