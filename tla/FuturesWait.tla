------------------------------ MODULE FuturesWait ------------------------------
(***************************************************************************)
(* The three ways to wait for several futures, which others settle         *)
(* meanwhile (module Executor says how; here a future is settled, then its *)
(* done channel is closed): one call of concurrent.futures.wait()          *)
(* (vm/stdlib_concurrent_futures.go:111-224), the iterator of              *)
(* as_completed() (:226-255) and that of Executor.map() (:324-395).        *)
(*                                                                         *)
(* In the first two one goroutine per future posts it to a channel once    *)
(* done is closed.  wait() first scans the states, counting the futures    *)
(* that are settled already, and then counts the posts it receives.  map() *)
(* waits for each future's channel in turn; one that trySubmit refused is  *)
(* a future that nobody settles.                                           *)
(***************************************************************************)
EXTENDS Integers, Sequences, SequencesExt, FiniteSets

CONSTANT N          \* how many futures, at least one

Futures == 1..N

VARIABLES
    op,         \* "wait", "as_completed" or "map"
    returnWhen,  \* return_when, an argument of wait()
    hasDeadline, \* whether the timeout of wait() or map() is 0 or more
    state,      \* "open", then "cancelled", "returned" or "raised"
    closed,     \* futures whose done channel is closed
    posted,     \* completionCh: posted and not received; the order is free
    finished,   \* futures whose goroutine has posted
    next,       \* the future the scan looks at next, or map() waits for
    doneSeen,
    doneCnt,
    got,        \* what the iterator has yielded
    expired,    \* the deadline has passed
    pc          \* wait(): "scan", "loop", "returned" or "timedOut";
                \* an iterator: "idle" or "nexting"

arguments == <<op, returnWhen, hasDeadline>>

vars == <<arguments, state, closed, posted, finished, next, doneSeen, doneCnt,
          got, expired, pc>>

call == <<next, doneSeen, doneCnt, got, pc>>

others == <<arguments, state, closed, posted, finished, expired>>

-----------------------------------------------------------------------------
(* other goroutines *)

(* A worker or cancel settles a future.                                    *)
Settle(k) ==
    /\ state[k] = "open"
    /\ \E s \in {"cancelled", "returned", "raised"} : state' = [state EXCEPT ![k] = s]
    /\ UNCHANGED <<arguments, closed, posted, finished, expired, call>>

Close(k) ==
    /\ state[k] # "open" /\ k \notin closed
    /\ closed' = closed \cup {k}
    /\ UNCHANGED <<arguments, state, posted, finished, expired, call>>

(* <-done; completionCh <- k.  The channel has room for everyone.          *)
Post(k) ==
    /\ op # "map" /\ k \in closed /\ k \notin finished
    /\ posted' = posted \cup {k}
    /\ finished' = finished \cup {k}
    /\ UNCHANGED <<arguments, state, closed, expired, call>>

Expire ==
    /\ hasDeadline /\ ~expired /\ pc \in {"loop", "nexting"}
    /\ expired' = TRUE
    /\ UNCHANGED <<arguments, state, closed, posted, finished, call>>

-----------------------------------------------------------------------------
(* wait() *)

Count(k) ==
    /\ doneSeen' = doneSeen \cup {k}
    /\ doneCnt' = doneCnt + 1

Scan ==
    /\ pc = "scan"
    /\ IF state[next] # "open" THEN Count(next) ELSE UNCHANGED <<doneSeen, doneCnt>>
    /\ next' = next + 1
    /\ pc' = IF next = N THEN "loop" ELSE pc
    /\ UNCHANGED <<others, got>>

(* What ends the loop besides the deadline.                                *)
Enough ==
    \/ doneCnt >= N
    \/ returnWhen = "FIRST_COMPLETED" /\ doneCnt > 0
    \/ returnWhen = "FIRST_EXCEPTION" /\ \E k \in doneSeen : state[k] = "raised"

(* k := <-completionCh                                                     *)
Take ==
    /\ pc = "loop" /\ ~Enough
    /\ \E k \in posted : posted' = posted \ {k} /\ Count(k)
    /\ UNCHANGED <<arguments, state, closed, finished, next, got, expired, pc>>

\* Mutant of TimeOut: the deadline needs something to report.
TimeOutWithResults ==
    /\ pc = "loop" /\ ~Enough /\ expired /\ doneCnt > 0
    /\ pc' = "timedOut"
    /\ UNCHANGED <<others, next, doneSeen, doneCnt, got>>

(* <-deadlineCh                                                            *)
TimeOut ==
    /\ pc = "loop" /\ ~Enough /\ expired
    /\ pc' = "timedOut"
    /\ UNCHANGED <<others, next, doneSeen, doneCnt, got>>

(* The answer is doneSeen and the rest.                                    *)
Answer ==
    /\ pc = "loop" /\ Enough
    /\ pc' = "returned"
    /\ UNCHANGED <<others, next, doneSeen, doneCnt, got>>

-----------------------------------------------------------------------------
(* the iterators *)

Back == pc = "nexting" /\ pc' = "idle" /\ next' = next + 1

(* The timeout of map() starts anew with each item; that of as_completed() *)
(* is ignored.                                                             *)
NextCall ==
    /\ pc = "idle" /\ next <= N
    /\ pc' = "nexting"
    /\ expired' = FALSE
    /\ UNCHANGED <<arguments, state, closed, posted, finished, next, doneSeen, doneCnt,
                   got>>

\* Mutant of YieldPosted: the post stays in the channel.
YieldPostedKept ==
    /\ op = "as_completed" /\ Back
    /\ \E k \in posted : got' = Append(got, k)
    /\ UNCHANGED <<arguments, state, closed, posted, finished, doneSeen, doneCnt, expired>>

(* inst := <-ch                                                            *)
YieldPosted ==
    /\ op = "as_completed" /\ Back
    /\ \E k \in posted : posted' = posted \ {k} /\ got' = Append(got, k)
    /\ UNCHANGED <<arguments, state, closed, finished, doneSeen, doneCnt, expired>>

(* <-f.done: the result of a future that returned is yielded, the error of *)
(* one that raised or was cancelled is raised.                             *)
YieldInOrder ==
    /\ op = "map" /\ Back
    /\ next \in closed
    /\ got' = Append(got, next)
    /\ UNCHANGED <<arguments, state, closed, posted, finished, doneSeen, doneCnt, expired>>

(* TimeoutError; the iterator has already gone on to the next future.      *)
NextTimesOut ==
    /\ op = "map" /\ expired /\ Back
    /\ UNCHANGED <<arguments, state, closed, posted, finished, doneSeen, doneCnt, got,
                   expired>>

Iterate == YieldPosted \/ YieldInOrder \/ NextTimesOut

-----------------------------------------------------------------------------

Init ==
    /\ op \in {"wait", "as_completed", "map"}
    /\ returnWhen \in {"FIRST_COMPLETED", "FIRST_EXCEPTION", "ALL_COMPLETED"}
    /\ op # "wait" => returnWhen = "ALL_COMPLETED"
    /\ hasDeadline \in BOOLEAN /\ (op = "as_completed" => ~hasDeadline)
    /\ state \in [Futures -> {"open", "cancelled", "returned", "raised"}]
    /\ closed \in SUBSET {k \in Futures : state[k] # "open"}
    /\ posted = {}
    /\ finished = {}
    /\ next = 1
    /\ doneSeen = {}
    /\ doneCnt = 0
    /\ got = <<>>
    /\ expired = FALSE
    /\ pc = IF op = "wait" THEN "scan" ELSE "idle"

Call == Scan \/ Take \/ TimeOut \/ Answer

(* What goes on by itself: runnable goroutines run, clocks advance, and    *)
(* whoever settles a future closes its channel.  Each of these steps is    *)
(* taken once for each future or item, so that fairness to all of them     *)
(* together lets none wait for ever.  Nobody is obliged to settle a future.*)
Runs == (\E k \in Futures : Close(k) \/ Post(k)) \/ Expire \/ Call \/ Iterate

Next ==
    \/ \E k \in Futures : Settle(k)
    \/ NextCall
    \/ Runs

Spec == Init /\ [][Next]_vars

Fairness == WF_vars(Runs)

FairSpec == Spec /\ Fairness

-----------------------------------------------------------------------------

Over == pc \in {"returned", "timedOut"}

(* The values of the variables.  A future can be counted twice, once in the*)
(* scan and once when its post arrives.                                    *)
TypeOK ==
    /\ op \in {"wait", "as_completed", "map"}
    /\ returnWhen \in {"FIRST_COMPLETED", "FIRST_EXCEPTION", "ALL_COMPLETED"}
    /\ hasDeadline \in BOOLEAN
    /\ state \in [Futures -> {"open", "cancelled", "returned", "raised"}]
    /\ closed \in SUBSET {k \in Futures : state[k] # "open"}
    /\ posted \in SUBSET finished /\ finished \in SUBSET closed
    /\ next \in 1..N + 1
    /\ doneSeen \in SUBSET Futures
    /\ doneCnt \in Cardinality(doneSeen)..2 * N
    /\ got \in Seq(Futures)
    /\ expired \in BOOLEAN
    /\ pc \in {"scan", "loop", "returned", "timedOut", "idle", "nexting"}

(* FIRST_COMPLETED does not return empty-handed before its deadline, though*)
(* the scan and the posts race with whoever settles the futures.  An       *)
(* iterator yields a future only when it is settled, none twice, and as    *)
(* many as it was asked for but for those map() gave up on.                *)
AnswersAreSettled ==
    /\ pc = "returned" /\ returnWhen = "FIRST_COMPLETED" => doneSeen # {}
    /\ \A k \in ToSet(got) : state[k] # "open"
    /\ IsInjective(got)
    /\ op = "as_completed" => Len(got) = next - 1

(* wait() returns once all its futures are settled, or its deadline passes;*)
(* a FIRST_EXCEPTION one also when a future raises, settled before the     *)
(* scan, during it or after it.  An iterator comes back under the same     *)
(* conditions.                                                             *)
AllSettled == \A k \in Futures : state[k] # "open"
WaitEnds ==
    /\ (op = "wait" /\ (AllSettled \/ hasDeadline)) ~> Over
    /\ (returnWhen = "FIRST_EXCEPTION" /\ \E k \in closed : state[k] = "raised") ~> Over
    /\ (pc = "nexting" /\ (AllSettled \/ hasDeadline)) ~> pc = "idle"

(* The assertion of 192_concurrent_futures.py: without a timeout           *)
(* ALL_COMPLETED leaves nothing in not_done.                               *)
AllCompletedMeansAll ==
    pc = "returned" /\ returnWhen = "ALL_COMPLETED" => doneSeen = Futures
=============================================================================
