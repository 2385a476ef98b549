-------------------------------- MODULE Channels --------------------------------
(***************************************************************************)
(* The callers that collect results over Go channels: one call or iterator *)
(* of concurrent.futures over N futures, or one multiprocessing.Pool with  *)
(* its workers and clients.  Which of the two there is, is chosen in the   *)
(* initial state, so that one run checks both; the other stays in its      *)
(* initial state.                                                          *)
(***************************************************************************)
EXTENDS Pool

CONSTANT N          \* how many futures

ASSUME FuturesAssumption == N \in Nat \ {0}

VARIABLES
    use,                                                \* "futures" or "pool"
    op, returnWhen, hasDeadline, state, settled, posted, finished, next,
    doneSeen, doneCnt, got, expired, at                 \* FuturesWait

futures == <<op, returnWhen, hasDeadline, state, settled, posted, finished, next,
             doneSeen, doneCnt, got, expired, at>>

allVars == <<use, vars, futures>>

Fu == INSTANCE FuturesWait WITH closed <- settled, pc <- at

-----------------------------------------------------------------------------

Create ==
    /\ use \in {"futures", "pool"}
    /\ Init /\ Fu!Init
    /\ use = "pool" =>
          /\ op = "map" /\ ~hasDeadline /\ settled = {}
          /\ state = [k \in 1..N |-> "open"]

Uses(k) ==
    /\ use = k
    /\ UNCHANGED use
    /\ IF k = "pool" THEN UNCHANGED futures ELSE UNCHANGED vars

Step ==
    \/ Uses("futures") /\ Fu!Next
    \/ Uses("pool") /\ Next

ChannelsSpec == Create /\ [][Step]_allVars

(* Runnable goroutines run, and the functions of jobs return.  The workers *)
(* and the goroutines that pass results on take a few steps for each job,  *)
(* so that fairness to all of them together lets none wait for ever; a     *)
(* client may make calls for ever.  FuturesWait explains its own.          *)
ChannelsFairness ==
    /\ WF_allVars(Uses("futures") /\ Fu!Runs)
    /\ WF_allVars(Uses("pool") /\ ~crashed /\ Background)
    /\ \A t \in Clients : WF_allVars(Uses("pool") /\ ~crashed /\ GoOn(t))

FairChannels == ChannelsSpec /\ ChannelsFairness

-----------------------------------------------------------------------------

(* The properties of FuturesWait; they are explained there.  Those of Pool *)
(* hold of it in its initial state too.                                    *)
(* wait(), as_completed(), map(): answers are about settled futures.       *)
AnswersAreSettled == use = "futures" => Fu!AnswersAreSettled
(* They come back when there is nothing more to wait for.                  *)
WaitEnds == use = "futures" => Fu!WaitEnds
=============================================================================
