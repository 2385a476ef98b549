----------------------------- MODULE ChannelsProofs -----------------------------
(***************************************************************************)
(* The callers that collect results over channels, for every number of     *)
(* futures and of workers and every set of clients and of calls.           *)
(***************************************************************************)
EXTENDS Channels, SequenceLemmas, FiniteSetTheorems

-----------------------------------------------------------------------------
(* wait(), as_completed() and map() *)

Waits == {"scan", "loop", "returned", "timedOut"}

(* What was posted comes from a future that is settled, and what has been  *)
(* received is no longer in the channel.  map() has yielded futures before *)
(* the one it is at.                                                       *)
FuturesInv ==
    /\ op \in {"wait", "as_completed", "map"}
    /\ op = "wait" <=> at \in Waits
    /\ state \in [1..N -> {"open", "cancelled", "returned", "raised"}]
    /\ \A k \in settled : k \in 1..N /\ state[k] # "open"
    /\ \A k \in posted : k \in finished
    /\ \A k \in finished : k \in settled
    /\ next \in 1..N + 1
    /\ at \in {"scan", "nexting"} => next <= N
    /\ doneCnt \in Nat
    /\ doneCnt > 0 => doneSeen # {}
    /\ at = "returned" /\ returnWhen = "FIRST_COMPLETED" => doneCnt > 0
    /\ got \in Seq(1..N) /\ Distinct(got)
    /\ op = "wait" => got = <<>>
    /\ op = "as_completed" =>
          /\ Len(got) = next - 1
          /\ \A k \in 1..N : Has(got, k) => k \in finished /\ k \notin posted
    /\ op = "map" =>
          /\ posted = {}
          /\ \A k \in 1..N : Has(got, k) => k \in settled /\ k < next

LEMMA NothingInNothing == Distinct(<<>>) /\ \A v : ~Has(<<>>, v)
  BY DEF Distinct, Has

LEMMA FuturesCreated == ASSUME Fu!Init  PROVE FuturesInv
<1>1. <<>> \in Seq(1..N) /\ Len(<<>>) = 0
  BY EmptySeq
<1>2. 1 \in 1..N + 1 /\ 1 <= N
  BY FuturesAssumption
<1>. QED  BY <1>1, <1>2, NothingInNothing DEF Fu!Init, FuturesInv, Waits, Fu!Futures

(* Those that settle futures, and the goroutines that post them.           *)
LEMMA OthersKeep ==
    ASSUME FuturesInv,
           \/ \E k \in 1..N : Fu!Settle(k) \/ Fu!Close(k) \/ Fu!Post(k)
           \/ Fu!Expire
    PROVE  FuturesInv'
<1>1. ASSUME NEW k \in 1..N, Fu!Settle(k)  PROVE FuturesInv'
  <2>1. /\ state' \in [1..N -> {"open", "cancelled", "returned", "raised"}]
        /\ \A j \in 1..N : state[j] # "open" => state'[j] # "open"
    BY <1>1 DEF Fu!Settle, FuturesInv
  <2>. QED  BY <1>1, <2>1 DEF Fu!Settle, Fu!arguments, Fu!call, FuturesInv
<1>2. ASSUME NEW k \in 1..N, Fu!Close(k)  PROVE FuturesInv'
  BY <1>2 DEF Fu!Close, Fu!arguments, Fu!call, FuturesInv
<1>3. ASSUME NEW k \in 1..N, Fu!Post(k)  PROVE FuturesInv'
  BY <1>3 DEF Fu!Post, Fu!arguments, Fu!call, FuturesInv
<1>4. ASSUME Fu!Expire  PROVE FuturesInv'
  BY <1>4 DEF Fu!Expire, Fu!arguments, Fu!call, FuturesInv
<1>. QED  BY <1>1, <1>2, <1>3, <1>4

(* wait()                                                                  *)
LEMMA CallKeeps ==
    ASSUME FuturesInv, Fu!Call  PROVE FuturesInv'
<1>1. op = "wait"
  BY DEF Fu!Call, Fu!Scan, Fu!Take, Fu!TimeOut, Fu!Answer, FuturesInv, Waits
<1>2. CASE Fu!Scan
  <2>1. doneCnt' \in Nat /\ (doneCnt' > 0 => doneSeen' # {})
    BY <1>2 DEF Fu!Scan, Fu!Count, FuturesInv
  <2>2. next' \in 1..N + 1 /\ (next # N => next' <= N)
    BY <1>2, FuturesAssumption DEF Fu!Scan, FuturesInv
  <2>. QED  BY <1>1, <1>2, <2>1, <2>2 DEF Fu!Scan, Fu!others, Fu!arguments, FuturesInv, Waits
<1>3. CASE Fu!Take
  <2>1. doneCnt' \in Nat /\ (doneCnt' > 0 => doneSeen' # {})
    BY <1>3 DEF Fu!Take, Fu!Count, FuturesInv
  <2>. QED  BY <1>1, <1>3, <2>1 DEF Fu!Take, Fu!arguments, FuturesInv, Waits
<1>4. CASE Fu!TimeOut
  BY <1>1, <1>4 DEF Fu!TimeOut, Fu!others, Fu!arguments, FuturesInv, Waits
<1>5. CASE Fu!Answer
  <2>1. returnWhen = "FIRST_COMPLETED" => doneCnt > 0
    BY <1>5, FuturesAssumption DEF Fu!Answer, Fu!Enough, FuturesInv
  <2>. QED  BY <1>1, <1>5, <2>1 DEF Fu!Answer, Fu!others, Fu!arguments, FuturesInv, Waits
<1>. QED  BY <1>2, <1>3, <1>4, <1>5 DEF Fu!Call

(* The iterators.                                                          *)
LEMMA IterateKeeps ==
    ASSUME FuturesInv, Fu!NextCall \/ Fu!Iterate  PROVE FuturesInv'
<1>1. CASE Fu!NextCall
  BY <1>1 DEF Fu!NextCall, Fu!arguments, FuturesInv, Waits
<1>2. CASE Fu!YieldPosted
  <2>1. PICK k \in posted : posted' = posted \ {k} /\ got' = Append(got, k)
    BY <1>2 DEF Fu!YieldPosted
  <2>2. /\ op = "as_completed" /\ k \in 1..N /\ ~Has(got, k) /\ k \in finished
        /\ got \in Seq(1..N) /\ Distinct(got)
    BY <1>2, <2>1 DEF Fu!YieldPosted, FuturesInv
  <2>3. /\ got' \in Seq(1..N) /\ Distinct(got') /\ Len(got') = Len(got) + 1
        /\ \A v : Has(got', v) <=> Has(got, v) \/ v = k
    <3>1. /\ Append(got, k) \in Seq(1..N) /\ Distinct(Append(got, k))
          /\ \A v : Has(Append(got, k), v) <=> Has(got, v) \/ v = k
      BY <2>2, Longer
    <3>2. Len(Append(got, k)) = Len(got) + 1
      BY <2>2, AtTheEnd
    <3>. QED  BY <2>1, <3>1, <3>2
  <2>4. next' = next + 1 /\ at = "nexting" /\ at' = "idle" /\ next' \in 1..N + 1
    BY <1>2, FuturesAssumption DEF Fu!YieldPosted, Fu!Back, FuturesInv
  <2>5. Len(got') = next' - 1
    BY <2>2, <2>3, <2>4 DEF FuturesInv
  <2>. QED  BY <1>2, <2>1, <2>2, <2>3, <2>4, <2>5
            DEF Fu!YieldPosted, Fu!arguments, FuturesInv, Waits
<1>3. CASE Fu!YieldInOrder
  <2>1. /\ op = "map" /\ next \in settled /\ next \in 1..N /\ ~Has(got, next)
        /\ got \in Seq(1..N) /\ Distinct(got)
    BY <1>3 DEF Fu!YieldInOrder, FuturesInv
  <2>2. /\ got' \in Seq(1..N) /\ Distinct(got')
        /\ \A v : Has(got', v) <=> Has(got, v) \/ v = next
    <3>1. /\ Append(got, next) \in Seq(1..N) /\ Distinct(Append(got, next))
          /\ \A v : Has(Append(got, next), v) <=> Has(got, v) \/ v = next
      BY <2>1, Longer
    <3>2. got' = Append(got, next)
      BY <1>3 DEF Fu!YieldInOrder
    <3>. QED  BY <3>1, <3>2
  <2>3. next' = next + 1 /\ at = "nexting" /\ at' = "idle" /\ next' \in 1..N + 1
    BY <1>3, FuturesAssumption DEF Fu!YieldInOrder, Fu!Back, FuturesInv
  <2>4. \A k \in 1..N : Has(got', k) => k \in settled /\ k < next'
    BY <2>1, <2>2, <2>3 DEF FuturesInv
  <2>. QED  BY <1>3, <2>1, <2>2, <2>3, <2>4 DEF Fu!YieldInOrder, Fu!arguments, FuturesInv, Waits
<1>4. CASE Fu!NextTimesOut
  <2>1. next' = next + 1 /\ at = "nexting" /\ at' = "idle" /\ next' \in 1..N + 1
    BY <1>4, FuturesAssumption DEF Fu!NextTimesOut, Fu!Back, FuturesInv
  <2>. QED  BY <1>4, <2>1 DEF Fu!NextTimesOut, Fu!arguments, FuturesInv, Waits
<1>. QED  BY <1>1, <1>2, <1>3, <1>4 DEF Fu!Iterate

FuturesSafe == use = "futures" => FuturesInv

LEMMA FuturesInvariant == ChannelsSpec => []FuturesSafe
<1>1. Create => FuturesSafe
  BY FuturesCreated DEF Create, FuturesSafe
<1>2. FuturesSafe /\ [Step]_allVars => FuturesSafe'
  <2> SUFFICES ASSUME FuturesSafe, [Step]_allVars, use' = "futures"  PROVE FuturesInv'
    BY DEF FuturesSafe
  <2>1. CASE UNCHANGED allVars
    BY <2>1 DEF allVars, futures, FuturesSafe, FuturesInv
  <2>2. CASE Uses("futures") /\ Fu!Next
    BY <2>2, OthersKeep, CallKeeps, IterateKeeps
       DEF Uses, Fu!Next, Fu!Runs, Fu!Futures, FuturesSafe
  <2>3. CASE Uses("pool") /\ Next
    BY <2>3 DEF Uses
  <2>. QED  BY <2>1, <2>2, <2>3 DEF Step
<1>. QED  BY <1>1, <1>2, PTL DEF ChannelsSpec

(* wait(), as_completed() and map() answer with futures that are settled,  *)
(* an iterator with none twice (cfWait, cfAsCompleted and the map method). *)
THEOREM AnswersTell == ChannelsSpec => []AnswersAreSettled
<1>1. FuturesSafe => AnswersAreSettled
  <2> SUFFICES ASSUME FuturesInv  PROVE Fu!AnswersAreSettled
    BY DEF FuturesSafe, AnswersAreSettled
  <2>1. \A k : k \in Fu!ToSet(got) <=> Has(got, k)
    BY DEF Fu!ToSet, Has
  <2>2. \A k : Has(got, k) => k \in 1..N
    <3>1. got \in Seq(1..N) /\ DOMAIN got = 1..Len(got)
      BY LenProperties DEF FuturesInv
    <3>. QED  BY <3>1, ElementOfSeq DEF Has
  <2>3. Fu!IsInjective(got)
    BY DEF FuturesInv, Distinct, Fu!IsInjective
  <2>. QED  BY <2>1, <2>2, <2>3, NothingInNothing DEF FuturesInv, Fu!AnswersAreSettled
<1>. QED  BY <1>1, FuturesInvariant, PTL
-----------------------------------------------------------------------------
(* multiprocessing.Pool: the invariant *)

Workplaces == {"idle", "sending", "collecting", "iterating", "getting", "receiving",
               "joining"}

PoolTypes ==
    /\ raised \in SUBSET Jobs
    /\ jobs \in Seq(Jobs)
    /\ closed \in BOOLEAN
    /\ running \in SUBSET Jobs /\ IsFiniteSet(running)
    /\ exited \in Nat
    /\ answered \in SUBSET Jobs
    /\ style \in [Clients -> Styles \cup {"none"}]
    /\ batch \in [Clients -> Seq(Jobs)]
    /\ sent \in [Clients -> Nat]
    /\ out \in [Clients -> Seq(Jobs)]
    /\ pc \in [Clients -> Workplaces]
    /\ merged \in [Clients -> Seq(Jobs)]
    /\ agg \in [Clients -> {"none", "value", "error", "taken"}]
    /\ cached \in [Clients -> {"none", "value", "error"}]
    /\ mu \in [Clients -> Clients \cup {Nobody}]
    /\ wants \in [Clients -> Clients \cup {Nobody}]
    /\ calls \in [Clients -> Nat]

(* Workers leave a channel that is closed and empty, and so it stays.      *)
Staff ==
    /\ Cardinality(running) + exited <= Processes
    /\ exited > 0 => closed /\ jobs = <<>>

(* Every client has jobs of its own, and sends them in their order.        *)
Batches ==
    /\ \A t \in Clients :
          /\ style[t] = "none" =>
                /\ sent[t] = 0 /\ out[t] = <<>>
                /\ agg[t] = "none" /\ cached[t] = "none"
          /\ Distinct(batch[t])
          /\ sent[t] <= Len(batch[t])
          /\ pc[t] = "sending" => sent[t] < Len(batch[t]) /\ style[t] # "none"
          /\ pc[t] = "collecting" => style[t] = "map"
          /\ pc[t] = "iterating" => style[t] \in {"imap", "imap_unordered"}
          /\ style[t] = "apply_async" => Len(batch[t]) = 1
    /\ \A t, u \in Clients : t # u => \A j : ~(Has(batch[t], j) /\ Has(batch[u], j))

(* A job that was sent, and only such a job, is in one place.              *)
SentBy(t, j) == \E n \in 1..sent[t] : batch[t][n] = j
HeldBy(t, j) == Has(merged[t], j) \/ Has(out[t], j)

Placed ==
    /\ Distinct(jobs)
    /\ \A j : Has(jobs, j) => j \notin running /\ j \notin answered
    /\ \A j \in running : j \notin answered
    /\ \A t \in Clients : \A j : HeldBy(t, j) =>
          SentBy(t, j) /\ ~Has(jobs, j) /\ j \notin running /\ j \notin answered
    /\ \A j : Has(jobs, j) \/ j \in running \/ j \in answered =>
          \E t \in Clients : SentBy(t, j)
    /\ \A t \in Clients : \A j : SentBy(t, j) =>
          Has(jobs, j) \/ j \in running \/ j \in answered \/ HeldBy(t, j)

(* What an AsyncResult has is what became of the jobs it was handed: those *)
(* of the batch, in their order.                                           *)
Async(t) == style[t] \in {"apply_async", "map_async"}
AnyRaised(t) == \E n \in 1..Len(batch[t]) : batch[t][n] \in raised
AllReturned(t) ==
    /\ Len(out[t]) = Len(batch[t])
    /\ \A n \in 1..Len(batch[t]) : batch[t][n] \notin raised

Outcomes ==
    \A t \in Clients :
       /\ Async(t) =>
             /\ Len(out[t]) <= Len(batch[t])
             /\ \A n \in 1..Len(out[t]) : out[t][n] = batch[t][n]
       /\ style[t] = "map_async" /\ agg[t] = "none" =>
             \A n \in 1..Len(out[t]) : batch[t][n] \notin raised
       /\ agg[t] # "none" => style[t] = "map_async"
       /\ cached[t] # "none" => Async(t)
       /\ agg[t] = "error" \/ cached[t] = "error" => AnyRaised(t)
       /\ agg[t] = "value" \/ cached[t] = "value" => AllReturned(t)

(* Whoever receives a result has its mutex, and it is not cached yet.      *)
Getters ==
    /\ \A t \in Clients :
          /\ pc[t] \in {"getting", "receiving"} => wants[t] \in Clients
          /\ pc[t] = "receiving" => mu[wants[t]] = t /\ cached[wants[t]] = "none"
    /\ \A r \in Clients : calls[r] <= 1 /\ (calls[r] > 0 => cached[r] # "none")

PoolInv == PoolTypes /\ Staff /\ Batches /\ Placed /\ Outcomes /\ Getters

-----------------------------------------------------------------------------
(* What the steps of a pool have in common *)

USE SizesAssumption

(* The batch of a call: jobs, each once, and only one of apply_async.      *)
LEMMA OneBatch ==
    ASSUME NEW r \in Requests
    PROVE  /\ r[1] \in Styles /\ r[2] \in Seq(Jobs)
           /\ r[2] # <<>> /\ Distinct(r[2])
           /\ r[1] = "apply_async" => Len(r[2]) = 1
           /\ Len(r[2]) > 0
<1>1. r \in Styles \X Seq(Jobs)
  BY RequestsAssumption
<1>2. Distinct(r[2])
  BY RequestsAssumption DEF Distinct, IsInjective
<1>3. Len(r[2]) > 0
  BY <1>1, RequestsAssumption, EmptySeq, LenProperties
<1>. QED  BY <1>1, <1>2, <1>3, RequestsAssumption

(* The next result of a call is taken out of its channel and handed over.  *)
LEMMA TakeNextDoes ==
    ASSUME PoolTypes, Batches, NEW t \in Clients, TakeNext(t)
    PROVE  \E j \in Jobs :
              /\ j = batch[t][Len(out[t]) + 1]
              /\ j \in answered /\ answered' = answered \ {j}
              /\ Has(batch[t], j) /\ SentBy(t, j)
              /\ Len(out[t]) + 1 \in 1..sent[t]
              /\ out' \in [Clients -> Seq(Jobs)]
              /\ \A u \in Clients : u # t => out'[u] = out[u]
              /\ \A v : Has(out'[t], v) <=> Has(out[t], v) \/ v = j
              /\ Len(out'[t]) = Len(out[t]) + 1
              /\ \A n \in 1..Len(out[t]) : out'[t][n] = out[t][n]
              /\ out'[t][Len(out[t]) + 1] = j
<1>. DEFINE j == batch[t][Len(out[t]) + 1]
<1>1. /\ out[t] \in Seq(Jobs) /\ Len(out[t]) \in Nat
      /\ batch[t] \in Seq(Jobs) /\ Len(batch[t]) \in Nat /\ DOMAIN batch[t] = 1..Len(batch[t])
      /\ sent[t] \in Nat /\ sent[t] <= Len(batch[t])
  BY LenProperties DEF PoolTypes, Batches
<1>2. Len(out[t]) + 1 \in 1..sent[t] /\ Len(out[t]) + 1 \in 1..Len(batch[t])
  BY <1>1 DEF TakeNext, Handed
<1>3. j \in Jobs
  BY <1>1, <1>2, ElementOfSeq
<1>4. Has(batch[t], j) /\ SentBy(t, j)
  BY <1>1, <1>2 DEF Has, SentBy
<1>5. /\ Append(out[t], j) \in Seq(Jobs)
      /\ Len(Append(out[t], j)) = Len(out[t]) + 1
      /\ \A v : Has(Append(out[t], j), v) <=> Has(out[t], v) \/ v = j
  BY <1>1, <1>3, AtTheEnd
<1>6. /\ \A n \in 1..Len(out[t]) : Append(out[t], j)[n] = out[t][n]
      /\ Append(out[t], j)[Len(out[t]) + 1] = j
  BY <1>1, <1>3, AppendProperties
<1>7. /\ j \in answered /\ answered' = answered \ {j}
      /\ out' = [out EXCEPT ![t] = Append(@, j)]
  BY DEF TakeNext, Handed
<1>8. out' \in [Clients -> Seq(Jobs)] /\ out'[t] = Append(out[t], j)
      /\ \A u \in Clients : u # t => out'[u] = out[u]
  BY <1>5, <1>7 DEF PoolTypes
<1>. HIDE DEF j
<1>9. /\ Len(out'[t]) = Len(out[t]) + 1
      /\ \A v : Has(out'[t], v) <=> Has(out[t], v) \/ v = j
      /\ \A n \in 1..Len(out[t]) : out'[t][n] = out[t][n]
      /\ out'[t][Len(out[t]) + 1] = j
  BY <1>5, <1>6, <1>8
<1>10. j = batch[t][Len(out[t]) + 1]
  BY DEF j
<1>. QED  BY <1>2, <1>3, <1>4, <1>7, <1>8, <1>9, <1>10

(* What is in the channel or among the results of imap_unordered is jobs.  *)
LEMMA FromSeq ==
    ASSUME NEW s \in Seq(Jobs), NEW v, Has(s, v)  PROVE v \in Jobs
  BY LenProperties, ElementOfSeq DEF Has

(* The result an AsyncResult takes.                                        *)
LEMMA OutcomeIs ==
    ASSUME NEW t  PROVE Outcome(t) \in {"value", "error"}
  BY DEF Outcome

-----------------------------------------------------------------------------
(* Types *)

LEMMA SendTypes ==
    ASSUME PoolTypes, Batches, NEW t \in Clients, Send(t)  PROVE PoolTypes'
<1>1. CASE closed
  BY <1>1 DEF Send, results, PoolTypes
<1>2. CASE ~closed
  <2>1. /\ sent[t] \in Nat /\ sent[t] + 1 \in 1..Len(batch[t]) /\ batch[t] \in Seq(Jobs)
        /\ sent[t] + 1 \in Nat
    BY LenProperties DEF Send, PoolTypes, Batches
  <2>2. batch[t][sent[t] + 1] \in Jobs
    BY <2>1, ElementOfSeq
  <2>3. jobs' \in Seq(Jobs)
    <3>1. jobs \in Seq(Jobs)
      BY DEF PoolTypes
    <3>2. jobs' = Append(jobs, batch[t][sent[t] + 1])
      BY <1>2 DEF Send
    <3>. QED  BY <2>2, <3>1, <3>2, AtTheEnd
  <2>4. sent' \in [Clients -> Nat]
    <3>1. sent \in [Clients -> Nat]
      BY DEF PoolTypes
    <3>2. sent' = [sent EXCEPT ![t] = sent[t] + 1]
      BY <1>2 DEF Send
    <3>. QED  BY <2>1, <3>1, <3>2
  <2>5. pc' \in [Clients -> Workplaces]
    <3>1. pc \in [Clients -> Workplaces]
      BY DEF PoolTypes
    <3>2. \/ pc' = pc
          \/ pc' = [pc EXCEPT ![t] = "collecting"]
          \/ pc' = [pc EXCEPT ![t] = "idle"]
      BY <1>2 DEF Send, Goto
    <3>3. "collecting" \in Workplaces /\ "idle" \in Workplaces
      BY DEF Workplaces
    <3>. HIDE DEF Workplaces
    <3>. QED  BY <3>1, <3>2, <3>3
  <2>. QED  BY <1>2, <2>3, <2>4, <2>5 DEF Send, results, PoolTypes
<1>. QED  BY <1>1, <1>2

LEMMA TakeResultTypes ==
    ASSUME PoolTypes, Batches, NEW r \in Clients, TakeResult(r)
    PROVE  /\ answered' \in SUBSET Jobs
           /\ out' \in [Clients -> Seq(Jobs)]
           /\ agg' \in [Clients -> {"none", "value", "error", "taken"}]
           /\ cached' \in [Clients -> {"none", "value", "error"}]
<1>1. CASE TakeNext(r) /\ cached' = [cached EXCEPT ![r] = Outcome(r)] /\ UNCHANGED agg
  BY <1>1, TakeNextDoes, OutcomeIs DEF PoolTypes
<1>2. CASE /\ agg[r] \in {"value", "error"}
           /\ cached' = [cached EXCEPT ![r] = agg[r]]
           /\ agg' = [agg EXCEPT ![r] = "taken"]
           /\ UNCHANGED <<answered, out>>
  BY <1>2 DEF PoolTypes
<1>. QED  BY <1>1, <1>2 DEF TakeResult

LEMMA TypesKept ==
    ASSUME PoolTypes, Staff, Batches, Getters, Next  PROVE PoolTypes'
<1>1. ASSUME Receive  PROVE PoolTypes'
  <2>1. /\ Head(jobs) \in Jobs /\ jobs' \in Seq(Jobs)
        /\ running' = running \cup {Head(jobs)}
    BY <1>1, HeadAndTail DEF Receive, PoolTypes
  <2>2. IsFiniteSet(running')
    BY <2>1, FS_AddElement DEF PoolTypes
  <2>. QED  BY <1>1, <2>1, <2>2 DEF Receive, own, results, PoolTypes
<1>2. ASSUME NEW j \in running, Answer(j)  PROVE PoolTypes'
  <2>1. IsFiniteSet(running')
    BY <1>2, FS_RemoveElement DEF Answer, PoolTypes
  <2>. QED  BY <1>2, <2>1 DEF Answer, own, results, PoolTypes
<1>3. ASSUME Exit  PROVE PoolTypes'
  BY <1>3 DEF Exit, own, results, PoolTypes
<1>4. ASSUME NEW t \in Clients, NEW r \in Requests, Call(t, r[1], r[2])  PROVE PoolTypes'
  BY <1>4, OneBatch DEF Call, Goto, pool, results, PoolTypes, Workplaces
<1>5. ASSUME NEW t \in Clients, Collect(t)  PROVE PoolTypes'
  <2>1. answered' \in SUBSET Jobs /\ out' \in [Clients -> Seq(Jobs)]
    BY <1>5, TakeNextDoes DEF Collect, PoolTypes
  <2>. QED  BY <1>5, <2>1 DEF Collect, Goto, pool, results, PoolTypes, Workplaces
<1>6. ASSUME NEW t \in Clients, NextCall(t) \/ JoinCall(t) \/ JoinReturns(t)  PROVE PoolTypes'
  BY <1>6 DEF NextCall, JoinCall, JoinReturns, Goto, pool, own, results, PoolTypes, Workplaces
<1>7. ASSUME NEW t \in Clients, Forward(t)  PROVE PoolTypes'
  <2>1. PICK j \in answered : /\ answered' = answered \ {j}
                              /\ merged' = [merged EXCEPT ![t] = Append(@, j)]
    BY <1>7 DEF Forward
  <2>2. merged[t] \in Seq(Jobs) /\ j \in Jobs
    BY DEF PoolTypes
  <2>3. Append(merged[t], j) \in Seq(Jobs)
    BY <2>2, AtTheEnd
  <2>. QED  BY <1>7, <2>1, <2>3 DEF Forward, pool, own, results, PoolTypes
<1>8. ASSUME NEW t \in Clients, NextReturns(t)  PROVE PoolTypes'
  <2>1. CASE TakeNext(t) /\ UNCHANGED merged
    <3>1. answered' \in SUBSET Jobs /\ out' \in [Clients -> Seq(Jobs)]
      BY <2>1, TakeNextDoes DEF PoolTypes
    <3>. QED  BY <1>8, <2>1, <3>1 DEF NextReturns, Goto, pool, results, PoolTypes, Workplaces
  <2>2. CASE /\ merged[t] # <<>>
             /\ out' = [out EXCEPT ![t] = Append(@, Head(merged[t]))]
             /\ merged' = [merged EXCEPT ![t] = Tail(@)]
             /\ UNCHANGED answered
    <3>1. merged[t] \in Seq(Jobs) /\ out[t] \in Seq(Jobs)
      BY DEF PoolTypes
    <3>2. Head(merged[t]) \in Jobs /\ Tail(merged[t]) \in Seq(Jobs)
      BY <2>2, <3>1, HeadAndTail
    <3>3. Append(out[t], Head(merged[t])) \in Seq(Jobs)
      BY <3>1, <3>2, AtTheEnd
    <3>. QED  BY <1>8, <2>2, <3>2, <3>3
              DEF NextReturns, Goto, pool, results, PoolTypes, Workplaces
  <2>. QED  BY <1>8, <2>1, <2>2 DEF NextReturns
<1>9. ASSUME NEW t \in Clients, Aggregate(t)  PROVE PoolTypes'
  <2>1. answered' \in SUBSET Jobs /\ out' \in [Clients -> Seq(Jobs)]
    BY <1>9, TakeNextDoes DEF Aggregate, PoolTypes
  <2>2. agg' \in [Clients -> {"none", "value", "error", "taken"}]
    BY <1>9 DEF Aggregate, PoolTypes
  <2>. QED  BY <1>9, <2>1, <2>2 DEF Aggregate, pool, PoolTypes
<1>10. ASSUME NEW t \in Clients, NEW r \in Clients, GetCall(t, r)  PROVE PoolTypes'
  BY <1>10 DEF GetCall, Goto, pool, own, PoolTypes, Workplaces
<1>11. ASSUME NEW t \in Clients, GetLocks(t)  PROVE PoolTypes'
  <2>0. /\ wants' = [wants EXCEPT ![t] = Nobody] \/ wants' = wants
        /\ mu' = [mu EXCEPT ![wants[t]] = t] \/ mu' = mu
        /\ pc' = [pc EXCEPT ![t] = "idle"] \/ pc' = [pc EXCEPT ![t] = "receiving"]
    BY <1>11 DEF GetLocks, Goto
  <2>1. /\ wants' \in [Clients -> Clients \cup {Nobody}]
        /\ mu' \in [Clients -> Clients \cup {Nobody}]
    <3>1. wants \in [Clients -> Clients \cup {Nobody}] /\ mu \in [Clients -> Clients \cup {Nobody}]
      BY DEF PoolTypes
    <3>2. wants' \in [Clients -> Clients \cup {Nobody}]
      BY <2>0, <3>1
    <3>3. mu' \in [Clients -> Clients \cup {Nobody}]
      BY <2>0, <3>1
    <3>. QED  BY <3>2, <3>3
  <2>2. pc' \in [Clients -> Workplaces]
    BY <2>0 DEF PoolTypes, Workplaces
  <2>. QED  BY <1>11, <2>1, <2>2 DEF GetLocks, pool, own, PoolTypes
<1>12. ASSUME NEW t \in Clients, GetReceives(t)  PROVE PoolTypes'
  <2>1. wants[t] \in Clients
    BY <1>12 DEF GetReceives, Getters
  <2>2. /\ answered' \in SUBSET Jobs
        /\ out' \in [Clients -> Seq(Jobs)]
        /\ agg' \in [Clients -> {"none", "value", "error", "taken"}]
        /\ cached' \in [Clients -> {"none", "value", "error"}]
    BY <1>12, <2>1, TakeResultTypes DEF GetReceives
  <2>3. calls[wants[t]] + 1 \in Nat
    BY <2>1 DEF PoolTypes
  <2>4. /\ calls' \in [Clients -> Nat]
        /\ mu' \in [Clients -> Clients \cup {Nobody}]
        /\ wants' \in [Clients -> Clients \cup {Nobody}]
        /\ pc' \in [Clients -> Workplaces]
    BY <1>12, <2>3 DEF GetReceives, Goto, PoolTypes, Workplaces
  <2>. QED  BY <1>12, <2>2, <2>4 DEF GetReceives, pool, PoolTypes
<1>13. ASSUME NEW t \in Clients, NEW r \in Clients, Ready(t, r)  PROVE PoolTypes'
  <2>1. /\ answered' \in SUBSET Jobs
        /\ out' \in [Clients -> Seq(Jobs)]
        /\ agg' \in [Clients -> {"none", "value", "error", "taken"}]
        /\ cached' \in [Clients -> {"none", "value", "error"}]
    BY <1>13, TakeResultTypes DEF Ready
  <2>. QED  BY <1>13, <2>1 DEF Ready, pool, PoolTypes
<1>14. ASSUME NEW t \in Clients, Close(t)  PROVE PoolTypes'
  BY <1>14 DEF Close, own, results, PoolTypes
<1>. QED  BY SendTypes, <1>1, <1>2, <1>3, <1>4, <1>5, <1>6, <1>7, <1>8, <1>9, <1>10, <1>11,
          <1>12, <1>13, <1>14 DEF Next, Background, Work, GoOn, Calls

-----------------------------------------------------------------------------
(* The workers *)

LEMMA StaffKept ==
    ASSUME PoolTypes, Staff, Next  PROVE Staff'
<1>0. Cardinality(running) \in Nat
  BY FS_CardinalityType DEF PoolTypes
<1>1. ASSUME Receive  PROVE Staff'
  <2>1. running' = running \cup {Head(jobs)} /\ exited' = exited /\ IdleWorker /\ jobs # <<>>
    BY <1>1 DEF Receive
  <2>2. Cardinality(running') <= Cardinality(running) + 1 /\ Cardinality(running') \in Nat
    <3>1. IsFiniteSet(running) /\ IsFiniteSet(running \cup {Head(jobs)})
      BY FS_AddElement DEF PoolTypes
    <3>2. Cardinality(running \cup {Head(jobs)}) =
             IF Head(jobs) \in running THEN Cardinality(running) ELSE Cardinality(running) + 1
      BY <3>1, FS_AddElement
    <3>. QED  BY <1>0, <2>1, <3>1, <3>2, FS_CardinalityType
  <2>. QED  BY <1>0, <2>1, <2>2 DEF Staff, IdleWorker, PoolTypes
<1>2. ASSUME NEW j \in running, Answer(j)  PROVE Staff'
  <2>1. /\ running' = running \ {j}
        /\ exited' = exited /\ jobs' = jobs /\ closed' = closed
    BY <1>2 DEF Answer
  <2>2. Cardinality(running') <= Cardinality(running) /\ Cardinality(running') \in Nat
    <3>1. IsFiniteSet(running) /\ IsFiniteSet(running \ {j})
      BY FS_RemoveElement DEF PoolTypes
    <3>2. Cardinality(running \ {j}) =
             IF j \in running THEN Cardinality(running) - 1 ELSE Cardinality(running)
      BY <3>1, FS_RemoveElement
    <3>. QED  BY <1>0, <2>1, <3>1, <3>2, FS_CardinalityType
  <2>. QED  BY <1>0, <2>1, <2>2 DEF Staff, PoolTypes
<1>3. ASSUME Exit  PROVE Staff'
  BY <1>0, <1>3 DEF Exit, IdleWorker, Staff, PoolTypes
<1>4. ASSUME NEW t \in Clients, Send(t)  PROVE Staff'
  BY <1>4 DEF Send, Staff, PoolTypes
<1>5. ASSUME UNCHANGED <<running, exited, jobs>>, closed' = closed \/ closed'  PROVE Staff'
  BY <1>5 DEF Staff
<1>6. ASSUME NEW t \in Clients, UNCHANGED pool  PROVE Staff'
  BY <1>5, <1>6 DEF pool
<1>7. ASSUME NEW t \in Clients, Close(t)  PROVE Staff'
  BY <1>5, <1>7 DEF Close
<1>8. ASSUME NEW t \in Clients, Calls(t)  PROVE Staff'
  BY <1>6, <1>7, <1>8 DEF Calls, Call, NextCall, GetCall, Ready, JoinCall
<1>9. ASSUME NEW t \in Clients, GoOn(t)  PROVE Staff'
  BY <1>4, <1>6, <1>9 DEF GoOn, Collect, NextReturns, GetLocks, GetReceives, JoinReturns
<1>10. ASSUME NEW t \in Clients, Forward(t) \/ Aggregate(t)  PROVE Staff'
  BY <1>6, <1>10 DEF Forward, Aggregate
<1>. QED  BY <1>1, <1>2, <1>3, <1>8, <1>9, <1>10 DEF Next, Background, Work

-----------------------------------------------------------------------------
(* The batches *)

(* The part of Batches that is about one client.                           *)
OwnBatch(t) ==
    /\ style[t] = "none" =>
          /\ sent[t] = 0 /\ out[t] = <<>>
          /\ agg[t] = "none" /\ cached[t] = "none"
    /\ Distinct(batch[t])
    /\ sent[t] <= Len(batch[t])
    /\ pc[t] = "sending" => sent[t] < Len(batch[t]) /\ style[t] # "none"
    /\ pc[t] = "collecting" => style[t] = "map"
    /\ pc[t] = "iterating" => style[t] \in {"imap", "imap_unordered"}
    /\ style[t] = "apply_async" => Len(batch[t]) = 1

Apart ==
    \A t, u \in Clients : t # u => \A j : ~(Has(batch[t], j) /\ Has(batch[u], j))

LEMMA BatchesAre == Batches <=> (\A t \in Clients : OwnBatch(t)) /\ Apart
  BY DEF Batches, OwnBatch, Apart

(* A step that leaves the batches and the styles, and of the rest of a     *)
(* client what its style lets it change.                                   *)
LEMMA OwnBatchKept ==
    ASSUME NEW t \in Clients, OwnBatch(t),
           UNCHANGED <<style, batch, sent>>,
           pc'[t] = pc[t] \/ pc'[t] \notin {"sending", "collecting", "iterating"},
           \/ style[t] # "none"
           \/ out'[t] = out[t] /\ agg'[t] = agg[t] /\ cached'[t] = cached[t]
    PROVE  OwnBatch(t)'
  BY DEF OwnBatch

LEMMA BatchesKept ==
    ASSUME PoolTypes, Batches, Getters, Next  PROVE Batches'
<1>0. (\A t \in Clients : OwnBatch(t)) /\ Apart
  BY BatchesAre
<1>1. ASSUME UNCHANGED <<own, pc, agg, cached>>  PROVE Batches'
  BY <1>1 DEF own, Batches
<1>2. ASSUME Work  PROVE Batches'
  BY <1>1, <1>2 DEF Work, Receive, Answer, Exit, results
<1>3. ASSUME NEW t \in Clients, NEW r \in Requests, Call(t, r[1], r[2])  PROVE Batches'
  <2>1. /\ style' = [style EXCEPT ![t] = r[1]] /\ batch' = [batch EXCEPT ![t] = r[2]]
        /\ pc' = [pc EXCEPT ![t] = "sending"]
        /\ UNCHANGED <<sent, out, agg, cached>>
        /\ style[t] = "none"
        /\ \A c \in Clients : ToSet(batch[c]) \cap ToSet(r[2]) = {}
    BY <1>3 DEF Call, Goto, results
  <2>2. /\ style'[t] = r[1] /\ batch'[t] = r[2] /\ pc'[t] = "sending"
        /\ \A u \in Clients : u # t =>
              style'[u] = style[u] /\ batch'[u] = batch[u] /\ pc'[u] = pc[u]
    BY <2>1 DEF PoolTypes
  <2>3. OwnBatch(t)'
    BY <1>0, <2>1, <2>2, OneBatch DEF OwnBatch, Styles
  <2>4. ASSUME NEW u \in Clients, u # t  PROVE OwnBatch(u)'
    BY <1>0, <2>1, <2>2, <2>4 DEF OwnBatch
  <2>5. ASSUME NEW c \in Clients, NEW j  PROVE ~(Has(batch[c], j) /\ Has(r[2], j))
    BY <2>1 DEF ToSet, Has
  <2>6. Apart'
    BY <1>0, <2>2, <2>5 DEF Apart
  <2>. QED  BY <2>3, <2>4, <2>6, BatchesAre DEF Batches, OwnBatch, Apart
<1>4. ASSUME NEW t \in Clients, Send(t)  PROVE Batches'
  <2>1. CASE closed
    BY <1>1, <1>4, <2>1 DEF Send, own, results
  <2>2. CASE ~closed
    <3>1. /\ sent' = [sent EXCEPT ![t] = @ + 1] /\ pc[t] = "sending"
          /\ UNCHANGED <<style, batch, out, agg, cached>>
      BY <1>4, <2>2 DEF Send, results
    <3>2. sent'[t] = sent[t] + 1 /\ \A u \in Clients : u # t => sent'[u] = sent[u]
      BY <3>1 DEF PoolTypes
    <3>3. IF sent'[t] < Len(batch[t]) THEN pc' = pc
          ELSE pc' = [pc EXCEPT ![t] = IF style[t] = "map" THEN "collecting" ELSE "idle"]
      BY <1>4, <2>2 DEF Send, Goto
    <3>4. /\ \A u \in Clients : u # t => pc'[u] = pc[u]
          /\ IF sent'[t] < Len(batch[t]) THEN pc'[t] = "sending"
             ELSE pc'[t] = IF style[t] = "map" THEN "collecting" ELSE "idle"
      BY <3>1, <3>3 DEF PoolTypes
    <3>5. /\ sent[t] \in Nat /\ Len(batch[t]) \in Nat /\ sent[t] < Len(batch[t])
          /\ style[t] # "none"
      BY <1>0, <3>1, LenProperties DEF OwnBatch, PoolTypes
    <3>6. OwnBatch(t)'
      BY <1>0, <3>1, <3>2, <3>4, <3>5 DEF OwnBatch
    <3>7. ASSUME NEW u \in Clients, u # t  PROVE OwnBatch(u)'
      BY <1>0, <3>1, <3>2, <3>4, <3>7 DEF OwnBatch
    <3>8. Apart'
      BY <1>0, <3>1 DEF Apart
    <3>. QED  BY <3>6, <3>7, <3>8 DEF Batches, OwnBatch, Apart
  <2>. QED  BY <2>1, <2>2
<1>5. ASSUME UNCHANGED <<style, batch, sent>>,
             \A t \in Clients : /\ pc'[t] = pc[t] \/ pc'[t] \notin {"sending", "collecting", "iterating"}
                                /\ \/ style[t] # "none"
                                   \/ /\ out'[t] = out[t] /\ agg'[t] = agg[t]
                                      /\ cached'[t] = cached[t]
      PROVE  Batches'
  <2>1. \A t \in Clients : OwnBatch(t)'
    BY <1>0, <1>5, OwnBatchKept
  <2>2. Apart'
    BY <1>0, <1>5 DEF Apart
  <2>. QED  BY <2>1, <2>2 DEF Batches, OwnBatch, Apart
<1>6. ASSUME NEW t \in Clients, NEW place \in {"idle", "getting", "receiving", "joining"},
             pc' = [pc EXCEPT ![t] = place], UNCHANGED <<own, agg, cached>>
      PROVE  Batches'
  BY <1>5, <1>6 DEF own, PoolTypes
<1>7. ASSUME NEW t \in Clients, TakeNext(t)
      PROVE  style[t] # "none" /\ \A u \in Clients : u # t => out'[u] = out[u]
  <2>1. Len(out[t]) + 1 \in 1..sent[t]
    BY <1>7, TakeNextDoes
  <2>2. sent[t] # 0
    BY <2>1
  <2>. QED  BY <1>0, <1>7, <2>2, TakeNextDoes DEF OwnBatch
<1>8. ASSUME NEW r \in Clients, TakeResult(r)
      PROVE  /\ style[r] # "none"
             /\ \A u \in Clients : u # r =>
                   out'[u] = out[u] /\ agg'[u] = agg[u] /\ cached'[u] = cached[u]
  BY <1>7, <1>8 DEF TakeResult, PoolTypes
<1>9. ASSUME NEW t \in Clients, Collect(t)  PROVE Batches'
  <2>1. pc' = [pc EXCEPT ![t] = "idle"] \/ pc' = pc
    BY <1>9 DEF Collect, Goto
  <2>. QED  BY <1>5, <1>7, <1>9, <2>1 DEF Collect, results, PoolTypes
<1>10. ASSUME NEW t \in Clients, NextCall(t)  PROVE Batches'
  <2>1. /\ pc' = [pc EXCEPT ![t] = "iterating"] /\ style[t] \in {"imap", "imap_unordered"}
        /\ UNCHANGED <<own, agg, cached>>
    BY <1>10 DEF NextCall, Goto, results
  <2>2. pc'[t] = "iterating" /\ \A u \in Clients : u # t => pc'[u] = pc[u]
    BY <2>1 DEF PoolTypes
  <2>3. OwnBatch(t)'
    BY <1>0, <2>1, <2>2 DEF OwnBatch, own
  <2>4. ASSUME NEW u \in Clients, u # t  PROVE OwnBatch(u)'
    BY <1>0, <2>1, <2>2, <2>4 DEF OwnBatch, own
  <2>5. Apart'
    BY <1>0, <2>1 DEF Apart, own
  <2>. QED  BY <2>3, <2>4, <2>5 DEF Batches, OwnBatch, Apart
<1>11. ASSUME NEW t \in Clients, Forward(t)  PROVE Batches'
  BY <1>1, <1>11 DEF Forward, results
<1>12. ASSUME NEW t \in Clients, NextReturns(t)  PROVE Batches'
  <2>1. /\ pc' = [pc EXCEPT ![t] = "idle"] /\ style[t] # "none"
        /\ UNCHANGED <<style, batch, sent, agg, cached>>
    BY <1>12 DEF NextReturns, Goto, results
  <2>2. \A u \in Clients : u # t => out'[u] = out[u]
    BY <1>7, <1>12 DEF NextReturns, PoolTypes
  <2>. QED  BY <1>5, <2>1, <2>2 DEF PoolTypes
<1>13. ASSUME NEW t \in Clients, Aggregate(t)  PROVE Batches'
  <2>1. \A u \in Clients : u # t => agg'[u] = agg[u]
    BY <1>13 DEF Aggregate, PoolTypes
  <2>. QED  BY <1>5, <1>7, <1>13, <2>1 DEF Aggregate
<1>14. ASSUME NEW t \in Clients, NEW r \in Clients, GetCall(t, r)  PROVE Batches'
  BY <1>6, <1>14 DEF GetCall, Goto, own
<1>15. ASSUME NEW t \in Clients, GetLocks(t)  PROVE Batches'
  BY <1>6, <1>15 DEF GetLocks, Goto, own
<1>16. ASSUME NEW t \in Clients, GetReceives(t)  PROVE Batches'
  <2>1. wants[t] \in Clients
    BY <1>16 DEF GetReceives, Getters
  <2>2. /\ pc' = [pc EXCEPT ![t] = "idle"] /\ UNCHANGED <<style, batch, sent>>
        /\ TakeResult(wants[t])
    BY <1>16 DEF GetReceives, Goto
  <2>. QED  BY <1>5, <1>8, <2>1, <2>2 DEF PoolTypes
<1>17. ASSUME NEW t \in Clients, NEW r \in Clients, Ready(t, r)  PROVE Batches'
  BY <1>5, <1>8, <1>17 DEF Ready
<1>18. ASSUME NEW t \in Clients, JoinCall(t) \/ JoinReturns(t)  PROVE Batches'
  BY <1>6, <1>18 DEF JoinCall, JoinReturns, Goto, results
<1>19. ASSUME NEW t \in Clients, Close(t)  PROVE Batches'
  BY <1>1, <1>19 DEF Close, results
<1>. QED  BY <1>2, <1>3, <1>4, <1>9, <1>10, <1>11, <1>12, <1>13, <1>14, <1>15, <1>16, <1>17,
          <1>18, <1>19 DEF Next, Background, GoOn, Calls

-----------------------------------------------------------------------------
(* Where a job is *)

LEMMA PlacedAsBefore ==
    ASSUME Placed, UNCHANGED <<jobs, running, answered, batch, sent, out, merged>>
    PROVE  Placed'
  BY DEF Placed, SentBy, HeldBy

(* What a client has sent is of its own batch.                             *)
LEMMA SentIsOwn ==
    ASSUME PoolTypes, Batches, NEW u \in Clients, NEW j, SentBy(u, j)
    PROVE  Has(batch[u], j)
<1>1. sent[u] \in Nat /\ sent[u] <= Len(batch[u]) /\ DOMAIN batch[u] = 1..Len(batch[u])
      /\ Len(batch[u]) \in Nat
  BY LenProperties DEF PoolTypes, Batches
<1>. QED  BY <1>1 DEF SentBy, Has

(* A result goes from its channel to the client whose job it is of.        *)
LEMMA HandedOn ==
    ASSUME PoolTypes, Batches, Placed, NEW t \in Clients, NEW j \in answered, SentBy(t, j),
           answered' = answered \ {j}, UNCHANGED <<jobs, running>>,
           \A v : HeldBy(t, v)' <=> HeldBy(t, v) \/ v = j,
           \A u \in Clients : u # t => \A v : HeldBy(u, v)' <=> HeldBy(u, v),
           \A u \in Clients : \A v : SentBy(u, v)' <=> SentBy(u, v)
    PROVE  Placed'
<1>1. ~Has(jobs, j) /\ j \notin running
  BY DEF Placed
<1>2. ASSUME NEW u \in Clients, NEW v, HeldBy(u, v)'
      PROVE  SentBy(u, v)' /\ ~Has(jobs', v) /\ v \notin running' /\ v \notin answered'
  <2>1. CASE v = j /\ u = t
    BY <1>1, <2>1
  <2>2. CASE HeldBy(u, v)
    BY <2>2 DEF Placed
  <2>. QED  BY <1>2, <2>1, <2>2
<1>3. ASSUME NEW v, Has(jobs', v) \/ v \in running' \/ v \in answered'
      PROVE  \E u \in Clients : SentBy(u, v)'
  BY <1>3 DEF Placed
<1>4. ASSUME NEW u \in Clients, NEW v, SentBy(u, v)'
      PROVE  Has(jobs', v) \/ v \in running' \/ v \in answered' \/ HeldBy(u, v)'
  <2>1. SentBy(u, v)
    BY <1>4
  <2>2. CASE v # j
    BY <2>1, <2>2 DEF Placed
  <2>3. CASE v = j
    <3>1. u = t
      BY <2>1, <2>3, SentIsOwn DEF Batches
    <3>. QED  BY <2>3, <3>1
  <2>. QED  BY <2>2, <2>3
<1>. QED  BY <1>2, <1>3, <1>4 DEF Placed

(* A result that a client takes out of its channel.                        *)
LEMMA PlacedAfterNext ==
    ASSUME PoolTypes, Batches, Placed, NEW t \in Clients, TakeNext(t),
           UNCHANGED <<jobs, running, batch, sent, merged>>
    PROVE  Placed'
<1>0. PICK j \in Jobs :
         /\ j = batch[t][Len(out[t]) + 1]
         /\ j \in answered /\ answered' = answered \ {j}
         /\ Has(batch[t], j) /\ SentBy(t, j)
         /\ Len(out[t]) + 1 \in 1..sent[t]
         /\ out' \in [Clients -> Seq(Jobs)]
         /\ \A u \in Clients : u # t => out'[u] = out[u]
         /\ \A v : Has(out'[t], v) <=> Has(out[t], v) \/ v = j
         /\ Len(out'[t]) = Len(out[t]) + 1
         /\ \A n \in 1..Len(out[t]) : out'[t][n] = out[t][n]
         /\ out'[t][Len(out[t]) + 1] = j
  BY TakeNextDoes
<1>1. /\ j \in answered /\ answered' = answered \ {j} /\ SentBy(t, j)
      /\ \A u \in Clients : u # t => out'[u] = out[u]
      /\ \A v : Has(out'[t], v) <=> Has(out[t], v) \/ v = j
  BY <1>0
<1>2. /\ \A v : HeldBy(t, v)' <=> HeldBy(t, v) \/ v = j
      /\ \A u \in Clients : u # t => \A v : HeldBy(u, v)' <=> HeldBy(u, v)
      /\ \A u \in Clients : \A v : SentBy(u, v)' <=> SentBy(u, v)
  BY <1>1 DEF HeldBy, SentBy
<1>. QED  BY <1>1, <1>2, HandedOn

LEMMA PlacedAfterResult ==
    ASSUME PoolTypes, Batches, Placed, NEW r \in Clients, TakeResult(r),
           UNCHANGED <<jobs, running, batch, sent, merged>>
    PROVE  Placed'
  BY PlacedAsBefore, PlacedAfterNext DEF TakeResult

LEMMA PlacedAfterReceive ==
    ASSUME PoolTypes, Placed, Receive  PROVE Placed'
<1>1. /\ running' = running \cup {Head(jobs)} /\ jobs' = Tail(jobs)
      /\ UNCHANGED <<answered, batch, sent, out, merged>>
      /\ jobs # <<>> /\ jobs \in Seq(Jobs) /\ Distinct(jobs)
  BY DEF Receive, own, PoolTypes, Placed
<1>2. /\ Distinct(jobs') /\ ~Has(jobs', Head(jobs))
      /\ \A v : Has(jobs, v) <=> v = Head(jobs) \/ Has(jobs', v)
  BY <1>1, HeadAndTail
<1>3. \A u \in Clients : \A v : (SentBy(u, v)' <=> SentBy(u, v)) /\ (HeldBy(u, v)' <=> HeldBy(u, v))
  BY <1>1 DEF SentBy, HeldBy
<1>. QED  BY <1>1, <1>2, <1>3 DEF Placed

LEMMA PlacedAfterAnswer ==
    ASSUME Placed, NEW j \in running, Answer(j)  PROVE Placed'
<1>1. /\ running' = running \ {j} /\ answered' = answered \cup {j}
      /\ UNCHANGED <<jobs, batch, sent, out, merged>>
  BY DEF Answer, own
<1>2. \A u \in Clients : \A v : (SentBy(u, v)' <=> SentBy(u, v)) /\ (HeldBy(u, v)' <=> HeldBy(u, v))
  BY <1>1 DEF SentBy, HeldBy
<1>. QED  BY <1>1, <1>2 DEF Placed

(* The job that is sent was nowhere: its client has not sent it before and *)
(* it is not in the batch of another.                                      *)
LEMMA PlacedAfterSend ==
    ASSUME PoolTypes, Batches, Placed, NEW t \in Clients, Send(t), ~closed
    PROVE  Placed'
<1>. DEFINE j == batch[t][sent[t] + 1]
<1>1. /\ jobs' = Append(jobs, j) /\ sent' = [sent EXCEPT ![t] = @ + 1]
      /\ pc[t] = "sending"
      /\ UNCHANGED <<running, answered, batch, out, merged>>
  BY DEF Send
<1>2. /\ sent[t] \in Nat /\ sent[t] + 1 \in 1..Len(batch[t]) /\ batch[t] \in Seq(Jobs)
      /\ DOMAIN batch[t] = 1..Len(batch[t])
      /\ sent'[t] = sent[t] + 1 /\ \A u \in Clients : u # t => sent'[u] = sent[u]
  BY <1>1, LenProperties DEF PoolTypes, Batches
<1>3. j \in Jobs /\ Has(batch[t], j)
  BY <1>2, ElementOfSeq DEF Has
<1>4. \A n \in 1..sent[t] : batch[t][n] # j
  <2>1. \A n \in 1..sent[t] : n \in DOMAIN batch[t] /\ n # sent[t] + 1
    BY <1>2
  <2>2. Distinct(batch[t])
    BY DEF Batches
  <2>. QED  BY <1>2, <2>1, <2>2 DEF Distinct
<1>. HIDE DEF j
<1>5. \A u \in Clients : ~SentBy(u, j)
  <2>1. ~SentBy(t, j)
    BY <1>4 DEF SentBy
  <2>2. ASSUME NEW u \in Clients, u # t  PROVE ~SentBy(u, j)
    BY <1>3, <2>2, SentIsOwn DEF Batches
  <2>. QED  BY <2>1, <2>2
<1>6. ~Has(jobs, j) /\ j \notin running /\ j \notin answered
  BY <1>5 DEF Placed
<1>7. jobs \in Seq(Jobs) /\ Distinct(jobs)
  BY DEF PoolTypes, Placed
<1>8. Distinct(jobs') /\ \A v : Has(jobs', v) <=> Has(jobs, v) \/ v = j
  BY <1>1, <1>3, <1>6, <1>7, Longer
<1>9. \A v : SentBy(t, v)' <=> SentBy(t, v) \/ v = j
  <2>1. \A n : n \in 1..sent'[t] <=> n \in 1..sent[t] \/ n = sent[t] + 1
    BY <1>2
  <2>. QED  BY <1>1, <2>1 DEF SentBy, j
<1>10. \A u \in Clients : u # t => \A v : SentBy(u, v)' <=> SentBy(u, v)
  BY <1>1, <1>2 DEF SentBy
<1>11. \A u \in Clients : \A v : HeldBy(u, v)' <=> HeldBy(u, v)
  BY <1>1 DEF HeldBy
<1>. QED  BY <1>1, <1>5, <1>6, <1>8, <1>9, <1>10, <1>11 DEF Placed

LEMMA PlacedAfterForward ==
    ASSUME PoolTypes, Batches, Placed, NEW t \in Clients, Forward(t)  PROVE Placed'
<1>1. PICK j \in ToSet(SubSeq(batch[t], 1, sent[t])) \cap answered :
         /\ answered' = answered \ {j}
         /\ merged' = [merged EXCEPT ![t] = Append(@, j)]
  BY DEF Forward
<1>2. SentBy(t, j)
  <2>1. /\ batch[t] \in Seq(Jobs) /\ sent[t] \in Nat /\ sent[t] <= Len(batch[t])
        /\ Len(batch[t]) \in Nat
    BY LenProperties DEF PoolTypes, Batches
  <2>2. \A n \in 1..sent[t] : batch[t][n] \in Jobs
    BY <2>1, ElementOfSeq
  <2>3. /\ SubSeq(batch[t], 1, sent[t]) \in Seq(Jobs)
        /\ Len(SubSeq(batch[t], 1, sent[t])) = sent[t]
        /\ \A n \in 1..sent[t] : SubSeq(batch[t], 1, sent[t])[n] = batch[t][n]
    BY <2>1, <2>2, ButLast
  <2>4. DOMAIN SubSeq(batch[t], 1, sent[t]) = 1..sent[t]
    BY <2>3, LenProperties
  <2>. QED  BY <1>1, <2>3, <2>4 DEF ToSet, SentBy
<1>3. UNCHANGED <<jobs, running, batch, sent, out>>
  BY DEF Forward, pool, own
<1>4. merged[t] \in Seq(Jobs) /\ j \in Jobs
  BY DEF PoolTypes
<1>5. \A v : Has(Append(merged[t], j), v) <=> Has(merged[t], v) \/ v = j
  BY <1>4, AtTheEnd
<1>6. merged'[t] = Append(merged[t], j) /\ \A u \in Clients : u # t => merged'[u] = merged[u]
  BY <1>1 DEF PoolTypes
<1>7. /\ \A v : HeldBy(t, v)' <=> HeldBy(t, v) \/ v = j
      /\ \A u \in Clients : u # t => \A v : HeldBy(u, v)' <=> HeldBy(u, v)
      /\ \A u \in Clients : \A v : SentBy(u, v)' <=> SentBy(u, v)
  BY <1>3, <1>5, <1>6 DEF HeldBy, SentBy
<1>. QED  BY <1>1, <1>2, <1>3, <1>7, HandedOn

(* The iterator passes on what the forwarders merged.                      *)
LEMMA PlacedAfterMerged ==
    ASSUME PoolTypes, Placed, NEW t \in Clients, merged[t] # <<>>,
           out' = [out EXCEPT ![t] = Append(@, Head(merged[t]))],
           merged' = [merged EXCEPT ![t] = Tail(@)],
           UNCHANGED <<jobs, running, answered, batch, sent>>
    PROVE  Placed'
<1>1. merged[t] \in Seq(Jobs) /\ out[t] \in Seq(Jobs)
  BY DEF PoolTypes
<1>2. /\ Head(merged[t]) \in Jobs
      /\ \A v : Has(merged[t], v) <=> v = Head(merged[t]) \/ Has(Tail(merged[t]), v)
  BY <1>1, HeadAndTail
<1>3. \A v : Has(Append(out[t], Head(merged[t])), v) <=> Has(out[t], v) \/ v = Head(merged[t])
  BY <1>1, <1>2, AtTheEnd
<1>4. /\ out'[t] = Append(out[t], Head(merged[t])) /\ merged'[t] = Tail(merged[t])
      /\ \A u \in Clients : u # t => out'[u] = out[u] /\ merged'[u] = merged[u]
  BY DEF PoolTypes
<1>5. \A u \in Clients : \A v : (HeldBy(u, v)' <=> HeldBy(u, v)) /\ (SentBy(u, v)' <=> SentBy(u, v))
  BY <1>2, <1>3, <1>4 DEF HeldBy, SentBy
<1>. QED  BY <1>5 DEF Placed

LEMMA PlacedKept ==
    ASSUME PoolTypes, Batches, Placed, Getters, Next  PROVE Placed'
<1>1. ASSUME Work  PROVE Placed'
  BY <1>1, PlacedAfterReceive, PlacedAfterAnswer, PlacedAsBefore DEF Work, Exit, own
<1>2. ASSUME NEW t \in Clients, NEW r \in Requests, Call(t, r[1], r[2])  PROVE Placed'
  <2>1. /\ batch' = [batch EXCEPT ![t] = r[2]] /\ style[t] = "none"
        /\ UNCHANGED <<jobs, running, answered, sent, out, merged>>
    BY <1>2 DEF Call, pool
  <2>2. /\ sent[t] = 0 /\ sent'[t] = 0
        /\ \A u \in Clients : u # t => batch'[u] = batch[u] /\ sent'[u] = sent[u]
    BY <2>1 DEF Batches, PoolTypes
  <2>3. \A u \in Clients : \A v : SentBy(u, v)' <=> SentBy(u, v)
    BY <2>2 DEF SentBy
  <2>4. \A u \in Clients : \A v : HeldBy(u, v)' <=> HeldBy(u, v)
    BY <2>1 DEF HeldBy
  <2>. QED  BY <2>1, <2>3, <2>4 DEF Placed
<1>3. ASSUME NEW t \in Clients, Send(t)  PROVE Placed'
  <2>1. CASE closed
    BY <1>3, <2>1, PlacedAsBefore DEF Send
  <2>. QED  BY <1>3, <2>1, PlacedAfterSend
<1>4. ASSUME NEW t \in Clients, Collect(t) \/ Aggregate(t)  PROVE Placed'
  BY <1>4, PlacedAfterNext DEF Collect, Aggregate, pool
<1>5. ASSUME NEW t \in Clients, NextReturns(t)  PROVE Placed'
  BY <1>5, PlacedAfterNext, PlacedAfterMerged DEF NextReturns, pool
<1>6. ASSUME NEW t \in Clients, GetReceives(t)  PROVE Placed'
  <2>1. wants[t] \in Clients
    BY <1>6 DEF GetReceives, Getters
  <2>. QED  BY <1>6, <2>1, PlacedAfterResult DEF GetReceives, pool
<1>7. ASSUME NEW t \in Clients, NEW r \in Clients, Ready(t, r)  PROVE Placed'
  BY <1>7, PlacedAfterResult DEF Ready, pool
<1>8. ASSUME NEW t \in Clients,
             \/ NextCall(t) \/ (\E r \in Clients : GetCall(t, r)) \/ GetLocks(t)
             \/ Close(t) \/ JoinCall(t) \/ JoinReturns(t)
      PROVE  Placed'
  BY <1>8, PlacedAsBefore
     DEF NextCall, GetCall, GetLocks, Close, JoinCall, JoinReturns, pool, own
<1>. QED  BY <1>1, <1>2, <1>3, <1>4, <1>5, <1>6, <1>7, <1>8, PlacedAfterForward
          DEF Next, Background, GoOn, Calls

-----------------------------------------------------------------------------
(* What an AsyncResult has *)

Told(t) ==
    /\ Async(t) =>
          /\ Len(out[t]) <= Len(batch[t])
          /\ \A n \in 1..Len(out[t]) : out[t][n] = batch[t][n]
    /\ style[t] = "map_async" /\ agg[t] = "none" =>
          \A n \in 1..Len(out[t]) : batch[t][n] \notin raised
    /\ agg[t] # "none" => style[t] = "map_async"
    /\ cached[t] # "none" => Async(t)
    /\ agg[t] = "error" \/ cached[t] = "error" => AnyRaised(t)
    /\ agg[t] = "value" \/ cached[t] = "value" => AllReturned(t)

LEMMA OutcomesAreTold == Outcomes <=> \A t \in Clients : Told(t)
  BY DEF Outcomes, Told

LEMMA ToldAsBefore ==
    ASSUME NEW t \in Clients, Told(t), raised' = raised, style'[t] = style[t],
           batch'[t] = batch[t], out'[t] = out[t], agg'[t] = agg[t],
           cached'[t] = cached[t]
    PROVE  Told(t)'
  BY DEF Told, Async, AnyRaised, AllReturned

(* A job that raises now is with a worker, and so no caller has been told. *)
LEMMA ToldAfterAnswer ==
    ASSUME PoolTypes, Placed, NEW t \in Clients, Told(t), NEW j \in running, Answer(j)
    PROVE  Told(t)'
<1>1. /\ \A k : k \in raised' => k \in raised \/ k = j
      /\ \A k : k \in raised => k \in raised'
      /\ UNCHANGED <<style, batch, out, agg, cached>>
  BY DEF Answer, own, results
<1>2. /\ Len(out[t]) \in Nat /\ DOMAIN out[t] = 1..Len(out[t])
  BY LenProperties DEF PoolTypes
<1>3. \A n \in 1..Len(out[t]) : out[t][n] # j
  BY <1>2 DEF Placed, HeldBy, Has
<1>4. Async(t) => \A n \in 1..Len(out[t]) : batch[t][n] # j
  BY <1>3 DEF Told
<1>5. AllReturned(t) /\ Async(t) => AllReturned(t)'
  BY <1>1, <1>4 DEF AllReturned
<1>6. AnyRaised(t) => AnyRaised(t)'
  BY <1>1 DEF AnyRaised
<1>7. Async(t)' <=> Async(t)
  BY <1>1 DEF Async
<1>8. style[t] = "map_async" => Async(t)
  BY DEF Async
<1>. QED  BY <1>1, <1>4, <1>5, <1>6, <1>7, <1>8 DEF Told

(* A result taken from a channel by an AsyncResult.                        *)
LEMMA NextInOrder ==
    ASSUME PoolTypes, Batches, NEW t \in Clients, Told(t), Async(t), TakeNext(t),
           batch' = batch
    PROVE  /\ Len(out'[t]) <= Len(batch[t])
           /\ \A n \in 1..Len(out'[t]) : out'[t][n] = batch[t][n]
           /\ Len(out'[t]) = Len(out[t]) + 1
           /\ Len(out[t]) \in Nat /\ Len(batch[t]) \in Nat
           /\ Outcome(t) = IF batch[t][Len(out'[t])] \in raised THEN "error" ELSE "value"
<1>1. /\ Len(out[t]) + 1 \in 1..sent[t] /\ Len(out'[t]) = Len(out[t]) + 1
      /\ \A n \in 1..Len(out[t]) : out'[t][n] = out[t][n]
      /\ out'[t][Len(out[t]) + 1] = batch[t][Len(out[t]) + 1]
  BY TakeNextDoes
<1>2. /\ Len(out[t]) \in Nat /\ Len(batch[t]) \in Nat
      /\ sent[t] \in Nat /\ sent[t] <= Len(batch[t])
  BY LenProperties DEF PoolTypes, Batches
<1>3. \A n \in 1..Len(out'[t]) : n \in 1..Len(out[t]) \/ n = Len(out[t]) + 1
  BY <1>1, <1>2
<1>4. \A n \in 1..Len(out'[t]) : out'[t][n] = batch[t][n]
  BY <1>1, <1>3 DEF Told
<1>5. Len(out'[t]) <= Len(batch[t])
  BY <1>1, <1>2
<1>. QED  BY <1>1, <1>2, <1>4, <1>5 DEF Outcome, Handed

LEMMA ToldAfterAggregate ==
    ASSUME PoolTypes, Batches, NEW t \in Clients, Told(t), Aggregate(t)
    PROVE  Told(t)'
<1>1. /\ style[t] = "map_async" /\ agg[t] = "none" /\ Async(t) /\ TakeNext(t)
      /\ UNCHANGED <<raised, style, batch, cached>>
      /\ agg'[t] = IF Outcome(t) = "error" THEN "error"
                   ELSE IF Len(out[t]) + 1 = Len(batch[t]) THEN "value" ELSE "none"
  BY DEF Aggregate, Async, pool, PoolTypes, Handed
<1>2. /\ Len(out'[t]) <= Len(batch[t])
      /\ \A n \in 1..Len(out'[t]) : out'[t][n] = batch[t][n]
      /\ Len(out'[t]) = Len(out[t]) + 1
      /\ Len(out[t]) \in Nat /\ Len(batch[t]) \in Nat
      /\ Outcome(t) = IF batch[t][Len(out'[t])] \in raised THEN "error" ELSE "value"
  BY <1>1, NextInOrder
<1>3. \A n \in 1..Len(out'[t]) : n \in 1..Len(out[t]) \/ n = Len(out'[t])
  BY <1>2
<1>4. \A n \in 1..Len(out[t]) : batch[t][n] \notin raised
  BY <1>1 DEF Told
<1>5. Outcome(t) = "value" => \A n \in 1..Len(out'[t]) : batch[t][n] \notin raised
  BY <1>2, <1>3, <1>4
<1>6. Outcome(t) = "error" => AnyRaised(t)'
  BY <1>1, <1>2 DEF AnyRaised
<1>7. Outcome(t) = "value" /\ Len(out'[t]) = Len(batch[t]) => AllReturned(t)'
  BY <1>1, <1>2, <1>5 DEF AllReturned
<1>8. cached[t] = "error" => AnyRaised(t)'
  BY <1>1 DEF Told, AnyRaised
<1>9. cached[t] # "value"
  BY <1>1, <1>2 DEF Told, AllReturned
<1>10. Outcome(t) \in {"value", "error"}
  BY OutcomeIs
<1>11. Async(t)'
  BY <1>1 DEF Async
<1>12. agg'[t] = "none" => \A n \in 1..Len(out'[t]) : batch[t][n] \notin raised
  BY <1>1, <1>5, <1>10
<1>13. agg'[t] = "error" => AnyRaised(t)'
  BY <1>1, <1>6
<1>14. agg'[t] = "value" => AllReturned(t)'
  BY <1>1, <1>2, <1>7, <1>10
<1>. QED  BY <1>1, <1>2, <1>8, <1>9, <1>11, <1>12, <1>13, <1>14 DEF Told

LEMMA ToldAfterResult ==
    ASSUME PoolTypes, Batches, NEW r \in Clients, Told(r), TakeResult(r),
           UNCHANGED <<raised, style, batch>>
    PROVE  Told(r)'
<1>1. CASE /\ style[r] = "apply_async" /\ TakeNext(r)
           /\ cached' = [cached EXCEPT ![r] = Outcome(r)] /\ UNCHANGED agg
  <2>1. Async(r) /\ Async(r)' /\ cached'[r] = Outcome(r) /\ Len(batch[r]) = 1
    BY <1>1 DEF Async, PoolTypes, Batches
  <2>2. /\ Len(out'[r]) <= Len(batch[r])
        /\ \A n \in 1..Len(out'[r]) : out'[r][n] = batch[r][n]
        /\ Len(out'[r]) = Len(out[r]) + 1
        /\ Len(out[r]) \in Nat
        /\ Outcome(r) = IF batch[r][Len(out'[r])] \in raised THEN "error" ELSE "value"
    BY <1>1, <2>1, NextInOrder
  <2>3. Len(out'[r]) = 1
    BY <2>1, <2>2
  <2>4. /\ Outcome(r) = "error" => AnyRaised(r)'
        /\ Outcome(r) = "value" => AllReturned(r)'
    BY <2>1, <2>2, <2>3 DEF AnyRaised, AllReturned
  <2>5. agg[r] = "none"
    BY <1>1 DEF Told
  <2>. QED  BY <1>1, <2>1, <2>2, <2>4, <2>5 DEF Told
<1>2. CASE /\ style[r] = "map_async" /\ agg[r] \in {"value", "error"}
           /\ cached' = [cached EXCEPT ![r] = agg[r]]
           /\ agg' = [agg EXCEPT ![r] = "taken"]
           /\ UNCHANGED <<answered, out>>
  <2>1. cached'[r] = agg[r] /\ agg'[r] = "taken"
    BY <1>2 DEF PoolTypes
  <2>2. (AnyRaised(r)' <=> AnyRaised(r)) /\ (AllReturned(r)' <=> AllReturned(r))
    BY <1>2 DEF AnyRaised, AllReturned
  <2>. QED  BY <1>2, <2>1, <2>2 DEF Told, Async
<1>. QED  BY <1>1, <1>2 DEF TakeResult

LEMMA OutcomesKept ==
    ASSUME PoolTypes, Batches, Placed, Outcomes, Getters, Next  PROVE Outcomes'
<1>0. \A t \in Clients : Told(t)
  BY OutcomesAreTold
<1>1. ASSUME UNCHANGED <<raised, style, batch, out, agg, cached>>  PROVE Outcomes'
  BY <1>1 DEF Outcomes, Async, AnyRaised, AllReturned
<1>2. ASSUME NEW j \in running, Answer(j)  PROVE Outcomes'
  <2>1. \A t \in Clients : Told(t)'
    BY <1>0, <1>2, ToldAfterAnswer
  <2>. QED  BY <2>1 DEF Outcomes, Told
<1>3. ASSUME Receive \/ Exit  PROVE Outcomes'
  BY <1>1, <1>3 DEF Receive, Exit, own, results
<1>4. ASSUME NEW t \in Clients, Told(t)', raised' = raised,
             \A u \in Clients : u # t =>
                /\ style'[u] = style[u] /\ batch'[u] = batch[u] /\ out'[u] = out[u]
                /\ agg'[u] = agg[u] /\ cached'[u] = cached[u]
      PROVE  Outcomes'
  <2>1. \A u \in Clients : u # t => Told(u)'
    BY <1>0, <1>4, ToldAsBefore
  <2>. QED  BY <1>4, <2>1 DEF Outcomes, Told
<1>5. ASSUME NEW t \in Clients, NEW r \in Requests, Call(t, r[1], r[2])  PROVE Outcomes'
  <2>1. /\ style' = [style EXCEPT ![t] = r[1]] /\ batch' = [batch EXCEPT ![t] = r[2]]
        /\ UNCHANGED <<raised, out, agg, cached>> /\ style[t] = "none"
    BY <1>5 DEF Call, pool, results
  <2>2. out[t] = <<>> /\ agg[t] = "none" /\ cached[t] = "none"
    BY <2>1 DEF Batches
  <2>3. Len(<<>>) = 0 /\ Len(r[2]) \in Nat
    BY OneBatch, LenProperties, EmptySeq
  <2>4. Told(t)'
    BY <2>1, <2>2, <2>3 DEF Told
  <2>5. \A u \in Clients : u # t => style'[u] = style[u] /\ batch'[u] = batch[u]
    BY <2>1 DEF PoolTypes
  <2>. QED  BY <1>4, <2>1, <2>4, <2>5
<1>6. ASSUME NEW t \in Clients, Send(t)  PROVE Outcomes'
  BY <1>1, <1>6 DEF Send, results
<1>7. ASSUME NEW t \in Clients, ~Async(t), UNCHANGED <<raised, style, batch, agg, cached>>,
             \A u \in Clients : u # t => out'[u] = out[u]
      PROVE  Outcomes'
  <2>1. Told(t)'
    BY <1>0, <1>7 DEF Told, Async
  <2>. QED  BY <1>4, <1>7, <2>1
<1>8. ASSUME NEW t \in Clients, Collect(t)  PROVE Outcomes'
  <2>1. ~Async(t)
    BY <1>8 DEF Collect, Batches, Async
  <2>2. \A u \in Clients : u # t => out'[u] = out[u]
    BY <1>8, TakeNextDoes DEF Collect
  <2>. QED  BY <1>7, <1>8, <2>1, <2>2 DEF Collect, pool, results
<1>9. ASSUME NEW t \in Clients, NextReturns(t)  PROVE Outcomes'
  <2>1. ~Async(t)
    BY <1>9 DEF NextReturns, Batches, Async
  <2>2. \A u \in Clients : u # t => out'[u] = out[u]
    BY <1>9, TakeNextDoes DEF NextReturns, PoolTypes
  <2>. QED  BY <1>7, <1>9, <2>1, <2>2 DEF NextReturns, pool, results
<1>10. ASSUME NEW t \in Clients, Aggregate(t)  PROVE Outcomes'
  <2>1. Told(t)'
    BY <1>0, <1>10, ToldAfterAggregate
  <2>2. \A u \in Clients : u # t => out'[u] = out[u] /\ agg'[u] = agg[u]
    BY <1>10, TakeNextDoes DEF Aggregate, PoolTypes
  <2>. QED  BY <1>4, <1>10, <2>1, <2>2 DEF Aggregate, pool
<1>11. ASSUME NEW r \in Clients, TakeResult(r), UNCHANGED <<raised, style, batch>>
       PROVE  Outcomes'
  <2>1. Told(r)'
    BY <1>0, <1>11, ToldAfterResult
  <2>2. \A u \in Clients : u # r =>
           out'[u] = out[u] /\ agg'[u] = agg[u] /\ cached'[u] = cached[u]
    BY <1>11, TakeNextDoes DEF TakeResult, PoolTypes
  <2>. QED  BY <1>4, <1>11, <2>1, <2>2
<1>12. ASSUME NEW t \in Clients, GetReceives(t)  PROVE Outcomes'
  <2>1. wants[t] \in Clients
    BY <1>12 DEF GetReceives, Getters
  <2>. QED  BY <1>11, <1>12, <2>1 DEF GetReceives, pool
<1>13. ASSUME NEW t \in Clients, NEW r \in Clients, Ready(t, r)  PROVE Outcomes'
  BY <1>11, <1>13 DEF Ready, pool
<1>14. ASSUME NEW t \in Clients,
              \/ NextCall(t) \/ (\E r \in Clients : GetCall(t, r)) \/ GetLocks(t)
              \/ Close(t) \/ JoinCall(t) \/ JoinReturns(t) \/ Forward(t)
       PROVE  Outcomes'
  BY <1>1, <1>14 DEF NextCall, GetCall, GetLocks, Close, JoinCall, JoinReturns, Forward,
     pool, own, results
<1>. QED  BY <1>2, <1>3, <1>5, <1>6, <1>8, <1>9, <1>10, <1>12, <1>13, <1>14
          DEF Next, Background, Work, GoOn, Calls

-----------------------------------------------------------------------------
(* The mutex of an AsyncResult *)

(* The part of Getters that is about one client, and the one that is about *)
(* one AsyncResult.                                                        *)
Getter(t) ==
    /\ pc[t] \in {"getting", "receiving"} => wants[t] \in Clients
    /\ pc[t] = "receiving" => mu[wants[t]] = t /\ cached[wants[t]] = "none"

CalledBack(r) == calls[r] <= 1 /\ (calls[r] > 0 => cached[r] # "none")

LEMMA GettersAre ==
    Getters <=> (\A t \in Clients : Getter(t)) /\ (\A r \in Clients : CalledBack(r))
  BY DEF Getters, Getter, CalledBack

(* Taking a result caches it, and no other's.                              *)
LEMMA TakeResultCaches ==
    ASSUME PoolTypes, NEW r \in Clients, TakeResult(r)
    PROVE  /\ cached'[r] # "none"
           /\ \A u \in Clients : u # r => cached'[u] = cached[u]
<1>1. ASSUME NEW v \in {"value", "error"}, cached' = [cached EXCEPT ![r] = v]
      PROVE  /\ cached'[r] # "none"
             /\ \A u \in Clients : u # r => cached'[u] = cached[u]
  BY <1>1 DEF PoolTypes
<1>. QED  BY <1>1, OutcomeIs DEF TakeResult

LEMMA GettersKept ==
    ASSUME PoolTypes, Getters, Next  PROVE Getters'
<1>0. (\A t \in Clients : Getter(t)) /\ (\A r \in Clients : CalledBack(r))
  BY GettersAre
<1>1. ASSUME UNCHANGED <<cached, mu, wants, calls>>,
             \A t \in Clients : pc'[t] = pc[t] \/ pc'[t] \notin {"getting", "receiving"}
      PROVE  Getters'
  BY <1>1 DEF Getters
<1>2. ASSUME NEW t \in Clients,
             NEW place \in {"idle", "sending", "collecting", "iterating", "joining"},
             pc' = [pc EXCEPT ![t] = place] \/ pc' = pc, UNCHANGED <<cached, mu, wants, calls>>
      PROVE  Getters'
  BY <1>1, <1>2 DEF PoolTypes
<1>3. ASSUME Work  PROVE Getters'
  BY <1>1, <1>3 DEF Work, Receive, Answer, Exit, results
<1>4. ASSUME NEW t \in Clients, NEW r \in Requests, Call(t, r[1], r[2])  PROVE Getters'
  BY <1>2, <1>4 DEF Call, Goto, results
<1>5. ASSUME NEW t \in Clients, Send(t)  PROVE Getters'
  <2>1. /\ \/ pc' = [pc EXCEPT ![t] = "idle"] \/ pc' = [pc EXCEPT ![t] = "collecting"]
           \/ pc' = pc
        /\ UNCHANGED <<cached, mu, wants, calls>>
    BY <1>5 DEF Send, Goto, results
  <2>. QED  BY <1>2, <2>1
<1>6. ASSUME NEW t \in Clients,
             Collect(t) \/ NextCall(t) \/ NextReturns(t) \/ JoinCall(t) \/ JoinReturns(t)
      PROVE  Getters'
  <2>1. /\ \/ pc' = [pc EXCEPT ![t] = "idle"] \/ pc' = [pc EXCEPT ![t] = "iterating"]
           \/ pc' = [pc EXCEPT ![t] = "joining"] \/ pc' = pc
        /\ UNCHANGED <<cached, mu, wants, calls>>
    BY <1>6 DEF Collect, NextCall, NextReturns, JoinCall, JoinReturns, Goto, results
  <2>. QED  BY <1>2, <2>1
<1>7. ASSUME NEW t \in Clients, Forward(t) \/ Aggregate(t) \/ Close(t)  PROVE Getters'
  BY <1>1, <1>7 DEF Forward, Aggregate, Close, results
<1>8. ASSUME NEW t \in Clients, NEW r \in Clients, GetCall(t, r)  PROVE Getters'
  <2>1. /\ wants'[t] = r /\ pc'[t] = "getting"
        /\ \A u \in Clients : u # t => wants'[u] = wants[u] /\ pc'[u] = pc[u]
        /\ UNCHANGED <<cached, mu, calls>>
    BY <1>8 DEF GetCall, Goto, PoolTypes
  <2>2. Getter(t)'
    BY <2>1 DEF Getter
  <2>3. ASSUME NEW u \in Clients, u # t  PROVE Getter(u)'
    BY <1>0, <2>1, <2>3 DEF Getter
  <2>4. \A u \in Clients : CalledBack(u)'
    BY <1>0, <2>1 DEF CalledBack
  <2>. QED  BY <2>2, <2>3, <2>4 DEF Getters, Getter, CalledBack
<1>9. ASSUME NEW t \in Clients, GetLocks(t)  PROVE Getters'
  <2>1. pc[t] = "getting" /\ wants[t] \in Clients /\ mu[wants[t]] = Nobody
        /\ UNCHANGED <<cached, calls>>
    BY <1>9 DEF GetLocks, Getters
  <2>2. \A u \in Clients : CalledBack(u)'
    BY <1>0, <2>1 DEF CalledBack
  <2>3. CASE /\ wants' = [wants EXCEPT ![t] = Nobody]
             /\ pc' = [pc EXCEPT ![t] = "idle"] /\ mu' = mu
    <3>1. pc'[t] = "idle" /\ \A u \in Clients : u # t => wants'[u] = wants[u] /\ pc'[u] = pc[u]
      BY <2>3 DEF PoolTypes
    <3>2. Getter(t)'
      BY <3>1 DEF Getter
    <3>3. ASSUME NEW u \in Clients, u # t  PROVE Getter(u)'
      BY <1>0, <2>1, <2>3, <3>1, <3>3 DEF Getter
    <3>. QED  BY <2>2, <3>2, <3>3 DEF Getters, Getter, CalledBack
  <2>4. CASE /\ cached[wants[t]] = "none" /\ mu' = [mu EXCEPT ![wants[t]] = t]
             /\ pc' = [pc EXCEPT ![t] = "receiving"] /\ wants' = wants
    <3>1. /\ pc'[t] = "receiving" /\ \A u \in Clients : u # t => pc'[u] = pc[u]
          /\ mu'[wants[t]] = t /\ \A r \in Clients : r # wants[t] => mu'[r] = mu[r]
      BY <2>1, <2>4 DEF PoolTypes
    <3>2. Getter(t)'
      BY <2>1, <2>4, <3>1 DEF Getter
    <3>3. ASSUME NEW u \in Clients, u # t  PROVE Getter(u)'
      <4>1. u # Nobody
        OBVIOUS
      <4>. QED  BY <1>0, <2>1, <2>4, <3>1, <3>3, <4>1 DEF Getter
    <3>. QED  BY <2>2, <3>2, <3>3 DEF Getters, Getter, CalledBack
  <2>. QED  BY <1>9, <2>3, <2>4 DEF GetLocks, Goto
<1>10. ASSUME NEW t \in Clients, GetReceives(t)  PROVE Getters'
  <2>1. /\ pc[t] = "receiving" /\ wants[t] \in Clients
        /\ mu[wants[t]] = t /\ cached[wants[t]] = "none"
    BY <1>10 DEF GetReceives, Getters
  <2>2. /\ cached'[wants[t]] # "none"
        /\ \A u \in Clients : u # wants[t] => cached'[u] = cached[u]
    BY <1>10, <2>1, TakeResultCaches DEF GetReceives
  <2>3. calls[wants[t]] = 0
    BY <1>0, <2>1 DEF CalledBack, PoolTypes
  <2>4. /\ calls'[wants[t]] = 1 /\ \A u \in Clients : u # wants[t] => calls'[u] = calls[u]
        /\ \A u \in Clients : u # wants[t] => mu'[u] = mu[u]
        /\ pc'[t] = "idle" /\ \A u \in Clients : u # t => pc'[u] = pc[u] /\ wants'[u] = wants[u]
    BY <1>10, <2>1, <2>3 DEF GetReceives, Goto, PoolTypes
  <2>5. \A u \in Clients : CalledBack(u)'
    BY <1>0, <2>2, <2>4 DEF CalledBack
  <2>6. Getter(t)'
    BY <2>4 DEF Getter
  <2>7. ASSUME NEW u \in Clients, u # t  PROVE Getter(u)'
    BY <1>0, <2>1, <2>2, <2>4, <2>7 DEF Getter
  <2>. QED  BY <2>5, <2>6, <2>7 DEF Getters, Getter, CalledBack
<1>11. ASSUME NEW t \in Clients, NEW r \in Clients, Ready(t, r)  PROVE Getters'
  <2>1. mu[r] = Nobody /\ UNCHANGED <<pc, mu, wants, calls>>
    BY <1>11 DEF Ready
  <2>2. cached'[r] # "none" /\ \A u \in Clients : u # r => cached'[u] = cached[u]
    BY <1>11, TakeResultCaches DEF Ready
  <2>3. \A u \in Clients : CalledBack(u)'
    BY <1>0, <2>1, <2>2 DEF CalledBack
  <2>4. ASSUME NEW u \in Clients  PROVE Getter(u)'
    <3>1. u # Nobody
      OBVIOUS
    <3>. QED  BY <1>0, <2>1, <2>2, <3>1 DEF Getter
  <2>. QED  BY <2>3, <2>4 DEF Getters, Getter, CalledBack
<1>. QED  BY <1>3, <1>4, <1>5, <1>6, <1>7, <1>8, <1>9, <1>10, <1>11
          DEF Next, Background, GoOn, Calls

-----------------------------------------------------------------------------
(* Every step keeps the six parts; in a behaviour of the futures the pool  *)
(* stays as it is.                                                         *)
LEMMA PoolInvariant == ChannelsSpec => []PoolInv
<1>1. Create => PoolInv
  <2> SUFFICES ASSUME Init  PROVE PoolInv
    BY DEF Create
  <2>0. <<>> \in Seq(Jobs) /\ Len(<<>>) = 0 /\ 0 \in Nat
    BY EmptySeq
  <2>1. PoolTypes
    <3>1. raised \in SUBSET Jobs /\ running \in SUBSET Jobs /\ answered \in SUBSET Jobs
      BY DEF Init
    <3>2. IsFiniteSet(running)
      BY FS_EmptySet DEF Init
    <3>3. exited \in Nat /\ closed \in BOOLEAN /\ jobs \in Seq(Jobs)
      BY <2>0 DEF Init
    <3>4. /\ batch \in [Clients -> Seq(Jobs)] /\ out \in [Clients -> Seq(Jobs)]
          /\ merged \in [Clients -> Seq(Jobs)]
      BY <2>0 DEF Init
    <3>5. sent \in [Clients -> Nat] /\ calls \in [Clients -> Nat]
      BY <2>0 DEF Init
    <3>6. /\ style \in [Clients -> Styles \cup {"none"}] /\ pc \in [Clients -> Workplaces]
          /\ agg \in [Clients -> {"none", "value", "error", "taken"}]
          /\ cached \in [Clients -> {"none", "value", "error"}]
      BY DEF Init, Workplaces
    <3>7. /\ mu \in [Clients -> Clients \cup {Nobody}]
          /\ wants \in [Clients -> Clients \cup {Nobody}]
      BY DEF Init
    <3>. QED  BY <3>1, <3>2, <3>3, <3>4, <3>5, <3>6, <3>7 DEF PoolTypes
  <2>2. Staff
    BY FS_EmptySet DEF Init, Staff
  <2>3. Batches
    BY <2>0, NothingInNothing DEF Init, Batches
  <2>4. Placed
    BY NothingInNothing DEF Init, Placed, SentBy, HeldBy
  <2>5. Outcomes
    BY <2>0 DEF Init, Outcomes, Async
  <2>6. Getters
    BY DEF Init, Getters
  <2>. QED  BY <2>1, <2>2, <2>3, <2>4, <2>5, <2>6 DEF PoolInv
<1>2. PoolInv /\ [Step]_allVars => PoolInv'
  <2>1. PoolInv /\ UNCHANGED vars => PoolInv'
    BY DEF PoolInv, PoolTypes, Staff, Batches, Placed, SentBy, HeldBy, Outcomes, Async,
       AnyRaised, AllReturned, Getters, vars, pool, own, results
  <2>2. PoolInv /\ Next => PoolInv'
    BY TypesKept, StaffKept, BatchesKept, PlacedKept, OutcomesKept, GettersKept DEF PoolInv
  <2>3. [Step]_allVars => UNCHANGED vars \/ Next
    BY DEF Step, Uses, allVars
  <2>. QED  BY <2>1, <2>2, <2>3
<1>. QED  BY <1>1, <1>2, PTL DEF ChannelsSpec

LEMMA SentJobsAre ==
    ASSUME PoolTypes, Batches, NEW t \in Clients
    PROVE  \A j : j \in SentJobs(t) <=> SentBy(t, j)
<1>1. /\ batch[t] \in Seq(Jobs) /\ sent[t] \in Nat /\ sent[t] <= Len(batch[t])
      /\ Len(batch[t]) \in Nat
  BY LenProperties DEF PoolTypes, Batches
<1>2. \A n \in 1..sent[t] : batch[t][n] \in Jobs
  BY <1>1, ElementOfSeq
<1>3. /\ SubSeq(batch[t], 1, sent[t]) \in Seq(Jobs)
      /\ Len(SubSeq(batch[t], 1, sent[t])) = sent[t]
      /\ \A n \in 1..sent[t] : SubSeq(batch[t], 1, sent[t])[n] = batch[t][n]
  BY <1>1, <1>2, ButLast
<1>4. DOMAIN SubSeq(batch[t], 1, sent[t]) = 1..sent[t]
  BY <1>3, LenProperties
<1>. QED  BY <1>3, <1>4 DEF SentJobs, ToSet, SentBy

(* No job and no result of a pool is lost or used twice, a callback is     *)
(* called at most once and an AsyncResult has an error when a function     *)
(* raised (the workers, getResult and the collectors of makeMPPool).       *)
THEOREM AnsweredOnce == ChannelsSpec => []JobsAnsweredOnce
<1>1. PoolInv => JobsAnsweredOnce
  <2> SUFFICES ASSUME PoolInv  PROVE JobsAnsweredOnce
    OBVIOUS
  <2>0. PoolTypes /\ Staff /\ Batches /\ Placed /\ Outcomes /\ Getters
    BY DEF PoolInv
  <2>1. /\ \A j : Queued(j) <=> Has(jobs, j)
        /\ \A j : HandedOver(j) <=> \E t \in Clients : HeldBy(t, j)
    BY DEF Queued, HandedOver, HeldBy, ToSet, Has
  <2>2. ASSUME NEW t \in Clients, NEW j \in SentJobs(t)
        PROVE  Cardinality(Places(j)) = 1
    <3>1. SentBy(t, j)
      BY <2>0, <2>2, SentJobsAre
    <3>2. \/ Queued(j) /\ j \notin running /\ j \notin answered /\ ~HandedOver(j)
          \/ ~Queued(j) /\ j \in running /\ j \notin answered /\ ~HandedOver(j)
          \/ ~Queued(j) /\ j \notin running /\ j \in answered /\ ~HandedOver(j)
          \/ ~Queued(j) /\ j \notin running /\ j \notin answered /\ HandedOver(j)
      BY <2>0, <2>1, <3>1 DEF Placed
    <3>3. \E p : Places(j) = {p}
      <4>1. CASE Queued(j) /\ j \notin running /\ j \notin answered /\ ~HandedOver(j)
        <5>1. Places(j) = {"queue"}
          BY <4>1 DEF Places
        <5>. QED  BY <5>1
      <4>2. CASE ~Queued(j) /\ j \in running /\ j \notin answered /\ ~HandedOver(j)
        <5>1. Places(j) = {"worker"}
          BY <4>2 DEF Places
        <5>. QED  BY <5>1
      <4>3. CASE ~Queued(j) /\ j \notin running /\ j \in answered /\ ~HandedOver(j)
        <5>1. Places(j) = {"channel"}
          BY <4>3 DEF Places
        <5>. QED  BY <5>1
      <4>4. CASE ~Queued(j) /\ j \notin running /\ j \notin answered /\ HandedOver(j)
        <5>1. Places(j) = {"caller"}
          BY <4>4 DEF Places
        <5>. QED  BY <5>1
      <4>. QED  BY <3>2, <4>1, <4>2, <4>3, <4>4
    <3>. QED  BY <3>3, FS_Singleton
  <2>3. ASSUME exited = Processes, NEW t \in Clients, NEW j \in SentJobs(t)
        PROVE  ~Queued(j) /\ j \notin running
    <3>1. IsFiniteSet(running) /\ Cardinality(running) \in Nat
      BY <2>0, FS_CardinalityType DEF PoolTypes
    <3>2. Cardinality(running) = 0 /\ jobs = <<>>
      BY <2>0, <2>3, <3>1 DEF Staff
    <3>3. running = {}
      BY <3>1, <3>2, FS_EmptySet
    <3>. QED  BY <2>1, <3>2, <3>3, NothingInNothing
  <2>4. \A t \in Clients : calls[t] <= 1
    BY <2>0 DEF Getters
  <2>5. ASSUME NEW t \in Clients, cached[t] # "none"
        PROVE  cached[t] = "error" <=> raised \cap ToSet(batch[t]) # {}
    <3>1. batch[t] \in Seq(Jobs) /\ DOMAIN batch[t] = 1..Len(batch[t])
      BY <2>0, LenProperties DEF PoolTypes
    <3>2. raised \cap ToSet(batch[t]) # {} <=> AnyRaised(t)
      BY <3>1 DEF ToSet, AnyRaised
    <3>3. cached[t] \in {"error", "value"}
      BY <2>0, <2>5 DEF PoolTypes
    <3>4. AllReturned(t) => ~AnyRaised(t)
      BY DEF AllReturned, AnyRaised
    <3>. QED  BY <2>0, <3>2, <3>3, <3>4 DEF Outcomes
  <2>. QED  BY <2>2, <2>3, <2>4, <2>5 DEF JobsAnsweredOnce
<1>. QED  BY <1>1, PoolInvariant, PTL
=============================================================================
