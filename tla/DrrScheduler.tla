----------------------------- MODULE DrrScheduler -----------------------------
(***************************************************************************)
(* The data queues of a peer and the deficit round robin that empties them  *)
(* (p2p/p2p.go: enqueueWriteReq, DRRScheduler, drrLoop).                    *)
(*                                                                         *)
(* Any number of goroutines put frames into one queue per flow hash, after  *)
(* reserving their bytes in a budget all queues share.  One goroutine goes  *)
(* round the queues, takes from each what its deficit allows, and passes    *)
(* the frames on; when a round finds nothing it sleeps until notified.     *)
(* A frame is its length.                                                  *)
(***************************************************************************)
EXTENDS Integers, Sequences, SequencesExt

CONSTANTS
    Producers,   \* goroutines that send mesh data
    N,           \* number of queues, 256
    Sizes,       \* lengths of frames
    Budget,      \* dataQueueByteBudget
    Depth,       \* dataQueueMaxDepth
    Quantum,     \* drrQuantum
    MaxBatch,    \* frames NextBatch returns at most, 64
    OutDepth     \* capacity of drrOutput, 512

Queues == 0 .. N - 1

ASSUME DrrAssumption ==
    /\ IsFiniteSet(Producers)
    /\ N \in Nat \ {0} /\ Quantum \in Nat \ {0} /\ MaxBatch \in Nat \ {0}
    /\ Sizes \subseteq Nat \ {0} /\ Sizes # {}
    /\ \A n \in Sizes : n <= Quantum
    /\ Budget \in Nat /\ Depth \in Nat \ {0} /\ OutDepth \in Nat \ {0}

VARIABLES
    queue,       \* dataQueues
    budget,      \* dataBudget
    prod,        \* enqueueWriteReq: where each producer is, its queue and frame
    notified,    \* notifyCh
    deficit,     \* deficits
    round,       \* where the next round starts
    drr,         \* drrLoop: where it is, queues visited, the batch
    output,      \* drrOutput: the number of frames in it
    stopped      \* stopCh

schedVars == <<deficit, round, drr>>
drrVars == <<queue, budget, prod, notified, schedVars, output, stopped>>

Off == [pc |-> "idle", q |-> 0, size |-> 0]
Round0 == [pc |-> "round", seen |-> 0, batch |-> 0]

DrrInit ==
    /\ queue = [i \in Queues |-> <<>>] /\ budget = Budget
    /\ prod = [p \in Producers |-> Off] /\ notified = FALSE
    /\ deficit = [i \in Queues |-> 0] /\ round = 0 /\ drr = Round0
    /\ output = 0 /\ stopped = FALSE

Bytes(s) == SumFunction(s)

-----------------------------------------------------------------------------
(* enqueueWriteReq for mesh data                                           *)

\* The reservation, by compare-and-swap; a frame that finds no room is dropped.
Reserve(p, i, n) ==
    /\ prod[p].pc = "idle"
    /\ ~stopped
    /\ budget >= n
    /\ budget' = budget - n
    /\ prod' = [prod EXCEPT ![p] = [pc |-> "push", q |-> i, size |-> n]]
    /\ UNCHANGED <<queue, notified, schedVars, output, stopped>>

\* Mutant: the scheduler is notified only when it is seen to wait.
Push_IfWaiting(p) ==
    LET i == prod[p].q IN
    /\ prod[p].pc = "push"
    /\ Len(queue[i]) < Depth
    /\ queue' = [queue EXCEPT ![i] = Append(@, prod[p].size)]
    /\ prod' = [prod EXCEPT ![p] = IF drr.pc = "wait" THEN [@ EXCEPT !.pc = "notify"] ELSE Off]
    /\ UNCHANGED <<budget, notified, schedVars, output, stopped>>

Push(p) ==
    LET i == prod[p].q IN
    /\ prod[p].pc = "push"
    /\ Len(queue[i]) < Depth
    /\ queue' = [queue EXCEPT ![i] = Append(@, prod[p].size)]
    /\ prod' = [prod EXCEPT ![p].pc = "notify"]
    /\ UNCHANGED <<budget, notified, schedVars, output, stopped>>

\* The queue is full: the frame is dropped and its reservation returned.
Refuse(p) ==
    /\ prod[p].pc = "push"
    /\ Len(queue[prod[p].q]) = Depth
    /\ budget' = budget + prod[p].size
    /\ prod' = [prod EXCEPT ![p] = Off]
    /\ UNCHANGED <<queue, notified, schedVars, output, stopped>>

Notify(p) ==
    /\ prod[p].pc = "notify"
    /\ notified' = TRUE
    /\ prod' = [prod EXCEPT ![p] = Off]
    /\ UNCHANGED <<queue, budget, schedVars, output, stopped>>

-----------------------------------------------------------------------------
(* NextBatch and drrLoop                                                   *)

Replenished(d) == IF d <= 0 THEN d + Quantum ELSE d

\* A visit takes k frames from the queue s with deficit d and room for so many
\* in the batch: the first in any case, the others while deficit is left.
Takes(s, d, room, k) ==
    /\ k <= room
    /\ \A i \in 2 .. k : Bytes(SubSeq(s, 1, i - 1)) < d
    /\ \/ k = Len(s) \/ k = room
       \/ k > 0 /\ Bytes(SubSeq(s, 1, k)) >= d

\* What the deficit becomes: a queue seen to be empty keeps none.
Remaining(s, d, k, room) ==
    LET left == d - Bytes(SubSeq(s, 1, k))
    IN IF k = Len(s) /\ k < room /\ left > 0 THEN 0 ELSE left

\* i modulo N, for the i that occur.
Wrap(i) == IF i < N THEN i ELSE i - N

\* One queue of a round.
Visit ==
    LET i    == Wrap(round + drr.seen)
        room == MaxBatch - drr.batch
        d    == Replenished(deficit[i])
    IN /\ drr.pc = "round"
       /\ drr.seen < N /\ room > 0
       /\ \E k \in 0 .. Len(queue[i]) :
            /\ Takes(queue[i], d, room, k)
            /\ queue' = [queue EXCEPT ![i] = SubSeq(@, k + 1, Len(@))]
            /\ deficit' = [deficit EXCEPT ![i] = Remaining(queue[i], d, k, room)]
            /\ budget' = budget + Bytes(SubSeq(queue[i], 1, k))
            /\ drr' = [drr EXCEPT !.seen = @ + 1, !.batch = @ + k]
       /\ UNCHANGED <<prod, notified, round, output, stopped>>

\* Mutant: every round starts at the first queue.
NextStart_First == 0

\* Where the next round starts: after the queue visited last.
NextStart == Wrap(round + drr.seen)

RoundEnds ==
    /\ drr.pc = "round"
    /\ drr.seen = N \/ drr.batch = MaxBatch
    /\ round' = NextStart
    /\ drr' = [Round0 EXCEPT !.pc = IF drr.batch > 0 THEN "send" ELSE "wait", !.batch = drr.batch]
    /\ UNCHANGED <<queue, budget, prod, notified, deficit, output, stopped>>

Wake ==
    /\ drr.pc = "wait"
    /\ notified
    /\ notified' = FALSE
    /\ drr' = Round0
    /\ UNCHANGED <<queue, budget, prod, deficit, round, output, stopped>>

\* drrLoop passes a frame on, and asks for the next batch after the last.
Forward ==
    /\ drr.pc = "send"
    /\ output < OutDepth
    /\ output' = output + 1
    /\ drr' = IF drr.batch > 1 THEN [drr EXCEPT !.batch = @ - 1] ELSE Round0
    /\ UNCHANGED <<queue, budget, prod, notified, deficit, round, stopped>>

Quit ==
    /\ stopped
    /\ drr.pc \in {"wait", "send"}
    /\ drr' = [Round0 EXCEPT !.pc = "done"]
    /\ UNCHANGED <<queue, budget, prod, notified, deficit, round, output, stopped>>

\* peerWriteLoop takes a frame.
Consume ==
    /\ output > 0
    /\ ~stopped
    /\ output' = output - 1
    /\ UNCHANGED <<queue, budget, prod, notified, schedVars, stopped>>

Stop ==
    /\ ~stopped
    /\ stopped' = TRUE
    /\ UNCHANGED <<queue, budget, prod, notified, schedVars, output>>

Produce(p) == Push(p) \/ Refuse(p) \/ Notify(p)
Schedule == Visit \/ RoundEnds \/ Wake \/ Forward \/ Quit

DrrNext ==
    \/ \E p \in Producers : Produce(p) \/ \E i \in Queues, n \in Sizes : Reserve(p, i, n)
    \/ Schedule \/ Consume \/ Stop

DrrSpec == DrrInit /\ [][DrrNext]_drrVars

-----------------------------------------------------------------------------
\* The variables keep their types.
DrrTypeOK ==
    /\ queue \in [Queues -> Seq(Sizes)] /\ \A i \in Queues : Len(queue[i]) <= Depth
    /\ budget \in 0 .. Budget /\ notified \in BOOLEAN /\ stopped \in BOOLEAN
    /\ prod \in [Producers -> [pc : {"idle", "push", "notify"}, q : Queues, size : Sizes \cup {0}]]
    /\ deficit \in [Queues -> Int] /\ round \in Queues
    /\ drr \in [pc : {"round", "wait", "send", "done"}, seen : 0 .. N, batch : 0 .. MaxBatch]
    /\ output \in 0 .. OutDepth

\* The bytes a producer has reserved and not yet queued.
Reserved(p) == IF prod[p].pc = "push" THEN prod[p].size ELSE 0

\* Every byte of the budget is free, queued, or reserved by a frame on its way
\* into a queue.
BudgetExact ==
    budget + SumFunction([i \in Queues |-> Bytes(queue[i])])
           + SumFunction([p \in Producers |-> Reserved(p)])
        = Budget

\* No lost wake-up: when the scheduler sleeps over a frame, a notification is
\* there or about to be given.
NoLostWakeup ==
    drr.pc = "wait" /\ (\E i \in Queues : queue[i] # <<>>) =>
        notified \/ \E p \in Producers : prod[p].pc = "notify"

\* A queue is overdrawn by less than a frame and never has more than one
\* quantum to spend.
DeficitBounded ==
    \A i \in Queues : deficit[i] <= Quantum /\ \E n \in Sizes : 0 - n < deficit[i]

\* No flow is starved: a queue with frames is served again and again, however
\* busy the others are.
NoStarvation ==
    \A i \in Queues :
        \/ []<>(stopped \/ queue[i] = <<>>)
        \/ []<><<Len(queue'[i]) < Len(queue[i])>>_drrVars

\* DrrSound: the bytes that are counted are the bytes that are queued, a producer or the
\* scheduler that waits has been left a wake-up, and no flow saves up deficit.
DrrSound == DrrTypeOK /\ BudgetExact /\ NoLostWakeup /\ DeficitBounded
=============================================================================
