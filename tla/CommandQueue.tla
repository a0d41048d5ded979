---------------------------- MODULE CommandQueue ----------------------------
(***************************************************************************)
(* The CommandQueue of server/demo/main.cpp: a queue, a stop flag and a    *)
(* condition variable under one mutex, so each turn at the mutex is one    *)
(* step.  A thread in "asleep" waits at the condition variable until a     *)
(* notification takes it out; it then looks again.                         *)
(***************************************************************************)
EXTENDS Sequences

VARIABLES queue, stop, asleep

QueueInit == queue = <<>> /\ stop = FALSE /\ asleep = {}

(* notify_one wakes some waiting thread, if there is one.                  *)
NotifyOne == \/ asleep = {} /\ UNCHANGED asleep
             \/ \E t \in asleep : asleep' = asleep \ {t}

(* Mutant: nobody is notified.                                           *)
PushSilently(cmd) == queue' = Append(queue, cmd) /\ UNCHANGED <<asleep, stop>>

Push(cmd) == queue' = Append(queue, cmd) /\ NotifyOne /\ UNCHANGED stop

(* Pop, each time the thread has the mutex: a command is there, or the     *)
(* queue is stopped and empty (the caller gets a dummy), or it waits.      *)
Pop == queue # <<>> /\ queue' = Tail(queue) /\ UNCHANGED <<asleep, stop>>

PopDummy == queue = <<>> /\ stop /\ UNCHANGED <<queue, asleep, stop>>

PopWaits(t) ==
  queue = <<>> /\ ~stop /\ asleep' = asleep \cup {t} /\ UNCHANGED <<queue, stop>>

(* Mutant: one waiting thread is told.                                   *)
StopTellsOne == stop' = TRUE /\ NotifyOne /\ UNCHANGED queue

Stop == stop' = TRUE /\ asleep' = {} /\ UNCHANGED queue
=============================================================================
