------------------------------ MODULE LossyQueue ------------------------------
(***************************************************************************)
(* What a ring of usb_serial.c promises: a queue of at most Cap lines in     *)
(* the order in which they were offered.  A line is refused only when the    *)
(* queue is full, and what waits is taken at last.  Entering the boot        *)
(* loader loses everything.                                                 *)
(***************************************************************************)
EXTENDS Naturals, Sequences

CONSTANT Cap

VARIABLES
    queue,    \* the lines waiting
    offered   \* changes with every line that is offered

qvars == <<queue, offered>>

QueueInit == queue = << >> /\ offered = FALSE

Accept == Len(queue') = Len(queue) + 1 /\ SubSeq(queue', 1, Len(queue)) = queue
Offer ==
    /\ offered' = ~offered
    /\ IF Len(queue) < Cap THEN Accept ELSE queue' = queue

Take == queue # << >> /\ queue' = Tail(queue) /\ offered' = offered

Forget == queue' = << >> /\ offered' = FALSE

QueueNext == Offer \/ Take \/ Forget

QueueSafety == QueueInit /\ [][QueueNext]_qvars

(* Weak fairness of Take, which is enabled exactly when something waits.    *)
TakenAtLast == []<>(queue = << >>) \/ []<><<Take>>_qvars

QueueSpec == QueueSafety /\ TakenAtLast

===============================================================================
