------------------------------ MODULE FifoUse ------------------------------
(***************************************************************************)
(* A doubling ring used as okSites and dnsSites are: put at the end, get,  *)
(* and rePut of what was just current. The queue it stands for is `queue'.   *)
(***************************************************************************)
EXTENDS Rings

CONSTANTS FirstSize,    \* size given to the constructor
          MaxPuts

ASSUME FifoAssumption == FirstSize \in Nat \ {0} /\ MaxPuts \in Nat

VARIABLES ring, queue, current, puts
fifoVars == <<ring, queue, current, puts>>

Idle == 0

InitFifo == ring = Ring(FirstSize) /\ queue = <<>> /\ current = Idle /\ puts = 0

PutNew == /\ puts < MaxPuts /\ current = Idle
          /\ puts' = puts + 1
          /\ ring' = Put(ring, puts') /\ queue' = Append(queue, puts')
          /\ UNCHANGED current

GetOne == /\ current = Idle /\ ~IsEmpty(ring)
          /\ current' = First(ring) /\ ring' = Got(ring) /\ queue' = Tail(queue)
          /\ UNCHANGED puts

\* The object is put back, kept elsewhere, or queued again.
RePutIt == /\ current # Idle
           /\ ring' = RePut(ring, current) /\ queue' = <<current>> \o queue
           /\ current' = Idle /\ UNCHANGED puts
KeepIt == current # Idle /\ current' = Idle /\ UNCHANGED <<ring, queue, puts>>
PutAgain == /\ current # Idle
            /\ ring' = Put(ring, current) /\ queue' = Append(queue, current)
            /\ current' = Idle /\ UNCHANGED puts

NextFifo == PutNew \/ GetOne \/ RePutIt \/ KeepIt \/ PutAgain

\* The ring holds the queue in its order, and takes the slots of a ring that is
\* never full: nothing is lost or repeated when a ring that has wrapped doubles
\* (fifo.h:109-126), whatever was put back before (fifo.h:129).
RingIsQueue ==
    /\ Contents(ring) = queue /\ GetLength(ring) < ring.size
    /\ DOMAIN ring.tab = 0 .. ring.size - 1
    /\ current # Idle => \A i \in DOMAIN queue : queue[i] # current
=============================================================================
