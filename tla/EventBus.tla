------------------------------ MODULE EventBus ------------------------------
(***************************************************************************)
(* bus.Bus (pkg/bus/event.go): a buffered channel with one subscriber.     *)
(* Publish never blocks: an event that finds the buffer full is dropped.   *)
(***************************************************************************)
EXTENDS Integers, Sequences

CONSTANT BusSize    \* the size argument of New

ASSUME BusAssumption == BusSize \in Int

VARIABLE busQueue   \* the buffered events, oldest first

\* New: a size that is not positive means 128.
BusCapacity == IF BusSize > 0 THEN BusSize ELSE 128

BusInit == busQueue = <<>>

\* Publish with its default branch.
Publish(ev) ==
    busQueue' = IF Len(busQueue) < BusCapacity
                THEN Append(busQueue, ev) ELSE busQueue

\* A receive on the Subscriber channel.
Receive(ev) ==
    /\ busQueue # <<>>
    /\ ev = Head(busQueue)
    /\ busQueue' = Tail(busQueue)
=============================================================================
