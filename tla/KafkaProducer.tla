--------------------------- MODULE KafkaProducer ---------------------------
(***************************************************************************)
(* shared/kafka/producer.py: one librdkafka producer of a process, with    *)
(* its queue and the list of delivery errors that the delivery callback    *)
(* fills and flush empties.  What the broker stores belongs to the module  *)
(* that instantiates this one and conjoins it to Delivered and GivenUp.    *)
(***************************************************************************)
EXTENDS Naturals, Sequences

VARIABLES
  queue,   \* messages produced and not yet delivered or given up
  errors   \* whether the list of delivery errors is non-empty

Init == queue = <<>> /\ errors = FALSE

\* produce puts the message into the queue.
Publish(m) == queue' = Append(queue, m) /\ UNCHANGED errors

\* The broker acknowledges the first message of the queue; enable.idempotence
\* keeps the order and stores no message twice.
Delivered ==
  /\ queue # <<>>
  /\ queue' = Tail(queue)
  /\ UNCHANGED errors

\* librdkafka gives the first message up and the callback notes an error.
GivenUp ==
  /\ queue # <<>>
  /\ queue' = Tail(queue)
  /\ errors' = TRUE

\* Everything is out and no error was noted: flush returns.
FlushReturns ==
  /\ queue = <<>> /\ ~errors
  /\ UNCHANGED <<queue, errors>>

\* flush timed out with messages pending, or finds errors, clears and raises them.
FlushRaises ==
  /\ queue # <<>> \/ errors
  /\ errors' = (errors /\ queue # <<>>)
  /\ UNCHANGED queue

\* The process ends with its queue.
Lost == queue' = <<>> /\ errors' = FALSE
=============================================================================
