---------------------------- MODULE ConsumerLoop ----------------------------
(***************************************************************************)
(* One Kafka consumer group reading one single-partition topic, as         *)
(* shared/kafka/consumer.py configures it and as the poll loops of         *)
(* worker/consumer_loop.py and normalizer/consumer_loop.py drive it: poll, *)
(* handle the message, commit its offset by hand; an exception of the      *)
(* handler is logged and the loop polls again.                             *)
(*                                                                         *)
(* The handler itself is left open: it either returns (and the loop        *)
(* commits) or raises.  ReplayService instantiates this module and fills   *)
(* the handler in.                                                         *)
(*                                                                         *)
(* Offsets are counted from 1, so that a committed offset of n says that   *)
(* the first n messages are behind the group.                              *)
(***************************************************************************)
EXTENDS Naturals, Sequences, FiniteSets

CONSTANTS
  Consumers,   \* processes of the consumer group
  Messages,    \* envelopes, told apart by their event_id
  None         \* "no consumer"

ASSUME ConsumerAssumption == None \notin Consumers

VARIABLES
  log,         \* the partition: messages in the order the broker stored them
  committed,   \* the group's committed offset
  owner,       \* the consumer the partition is assigned to, or None
  position,    \* the owner's in-memory fetch position
  cursor,      \* cursor[c]: offset of the message c is handling, 0 between polls
  up,          \* the consumers whose process runs
  handled,     \* history: offsets whose handler returned
  failed       \* history: offsets whose handler raised

vars == <<log, committed, owner, position, cursor, up, handled, failed>>

Stored(m) == \E i \in 1..Len(log) : log[i] = m

Init ==
  /\ log = <<>>
  /\ committed = 0
  /\ owner = None
  /\ position = 0
  /\ cursor = [c \in Consumers |-> 0]
  /\ up = Consumers
  /\ handled = {}
  /\ failed = {}

-----------------------------------------------------------------------------
\* The broker.

\* The broker stores a produced message; an idempotent producer stores it once.
Produce(m) ==
  /\ ~Stored(m)
  /\ log' = Append(log, m)
  /\ UNCHANGED <<committed, owner, position, cursor, up, handled, failed>>

\* A change of auto.offset.reset: a group that never committed starts at the end.
AssignLatest(c) ==
  /\ c \in up /\ cursor[c] = 0 /\ owner = None
  /\ owner' = c
  /\ position' = IF committed = 0 THEN Len(log) ELSE committed
  /\ UNCHANGED <<log, committed, cursor, up, handled, failed>>

\* The coordinator assigns the free partition to c, whose fetch position is the
\* committed offset.  A consumer joins the group only inside poll().
Assign(c) ==
  /\ c \in up /\ cursor[c] = 0 /\ owner = None
  /\ owner' = c
  /\ position' = committed
  /\ UNCHANGED <<log, committed, cursor, up, handled, failed>>

\* A rebalance takes the partition away: another member joined, or c missed its
\* heartbeats or its poll interval.  A handler under way goes on, unaware.
Revoke(c) ==
  /\ owner = c
  /\ owner' = None
  /\ UNCHANGED <<log, committed, position, cursor, up, handled, failed>>

-----------------------------------------------------------------------------
\* The loop.

\* An off-by-one of poll that reads past the end of the partition.
PollPastEnd(c) ==
  /\ owner = c /\ cursor[c] = 0
  /\ position <= Len(log)
  /\ position' = position + 1
  /\ cursor' = [cursor EXCEPT ![c] = position + 1]
  /\ UNCHANGED <<log, committed, owner, up, handled, failed>>

\* poll() returns the next message; the fetch position moves past it at once,
\* whatever becomes of its handler.
Poll(c) ==
  /\ owner = c /\ cursor[c] = 0
  /\ position < Len(log)
  /\ position' = position + 1
  /\ cursor' = [cursor EXCEPT ![c] = position + 1]
  /\ UNCHANGED <<log, committed, owner, up, handled, failed>>

\* The broker does not check who commits: a stale member's commit is taken.
CommitUnfenced(c) ==
  /\ cursor[c] # 0
  /\ committed' = cursor[c]
  /\ handled' = handled \cup {cursor[c]}
  /\ cursor' = [cursor EXCEPT ![c] = 0]
  /\ UNCHANGED <<log, owner, position, up, failed>>

\* The handler returned and the synchronous commit of the message succeeds.
Commit(c) ==
  /\ cursor[c] # 0 /\ owner = c
  /\ committed' = cursor[c]
  /\ handled' = handled \cup {cursor[c]}
  /\ cursor' = [cursor EXCEPT ![c] = 0]
  /\ UNCHANGED <<log, owner, position, up, failed>>

\* The handler returned but the commit raises, as it does for a member that has
\* lost the partition or cannot reach the broker; the loop logs it and goes on.
CommitRaises(c) ==
  /\ cursor[c] # 0
  /\ handled' = handled \cup {cursor[c]}
  /\ cursor' = [cursor EXCEPT ![c] = 0]
  /\ UNCHANGED <<log, committed, owner, position, up, failed>>

\* The handler raised: nothing is committed and nothing is rewound.
HandlerRaises(c) ==
  /\ cursor[c] # 0
  /\ failed' = failed \cup {cursor[c]}
  /\ cursor' = [cursor EXCEPT ![c] = 0]
  /\ UNCHANGED <<log, committed, owner, position, up, handled>>

\* The dead member keeps its assignment: the broker does not notice.
CrashKeepsPartition(c) ==
  /\ c \in up
  /\ up' = up \ {c}
  /\ cursor' = [cursor EXCEPT ![c] = 0]
  /\ UNCHANGED <<log, committed, owner, position, handled, failed>>

\* The process ends: killed, or a poll() error that is not retryable escapes the
\* loop.  Its session expires and the partition becomes free.
Crash(c) ==
  /\ c \in up
  /\ up' = up \ {c}
  /\ cursor' = [cursor EXCEPT ![c] = 0]
  /\ owner' = IF owner = c THEN None ELSE owner
  /\ UNCHANGED <<log, committed, position, handled, failed>>

\* An operator starts the process again.
Restart(c) ==
  /\ c \notin up
  /\ up' = up \cup {c}
  /\ UNCHANGED <<log, committed, owner, position, cursor, handled, failed>>

-----------------------------------------------------------------------------
Fault(c) == Crash(c) \/ Revoke(c)

Next ==
  \/ \E m \in Messages : Produce(m)
  \/ \E c \in Consumers :
       \/ Assign(c)
       \/ Poll(c)
       \/ Commit(c)
       \/ CommitRaises(c)
       \/ HandlerRaises(c)
       \/ Fault(c)
       \/ Restart(c)

Spec == Init /\ [][Next]_vars

\* A running loop keeps polling and its handler ends; the coordinator assigns a
\* free partition to some member that polls.  Nothing makes anybody restart.
Fairness ==
  /\ WF_vars(\E c \in Consumers : Assign(c))
  /\ \A c \in Consumers :
       /\ WF_vars(Poll(c))
       /\ WF_vars(Commit(c) \/ CommitRaises(c) \/ HandlerRaises(c))

FairSpec == Spec /\ Fairness

-----------------------------------------------------------------------------
TypeOK ==
  /\ log \in Seq(Messages)
  /\ committed \in 0..Len(log)
  /\ owner \in Consumers \cup {None}
  /\ position \in 0..Len(log)
  /\ cursor \in [Consumers -> 0..Len(log)]
  /\ up \subseteq Consumers
  /\ handled \subseteq 1..Len(log)
  /\ failed \subseteq 1..Len(log)

Attempted == handled \cup failed

\* No message is passed over unseen: whatever crashes, rebalances and stale
\* commits do, the group commits past an offset only when some consumer's
\* handler ended on it (consumer.py turns auto-commit off for this).
CommittedWasAttempted == 1..committed \subseteq Attempted

\* The committed offset never moves back, not even by the late commit of a
\* consumer that lost the partition while it was handling a message.
CommittedNeverRewinds == [][committed' >= committed]_committed

\* Once crashes and rebalances cease with a consumer left running, every stored
\* message gets to a handler that ends: a crash in a handler costs a redelivery
\* and never the message.
EveryMessageAttempted ==
  (<>[][\A c \in Consumers : ~Fault(c)]_vars /\ <>[](up # {}))
    => \A o \in 1..Cardinality(Messages) : (o <= Len(log)) ~> (o \in Attempted)

\* What the loop says of a handler that raised: "will retry".  A message whose
\* handler only ever raised is not committed past.
FailedIsRetried == failed \cap 1..committed \subseteq handled
=============================================================================
