---------------------------- MODULE EventWatcher ----------------------------
(***************************************************************************)
(* One watch_* generator of ogpu.events over the node's filter: the node   *)
(* queues the logs of one event type for the filter, each poll takes the   *)
(* queue, and the generator yields what its scope and builder let through. *)
(* The node may drop the filter, answer a poll whose reply is lost, or     *)
(* retract the logs of its last block.  A log is known by the number of    *)
(* its emission and by its kind.                                           *)
(*                                                                         *)
(*   connect -> head -> create -> poll -> deliver (-> yielded)* -> sleep   *)
(*                                  ^------------------------------|       *)
(***************************************************************************)
EXTENDS Naturals, Sequences, SequencesExt

CONSTANTS
  Watchers,       \* the watch_* functions called
  MaxLogs, MaxReorgs,
  Latest          \* from_block=None

ASSUME WatcherAssumption ==
  /\ MaxLogs \in Nat
  /\ MaxReorgs \in Nat
  /\ Latest \notin Nat

(* The builders of these read a status into an enum.                       *)
Decodes(name) == name \in {"watch_response_status_changed", "watch_task_status_changed"}

(* In scope, in scope with a status its enum does not know, out of scope.  *)
Kinds == {"mine", "unknown", "other"}

VARIABLES
  emitted,      \* kind of every log, in the order of emission
  chain,        \* numbers of the logs on the chain now, one per block
  retracted,    \* numbers of the logs taken back
  replays,      \* whether a new filter's first poll returns older logs
  filter,       \* "none", "live" or "dropped" at the node
  queue,        \* entries the next poll returns
  name,         \* which watch_* function this is
  fromBlock, start,
  pc,
  batch,        \* entries still to go through
  yielded,      \* numbers of the logs yielded
  missed,       \* numbers of entries that left the queue in a reply that was lost
  firstOwed     \* the first log the filter is to report

node == <<emitted, chain, retracted, replays, filter, queue>>
vars == <<emitted, chain, retracted, replays, filter, queue,
          name, fromBlock, start, pc, batch, yielded, missed, firstOwed>>
watcher == <<name, fromBlock, start, pc, batch, yielded, missed, firstOwed>>

Logs == 1 .. MaxLogs
Labels == {"connect", "head", "create", "poll", "deliver", "yielded", "sleep", "closed", "raised"}

TypeOK ==
  /\ name \in Watchers
  /\ emitted \in Seq(Kinds) /\ Len(emitted) <= MaxLogs
  /\ chain \in Seq(Logs)
  /\ retracted \subseteq Logs
  /\ replays \in BOOLEAN
  /\ filter \in {"none", "live", "dropped"}
  /\ queue \in Seq(Logs) /\ batch \in Seq(Logs)
  /\ fromBlock \in Nat \cup {Latest}
  /\ start \in Nat
  /\ pc \in Labels
  /\ batch # <<>> => pc \in {"deliver", "yielded", "closed", "raised"}
  /\ yielded \in Seq(Logs)
  /\ missed \subseteq Logs
  /\ firstOwed \in 1 .. MaxLogs + 1

Init ==
  /\ name \in Watchers
  /\ emitted = <<>> /\ chain = <<>> /\ retracted = {}
  /\ replays \in BOOLEAN
  /\ filter = "none"
  /\ queue = <<>>
  /\ fromBlock \in {Latest} \cup 1 .. MaxLogs
  /\ start = 0
  /\ pc = "connect"
  /\ batch = <<>> /\ yielded = <<>> /\ missed = {}
  /\ firstOwed = 1
-----------------------------------------------------------------------------
(* The node.                                                               *)
Enqueue(log, block) ==
  queue' = IF filter = "live" /\ block >= start THEN Append(queue, log) ELSE queue

Emit(kind) ==
  /\ Len(emitted) < MaxLogs
  /\ emitted' = Append(emitted, kind)
  /\ chain' = Append(chain, Len(emitted'))
  /\ Enqueue(Len(emitted'), Len(chain'))
  /\ UNCHANGED <<retracted, replays, filter, watcher>>

(* A retracted log is an entry of its own, marked removed.                 *)
Reorg ==
  /\ chain # <<>>
  /\ Len(emitted) - Len(chain) < MaxReorgs
  /\ retracted' = retracted \cup {Last(chain)}
  /\ chain' = Front(chain)
  /\ Enqueue(Last(chain), Len(chain))
  /\ UNCHANGED <<emitted, replays, filter, watcher>>

DropFilter ==
  /\ filter = "live"
  /\ filter' = "dropped"
  /\ queue' = <<>>
  /\ UNCHANGED <<emitted, chain, retracted, replays, watcher>>
-----------------------------------------------------------------------------
(* What is raised before the loop, or by the builder, leaves the generator.*)
Raise ==
  /\ pc \in {"connect", "head", "create"}
  /\ pc' = "raised"
  /\ UNCHANGED <<node, name, fromBlock, start, batch, yielded, missed, firstOwed>>

Connect ==
  /\ pc = "connect"
  /\ pc' = IF fromBlock = Latest THEN "head" ELSE "create"
  /\ start' = IF fromBlock = Latest THEN start ELSE fromBlock
  /\ UNCHANGED <<node, name, fromBlock, batch, yielded, missed, firstOwed>>

(* The head block is that of the last log or an empty one after it.        *)
ReadHead ==
  /\ pc = "head"
  /\ start' \in {Len(chain), Len(chain) + 1}
  /\ pc' = "create"
  /\ UNCHANGED <<node, name, fromBlock, batch, yielded, missed, firstOwed>>

Larger(a, b) == IF a >= b THEN a ELSE b

CreateFilter ==
  /\ pc = "create"
  /\ filter' = "live"
  /\ queue' = IF replays THEN SubSeq(chain, Larger(start, 1), Len(chain)) ELSE <<>>
  /\ firstOwed' = Larger(start, IF replays THEN 1 ELSE Len(chain) + 1)
  /\ pc' = "poll"
  /\ UNCHANGED <<emitted, chain, retracted, replays, name, fromBlock, start, batch, yielded, missed>>

(* Deliberate fault: get_all_entries in place of get_new_entries.          *)
PollAll ==
  /\ pc = "poll"
  /\ filter = "live"
  /\ batch' = SubSeq(chain, Larger(start, 1), Len(chain))
  /\ queue' = <<>>
  /\ pc' = "deliver"
  /\ UNCHANGED <<emitted, chain, retracted, replays, filter, name, fromBlock, start, yielded, missed, firstOwed>>

(* get_new_entries: the queue, an error with the queue kept, or an error   *)
(* with the queue gone.                                                    *)
Poll ==
  /\ pc = "poll"
  /\ filter = "live"
  /\ batch' = queue
  /\ queue' = <<>>
  /\ pc' = "deliver"
  /\ UNCHANGED <<emitted, chain, retracted, replays, filter, name, fromBlock, start, yielded, missed, firstOwed>>

PollFails ==
  /\ pc = "poll"
  /\ pc' = "sleep"
  /\ UNCHANGED <<node, name, fromBlock, start, batch, yielded, missed, firstOwed>>

PollReplyLost ==
  /\ pc = "poll"
  /\ filter = "live"
  /\ missed' = missed \cup ToSet(queue)
  /\ queue' = <<>>
  /\ pc' = "sleep"
  /\ UNCHANGED <<emitted, chain, retracted, replays, filter, name, fromBlock, start, batch, yielded, firstOwed>>

(* Deliberate faults: the loop leaves the batch at the first entry out of  *)
(* scope, or after an event.                                               *)
StopAtForeign ==
  /\ pc = "deliver" /\ batch # <<>> /\ emitted[Head(batch)] = "other"
  /\ batch' = <<>>
  /\ UNCHANGED <<node, name, fromBlock, start, pc, yielded, missed, firstOwed>>
SleepAfterYield ==
  /\ pc = "yielded"
  /\ pc' = "sleep"
  /\ UNCHANGED <<node, name, fromBlock, start, batch, yielded, missed, firstOwed>>

InScope(log) == emitted[log] # "other"
Builds(log) == emitted[log] = "unknown" => ~Decodes(name)

SkipForeign ==
  /\ pc = "deliver" /\ batch # <<>> /\ ~InScope(Head(batch))
  /\ batch' = Tail(batch)
  /\ UNCHANGED <<node, name, fromBlock, start, pc, yielded, missed, firstOwed>>

(* Whether the entry is marked removed is not looked at.                   *)
Yield ==
  /\ pc = "deliver" /\ batch # <<>> /\ InScope(Head(batch)) /\ Builds(Head(batch))
  /\ yielded' = Append(yielded, Head(batch))
  /\ batch' = Tail(batch)
  /\ pc' = "yielded"
  /\ UNCHANGED <<node, name, fromBlock, start, missed, firstOwed>>

BuilderRaises ==
  /\ pc = "deliver" /\ batch # <<>> /\ InScope(Head(batch)) /\ ~Builds(Head(batch))
  /\ pc' = "raised"
  /\ UNCHANGED <<node, name, fromBlock, start, batch, yielded, missed, firstOwed>>

(* The consumer asks for the next event, or leaves the loop.               *)
Resume ==
  /\ pc = "yielded"
  /\ pc' = "deliver"
  /\ UNCHANGED <<node, name, fromBlock, start, batch, yielded, missed, firstOwed>>

Close ==
  /\ pc = "yielded"
  /\ pc' = "closed"
  /\ UNCHANGED <<node, name, fromBlock, start, batch, yielded, missed, firstOwed>>

EndOfBatch ==
  /\ pc = "deliver" /\ batch = <<>>
  /\ pc' = "sleep"
  /\ UNCHANGED <<node, name, fromBlock, start, batch, yielded, missed, firstOwed>>

Wake ==
  /\ pc = "sleep"
  /\ pc' = "poll"
  /\ UNCHANGED <<node, name, fromBlock, start, batch, yielded, missed, firstOwed>>

Node == (\E kind \in Kinds : Emit(kind)) \/ Reorg \/ DropFilter
Loop == SkipForeign \/ Yield \/ BuilderRaises \/ Resume \/ EndOfBatch \/ Wake

Next ==
  \/ Node
  \/ Raise \/ Connect \/ ReadHead \/ CreateFilter
  \/ Poll \/ PollFails \/ PollReplyLost
  \/ Loop \/ Close

Spec == Init /\ [][Next]_vars

(* The event loop runs the generator, its consumer keeps iterating, and a  *)
(* filter the node holds does not fail every poll for ever.                *)
FairSpec == Spec /\ WF_vars(Loop) /\ SF_vars(Poll)
-----------------------------------------------------------------------------
(* Events come in the order of the chain, each once; what comes again or   *)
(* late is a log the node retracted (_poll_event takes an entry marked     *)
(* removed for a new event).                                               *)
YieldsInOrder ==
  \A i, j \in DOMAIN yielded :
    i < j => yielded[i] < yielded[j] \/ yielded[j] \in retracted

(* No event is passed over: what the filter owed the watcher has been      *)
(* yielded, is still to come, was out of scope or was lost with a reply.   *)
Accounted == ToSet(yielded) \cup ToSet(queue) \cup ToSet(batch) \cup missed
NothingPassedOver ==
  filter = "live" /\ retracted = {} =>
    \A log \in firstOwed .. Len(emitted) : emitted[log] # "other" => log \in Accounted

(* An event the filter has queued is yielded in the end, unless the        *)
(* watcher ends, the node drops the filter or a reply is lost.             *)
EveryQueuedEventYielded ==
  \A log \in Logs :
    (log \in ToSet(queue) /\ emitted[log] = "mine")
      ~> (log \in ToSet(yielded) \cup missed \/ filter = "dropped" \/ pc \in {"closed", "raised"})
=============================================================================
