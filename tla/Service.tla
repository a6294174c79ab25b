------------------------------ MODULE Service -------------------------------
(***************************************************************************)
(* The provider side: ogpu.service exposes functions as HTTP endpoints.    *)
(* A request is answered 202 and its function runs in the background on a  *)
(* thread of a bounded pool; a function with a timeout runs on a thread of *)
(* its own that the pool's thread waits for.  A result is posted to the    *)
(* callback URL.                                                           *)
(*                                                                         *)
(*   server    registering -> starting -> serving | failed                 *)
(*   request   unsent -> accepted -> running -> posting -> ended           *)
(***************************************************************************)
EXTENDS Naturals, Sequences, SequencesExt, FiniteSets

CONSTANTS
  Functions,
  NameOf,         \* __name__ of each function; names need not differ
  Timed,          \* functions exposed with a timeout that is not 0
  Requests,
  PoolSize,       \* threads of the pool background tasks run on
  Falsy,          \* a result that is false as a condition
  Null

Names == {NameOf[f] : f \in Functions}

ASSUME ServiceAssumption ==
  /\ Functions = DOMAIN NameOf
  /\ Timed \subseteq Functions
  /\ PoolSize \in Nat \ {0}
  /\ Null \notin Requests \cup Functions
  /\ Falsy \notin Requests

VARIABLES
  hasInit,      \* an init function is registered
  hasCallbackUrl,
  server,
  handlers,     \* _exposed_handlers
  initDone,     \* the init function returned
  path,         \* name of the endpoint a request asks for
  ran,          \* function a request was routed to
  status,
  worker,       \* the thread running the function
  cell,         \* result[0] of timed_handler, or what the function returned
  value,        \* what the runner got
  posts         \* posts the callback server received: for which task, which result

config == <<hasInit, hasCallbackUrl>>
vars == <<config, server, handlers, initDone, path, ran, status, worker, cell, value, posts>>

(* The result computed for a request is that request.                      *)
Values == Requests \cup {Falsy, Null}
Statuses == {"unsent", "not_found", "accepted", "running", "posting",
             "success", "no_result", "timeout", "failed"}
Ended == {"not_found", "success", "no_result", "timeout", "failed"}

TypeOK ==
  /\ config \in BOOLEAN \X BOOLEAN
  /\ server \in {"registering", "starting", "serving", "failed"}
  /\ handlers \in Seq(Functions)
  /\ initDone \in BOOLEAN
  /\ path \in [Requests -> Names \cup {Null}]
  /\ ran \in [Requests -> Functions \cup {Null}]
  /\ status \in [Requests -> Statuses]
  /\ worker \in [Requests -> {"none", "running", "returned", "raised"}]
  /\ cell \in [Requests -> Values]
  /\ value \in [Requests -> Values]
  /\ posts \in Seq(Requests \X Values)

Init ==
  /\ hasInit \in BOOLEAN
  /\ hasCallbackUrl \in BOOLEAN
  /\ server = "registering"
  /\ handlers = <<>>
  /\ initDone = FALSE
  /\ path = [r \in Requests |-> Null]
  /\ ran = [r \in Requests |-> Null]
  /\ status = [r \in Requests |-> "unsent"]
  /\ worker = [r \in Requests |-> "none"]
  /\ cell = [r \in Requests |-> Null]
  /\ value = [r \in Requests |-> Null]
  /\ posts = <<>>

Become(r, s) == status' = [status EXCEPT ![r] = s]
-----------------------------------------------------------------------------
(* Deliberate fault: a failed init function does not stop the server.      *)
FailedInitIgnored ==
  /\ server = "starting" /\ hasInit
  /\ server' = "serving"
  /\ UNCHANGED <<config, handlers, initDone, path, ran, status, worker, cell, value, posts>>

HandlerName(f) == NameOf[f]
HandlerNames == {HandlerName(f) : f \in ToSet(handlers)}

(* expose; a taken name raises ValueError.                                 *)
Expose(f) ==
  /\ server = "registering"
  /\ NameOf[f] \notin HandlerNames
  /\ handlers' = Append(handlers, f)
  /\ UNCHANGED <<config, server, initDone, path, ran, status, worker, cell, value, posts>>

Start ==
  /\ server = "registering"
  /\ server' = "starting"
  /\ UNCHANGED <<config, handlers, initDone, path, ran, status, worker, cell, value, posts>>

(* lifespan: the init function, if any, before the first request.          *)
InitSucceeds ==
  /\ server = "starting"
  /\ initDone' = hasInit
  /\ server' = "serving"
  /\ UNCHANGED <<config, handlers, path, ran, status, worker, cell, value, posts>>

InitFails ==
  /\ server = "starting" /\ hasInit
  /\ server' = "failed"
  /\ UNCHANGED <<config, handlers, initDone, path, ran, status, worker, cell, value, posts>>
-----------------------------------------------------------------------------
(* POST /run/{name}/{task_address}: the first endpoint of that name.       *)
Accept(r, name) ==
  /\ server = "serving"
  /\ status[r] = "unsent"
  /\ path' = [path EXCEPT ![r] = name]
  /\ IF name \in HandlerNames
     THEN /\ ran' = [ran EXCEPT ![r] =
                 handlers[CHOOSE i \in DOMAIN handlers :
                   /\ HandlerName(handlers[i]) = name
                   /\ \A j \in 1 .. i - 1 : HandlerName(handlers[j]) # name]]
          /\ Become(r, "accepted")
     ELSE Become(r, "not_found") /\ UNCHANGED ran
  /\ UNCHANGED <<config, server, handlers, initDone, worker, cell, value, posts>>

PoolBusy == {r \in Requests : status[r] \in {"running", "posting"}}

(* The runner gets a thread of the pool and calls the function, on a       *)
(* thread of its own if the function has a timeout.                        *)
Run(r) ==
  /\ status[r] = "accepted"
  /\ Cardinality(PoolBusy) < PoolSize
  /\ Become(r, "running")
  /\ worker' = [worker EXCEPT ![r] = "running"]
  /\ UNCHANGED <<config, server, handlers, initDone, path, ran, cell, value, posts>>

(* Deliberate fault: the cell is the function's, not the call's.           *)
FunctionCell(r) == CHOOSE q \in Requests : ran[q] = ran[r]

Cell(r) == r

(* The function ends, before or after the runner has given up on it.       *)
Returns(r, v) ==
  /\ worker[r] = "running"
  /\ worker' = [worker EXCEPT ![r] = "returned"]
  /\ cell' = [cell EXCEPT ![Cell(r)] = v]
  /\ UNCHANGED <<config, server, handlers, initDone, path, ran, status, value, posts>>

Raises(r) ==
  /\ worker[r] = "running"
  /\ worker' = [worker EXCEPT ![r] = "raised"]
  /\ UNCHANGED <<config, server, handlers, initDone, path, ran, status, cell, value, posts>>

HasEnded(r) == worker[r] \in {"returned", "raised"}

(* Deliberate fault: the runner waits for the function without a limit.    *)
NeverTimesOut(r) == FALSE /\ UNCHANGED vars

TimesOut(r) ==
  /\ status[r] = "running" /\ ran[r] \in Timed /\ ~HasEnded(r)
  /\ Become(r, "timeout")
  /\ UNCHANGED <<config, server, handlers, initDone, path, ran, worker, cell, value, posts>>

(* An exception of a function with a timeout is logged in its thread and   *)
(* leaves None; without a timeout the runner logs it.                      *)
Collect(r) ==
  /\ status[r] = "running" /\ HasEnded(r)
  /\ value' = [value EXCEPT ![r] = cell[Cell(r)]]
  /\ Become(r, IF worker[r] = "raised" /\ ran[r] \notin Timed THEN "failed"
               ELSE IF value'[r] \in Requests THEN "posting" ELSE "no_result")
  /\ UNCHANGED <<config, server, handlers, initDone, path, ran, worker, cell, posts>>

(* send_callback.  A status other than 200 is only logged; an exception    *)
(* may come before or after the post has been received.                    *)
SendCallback(r) ==
  /\ status[r] = "posting"
  /\ \/ /\ hasCallbackUrl
        /\ posts' = Append(posts, <<r, value[r]>>)
        /\ \E s \in {"success", "failed"} : Become(r, s)
     \/ hasCallbackUrl /\ Become(r, "failed") /\ UNCHANGED posts
     \/ ~hasCallbackUrl /\ Become(r, "success") /\ UNCHANGED posts
  /\ UNCHANGED <<config, server, handlers, initDone, path, ran, worker, cell, value>>

Progress(r) == Run(r) \/ TimesOut(r) \/ Collect(r) \/ SendCallback(r)
Ends(r) == Raises(r) \/ \E v \in {r, Falsy} : Returns(r, v)
EndsUntimed(r) == ran[r] \notin Timed /\ Ends(r)

Next ==
  \/ \E f \in Functions : Expose(f)
  \/ Start \/ InitSucceeds \/ InitFails
  \/ \E r \in Requests :
       \/ \E name \in Names : Accept(r, name)
       \/ Run(r) \/ TimesOut(r) \/ Collect(r) \/ SendCallback(r)
       \/ Raises(r) \/ \E v \in {r, Falsy} : Returns(r, v)

Spec == Init /\ [][Next]_vars

(* The pool's threads run, a wait with a timeout ends, the callback server *)
(* answers or breaks off, and a function without a timeout ends by itself; *)
(* a function with a timeout may hang for ever.                            *)
FairSpec == Spec /\ \A r \in Requests : WF_vars(Progress(r)) /\ WF_vars(EndsUntimed(r))
-----------------------------------------------------------------------------
(* A request posts at most once, the result its own function call          *)
(* returned, and nothing once it has timed out: a late result is dropped   *)
(* (timed_handler, decorators.py 56-88).                                   *)
PostsOwnResultOnce ==
  /\ \A i \in DOMAIN posts :
       LET r == posts[i][1] IN
         /\ posts[i][2] = r
         /\ worker[r] = "returned"
         /\ status[r] \in {"success", "failed"}
  /\ \A i, j \in DOMAIN posts : i # j => posts[i][1] # posts[j][1]

(* No request is taken before a registered init function has returned.     *)
ServesAfterInit ==
  hasInit /\ (\E r \in Requests : status[r] # "unsent") => initDone

(* Every accepted request ends, even when functions with a timeout hang:   *)
(* they do not hold on to the pool.                                        *)
EveryRequestEnds ==
  \A r \in Requests : status[r] = "accepted" ~> status[r] \in Ended
=============================================================================
