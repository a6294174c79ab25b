------------------------------ MODULE Proxies -------------------------------
(***************************************************************************)
(* The readers of Source, Task, Response, Provider and Master: a field is  *)
(* one RPC, so it is read off the world of that moment.  A snapshot is the *)
(* sequence of its fields in the order the code evaluates them.            *)
(***************************************************************************)
EXTENDS Contracts, Lists

TaskCount(w, s) == Cardinality({t \in Tasks(w) : w.tasks[t].params[1] = s})
RegistrantCount(w, s) == Cardinality(Members(w, s))
PreferredEnvironmentOf(w, s, p) ==
  LET environment == w.sources[s].members
  IN IF p \in DOMAIN environment THEN parse_environments(environment[p]) ELSE {}

SourceField(w, s, f) ==
  LET source == w.sources[s] IN
  CASE f = "client" -> source.client
    [] f = "status" -> source.status
    [] f = "params" -> SourceParamsOf(source.params)
    [] f = "task_count" -> TaskCount(w, s)
    [] f = "registrant_count" -> RegistrantCount(w, s)

WinningProvider(w, t) == w.tasks[t].winner   \* Nobody is None
ResponseOf(w, t, p) == IF Answered(w, t, p) THEN <<t, p>> ELSE Nobody

TaskField(w, t, f) ==
  LET task == w.tasks[t] IN
  CASE f = "source" -> task.params[1]
    [] f = "status" -> task.status
    [] f = "params" -> TaskParamsOf(task.params)
    [] f = "payment" -> task.params[4]
    [] f = "expiry_time" -> task.params[3]
    [] f = "delivery_method" -> task.delivery
    [] f = "attempt_count" -> Len(task.attempters)
    [] f = "winning_provider" -> WinningProvider(w, t)

(* A response is its task and its provider; its data and the time it came  *)
(* never change.                                                           *)
ResponseField(w, r, f) ==
  LET status == w.tasks[r[1]].answers[r[2]] IN
  CASE f = "params" -> [task |-> r[1], provider |-> r[2]]
    [] f = "status" -> status
    [] f = "timestamp" -> "constant"
    [] f = "confirmed" -> status = "CONFIRMED"

(* vault.get_*_of and the like; earnings, sanctions and the whitelist are  *)
(* not part of the world.                                                  *)
VaultRead(w, who, f) ==
  IF f \in {"balance", "lockup", "unbonding", "frozen_payment"}
  THEN w.vault[who][IF f = "frozen_payment" THEN "frozen" ELSE f]
  ELSE IF f = "unbonding_timestamp" THEN who \in w.ripe ELSE "constant"

IsAgentOf(w, account, agent) == <<account, agent>> \in w.agents
ProviderOf(w, who) == {p \in Accounts : w.master[p] = who}
TerminalRead(w, who, f) ==
  CASE f = "master" -> w.master[who]
    [] f = "provider" -> ProviderOf(w, who)
    [] f = "is_provider" -> w.claimed[who] # Nobody   \* announced by a master
    [] f = "is_master" -> ProviderOf(w, who) # {}
    [] f = "default_agent_disabled" -> who \in w.undispatched
    [] f \in {"base_data", "live_data"} -> "constant"

TerminalFields ==
  {"master", "provider", "is_provider", "is_master", "default_agent_disabled",
   "base_data", "live_data"}
AccountField(w, who, f) ==
  IF f \in TerminalFields THEN TerminalRead(w, who, f) ELSE VaultRead(w, who, f)
ProviderField(w, who, f) == AccountField(w, who, f)
MasterField(w, who, f) == AccountField(w, who, f)

Field(of, w, self, f) ==
  CASE of = "Source" -> SourceField(w, self, f)
    [] of = "Task" -> TaskField(w, self, f)
    [] of = "Response" -> ResponseField(w, self, f)
    [] of = "Provider" -> ProviderField(w, self, f)
    [] of = "Master" -> MasterField(w, self, f)
-----------------------------------------------------------------------------
SourceSnapshot == <<"client", "status", "params", "task_count", "registrant_count">>

(* Deliberate fault: the winner is read before the status.                 *)
WinnerFirst ==
  <<"source", "winning_provider", "status", "params", "payment", "expiry_time",
    "delivery_method", "attempt_count">>

TaskSnapshot ==
  <<"source", "status", "params", "payment", "expiry_time", "delivery_method",
    "attempt_count", "winning_provider">>
ResponseSnapshot == <<"params", "status", "timestamp", "confirmed">>
ProviderSnapshot ==
  <<"master", "base_data", "live_data", "is_provider", "default_agent_disabled",
    "balance", "lockup", "unbonding", "unbonding_timestamp", "total_earnings",
    "frozen_payment", "sanction", "is_eligible", "is_whitelisted">>
MasterSnapshot ==
  <<"provider", "is_master", "balance", "lockup", "unbonding", "total_earnings",
    "frozen_payment", "is_eligible", "is_whitelisted">>

Snapshot(of) ==
  CASE of = "Source" -> SourceSnapshot
    [] of = "Task" -> TaskSnapshot
    [] of = "Response" -> ResponseSnapshot
    [] of = "Provider" -> ProviderSnapshot
    [] of = "Master" -> MasterSnapshot
-----------------------------------------------------------------------------
(* load: the probe, and what it has to find.                               *)
Exists(of, w, self) ==
  CASE of = "Source" -> self \in Sources(w)
    [] of = "Task" -> self \in Tasks(w)
    [] of = "Response" -> self[1] \in Tasks(w) /\ Answered(w, self[1], self[2])
    [] of = "Provider" -> ProviderField(w, self, "is_provider")
    [] of = "Master" -> MasterField(w, self, "is_master")
NotFound(of) ==
  [Source |-> "SourceNotFoundError", Task |-> "TaskNotFoundError",
   Response |-> "ResponseNotFoundError", Provider |-> "ProviderNotFoundError",
   Master |-> "MasterNotFoundError"][of]
(* Source.load, Task.load and Response.load take any exception for a       *)
(* missing contract; Provider.load and Master.load let it pass.            *)
ProbeFailure(of) ==
  IF of \in {"Source", "Task", "Response"} THEN NotFound(of) ELSE "RpcError"
-----------------------------------------------------------------------------
(* get_metadata and fetch_data go by the link in a field that is read      *)
(* first; a link stands for its content.                                   *)
Link(of, params) ==
  CASE of = "Source" -> params.imageMetadataUrl
    [] of = "Task" -> params.config
    [] of = "Response" -> <<params.task, params.provider>>

(* Task.get_responses asks for one slot per attempter counted, a chunk of  *)
(* them at a time; a slot without a response holds the zero address and is *)
(* dropped.                                                                *)

(* Deliberate fault: the inclusive bound of the getter is one too low.     *)
OneSlotShort(n) == IF n = 0 THEN 0 ELSE n - 1

SlotsRead(n) == n
get_responses(w, t, lower, upper) ==
  LET slots == [i \in 1 .. SlotsRead(upper - lower) |->
                  ResponseOf(w, t, w.tasks[t].attempters[lower + i])]
  IN Without(slots, {Nobody})
=============================================================================
