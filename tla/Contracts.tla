----------------------------- MODULE Contracts -----------------------------
(***************************************************************************)
(* The deployed contracts as the SDK relies on them.  They are outside the *)
(* repository: the guards are the errors the docstrings of the wrappers    *)
(* list, the effects what those docstrings promise.  A world is a record,  *)
(* a source or a task is named by the order of its creation, a response by *)
(* its task and its provider.                                              *)
(***************************************************************************)
EXTENDS DataTypes, Functions

CONSTANTS
  Accounts,   \* externally owned accounts
  Nobody      \* the zero address

ASSUME ContractsAssumption == Nobody \notin Accounts /\ Nobody \notin Nat \X Accounts

Sources(w) == DOMAIN w.sources
Tasks(w) == DOMAIN w.tasks
Attempters(w, t) == Range(w.tasks[t].attempters)   \* a sequence, as they came
Members(w, s) == DOMAIN w.sources[s].members        \* each with its environment
Answered(w, t, p) == t \in Tasks(w) /\ p \in DOMAIN w.tasks[t].answers
Confirmed(w, t, p) == Answered(w, t, p) /\ w.tasks[t].answers[p] = "CONFIRMED"

Shaped(w) ==
  /\ DOMAIN w = {"sources", "tasks", "vault", "ripe", "master", "claimed", "agents",
                 "undispatched"}
  /\ w.sources \in Seq(Range(w.sources)) /\ w.tasks \in Seq(Range(w.tasks))
  /\ \A s \in Sources(w) :
       DOMAIN w.sources[s] = {"client", "status", "params", "members"}
  /\ \A t \in Tasks(w) :
       DOMAIN w.tasks[t] = {"client", "params", "status", "expiry", "attempters", "answers",
                            "winner", "delivery"}

(* A confirmed response has won, and its task is over.                     *)
WinnersOK(w) ==
  \A t \in Tasks(w) : \A p \in DOMAIN w.tasks[t].answers :
    Confirmed(w, t, p) => w.tasks[t].winner = p /\ w.tasks[t].status = "FINALIZED"

(* A task that was worked on has an attempter, who may have answered; one  *)
(* that is over by an answer has a winner, and a winner's is confirmed.    *)
TaskOK(task) ==
  /\ task.params[4] \in Nat
  /\ task.attempters \in Seq(Accounts)
  /\ DOMAIN task.answers \subseteq Range(task.attempters)
  /\ task.status \in {"ATTEMPTED", "RESPONDED", "FINALIZED"} => task.attempters # <<>>
  /\ task.status = "FINALIZED" => task.winner # Nobody
  /\ task.winner # Nobody =>
       task.winner \in DOMAIN task.answers /\ task.answers[task.winner] = "CONFIRMED"

(* Until its expiry time a task's expiry is ahead.  Then it either refuses *)
(* an attempt or takes it to mark itself EXPIRED: which of the two, the    *)
(* docstrings leave open (nexus.py 246-261, task.py 176-177, enums.py 28). *)
Expiries == {"ahead", "refuses", "marks"}

Purses == [{"balance", "lockup", "unbonding", "frozen"} -> Int]

WorldOK(w) ==
  /\ Shaped(w) /\ WinnersOK(w) /\ w.vault \in [Accounts -> Purses]
  /\ DOMAIN w.master = Accounts /\ DOMAIN w.claimed = Accounts
  /\ \A s \in Sources(w) : w.sources[s].client \in Accounts /\ w.sources[s].status \in SourceStatuses
  /\ \A t \in Tasks(w) :
       /\ w.tasks[t].status \in TaskStatuses /\ w.tasks[t].delivery \in DeliveryMethods
       /\ Range(w.tasks[t].answers) \subseteq ResponseStatuses
       /\ TaskOK(w.tasks[t]) /\ w.tasks[t].expiry \in Expiries
       /\ w.tasks[t].params[1] \in Sources(w)

(* Agents sign for the account that has authorised them; a provider is     *)
(* also represented by its master and the master's agents.                 *)
ActsFor(w, who, account) == who = account \/ <<account, who>> \in w.agents
Represents(w, who, p) ==
  who = p \/ (p \in Accounts /\ w.master[p] # Nobody /\ ActsFor(w, who, w.master[p]))

ContractFunctions ==
  [source |-> {"publishSource", "updateSource", "inactivateSource", "setStatus", "register",
               "unregister"},
   task |-> {"publishTask", "attempt", "confirmResponse", "cancelTask", "submitResponse"},
   vault |-> {"deposit", "withdraw", "lock", "unbond", "cancelUnbonding", "claim"},
   terminal |-> {"setAgent", "announceProvider", "announceMaster", "removeProvider",
                 "removeContainer", "setDefaultAgentDisabled"}]
IsContractCall(r) == r.on \in DOMAIN ContractFunctions /\ r.fn \in ContractFunctions[r.on]

(* Amounts are unsigned.                                                   *)
AmountsOK(r) ==
  /\ r.value \in Nat
  /\ r.fn \in {"withdraw", "lock", "unbond"} => r.args.amount \in Nat
  /\ r.fn = "publishTask" => r.args.params[4] \in Nat

SourceWrites == {"updateSource", "inactivateSource", "setStatus"}
TaskWrites == {"cancelTask", "confirmResponse"}
Closed == TaskStatuses \ {"NEW", "ATTEMPTED", "RESPONDED"}

Reasons ==
  {"NotOwner", "SourceInactive", "InsufficientBalance", "InsufficientLockup",
   "AlreadyFinalized", "AlreadyConfirmed", "Expired", "UnbondingNotElapsed",
   "NotProvider", "NotMaster", "unmapped"}

(* Reverting with this reason is justified.                                *)
Applies(reason, w, r) ==
  LET f == r.fn  a == r.args IN
  CASE reason = "NotOwner" ->
         \/ f \in SourceWrites /\ r.signer # w.sources[a.source].client
         \/ f = "cancelTask" /\ r.signer # w.tasks[a.task].client
         \/ f = "confirmResponse" /\ ~ActsFor(w, r.signer, w.tasks[a.task].client)
    [] reason = "SourceInactive" ->
         \/ f = "register" /\ w.sources[a.source].status = "INACTIVE"
         \/ f = "publishTask" /\ w.sources[a.params[1]].status = "INACTIVE"
    [] reason = "InsufficientBalance" ->
         \/ f \in {"withdraw", "lock"} /\ w.vault[r.signer].balance < a.amount
         \/ f = "publishTask" /\ w.vault[r.signer].balance < a.params[4]
    [] reason = "InsufficientLockup" ->
         \/ f = "unbond" /\ w.vault[r.signer].lockup < a.amount
         \/ f = "register" /\ w.vault[a.provider].lockup < w.sources[a.source].params[5]
    [] reason = "AlreadyFinalized" ->
         \/ f = "cancelTask" /\ w.tasks[a.task].status # "NEW"
         \/ f = "attempt" /\ w.tasks[a.task].status \in Closed
    [] reason = "AlreadyConfirmed" ->
         f = "confirmResponse" /\ Confirmed(w, a.task, a.provider)
    [] reason = "Expired" -> f = "attempt" /\ w.tasks[a.task].expiry = "refuses"
    [] reason = "UnbondingNotElapsed" -> f = "claim" /\ r.signer \notin w.ripe
    [] reason = "NotProvider" ->
         \/ f \in {"register", "unregister", "attempt"} /\ ~Represents(w, r.signer, a.provider)
         \/ f = "setDefaultAgentDisabled" /\ w.master[r.signer] = Nobody
    [] reason = "NotMaster" ->
         f \in {"removeProvider", "removeContainer"} /\ w.master[a.provider] # r.signer
    [] reason = "unmapped" ->
         \/ f \in ContractFunctions.task \ {"publishTask"} /\ a.task \notin Tasks(w)
         \/ f \in {"updateSource", "inactivateSource", "register", "unregister"}
            /\ a.source \notin Sources(w)
         \/ f = "confirmResponse" /\ (~Answered(w, a.task, a.provider)
                                      \/ w.tasks[a.task].status \in Closed)
         \/ f \in {"attempt", "submitResponse"} /\ a.provider \notin Members(w, w.tasks[a.task].params[1])
         \/ f = "submitResponse" /\ (w.tasks[a.task].status \in Closed
              \/ w.tasks[a.task].expiry # "ahead"
              \/ a.provider \notin Attempters(w, a.task) \/ Answered(w, a.task, a.provider))
         \/ f = "announceMaster" /\ w.claimed[r.signer] # a.master

RevertReasons(w, r) == {x \in Reasons : Applies(x, w, r)}
-----------------------------------------------------------------------------
With(f, x, y) == [z \in DOMAIN f \cup {x} |-> IF z = x THEN y ELSE f[z]]

Moves(w, account, amount, from, to) ==
  LET purse == w.vault[account]
  IN [w EXCEPT !.vault[account] = [purse EXCEPT ![from] = @ - amount, ![to] = @ + amount]]

(* The task ends with p's response confirmed; its payment goes to p.       *)
Finalized(w, t, p) ==
  LET task == w.tasks[t] pay == task.params[4] IN
  [w EXCEPT
     !.tasks[t] = [task EXCEPT !.status = "FINALIZED", !.winner = p,
                               !.answers = With(@, p, "CONFIRMED")],
     !.vault[task.client].frozen = @ - pay,
     !.vault[p].balance = @ + pay]

NewSource(params) ==
  [client |-> params[1], status |-> "ACTIVE", params |-> params, members |-> <<>>]
NewTask(w, client, params) ==
  [client |-> client, params |-> params, status |-> "NEW", expiry |-> "ahead",
   attempters |-> <<>>, answers |-> <<>>, winner |-> Nobody,
   delivery |-> w.sources[params[1]].params[7]]

AfterSourceWrite(w, r) ==
  LET a == r.args IN
  CASE r.fn = "publishSource" -> [w EXCEPT !.sources = Append(@, NewSource(a.params))]
    [] r.fn = "updateSource" -> [w EXCEPT !.sources[a.source].params = a.params]
    [] r.fn = "inactivateSource" -> [w EXCEPT !.sources[a.source].status = "INACTIVE"]
    [] r.fn = "setStatus" -> [w EXCEPT !.sources[a.source].status = a.status]
    [] r.fn = "register" -> 
         [w EXCEPT !.sources[a.source].members = With(@, a.provider, a.env)]
    [] r.fn = "unregister" -> 
         [w EXCEPT !.sources[a.source].members = RestrictDomain(@, LAMBDA p : p # a.provider)]

AfterTaskWrite(w, r) ==
  LET a == r.args  task == w.tasks[a.task] IN
  CASE r.fn = "publishTask" ->
         Moves([w EXCEPT !.tasks = Append(@, NewTask(w, r.signer, a.params))],
               r.signer, a.params[4], "balance", "frozen")
    [] r.fn = "attempt" ->
         IF task.expiry = "marks"
         THEN [w EXCEPT !.tasks[a.task].status = "EXPIRED"]
         ELSE [w EXCEPT !.tasks[a.task] =
                 [task EXCEPT !.attempters =
                                IF a.provider \in Range(@) THEN @ ELSE Append(@, a.provider),
                              !.status = IF @ = "NEW" THEN "ATTEMPTED" ELSE @]]
    [] r.fn = "confirmResponse" -> Finalized(w, a.task, a.provider)
    [] r.fn = "cancelTask" ->
         Moves([w EXCEPT !.tasks[a.task].status = "CANCELED"],
               task.client, task.params[4], "frozen", "balance")
    [] r.fn = "submitResponse" ->
         LET v == [w EXCEPT !.tasks[a.task] =
                     [task EXCEPT !.answers = With(@, a.provider, "SUBMITTED"),
                                  !.status = "RESPONDED"]]
         IN IF task.delivery = "FIRST_RESPONSE"
            THEN Finalized(v, a.task, a.provider) ELSE v

AfterVaultWrite(w, r) ==
  LET a == r.args  mine == w.vault[r.signer] IN
  CASE r.fn = "deposit" -> [w EXCEPT !.vault[a.account].balance = @ + r.value]
    [] r.fn = "withdraw" -> [w EXCEPT !.vault[r.signer].balance = @ - a.amount]
    [] r.fn = "lock" -> Moves(w, r.signer, a.amount, "balance", "lockup")
    [] r.fn = "unbond" ->
         [Moves(w, r.signer, a.amount, "lockup", "unbonding") EXCEPT !.ripe = @ \ {r.signer}]
    [] r.fn = "cancelUnbonding" -> Moves(w, r.signer, mine.unbonding, "unbonding", "lockup")
    [] r.fn = "claim" -> Moves(w, r.signer, mine.unbonding, "unbonding", "balance")

AfterTerminalWrite(w, r) ==
  LET a == r.args IN
  CASE r.fn = "setAgent" ->
         [w EXCEPT !.agents = IF a.value THEN @ \cup {<<r.signer, a.agent>>}
                              ELSE @ \ {<<r.signer, a.agent>>}]
    [] r.fn = "announceProvider" ->
         [w EXCEPT !.claimed[a.provider] = r.signer, !.vault[a.provider].lockup = @ + r.value]
    [] r.fn = "announceMaster" -> [w EXCEPT !.master[r.signer] = a.master]
    [] r.fn = "removeProvider" ->
         [w EXCEPT !.master[a.provider] = Nobody, !.claimed[a.provider] = Nobody]
    [] r.fn = "removeContainer" -> w   \* only an event
    [] r.fn = "setDefaultAgentDisabled" ->
         [w EXCEPT !.undispatched = IF a.value THEN @ \cup {r.signer} ELSE @ \ {r.signer}]

After(w, r) ==
  CASE r.on = "source" -> AfterSourceWrite(w, r)
    [] r.on = "task" -> AfterTaskWrite(w, r)
    [] r.on = "vault" -> AfterVaultWrite(w, r)
    [] r.on = "terminal" -> AfterTerminalWrite(w, r)

(* Time passes: a task has expired, a cooldown is over.                    *)
TimePasses(w) ==
  {[w EXCEPT !.tasks[t].expiry = e] :
     t \in {x \in Tasks(w) : w.tasks[x].expiry = "ahead"}, e \in Expiries \ {"ahead"}} \cup
  {[w EXCEPT !.ripe = @ \cup {x}] : x \in {y \in Accounts : w.vault[y].unbonding > 0}}
=============================================================================
