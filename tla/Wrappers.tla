------------------------------ MODULE Wrappers ------------------------------
(***************************************************************************)
(* From a call of the SDK to the contract call it hands to TxExecutor.     *)
(* A call's arguments are a record `a', its signer `s' an account (or its  *)
(* key), nothing, or something no key can be made of.  A request carries   *)
(* the account that signs it, or the error raised instead.                 *)
(***************************************************************************)
EXTENDS Contracts

CONSTANTS
  NoSigner,   \* None; an environment variable that is not set
  Garbage     \* no private key, no address

(* No account has the name of an error, or is one of the two above.        *)
ASSUME WrappersAssumption ==
  /\ NoSigner # Garbage
  /\ {NoSigner, Garbage} \cap Accounts = {}
  /\ (Accounts \cup {NoSigner, Garbage}) \cap ConfigErrors = {}

Signers == Accounts \cup {NoSigner, Garbage}

VARIABLE env  \* the account of each <ROLE>_PRIVATE_KEY

ResolveSigner(signer, role) ==
  LET given == IF signer # NoSigner \/ role = "none" THEN signer ELSE env[role]
  IN CASE given = NoSigner -> "MissingSignerError"
       [] given = Garbage -> "InvalidSignerError"
       [] OTHER -> given

Write(s, role, on, fn, a) ==
  [signer |-> ResolveSigner(s, role), on |-> on, fn |-> fn, args |-> a, value |-> 0]
Paying(request, amount) == [request EXCEPT !.value = amount]
Encoded(a) == [a EXCEPT !.params = SourceTuple(@)]
-----------------------------------------------------------------------------
(* nexus                                                                   *)
publish_source(a, s) == Write(s, "client", "source", "publishSource", Encoded(a))
update_source(a, s) == Write(s, "client", "source", "updateSource", Encoded(a))
inactivate_source(a, s) == Write(s, "client", "source", "inactivateSource", a)
register(a, s) == Write(s, "provider", "source", "register", a)
unregister(a, s) == Write(s, "provider", "source", "unregister", a)
attempt(a, s) == Write(s, "provider", "task", "attempt", a)

(* controller                                                              *)
publish_task(a, s) ==
  Write(s, "client", "task", "publishTask", [a EXCEPT !.params = TaskTuple(@)])
confirm_response(a, s) == Write(s, "client", "task", "confirmResponse", a)
cancel_task(a, s) == Write(s, "client", "task", "cancelTask", a)

(* terminal                                                                *)
set_agent(a, s) == Write(s, "client", "terminal", "setAgent", a)
revoke_agent(a, s) == set_agent([agent |-> a.agent, value |-> FALSE], s)
announce_master(a, s) == Write(s, "provider", "terminal", "announceMaster", a)
announce_provider(a, s) ==
  Paying(Write(s, "master", "terminal", "announceProvider", a), a.amount)
remove_provider(a, s) == Write(s, "master", "terminal", "removeProvider", a)
remove_container(a, s) == Write(s, "master", "terminal", "removeContainer", a)
set_default_agent_disabled(a, s) ==
  Write(s, "provider", "terminal", "setDefaultAgentDisabled", a)

(* vault: no environment variable to fall back to                          *)
(* Deliberate fault: the deposit sends no value along.                     *)
DepositsNothing(a, s) == Write(s, "none", "vault", "deposit", a)

deposit(a, s) == Paying(Write(s, "none", "vault", "deposit", a), a.amount)
withdraw(a, s) == Write(s, "none", "vault", "withdraw", a)
lock(a, s) == Write(s, "none", "vault", "lock", a)
unbond(a, s) == Write(s, "none", "vault", "unbond", a)
cancel_unbonding(a, s) == Write(s, "none", "vault", "cancelUnbonding", a)
claim(a, s) == Write(s, "none", "vault", "claim", a)
-----------------------------------------------------------------------------
(* The methods of the proxies add the address they stand for.              *)
Source_set_status(self, a, s) ==
  Write(s, "client", "source", "setStatus", With(a, "source", self))
Source_set_params(self, a, s) == update_source(With(a, "source", self), s)
Source_inactivate(self, s) == inactivate_source([source |-> self], s)
Task_cancel(self, s) == cancel_task([task |-> self], s)
Response_confirm(self, s) == confirm_response([task |-> self[1], provider |-> self[2]], s)

(* What Provider and Master have in common; stake and unstake move the     *)
(* money of whoever signs.                                                 *)
VaultMethod(method, self, a, s) ==
  CASE method = "stake" -> lock(a, s)
    [] method = "unstake" -> unbond(a, s)
    [] method = "cancel_unbonding" -> cancel_unbonding(a, s)
    [] method = "claim_earnings" -> claim(a, s)
    [] method = "deposit_to_vault" -> deposit(With(a, "account", self), s)
    [] method = "withdraw_from_vault" -> withdraw(a, s)

Provider_method(method, self, a, s) ==
  CASE method = "announce_master" -> announce_master(a, s)
    [] method = "set_default_agent_disabled" -> set_default_agent_disabled(a, s)
    [] method = "register_to" -> register(With(a, "provider", self), s)
    [] method = "unregister_from" -> unregister(With(a, "provider", self), s)
    [] method = "attempt" -> attempt(With(a, "provider", self), s)
    [] OTHER -> VaultMethod(method, self, a, s)

Master_method(method, self, a, s) ==
  CASE method = "announce_provider" -> announce_provider(a, s)
    [] method = "remove_provider" -> remove_provider(a, s)
    [] method = "remove_container" -> remove_container(a, s)
    [] method = "set_agent" -> set_agent(a, s)
    [] OTHER -> VaultMethod(method, self, a, s)
-----------------------------------------------------------------------------
(* client: resolves the client's key itself, and passes the account on.    *)
Client_publish_source(a, key) ==
  LET account == ResolveSigner(key, "client")
  IN publish_source([params |-> build_source_params(a.info, account)], account)
Client_update_source(a, key) ==
  LET account == ResolveSigner(key, "client")
  IN update_source([source |-> a.source, params |-> build_source_params(a.info, account)],
                   account)
Client_publish_task(a, key) ==
  publish_task([params |-> build_task_params(a.info)], ResolveSigner(key, "client"))
Client_inactivate_source(a, key) == inactivate_source(a, ResolveSigner(key, "client"))
Client_confirm_response(a, key) == confirm_response(a, ResolveSigner(key, "client"))
Client_set_agent(a, key) == set_agent(a, ResolveSigner(key, "client"))
Client_cancel_task(a, key) == cancel_task(a, ResolveSigner(key, "client"))

(* agent                                                                   *)
(* Deliberate fault: the key goes on unresolved.                           *)
AttemptsAsProvider(a, key) == attempt(a, key)

Agent_register_to(a, key) == register(a, ResolveSigner(key, "agent"))
Agent_unregister_from(a, key) == unregister(a, ResolveSigner(key, "agent"))
Agent_attempt(a, key) == attempt(a, ResolveSigner(key, "agent"))
-----------------------------------------------------------------------------
NexusCall(f, a, s) ==
  CASE f = "publish_source" -> publish_source(a, s)
    [] f = "update_source" -> update_source(a, s)
    [] f = "inactivate_source" -> inactivate_source(a, s)
    [] f = "register" -> register(a, s)
    [] f = "unregister" -> unregister(a, s)
    [] f = "attempt" -> attempt(a, s)
ControllerCall(f, a, s) ==
  CASE f = "publish_task" -> publish_task(a, s)
    [] f = "confirm_response" -> confirm_response(a, s)
    [] f = "cancel_task" -> cancel_task(a, s)
TerminalCall(f, a, s) ==
  CASE f = "set_agent" -> set_agent(a, s)
    [] f = "revoke_agent" -> revoke_agent(a, s)
    [] f = "announce_master" -> announce_master(a, s)
    [] f = "announce_provider" -> announce_provider(a, s)
    [] f = "remove_provider" -> remove_provider(a, s)
    [] f = "remove_container" -> remove_container(a, s)
    [] f = "set_default_agent_disabled" -> set_default_agent_disabled(a, s)
VaultCall(f, a, s) ==
  CASE f = "deposit" -> deposit(a, s)
    [] f = "withdraw" -> withdraw(a, s)
    [] f = "lock" -> lock(a, s)
    [] f = "unbond" -> unbond(a, s)
    [] f = "cancel_unbonding" -> cancel_unbonding(a, s)
    [] f = "claim" -> claim(a, s)
ProxyCall(c) ==
  CASE c.of = "Source" /\ c.name = "set_status" -> Source_set_status(c.self, c.args, c.signer)
    [] c.of = "Source" /\ c.name = "set_params" -> Source_set_params(c.self, c.args, c.signer)
    [] c.of = "Source" /\ c.name = "inactivate" -> Source_inactivate(c.self, c.signer)
    [] c.of = "Task" -> Task_cancel(c.self, c.signer)
    [] c.of = "Response" -> Response_confirm(c.self, c.signer)
    [] c.of = "Provider" -> Provider_method(c.name, c.self, c.args, c.signer)
    [] c.of = "Master" -> Master_method(c.name, c.self, c.args, c.signer)
ClientCall(f, a, key) ==
  CASE f = "publish_source" -> Client_publish_source(a, key)
    [] f = "update_source" -> Client_update_source(a, key)
    [] f = "publish_task" -> Client_publish_task(a, key)
    [] f = "inactivate_source" -> Client_inactivate_source(a, key)
    [] f = "confirm_response" -> Client_confirm_response(a, key)
    [] f = "set_agent" -> Client_set_agent(a, key)
    [] f = "cancel_task" -> Client_cancel_task(a, key)
AgentCall(f, a, key) ==
  CASE f = "register_to" -> Agent_register_to(a, key)
    [] f = "unregister_from" -> Agent_unregister_from(a, key)
    [] f = "attempt" -> Agent_attempt(a, key)

(* What can be called: the writes of the modules and of the proxies.       *)
VaultMethods ==
  {"stake", "unstake", "cancel_unbonding", "claim_earnings", "deposit_to_vault",
   "withdraw_from_vault"}
WriteMethods ==
  [nexus |-> {"publish_source", "update_source", "inactivate_source", "register",
              "unregister", "attempt"},
   controller |-> {"publish_task", "confirm_response", "cancel_task"},
   terminal |-> {"set_agent", "revoke_agent", "announce_master", "announce_provider",
                 "remove_provider", "remove_container", "set_default_agent_disabled"},
   vault |-> {"deposit", "withdraw", "lock", "unbond", "cancel_unbonding", "claim"},
   client |-> {"publish_source", "update_source", "publish_task", "inactivate_source",
               "confirm_response", "set_agent", "cancel_task"},
   agent |-> {"register_to", "unregister_from", "attempt"},
   Source |-> {"set_status", "set_params", "inactivate"},
   Task |-> {"cancel"},
   Response |-> {"confirm"},
   Provider |-> {"announce_master", "set_default_agent_disabled", "register_to",
                 "unregister_from", "attempt"} \cup VaultMethods,
   Master |-> {"announce_provider", "remove_provider", "remove_container", "set_agent"}
              \cup VaultMethods]
IsWrite(c) == c.of \in DOMAIN WriteMethods /\ c.name \in WriteMethods[c.of]

(* What they take.  A method leaves out what its proxy stands for, client  *)
(* takes an info instead of the contract's tuple.                          *)
Parameters(name) ==
  CASE name \in {"publish_source", "publish_task"} -> {"params"}
    [] name \in {"update_source", "set_params"} -> {"source", "params"}
    [] name = "set_status" -> {"source", "status"}
    [] name \in {"inactivate_source", "inactivate"} -> {"source"}
    [] name \in {"register", "register_to"} -> {"source", "provider", "env"}
    [] name \in {"unregister", "unregister_from", "remove_container"} -> {"source", "provider"}
    [] name = "attempt" -> {"task", "provider", "payment"}
    [] name \in {"confirm_response", "confirm"} -> {"task", "provider"}
    [] name \in {"cancel_task", "cancel"} -> {"task"}
    [] name = "set_agent" -> {"agent", "value"}
    [] name = "revoke_agent" -> {"agent"}
    [] name = "announce_master" -> {"master"}
    [] name = "announce_provider" -> {"provider", "amount"}
    [] name = "remove_provider" -> {"provider"}
    [] name = "set_default_agent_disabled" -> {"value"}
    [] name \in {"deposit", "deposit_to_vault"} -> {"account", "amount"}
    [] name \in {"withdraw", "withdraw_from_vault", "lock", "stake", "unbond", "unstake"} ->
         {"amount"}
    [] name \in {"cancel_unbonding", "claim", "claim_earnings"} -> {}
StandsFor(of) ==
  CASE of = "Source" -> {"source"}
    [] of = "Task" -> {"task"}
    [] of = "Response" -> {"task", "provider"}
    [] of = "Provider" -> {"provider", "account"}
    [] of = "Master" -> {"account"}
    [] OTHER -> {}
Takes(c) ==
  LET names == Parameters(c.name) \ StandsFor(c.of)
  IN IF c.of = "client" /\ "params" \in names THEN (names \ {"params"}) \cup {"info"} ELSE names

(* Amounts are unsigned, flags Boolean, environments a set of flags.       *)
ArgumentsOK(c) ==
  LET a == c.args IN
  /\ DOMAIN a = Takes(c)
  /\ "amount" \in Takes(c) => a.amount \in Nat
  /\ "value" \in Takes(c) => a.value \in BOOLEAN
  /\ c.name = "publish_task" => (IF c.of = "client" THEN a.info ELSE a.params).payment \in Nat
  /\ \A f \in {"account", "provider"} \cap Takes(c) : a[f] \in Accounts
  /\ "info" \in Takes(c) /\ c.name # "publish_task" => a.info.imageEnvs \subseteq Environments
  /\ c.of = "Response" => c.self \in Nat \X Accounts

RequestOf(c) ==
  CASE c.of = "nexus" -> NexusCall(c.name, c.args, c.signer)
    [] c.of = "controller" -> ControllerCall(c.name, c.args, c.signer)
    [] c.of = "terminal" -> TerminalCall(c.name, c.args, c.signer)
    [] c.of = "vault" -> VaultCall(c.name, c.args, c.signer)
    [] c.of = "client" -> ClientCall(c.name, c.args, c.signer)
    [] c.of = "agent" -> AgentCall(c.name, c.args, c.signer)
    [] OTHER -> ProxyCall(c)
-----------------------------------------------------------------------------
(* Deliberate fault: the context is searched as it is spelled.             *)
CaseSensitive(fn) == FALSE

(* The contexts of these calls, such as "Nexus.publishSource" and          *)
(* "Source(0x..).setStatus", contain "source" once in lower case.          *)
NamesASource(fn) == fn \in {"publishSource", "updateSource", "inactivateSource", "setStatus"}

PermissionErrorFor(fn) ==
  IF NamesASource(fn) THEN "NotSourceOwnerError" ELSE "NotTaskOwnerError"

RevertPatterns ==
  [NotMaster |-> "NotMasterError", NotProvider |-> "NotProviderError",
   Expired |-> "TaskExpiredError", AlreadyConfirmed |-> "ResponseAlreadyConfirmedError",
   AlreadyFinalized |-> "TaskAlreadyFinalizedError",
   InsufficientBalance |-> "InsufficientBalanceError",
   InsufficientLockup |-> "InsufficientLockupError",
   UnbondingNotElapsed |-> "UnbondingPeriodNotElapsedError",
   NotEligible |-> "NotEligibleError", SourceInactive |-> "SourceInactiveError"]

(* decode_revert: a reason given as text is found alone or inside a longer *)
(* text; a custom error is a selector no pattern occurs in.                *)
decode_revert(reason, custom, fn) ==
  IF custom \/ reason = "unmapped" THEN "TxRevertError"
  ELSE IF reason = "NotOwner" THEN PermissionErrorFor(fn)
  ELSE RevertPatterns[reason]
=============================================================================
