----------------------------- MODULE MCProtocol -----------------------------
EXTENDS Protocol, TLC

CONSTANTS c, d, p, q, m, ag   \* two clients, two providers, a master, an agent

Everyone == {c, d, p, q, m, ag}
OwnKeys == [client |-> c, provider |-> p, master |-> m, agent |-> ag]
SomeKeys == {OwnKeys, [r \in Roles |-> NoSigner], [r \in Roles |-> Garbage]}

Info(client) ==
  [name |-> "s", imageEnvs |-> {"CPU", "AMD"}, minPayment |-> 1, minAvailableLockup |-> 2,
   maxExpiryDuration |-> 3, deliveryMethod |-> "MANUAL_CONFIRMATION"]
Params(delivery) ==
  [client |-> c, imageMetadataUrl |-> Metadata(Info(c)), imageEnvironments |-> 5,
   minPayment |-> 1, minAvailableLockup |-> 2, maxExpiryDuration |-> 3,
   deliveryMethod |-> delivery]
TaskInfo == [source |-> 1, config |-> "input", expiryTime |-> 9, payment |-> 1]

(* One source with a task; p is paired with m, q is not.                   *)
Start(delivery, status, attempters, answers) ==
  [sources |-> <<[client |-> c, status |-> "ACTIVE", params |-> SourceTuple(Params(delivery)),
                  members |-> p :> 1 @@ q :> 4]>>,
   tasks |-> <<[client |-> c, params |-> TaskTuple(TaskInfo), status |-> status,
                expiry |-> "ahead", attempters |-> attempters, answers |-> answers,
                winner |-> Nobody, delivery |-> delivery]>>,
   vault |-> [x \in Everyone |-> [balance |-> 2, lockup |-> 2, unbonding |-> 1, frozen |-> 1]],
   ripe |-> {p}, master |-> [x \in Everyone |-> IF x = p THEN m ELSE Nobody],
   claimed |-> [x \in Everyone |-> IF x \in {p, q} THEN m ELSE Nobody],
   agents |-> {<<m, ag>>}, undispatched |-> {}]
Manual == "MANUAL_CONFIRMATION"
SomeStarts ==
  {Start(Manual, "NEW", <<>>, <<>>),
   Start(Manual, "RESPONDED", <<q, p>>, p :> "SUBMITTED"),
   Start("FIRST_RESPONSE", "ATTEMPTED", <<p, q>>, <<>>),
   Finalized(Start(Manual, "RESPONDED", <<q, p>>, p :> "SUBMITTED"), 1, p)}
-----------------------------------------------------------------------------
Call(of, name, on, self, args, signers) ==
  {[of |-> of, name |-> name, on |-> on, self |-> self, args |-> args, signer |-> s] :
   s \in signers}
None == <<>>
Implied == {NoSigner, Garbage}
SourceCalls ==
  Call("client", "publish_source", "source", None, [info |-> Info(c)], {NoSigner, c}) \cup
  Call("client", "update_source", "source", None, [source |-> 1, info |-> Info(c)], {NoSigner, d}) \cup
  Call("client", "inactivate_source", "source", None, [source |-> 1], {NoSigner, d}) \cup
  Call("nexus", "publish_source", "source", None, [params |-> Params(Manual)], Implied) \cup
  Call("nexus", "update_source", "source", None, [source |-> 1, params |-> Params(Manual)], {c, d}) \cup
  Call("nexus", "inactivate_source", "source", None, [source |-> 1], {NoSigner, d}) \cup
  Call("nexus", "register", "source", None, [source |-> 1, provider |-> q, env |-> 1], {NoSigner, q, m}) \cup
  Call("nexus", "unregister", "source", None, [source |-> 1, provider |-> p], {NoSigner, m}) \cup
  Call("agent", "register_to", "source", None, [source |-> 1, provider |-> p, env |-> 2], {NoSigner, ag}) \cup
  Call("agent", "unregister_from", "source", None, [source |-> 1, provider |-> p], {NoSigner, m}) \cup
  Call("Provider", "register_to", "source", p, [source |-> 1, env |-> 2], {NoSigner, ag}) \cup
  Call("Provider", "unregister_from", "source", q, [source |-> 1], {NoSigner, q}) \cup
  Call("Source", "set_status", "source", 1, [status |-> "INACTIVE"], {NoSigner, d}) \cup
  Call("Source", "set_params", "source", 1, [params |-> Params(Manual)], {NoSigner, d}) \cup
  Call("Source", "inactivate", "source", 1, None, {c, d})
TaskCalls ==
  Call("client", "publish_task", "task", None, [info |-> TaskInfo], {NoSigner, c}) \cup
  Call("client", "confirm_response", "task", None, [task |-> 1, provider |-> p], {NoSigner, d}) \cup
  Call("client", "cancel_task", "task", None, [task |-> 1], {NoSigner, d}) \cup
  Call("controller", "publish_task", "task", None, [params |-> TaskInfo], Implied) \cup
  Call("controller", "confirm_response", "task", None, [task |-> 1, provider |-> q], {NoSigner, d}) \cup
  Call("controller", "cancel_task", "task", None, [task |-> 1], {NoSigner, d}) \cup
  Call("nexus", "attempt", "task", None, [task |-> 1, provider |-> p, payment |-> 1], {NoSigner, q}) \cup
  Call("agent", "attempt", "task", None, [task |-> 1, provider |-> p, payment |-> 1], {NoSigner, ag}) \cup
  Call("Provider", "attempt", "task", p, [task |-> 1, payment |-> 1], {NoSigner, d}) \cup
  Call("Task", "cancel", "task", 1, None, {c, d}) \cup
  Call("Response", "confirm", "task", <<1, p>>, None, {NoSigner, d})
VaultCalls ==
  Call("vault", "deposit", "vault", None, [account |-> q, amount |-> 1], {NoSigner, p}) \cup
  Call("vault", "withdraw", "vault", None, [amount |-> 2], {p, Garbage}) \cup
  Call("vault", "lock", "vault", None, [amount |-> 1], {p}) \cup
  Call("vault", "unbond", "vault", None, [amount |-> 2], {p}) \cup
  Call("vault", "cancel_unbonding", "vault", None, None, {p}) \cup
  Call("vault", "claim", "vault", None, None, {p, q}) \cup
  Call("Provider", "stake", "vault", p, [amount |-> 1], {m}) \cup
  Call("Provider", "deposit_to_vault", "vault", p, [amount |-> 1], {m, NoSigner}) \cup
  Call("Provider", "cancel_unbonding", "vault", p, None, {p}) \cup
  Call("Master", "unstake", "vault", m, [amount |-> 1], {m, NoSigner}) \cup
  Call("Master", "claim_earnings", "vault", m, None, {m}) \cup
  Call("Master", "withdraw_from_vault", "vault", m, [amount |-> 1], {m})
TerminalCalls ==
  Call("client", "set_agent", "terminal", None, [agent |-> d, value |-> TRUE], {NoSigner, m}) \cup
  Call("terminal", "set_agent", "terminal", None, [agent |-> Garbage, value |-> TRUE], {NoSigner, c}) \cup
  Call("terminal", "revoke_agent", "terminal", None, [agent |-> ag], {m}) \cup
  Call("terminal", "announce_master", "terminal", None, [master |-> m], {NoSigner, q}) \cup
  Call("terminal", "announce_provider", "terminal", None, [provider |-> q, amount |-> 1], {NoSigner, m}) \cup
  Call("terminal", "remove_provider", "terminal", None, [provider |-> p], {NoSigner, d}) \cup
  Call("terminal", "remove_container", "terminal", None, [provider |-> p, source |-> 1], {NoSigner, d}) \cup
  Call("terminal", "set_default_agent_disabled", "terminal", None, [value |-> TRUE], {NoSigner, d}) \cup
  Call("Provider", "announce_master", "terminal", p, [master |-> m], {NoSigner}) \cup
  Call("Provider", "set_default_agent_disabled", "terminal", p, [value |-> TRUE], {NoSigner}) \cup
  Call("Master", "announce_provider", "terminal", m, [provider |-> d, amount |-> 1], {NoSigner}) \cup
  Call("Master", "remove_provider", "terminal", m, [provider |-> p], {NoSigner}) \cup
  Call("Master", "remove_container", "terminal", m, [provider |-> p, source |-> 1], {NoSigner}) \cup
  Call("Master", "set_agent", "terminal", m, [agent |-> d, value |-> TRUE], {NoSigner, m})
ReadCalls ==
  Call("Source", "snapshot", "source", 1, None, {NoSigner}) \cup
  Call("Task", "snapshot", "task", 1, None, {NoSigner}) \cup
  Call("Response", "snapshot", "task", <<1, p>>, None, {NoSigner}) \cup
  Call("Provider", "snapshot", "vault", p, None, {NoSigner}) \cup
  Call("Master", "snapshot", "vault", m, None, {NoSigner}) \cup
  Call("Task", "get_confirmed_response", "task", 1, None, {NoSigner}) \cup
  Call("Source", "get_metadata", "source", 1, None, {NoSigner}) \cup
  Call("Task", "get_metadata", "task", 1, None, {NoSigner}) \cup
  Call("Response", "fetch_data", "task", <<1, p>>, None, {NoSigner}) \cup
  Call("Source", "load", "source", 2, None, {NoSigner}) \cup
  Call("Task", "load", "task", 2, None, {NoSigner}) \cup
  Call("Response", "load", "task", <<1, q>>, None, {NoSigner}) \cup
  Call("Provider", "load", "terminal", q, None, {NoSigner}) \cup
  Call("Master", "load", "terminal", m, None, {NoSigner})
SomeCalls == SourceCalls \cup TaskCalls \cup VaultCalls \cup TerminalCalls \cup ReadCalls
-----------------------------------------------------------------------------
By(signer, on, fn, args) ==
  [signer |-> signer, on |-> on, fn |-> fn, args |-> args, value |-> 1]
SomeOthers ==
  {By(d, "source", "publishSource", [params |-> SourceTuple([Params(Manual) EXCEPT !.client = d])]),
   By(c, "source", "inactivateSource", [source |-> 1]),
   By(c, "source", "setStatus", [source |-> 1, status |-> "ACTIVE"]),
   By(q, "source", "unregister", [source |-> 1, provider |-> q]),
   By(d, "task", "publishTask", [params |-> TaskTuple(TaskInfo)]),
   By(c, "task", "cancelTask", [task |-> 1])} \cup
  UNION {{By(x, "task", "attempt", [task |-> 1, provider |-> x]),
          By(x, "task", "submitResponse", [task |-> 1, provider |-> x]),
          By(c, "task", "confirmResponse", [task |-> 1, provider |-> x])} : x \in {p, q}} \cup
  UNION {{By(x, "vault", "lock", [amount |-> 1]), By(x, "vault", "unbond", [amount |-> 2]),
          By(x, "vault", "claim", None), By(x, "vault", "withdraw", [amount |-> 1]),
          By(x, "vault", "cancelUnbonding", None),
          By(d, "vault", "deposit", [account |-> x])} : x \in {p, m}} \cup
  {By(m, "terminal", "removeProvider", [provider |-> p]),
   By(m, "terminal", "announceProvider", [provider |-> p]),
   By(q, "terminal", "announceMaster", [master |-> m]),
   By(m, "terminal", "setAgent", [agent |-> d, value |-> TRUE])}
=============================================================================
