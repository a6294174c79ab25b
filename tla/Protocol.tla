------------------------------ MODULE Protocol ------------------------------
(***************************************************************************)
(* One call of the SDK from its arguments to what it returns or raises,    *)
(* while other actors go on using the contracts.                           *)
(*                                                                         *)
(*   write:  resolve signer -> pin -> estimate -> broadcast -> receipt     *)
(*   read:   one RPC per field, load's probe, get_confirmed_response       *)
(*                                                                         *)
(* How TxExecutor gets from the estimate to the receipt is in TxExecutor.  *)
(* Here an execute sends one transaction or none, and besides it those     *)
(* whose acceptance it never heard of.                                     *)
(***************************************************************************)
EXTENDS Wrappers, Proxies

CONSTANTS
  Starts,     \* worlds a call may begin in
  Keys,       \* contents of the environment variables
  Calls,      \* the calls of the SDK
  Others,     \* the requests of other actors
  ChunkSize,  \* slots of a task that are read at once
  MaxRetries, \* tries of an execute
  MaxMoves    \* bound: the others' moves during one call

Metadatas == {"get_metadata", "fetch_data"}
ReadMethods ==
  [Source |-> {"snapshot", "load", "get_metadata"},
   Task |-> {"snapshot", "load", "get_metadata", "get_confirmed_response"},
   Response |-> {"snapshot", "load", "fetch_data"},
   Provider |-> {"snapshot", "load"},
   Master |-> {"snapshot", "load"}]
IsRead(c) == c.of \in DOMAIN ReadMethods /\ c.name \in ReadMethods[c.of]

ASSUME ProtocolAssumption ==
  /\ \A v \in Starts : WorldOK(v)
  /\ \A k \in Keys : k \in [Roles -> Signers]
  /\ \A c \in Calls :
       /\ (IsRead(c) \/ (IsWrite(c) /\ ArgumentsOK(c))) /\ c.signer \in Signers
       /\ c.of \in {"Provider", "Master"} => c.self \in Accounts
  /\ \A r \in Others : IsContractCall(r) /\ r.signer \in Accounts /\ AmountsOK(r)
  /\ MaxMoves \in Nat /\ ChunkSize \in Nat \ {0} /\ MaxRetries \in Nat \ {0}

VARIABLES
  w,          \* the contracts
  atCall,     \* history: the contracts when the call began
  call,
  pc,
  tx,         \* the call's transaction
  logs,       \* the entity its receipt names
  strays,     \* earlier ones, accepted by the node behind a lost reply, not mined yet
  unanswered, \* history: how many replies were lost
  took,       \* history: how often the call took effect
  seen,       \* what a read has collected so far
  result,     \* what the call returned or raised
  moves,      \* history: moves of others so far
  recalled    \* history: one of them moved money out, or backwards

sent == <<tx, logs, strays, unanswered, took>>
vars == <<w, atCall, call, env, pc, sent, seen, result, moves, recalled>>

(* What goes to the proxy's own address, where a contract has to be.       *)
ToItself ==
  {"snapshot", "get_metadata", "fetch_data", "get_confirmed_response", "set_status"}

Init ==
  /\ w \in Starts /\ atCall = w
  /\ call \in Calls
  /\ call.of \in {"Source", "Task", "Response"} /\ call.name \in ToItself =>
       Exists(call.of, w, call.self)
  /\ env \in Keys
  /\ pc = IF IsRead(call) THEN "read" ELSE "resolve"
  /\ tx = "none" /\ logs = 0 /\ strays = 0 /\ unanswered = 0 /\ took = 0
  /\ seen = <<>>
  /\ result = [kind |-> "none", value |-> 0]
  /\ moves = 0 /\ recalled = FALSE

Request == RequestOf(call)

Ends(kind, value) == pc' = "done" /\ result' = [kind |-> kind, value |-> value]
Raise(error) == Ends("raised", error)
Return(value) == Ends("returned", value)
-----------------------------------------------------------------------------
Pins == call.of = "client" /\ call.name \in {"publish_source", "update_source", "publish_task"}

(* set_agent checks the address before there is an execute.                *)
NamesNoAgent == Request.fn = "setAgent" /\ Request.args.agent = Garbage

Resolve ==
  /\ pc = "resolve"
  /\ \/ /\ Request.signer \in ConfigErrors
        /\ Raise(Request.signer)
     \/ /\ Request.signer \in Accounts /\ NamesNoAgent
        /\ Raise("InvalidSignerError") \/ Raise("RpcError")   \* load_contract comes first
     \/ /\ Request.signer \in Accounts /\ ~NamesNoAgent
        /\ pc' = IF Pins THEN "pin" ELSE "estimate"
        /\ UNCHANGED result
  /\ UNCHANGED <<w, atCall, call, env, sent, seen, moves, recalled>>

(* publish_to_ipfs, with every outcome PublishTask has for it.             *)
Pin ==
  /\ pc = "pin"
  /\ \/ pc' = "estimate" /\ UNCHANGED result
     \/ \E e \in IPFSErrors \cup {"PublishTimeoutError"} : Raise(e)
  /\ UNCHANGED <<w, atCall, call, env, sent, seen, moves, recalled>>

(* build_transaction estimates the gas: a call that would revert now is    *)
(* never sent.  Sent with the nonce of a stray that was handed back, it    *)
(* replaces the stray.                                                     *)
Broadcast ==
  /\ pc = "estimate"
  /\ RevertReasons(w, Request) = {}
  /\ tx' = "pending"
  /\ strays' \in {strays, strays - 1} \cap Nat
  /\ pc' = "wait"
  /\ UNCHANGED <<w, atCall, call, env, logs, unanswered, took, seen, result, moves, recalled>>

(* The node accepts the transaction, its reply is lost: to execute nothing *)
(* was broadcast, and if the error is a transient one and a try is left it *)
(* starts over.                                                            *)
LoseReply ==
  /\ pc = "estimate"
  /\ RevertReasons(w, Request) = {}
  /\ strays' = strays + 1 /\ unanswered' = unanswered + 1
  /\ \/ unanswered' < MaxRetries /\ UNCHANGED <<pc, result>>
     \/ Raise("TxRpcError")
  /\ UNCHANGED <<w, atCall, call, env, tx, logs, took, seen, moves, recalled>>

EstimateReverts ==
  /\ pc = "estimate"
  /\ \E reason \in RevertReasons(w, Request), custom \in BOOLEAN :
       Raise(decode_revert(reason, custom, Request.fn))
  /\ UNCHANGED <<w, atCall, call, env, sent, seen, moves, recalled>>

(* Everything else that can fail before the broadcast.  load_contract and  *)
(* reserve_nonce let the exceptions of the connection pass; an ABI that    *)
(* has no such function (the testnet's VaultAbi and cancelUnbonding) is a  *)
(* TxRpcError.                                                             *)
ExecuteFails ==
  /\ pc = "estimate"
  /\ \E e \in {"RpcError", "TxRpcError", "NonceError", "GasError", "PublishTimeoutError"} : Raise(e)
  /\ UNCHANGED <<w, atCall, call, env, sent, seen, moves, recalled>>

(* Deliberate fault: any receipt will do.                                  *)
AnyReceipt == TRUE

StatusIsOne == tx = "mined"

(* Deliberate fault: the entity is looked up instead of taken from the     *)
(* receipt's logs.                                                         *)
LatestSource(names) == Len(w.sources)

extract_source_address(names) == names
extract_task_address(names) == names

(* client.publish_source and publish_task return the entity,               *)
(* confirm_response and set_agent the hash, everything else the receipt.   *)
ValueReturned ==
  CASE call.of = "client" /\ call.name = "publish_source" -> extract_source_address(logs)
    [] call.of = "client" /\ call.name = "publish_task" -> extract_task_address(logs)
    [] OTHER -> "receipt"

MakesEntity == call.of = "client" /\ call.name \in {"publish_source", "publish_task"}

(* The constructor of the entity needs a connection once more: another     *)
(* thread may have dropped the one execute used.                           *)
GetReceipt ==
  /\ pc = "wait" /\ tx \in {"mined", "reverted"}
  /\ \/ StatusIsOne /\ Return(ValueReturned)
     \/ StatusIsOne /\ MakesEntity /\ Raise("RpcError")
     \/ ~StatusIsOne /\ Raise("TxRevertError")
  /\ UNCHANGED <<w, atCall, call, env, sent, seen, moves, recalled>>

ReceiptTimesOut ==
  /\ pc = "wait"
  /\ Raise("TxReceiptTimeoutError")
  /\ UNCHANGED <<w, atCall, call, env, sent, seen, moves, recalled>>

(* The wait breaks off; after a broadcast nothing is tried again.          *)
ReceiptFails ==
  /\ pc = "wait"
  /\ Raise("TxRpcError")
  /\ UNCHANGED <<w, atCall, call, env, sent, seen, moves, recalled>>
-----------------------------------------------------------------------------
ReadFields ==
  /\ pc = "read" /\ call.name = "snapshot"
  /\ LET fields == Snapshot(call.of)
         read == Append(seen, Field(call.of, w, call.self, fields[Len(seen) + 1]))
     IN /\ seen' = read
        /\ IF Len(read) = Len(fields) THEN Return("snapshot") ELSE UNCHANGED <<pc, result>>
  /\ UNCHANGED <<w, atCall, call, env, sent, moves, recalled>>

load ==
  /\ pc = "read" /\ call.name = "load"
  /\ IF Exists(call.of, w, call.self) THEN Return("instance") ELSE Raise(NotFound(call.of))
  /\ UNCHANGED <<w, atCall, call, env, sent, seen, moves, recalled>>

get_metadata ==
  /\ pc = "read" /\ call.name \in Metadatas
  /\ seen' = <<Link(call.of, Field(call.of, w, call.self, "params"))>>
  /\ pc' = "fetch"
  /\ UNCHANGED <<w, atCall, call, env, sent, result, moves, recalled>>

(* Connection error or no JSON; any status but 200.                        *)
fetch_ipfs_json ==
  /\ pc = "fetch"
  /\ \/ Return(seen[1])
     \/ Raise("IPFSFetchError")
     \/ Raise("IPFSGatewayError")
  /\ UNCHANGED <<w, atCall, call, env, sent, seen, moves, recalled>>

(* get_confirmed_response: the attempters are counted, the slots read in   *)
(* chunks, and then each response found is asked whether it is confirmed,  *)
(* until one is.                                                           *)
CountAttempts ==
  /\ seen = <<>>
  /\ seen' = <<[count |-> TaskField(w, call.self, "attempt_count"), next |-> 0, found |-> <<>>]>>
  /\ UNCHANGED <<pc, result>>

ReadChunk ==
  /\ seen # <<>> /\ seen[1].next < seen[1].count
  /\ LET lower == seen[1].next
         upper == IF lower + ChunkSize < seen[1].count THEN lower + ChunkSize ELSE seen[1].count
     IN seen' = <<[seen[1] EXCEPT !.next = upper,
                                  !.found = @ \o get_responses(w, call.self, lower, upper)]>>
  /\ UNCHANGED <<pc, result>>

AskResponse ==
  /\ seen # <<>> /\ seen[1].next = seen[1].count
  /\ LET n == Len(seen)  found == seen[1].found IN
     \/ n > Len(found) /\ Return(Nobody) /\ UNCHANGED seen
     \/ /\ n <= Len(found) /\ ResponseField(w, found[n], "confirmed")
        /\ Return(found[n]) /\ UNCHANGED seen
     \/ /\ n <= Len(found) /\ ~ResponseField(w, found[n], "confirmed")
        /\ seen' = Append(seen, FALSE) /\ UNCHANGED <<pc, result>>

get_confirmed_response ==
  /\ pc = "read" /\ call.name = "get_confirmed_response"
  /\ CountAttempts \/ ReadChunk \/ AskResponse
  /\ UNCHANGED <<w, atCall, call, env, sent, moves, recalled>>

(* An RPC fails: a read and the constructor let the exception pass, a      *)
(* probe turns it into a missing contract.                                 *)
ReadFails ==
  /\ pc = "read"
  /\ \/ Raise("RpcError")
     \/ call.name = "load" /\ Raise(ProbeFailure(call.of))
  /\ UNCHANGED <<w, atCall, call, env, sent, seen, moves, recalled>>
-----------------------------------------------------------------------------
(* The block takes the call's transaction: the contract decides again.     *)
(* Its strays have the lower nonces.                                       *)
Land ==
  /\ tx = "pending" /\ strays = 0
  /\ IF RevertReasons(w, Request) = {}
     THEN /\ w' = After(w, Request)
          /\ tx' = "mined" /\ took' = took + 1
          /\ logs' = CASE Request.fn = "publishSource" -> Len(w.sources) + 1
                       [] Request.fn = "publishTask" -> Len(w.tasks) + 1
                       [] OTHER -> 0
     ELSE tx' = "reverted" /\ UNCHANGED <<w, logs, took>>
  /\ UNCHANGED <<atCall, call, env, pc, strays, unanswered, seen, result, moves, recalled>>

StrayLands ==
  /\ strays > 0
  /\ strays' = strays - 1
  /\ IF RevertReasons(w, Request) = {}
     THEN w' = After(w, Request) /\ took' = took + 1
     ELSE UNCHANGED <<w, took>>
  /\ UNCHANGED <<atCall, call, env, pc, tx, logs, unanswered, seen, result, moves, recalled>>

Backwards == {"claim", "withdraw", "cancelUnbonding", "publishTask"}

(* Another actor's transaction, or the passing of time.                    *)
OthersMove ==
  /\ pc # "done" /\ moves < MaxMoves
  /\ moves' = moves + 1
  /\ \/ \E r \in Others :
          /\ r.on = call.on
          /\ RevertReasons(w, r) = {}
          /\ w' = After(w, r)
          /\ recalled' = (recalled \/ r.fn \in Backwards)
     \/ w' \in TimePasses(w) /\ call.on \in {"task", "vault"} /\ UNCHANGED recalled
  /\ w' # w
  /\ UNCHANGED <<atCall, call, env, pc, sent, seen, result>>

Ended == pc = "done" /\ tx # "pending" /\ strays = 0 /\ UNCHANGED vars

CallStep ==
  \/ Resolve \/ Pin \/ Broadcast \/ LoseReply \/ EstimateReverts \/ ExecuteFails
  \/ GetReceipt \/ ReceiptTimesOut \/ ReceiptFails
  \/ ReadFields \/ load \/ get_metadata \/ fetch_ipfs_json \/ get_confirmed_response
  \/ ReadFails

Next == CallStep \/ Land \/ StrayLands \/ OthersMove \/ Ended

Spec == Init /\ [][Next]_vars
-----------------------------------------------------------------------------
Done(kind) == pc = "done" /\ result.kind = kind
MasterWrites == {"announce_provider", "remove_provider", "remove_container"}
ProviderWrites ==
  {"register", "unregister", "attempt", "register_to", "unregister_from", "announce_master",
   "set_default_agent_disabled"}
SignsNothingImplied == call.of = "vault" \/ call.name \in VaultMethods
DocumentedRole ==
  CASE call.of = "agent" -> "agent"
    [] SignsNothingImplied -> "none"
    [] call.name \in MasterWrites -> "master"
    [] call.of # "agent" /\ call.name \in ProviderWrites -> "provider"
    [] OTHER -> "client"

(* A write is signed by the signer it is given, and else by the account of *)
(* the role its docstring names, whatever the other variables hold; vault  *)
(* writes never fall back on one (vault.py 1-15, agent/__init__.py 1-38,   *)
(* installation.md 76-80).                                                 *)
SignedByItsRole ==
  /\ tx # "none" \/ unanswered > 0 =>
       \/ call.signer # NoSigner /\ Request.signer = call.signer
       \/ /\ call.signer = NoSigner /\ DocumentedRole # "none"
          /\ Request.signer = env[DocumentedRole]
  /\ Done("raised") /\ result.value = "MissingSignerError" => call.signer = NoSigner

(* After the broadcast these say nothing about it; of a raw exception only *)
(* the calls that make an entity leave it open.                            *)
LeavesOpen(e) ==
  e \in {"TxReceiptTimeoutError", "TxRpcError"} \/ (e = "RpcError" /\ MakesEntity)

(* What a write returns or raises says whether the contracts were changed, *)
(* even when the estimate and the block see different worlds: a receipt    *)
(* means they were, an error (but those that leave it open) that they were *)
(* not and never will be, as long as every broadcast was answered.  After  *)
(* a lost reply only the first holds, and each one lost is at most one     *)
(* effect more (_base.py 489-500, 529-532, 581-597, errors.py 438-446).    *)
OutcomeTellsEffect ==
  ~IsRead(call) =>
    /\ Done("returned") => took > 0
    /\ Done("raised") /\ ~LeavesOpen(result.value) /\ unanswered = 0 =>
         took = 0 /\ tx # "pending"
    /\ took <= unanswered + 1

(* An error that names a lasting cause names one that holds: the same      *)
(* revert text means another error for a source than for a task, and a     *)
(* custom error or an unknown text none of them (_base.py 241-253,         *)
(* 306-338).                                                               *)
RaisesAsDocumented ==
  ~IsRead(call) /\ Done("raised") =>
    LET a == Request.args  e == result.value IN
    /\ e = "NotSourceOwnerError" =>
         Request.on = "source" /\ w.sources[a.source].client # Request.signer
    /\ e = "NotTaskOwnerError" =>
         Request.on = "task" /\ w.tasks[a.task].client # Request.signer
    /\ e = "TaskAlreadyFinalizedError" => w.tasks[a.task].status # "NEW"
    /\ e = "ResponseAlreadyConfirmedError" => w.tasks[a.task].winner = a.provider
    /\ e = "TaskExpiredError" => w.tasks[a.task].expiry # "ahead"

(* publish_source and publish_task return the entity this call made, not   *)
(* one somebody else published meanwhile (nexus.py 79-83, controller.py    *)
(* 141-145).                                                               *)
ReturnsItsOwn ==
  Done("returned") /\ call.of = "client" =>
    /\ call.name = "publish_source" =>
         /\ result.value \in Sources(w) \ Sources(atCall)
         /\ w.sources[result.value].client = Request.signer
    /\ call.name = "publish_task" =>
         /\ result.value \in Tasks(w) \ Tasks(atCall)
         /\ w.tasks[result.value].client = Request.signer
         /\ TaskField(w, result.value, "params") =
              [source |-> call.args.info.source, config |-> call.args.info.config,
               expiryTime |-> call.args.info.expiryTime, payment |-> call.args.info.payment]
-----------------------------------------------------------------------------
Describes(params, info) ==
  /\ \A f \in {"minPayment", "minAvailableLockup", "maxExpiryDuration", "deliveryMethod"} :
       params[f] = info[f]
  /\ parse_environments(params.imageEnvironments) = info.imageEnvs
  /\ params.imageMetadataUrl.images = info.imageEnvs

Paid(who, amounts) ==
  w'.vault = [w.vault EXCEPT ![who] =
                [f \in DOMAIN @ |-> @[f] + IF f \in DOMAIN amounts THEN amounts[f] ELSE 0]]

(* Who a method without such an argument stands for is the proxy.          *)
Named(argument) == IF argument \in DOMAIN call.args THEN call.args[argument] ELSE call.self

(* The parameters as they were given, in either form.                      *)
SourceReads(s) ==
  LET read == SourceField(w', s, "params") IN
  IF call.of = "client" THEN Describes(read, call.args.info) /\ read.client = Request.signer
  ELSE \A f \in DOMAIN read : read[f] = call.args.params[f]
TaskReads(t) ==
  LET read == TaskField(w', t, "params")
      given == IF call.of = "client" THEN call.args.info ELSE call.args.params
  IN \A f \in DOMAIN read : read[f] = given[f]

Delivered ==
  LET a == call.args  n == call.name  mine == w.vault[Request.signer] IN
  CASE n = "publish_source" -> SourceReads(Len(w'.sources))
    [] n \in {"update_source", "set_params"} -> SourceReads(Named("source"))
    [] n = "publish_task" ->
         LET t == Len(w'.tasks)  pay == TaskField(w', t, "payment")
         IN TaskReads(t) /\ Paid(Request.signer, [balance |-> -pay, frozen |-> pay])
    [] n = "set_status" -> SourceField(w', call.self, "status") = a.status
    [] n \in {"inactivate", "inactivate_source"} ->
         SourceField(w', Named("source"), "status") = "INACTIVE"
    [] n \in {"register", "register_to"} ->
         PreferredEnvironmentOf(w', a.source, Named("provider")) = parse_environments(a.env)
    [] n \in {"unregister", "unregister_from"} ->
         PreferredEnvironmentOf(w', a.source, Named("provider")) = {}
    [] n = "attempt" ->
         IF w.tasks[a.task].expiry = "marks" THEN TaskField(w', a.task, "status") = "EXPIRED"
         ELSE Named("provider") \in Attempters(w', a.task)
    [] n \in {"confirm", "confirm_response"} ->
         LET r == IF n = "confirm" THEN call.self ELSE <<a.task, a.provider>>
         IN /\ ResponseOf(w', r[1], r[2]) = r
            /\ ResponseField(w', r, "confirmed")
            /\ TaskField(w', r[1], "winning_provider") = r[2]
    [] n \in {"cancel", "cancel_task"} ->
         /\ TaskField(w', Named("task"), "status") = "CANCELED"
         /\ LET pay == TaskField(w, Named("task"), "payment")
            IN Paid(Request.signer, [balance |-> pay, frozen |-> -pay])
    [] n \in {"deposit", "deposit_to_vault"} ->
         Paid(Named("account"), [balance |-> a.amount])
    [] n \in {"withdraw", "withdraw_from_vault"} ->
         Paid(Request.signer, [balance |-> -a.amount])
    [] n \in {"lock", "stake"} ->
         Paid(Request.signer, [balance |-> -a.amount, lockup |-> a.amount])
    [] n \in {"unbond", "unstake"} ->
         Paid(Request.signer, [lockup |-> -a.amount, unbonding |-> a.amount])
    [] n \in {"claim", "claim_earnings"} ->
         Paid(Request.signer, [unbonding |-> -mine.unbonding, balance |-> mine.unbonding])
    [] n = "cancel_unbonding" ->
         Paid(Request.signer, [unbonding |-> -mine.unbonding, lockup |-> mine.unbonding])
    [] n = "announce_provider" ->
         w'.claimed[a.provider] = Request.signer /\ Paid(a.provider, [lockup |-> a.amount])
    [] n = "announce_master" -> TerminalRead(w', Request.signer, "master") = a.master
    [] n = "remove_provider" -> TerminalRead(w', a.provider, "master") = Nobody
    [] n = "set_agent" -> IsAgentOf(w', Request.signer, a.agent) = a.value
    [] n = "revoke_agent" -> ~IsAgentOf(w', Request.signer, a.agent)
    [] n = "set_default_agent_disabled" ->
         TerminalRead(w', Request.signer, "default_agent_disabled") = a.value
    [] n = "remove_container" -> UNCHANGED w   \* only an event

(* Whenever a write takes effect, the contracts read back what the caller  *)
(* described or paid: through the wrappers, the positional tuples, the     *)
(* environment mask and the value sent along.  An attempt on a task past   *)
(* its expiry time may mark it EXPIRED instead (metadata.py 151-168,       *)
(* client/__init__.py 93-122, vault.py 67-77, terminal.py 153-163,         *)
(* nexus.py 246-249).                                                      *)
DoesWhatItSays == [][took' > took => Delivered]_vars
-----------------------------------------------------------------------------
Read(f) == seen[CHOOSE i \in DOMAIN seen : Snapshot(call.of)[i] = f]
Held(v) == v.balance + v.lockup + v.unbonding

(* A snapshot is not atomic, but the order it reads its fields in spares   *)
(* its reader these contradictions: a task attempted or answered that      *)
(* nobody attempted, a finalized one without a winner, a confirmed         *)
(* response that is not, and money on its way from balance over lockup to  *)
(* unbonding that is seen in none of them (task.py 387-397, response.py    *)
(* 232-241, provider.py 402-418, master.py 296-307).                       *)
SnapshotCoherent ==
  Done("returned") /\ call.name = "snapshot" =>
    CASE call.of = "Task" ->
           /\ Read("status") \in {"ATTEMPTED", "RESPONDED", "FINALIZED"} =>
                Read("attempt_count") > 0
           /\ Read("status") = "FINALIZED" => Read("winning_provider") # Nobody
      [] call.of = "Response" -> Read("status") = "CONFIRMED" => Read("confirmed")
      [] call.of \in {"Provider", "Master"} ->
           ~recalled =>
             Held([f \in {"balance", "lockup", "unbonding"} |-> Read(f)]) >= Held(atCall.vault[call.self])
      [] OTHER -> TRUE

(* get_confirmed_response finds the response that had won when it was      *)
(* called, however many attempts and answers come meanwhile, and never     *)
(* gives another (task.py 287-296, 311-314).                               *)
FindsTheWinner ==
  Done("returned") /\ call.name = "get_confirmed_response" =>
    LET Winner(v) == v.tasks[call.self].winner IN
    /\ Winner(atCall) # Nobody => result.value = <<call.self, Winner(atCall)>>
    /\ result.value # Nobody => result.value = <<call.self, Winner(w)>>
=============================================================================
