--------------------------- MODULE ProtocolProofs ----------------------------
(***************************************************************************)
(* Proofs about Protocol, for any worlds, calls and moves of other actors: *)
(* what a write's outcome says about its effect, who signs it, which       *)
(* entity it returns, what a read that takes several RPCs may show, and    *)
(* that a write does what its caller described.                            *)
(***************************************************************************)
EXTENDS Protocol, SequenceTheorems, WellFoundedInduction, TLAPS

USE DEF Ends, Raise, Return, Done, sent
-----------------------------------------------------------------------------
(* The stages of a call and what is known of its transaction in each.      *)
BeforeBroadcast == {"resolve", "pin", "estimate"}
Reading == {"read", "fetch"}

StageOK ==
  /\ pc \in BeforeBroadcast \cup Reading \cup {"wait", "done"}
  /\ tx \in {"none", "pending", "mined", "reverted"}
  /\ IF IsRead(call) THEN pc \in Reading \cup {"done"} ELSE pc \notin Reading
  /\ pc \in BeforeBroadcast \cup Reading => tx = "none"
  /\ strays \in Nat /\ unanswered \in Nat /\ took \in Nat
  /\ IsRead(call) => tx = "none" /\ strays = 0 /\ unanswered = 0
  /\ Done("raised") /\ ~LeavesOpen(result.value) => tx \in {"none", "reverted"}

(* Every effect is the mined transaction's or that of a stray that landed. *)
EffectsCounted ==
  /\ took + strays <= unanswered + (IF tx = "mined" THEN 1 ELSE 0)
  /\ tx = "mined" => took > 0
  /\ Done("returned") /\ ~IsRead(call) => tx = "mined"

OutcomeInv == StageOK /\ EffectsCounted

LEMMA OutcomeInvTells == OutcomeInv => OutcomeTellsEffect
<1> SUFFICES ASSUME OutcomeInv, ~IsRead(call)
             PROVE  /\ Done("returned") => took > 0
                    /\ Done("raised") /\ ~LeavesOpen(result.value) /\ unanswered = 0 =>
                         took = 0 /\ tx # "pending"
                    /\ took <= unanswered + 1
  BY DEF OutcomeTellsEffect
<1> QED BY DEF OutcomeInv, StageOK, EffectsCounted

LEMMA OutcomeInit == Init => OutcomeInv
BY DEF Init, OutcomeInv, StageOK, EffectsCounted, BeforeBroadcast, Reading

LEMMA OutcomeStep == OutcomeInv /\ [Next]_vars => OutcomeInv'
<1> SUFFICES ASSUME OutcomeInv, [Next]_vars PROVE OutcomeInv'
  OBVIOUS
<1> USE DEF OutcomeInv, StageOK, EffectsCounted, BeforeBroadcast, Reading, IsRead, MakesEntity,
            LeavesOpen
<1>1. CASE Resolve
  BY <1>1 DEF Resolve
<1>2. CASE Pin
  BY <1>2 DEF Pin
<1>3. CASE Broadcast
  <2>1. /\ pc = "estimate" /\ tx = "none" /\ tx' = "pending" /\ pc' = "wait"
        /\ UNCHANGED <<call, result, unanswered, took>>
    BY <1>3 DEF Broadcast
  <2>2. strays' \in Nat /\ strays' <= strays
    BY <1>3 DEF Broadcast
  <2>3. took + strays' <= unanswered
    BY <2>1, <2>2
  <2>4. ~IsRead(call) /\ ~IsRead(call)'
    BY <2>1
  <2>5. EffectsCounted'
    <3>1. took' + strays' <= unanswered' /\ tx' # "mined" /\ unanswered' \in Nat
      BY <2>1, <2>3
    <3>2. ~(Done("returned") /\ ~IsRead(call))'
      BY <2>1
    <3> HIDE <2>1, <2>2, <2>3, <2>4
    <3> QED BY <3>1, <3>2
  <2>6. StageOK'
    BY <2>1, <2>2, <2>4
  <2> QED BY <2>5, <2>6
<1>4. CASE EstimateReverts
  BY <1>4 DEF EstimateReverts
<1>5. CASE ExecuteFails
  BY <1>5 DEF ExecuteFails
<1>6. CASE GetReceipt
  BY <1>6 DEF GetReceipt, StatusIsOne
<1>7. CASE ReceiptTimesOut \/ ReceiptFails
  BY <1>7 DEF ReceiptTimesOut, ReceiptFails
<1>8. CASE ReadFields \/ load \/ get_metadata \/ get_confirmed_response \/ ReadFails
  BY <1>8 DEF ReadFields, load, get_metadata, get_confirmed_response, CountAttempts, ReadChunk,
              AskResponse, ReadFails
<1>9. CASE fetch_ipfs_json
  BY <1>9 DEF fetch_ipfs_json
<1>10. CASE Land
  <2>1. /\ tx = "pending" /\ strays = 0 /\ ~IsRead(call) /\ ~IsRead(call)'
        /\ UNCHANGED <<call, pc, strays, unanswered, result>>
    BY <1>10 DEF Land
  <2>2. \/ tx' = "mined" /\ took' = took + 1
        \/ tx' = "reverted" /\ took' = took
    BY <1>10 DEF Land
  <2>3. EffectsCounted'
    BY <2>1, <2>2
  <2>4. StageOK'
    BY <2>1, <2>2
  <2> QED BY <2>3, <2>4
<1>14. CASE StrayLands
  <2>1. /\ strays > 0 /\ strays' = strays - 1 /\ ~IsRead(call) /\ ~IsRead(call)'
        /\ UNCHANGED <<call, pc, tx, unanswered, result>>
    BY <1>14 DEF StrayLands
  <2>2. took' = took + 1 \/ took' = took
    BY <1>14 DEF StrayLands
  <2>3. EffectsCounted'
    BY <2>1, <2>2
  <2>4. StageOK'
    BY <2>1, <2>2
  <2> QED BY <2>3, <2>4
<1>11. CASE OthersMove
  BY <1>11 DEF OthersMove
<1>12. CASE LoseReply
  BY <1>12 DEF LoseReply
<1>13. CASE UNCHANGED vars
  BY <1>13 DEF vars
<1> QED BY <1>1, <1>2, <1>3, <1>4, <1>5, <1>6, <1>7, <1>8, <1>9, <1>10, <1>11, <1>12, <1>13,
        <1>14 DEF Next, CallStep, Ended

(* What a write returns or raises says whether the contracts were changed, *)
(* whatever others do between the estimate and the block: a receipt means  *)
(* they were, an error that leaves nothing open that they never will be,   *)
(* if no reply to a broadcast was lost; and a lost one is one effect more  *)
(* at most (TxExecutor.execute and the docstrings of the errors, _base.py  *)
(* 489-500, 529-532, 581-597).                                             *)
THEOREM OutcomeCorrect == Spec => []OutcomeTellsEffect
BY OutcomeInvTells, OutcomeInit, OutcomeStep, PTL DEF Spec
-----------------------------------------------------------------------------
(* Signers.                                                                *)
LEMMA ResolvedOrError ==
  ASSUME NEW s \in Signers, NEW role \in Roles \cup {"none"}, env \in [Roles -> Signers]
  PROVE  /\ ResolveSigner(s, role) \in Accounts \cup {"MissingSignerError", "InvalidSignerError"}
         /\ ResolveSigner(s, role) \in Accounts =>
              \/ s # NoSigner /\ ResolveSigner(s, role) = s
              \/ s = NoSigner /\ role # "none" /\ ResolveSigner(s, role) = env[role]
         /\ ResolveSigner(s, role) = "MissingSignerError" => s = NoSigner
BY WrappersAssumption DEF ResolveSigner, Signers, ConfigErrors, Roles

(* What client and agent have resolved passes through the module beneath,  *)
(* an error included.                                                      *)
LEMMA ResolvedOnce ==
  ASSUME NEW s \in Signers, NEW role \in Roles, NEW other, env \in [Roles -> Signers]
  PROVE  ResolveSigner(ResolveSigner(s, role), other) = ResolveSigner(s, role)
<1>1. ResolveSigner(s, role) \in Accounts \cup {"MissingSignerError", "InvalidSignerError"}
  BY ResolvedOrError
<1>2. \A x \in Accounts \cup {"MissingSignerError", "InvalidSignerError"} : ResolveSigner(x, other) = x
  BY WrappersAssumption DEF ResolveSigner, ConfigErrors
<1> QED BY <1>1, <1>2

(* The signer of every write there is.                                     *)
LEMMA SignerOfWrite ==
  ASSUME IsWrite(call), call.signer \in Signers, env \in [Roles -> Signers]
  PROVE  Request.signer = ResolveSigner(call.signer, DocumentedRole)
<1> USE DEF IsWrite, WriteMethods, VaultMethods, DocumentedRole, SignsNothingImplied, MasterWrites,
            ProviderWrites, Request, RequestOf, Write, Roles, Paying
<1>1. CASE call.of = "nexus"
  BY <1>1 DEF NexusCall, publish_source, update_source, inactivate_source, register, unregister,
              attempt
<1>2. CASE call.of = "controller"
  BY <1>2 DEF ControllerCall, publish_task, confirm_response, cancel_task
<1>3. CASE call.of = "terminal"
  BY <1>3 DEF TerminalCall, set_agent, revoke_agent, announce_master, announce_provider,
              remove_provider, remove_container, set_default_agent_disabled
<1>4. CASE call.of = "vault"
  BY <1>4 DEF VaultCall, deposit, withdraw, lock, unbond, cancel_unbonding, claim
<1>5. CASE call.of = "client"
  BY <1>5, ResolvedOnce
     DEF ClientCall, Client_publish_source, Client_update_source, Client_publish_task,
         Client_inactivate_source, Client_confirm_response, Client_set_agent, Client_cancel_task,
         publish_source, update_source, publish_task, inactivate_source, confirm_response,
         set_agent, cancel_task
<1>6. CASE call.of = "agent"
  BY <1>6, ResolvedOnce
     DEF AgentCall, Agent_register_to, Agent_unregister_from, Agent_attempt, register, unregister,
         attempt
<1>7. CASE call.of \in {"Source", "Task", "Response"}
  BY <1>7 DEF ProxyCall, Source_set_status, Source_set_params, Source_inactivate, Task_cancel,
              Response_confirm, update_source, inactivate_source, cancel_task, confirm_response
<1>8. CASE call.of = "Provider"
  BY <1>8 DEF ProxyCall, Provider_method, VaultMethod, announce_master,
              set_default_agent_disabled, register, unregister, attempt,
              deposit, withdraw, lock, unbond, cancel_unbonding, claim
<1>9. CASE call.of = "Master"
  BY <1>9 DEF ProxyCall, Master_method, VaultMethod, announce_provider, remove_provider,
              remove_container, set_agent,
              deposit, withdraw, lock, unbond, cancel_unbonding, claim
<1> QED BY <1>1, <1>2, <1>3, <1>4, <1>5, <1>6, <1>7, <1>8, <1>9

(* The request of a call does not change while the call runs.              *)
LEMMA SameRequest ==
  ASSUME UNCHANGED <<call, env>>
  PROVE  Request' = Request
BY SMTT(100) DEF Request, RequestOf, Write, Paying, Encoded, ResolveSigner,
   NexusCall, publish_source, update_source, inactivate_source, register, unregister, attempt,
   ControllerCall, publish_task, confirm_response, cancel_task,
   TerminalCall, set_agent, revoke_agent, announce_master, announce_provider, remove_provider,
   remove_container, set_default_agent_disabled,
   VaultCall, deposit, withdraw, lock, unbond, cancel_unbonding, claim,
   ClientCall, Client_publish_source, Client_update_source, Client_publish_task,
   Client_inactivate_source, Client_confirm_response, Client_set_agent, Client_cancel_task,
   AgentCall, Agent_register_to, Agent_unregister_from, Agent_attempt,
   ProxyCall, Source_set_status, Source_set_params, Source_inactivate, Task_cancel,
   Response_confirm, Provider_method, Master_method, VaultMethod

LEMMA DocumentedRoleOK == DocumentedRole \in Roles \cup {"none"}
BY DEF DocumentedRole, Roles

(* A reason becomes an error of the contracts' or the plain revert.        *)
LEMMA DecodedRevert ==
  ASSUME NEW reason \in Reasons, NEW custom \in BOOLEAN, NEW fn
  PROVE  decode_revert(reason, custom, fn) \notin ConfigErrors
BY DEF decode_revert, RevertPatterns, PermissionErrorFor, Reasons, ConfigErrors

(* From the signer's resolution on, a write has an account to sign with.   *)
SignerOK ==
  /\ call \in Calls /\ env \in Keys
  /\ pc \in {"pin", "estimate", "wait"} \/ tx # "none" \/ unanswered > 0 =>
       Request.signer \in Accounts
  /\ Done("raised") /\ result.value = "MissingSignerError" => call.signer = NoSigner

SignInv == StageOK /\ SignerOK

LEMMA SignInit == Init => SignInv
BY OutcomeInit DEF Init, OutcomeInv, SignInv, SignerOK

(* What a read raises is no error of a signer.                             *)
LEMMA ReadErrors ==
  ASSUME IsRead(call)
  PROVE  NotFound(call.of) # "MissingSignerError" /\ ProbeFailure(call.of) # "MissingSignerError"
BY DEF IsRead, ReadMethods, NotFound, ProbeFailure

LEMMA SignStep == SignInv /\ StageOK' /\ [Next]_vars => SignInv'
<1> SUFFICES ASSUME SignInv, StageOK', [Next]_vars PROVE SignerOK'
  BY DEF SignInv
<1> USE DEF SignInv, SignerOK, StageOK, Reading, BeforeBroadcast
<1>a. call' = call /\ env' = env
  BY DEF Next, CallStep, Resolve, Pin, Broadcast, LoseReply, EstimateReverts, ExecuteFails, GetReceipt,
         ReceiptTimesOut, ReceiptFails, ReadFields, load, get_metadata, fetch_ipfs_json,
         get_confirmed_response, ReadFails, Land, StrayLands, OthersMove, Ended, vars
<1>b. Request' = Request
  BY <1>a, SameRequest
<1>c. call.signer \in Signers /\ env \in [Roles -> Signers] /\ (IsWrite(call) \/ IsRead(call))
  BY ProtocolAssumption
<1>1. CASE Resolve
  <2>1. CASE Request.signer \in ConfigErrors /\ Raise(Request.signer)
    <3>1. IsWrite(call)
      BY <1>1, <1>c DEF Resolve
    <3>2. Request.signer = "MissingSignerError" => call.signer = NoSigner
      BY <1>c, <3>1, SignerOfWrite, DocumentedRoleOK, ResolvedOrError
    <3> QED BY <1>1, <1>a, <1>b, <2>1, <3>2 DEF Resolve
  <2>2. CASE Request.signer \in Accounts
             /\ (pc' # "done" \/ Raise("InvalidSignerError") \/ Raise("RpcError"))
    BY <1>1, <1>a, <1>b, <2>2 DEF Resolve
  <2> QED BY <1>1, <2>1, <2>2 DEF Resolve
<1>2. CASE Pin
  BY <1>2, <1>a, <1>b DEF Pin, IPFSErrors
<1>3. CASE Broadcast \/ LoseReply
  BY <1>3, <1>a, <1>b DEF Broadcast, LoseReply
<1>4. CASE EstimateReverts
  <2>1. PICK reason \in RevertReasons(w, Request), custom \in BOOLEAN :
          Raise(decode_revert(reason, custom, Request.fn))
    BY <1>4 DEF EstimateReverts
  <2>2. decode_revert(reason, custom, Request.fn) # "MissingSignerError"
    BY DecodedRevert DEF RevertReasons, ConfigErrors
  <2> QED BY <1>4, <1>a, <1>b, <2>1, <2>2 DEF EstimateReverts
<1>5. CASE ExecuteFails
  BY <1>5, <1>a, <1>b DEF ExecuteFails
<1>6. CASE GetReceipt \/ ReceiptTimesOut \/ ReceiptFails
  BY <1>6, <1>a, <1>b DEF GetReceipt, ReceiptTimesOut, ReceiptFails
<1>7. CASE ReadFields \/ get_metadata \/ get_confirmed_response \/ fetch_ipfs_json
  <2>1. tx' = tx /\ unanswered' = unanswered /\ pc' \notin {"pin", "estimate", "wait"}
    BY <1>7 DEF ReadFields, get_metadata, get_confirmed_response, CountAttempts, ReadChunk,
                AskResponse, fetch_ipfs_json
  <2>2. \/ result' = result /\ pc' = pc
        \/ pc' # "done"
        \/ result'.kind = "returned"
        \/ \E e \in IPFSErrors : result' = [kind |-> "raised", value |-> e]
    <3>1. CASE ReadFields
      BY <3>1 DEF ReadFields
    <3>2. CASE get_metadata
      BY <3>2 DEF get_metadata
    <3>3. CASE get_confirmed_response
      <4>1. CASE CountAttempts \/ ReadChunk
        BY <4>1 DEF CountAttempts, ReadChunk
      <4>2. CASE AskResponse
        <5>1. UNCHANGED <<pc, result>> \/ \E v : Return(v)
          BY <4>2, Zenon DEF AskResponse
        <5> QED BY <5>1
      <4> QED BY <3>3, <4>1, <4>2 DEF get_confirmed_response
    <3>4. CASE fetch_ipfs_json
      BY <3>4 DEF fetch_ipfs_json, IPFSErrors
    <3> QED BY <1>7, <3>1, <3>2, <3>3, <3>4
  <2> QED BY <1>a, <1>b, <2>1, <2>2 DEF IPFSErrors
<1>8. CASE load \/ ReadFails
  BY <1>8, <1>a, <1>b, ReadErrors DEF load, ReadFails
<1>9. CASE Land \/ StrayLands
  BY <1>9, <1>a, <1>b DEF Land, StrayLands
<1>10. CASE OthersMove
  BY <1>10, <1>a, <1>b DEF OthersMove
<1>11. CASE UNCHANGED vars
  BY <1>11, <1>b DEF vars
<1> QED BY <1>1, <1>2, <1>3, <1>4, <1>5, <1>6, <1>7, <1>8, <1>9, <1>10, <1>11
        DEF Next, CallStep, Ended

LEMMA SignInvSigned == SignInv => SignedByItsRole
<1> SUFFICES ASSUME SignInv PROVE SignedByItsRole
  OBVIOUS
<1>1. call.signer \in Signers /\ env \in [Roles -> Signers] /\ (IsWrite(call) \/ IsRead(call))
  BY ProtocolAssumption DEF SignInv, SignerOK
<1>2. ASSUME tx # "none" \/ unanswered > 0
      PROVE  \/ call.signer # NoSigner /\ Request.signer = call.signer
             \/ /\ call.signer = NoSigner /\ DocumentedRole # "none"
                /\ Request.signer = env[DocumentedRole]
  <2>1. IsWrite(call) /\ Request.signer \in Accounts
    BY <1>1, <1>2 DEF SignInv, SignerOK, StageOK
  <2>2. Request.signer = ResolveSigner(call.signer, DocumentedRole)
    BY <1>1, <2>1, SignerOfWrite, WrappersAssumption DEF ConfigErrors
  <2> QED BY <1>1, <2>1, <2>2, DocumentedRoleOK, ResolvedOrError
<1> QED BY <1>2 DEF SignedByItsRole, SignInv, SignerOK

(* Every write that reaches the network is signed by the account it was    *)
(* given, and else by the account of the role its docstring names, for any *)
(* setting of the four environment variables; the vault's writes are       *)
(* signed by the account given or not at all (_signer.py 34-120).          *)
THEOREM SignedCorrectly == Spec => []SignedByItsRole
<1>1. OutcomeInv => StageOK
  BY DEF OutcomeInv
<1>2. Spec => []StageOK
  BY <1>1, OutcomeInit, OutcomeStep, PTL DEF Spec
<1> QED BY <1>2, SignInit, SignStep, SignInvSigned, PTL DEF Spec
-----------------------------------------------------------------------------
(* The contracts.  Nothing that was published goes away or changes hands,  *)
(* whoever moves.                                                          *)
Grows(v, u) ==
  /\ Shaped(u)
  /\ Len(v.sources) <= Len(u.sources) /\ Len(v.tasks) <= Len(u.tasks)
  /\ \A s \in Sources(v) : u.sources[s].client = v.sources[s].client
  /\ \A t \in Tasks(v) :
       u.tasks[t].client = v.tasks[t].client /\ u.tasks[t].params = v.tasks[t].params

LEMMA AppendShaped ==
  ASSUME NEW q, q \in Seq(Range(q)), NEW e
  PROVE  /\ Append(q, e) \in Seq(Range(Append(q, e)))
         /\ Len(Append(q, e)) = Len(q) + 1
         /\ \A i \in 1 .. Len(q) : Append(q, e)[i] = q[i]
         /\ Append(q, e)[Len(q) + 1] = e
<1> DEFINE S == Range(q) \cup {e}
<1>0. q \in [1 .. Len(q) -> Range(q)] /\ Len(q) \in Nat
  BY LenProperties
<1>1. q \in [1 .. Len(q) -> S]
  BY <1>0
<1>2. q \in Seq(S) /\ e \in S
  BY <1>0, <1>1, SeqDef
<1> HIDE DEF S
<1>3. /\ Append(q, e) \in Seq(S)
      /\ Len(Append(q, e)) = Len(q) + 1
      /\ \A i \in 1 .. Len(q) : Append(q, e)[i] = q[i]
      /\ Append(q, e)[Len(q) + 1] = e
  BY <1>2, AppendProperties
<1> QED BY <1>3, SeqOfRange

(* Rewriting one element keeps a sequence a sequence.                      *)
LEMMA ExceptShaped ==
  ASSUME NEW q, q \in Seq(Range(q)), NEW i, NEW e
  PROVE  /\ [q EXCEPT ![i] = e] \in Seq(Range([q EXCEPT ![i] = e]))
         /\ Len([q EXCEPT ![i] = e]) = Len(q)
<1> DEFINE S == Range(q) \cup {e}
           u == [q EXCEPT ![i] = e]
<1>0. q \in [1 .. Len(q) -> Range(q)] /\ Len(q) \in Nat
  BY LenProperties
<1>1. u \in [1 .. Len(q) -> S]
  BY <1>0
<1>2. u \in Seq(S) /\ Len(u) = Len(q)
  BY <1>0, <1>1, SeqDef, LenProperties
<1> QED BY <1>2, SeqOfRange

SourceFields == {"client", "status", "params", "members"}
TaskFields ==
  {"client", "params", "status", "expiry", "attempters", "answers", "winner", "delivery"}

SourcesGrow(v, u) ==
  /\ u.sources \in Seq(Range(u.sources))
  /\ \A s \in Sources(u) : DOMAIN u.sources[s] = SourceFields
  /\ Len(v.sources) <= Len(u.sources)
  /\ \A s \in Sources(v) : u.sources[s].client = v.sources[s].client
TasksGrow(v, u) ==
  /\ u.tasks \in Seq(Range(u.tasks))
  /\ \A t \in Tasks(u) : DOMAIN u.tasks[t] = TaskFields
  /\ Len(v.tasks) <= Len(u.tasks)
  /\ \A t \in Tasks(v) :
       u.tasks[t].client = v.tasks[t].client /\ u.tasks[t].params = v.tasks[t].params

LEMMA GrowsByParts ==
  ASSUME NEW v, NEW u, Shaped(v), DOMAIN u = DOMAIN v, SourcesGrow(v, u), TasksGrow(v, u)
  PROVE  Grows(v, u)
BY DEF Shaped, Grows, SourcesGrow, TasksGrow, SourceFields, TaskFields

LEMMA SameSources ==
  ASSUME NEW v, NEW u, Shaped(v), u.sources = v.sources
  PROVE  SourcesGrow(v, u)
<1>1. Len(v.sources) \in Nat
  BY LenProperties DEF Shaped
<1> QED BY <1>1 DEF Shaped, SourcesGrow, SourceFields, Sources

LEMMA SameTasks ==
  ASSUME NEW v, NEW u, Shaped(v), u.tasks = v.tasks
  PROVE  TasksGrow(v, u)
<1>1. Len(v.tasks) \in Nat
  BY LenProperties DEF Shaped
<1> QED BY <1>1 DEF Shaped, TasksGrow, TaskFields, Tasks

LEMMA SourceAdded ==
  ASSUME NEW v, NEW u, Shaped(v), NEW new, DOMAIN new = SourceFields,
         u.sources = Append(v.sources, new)
  PROVE  SourcesGrow(v, u)
<1>1. v.sources \in Seq(Range(v.sources)) /\ Len(v.sources) \in Nat
      /\ DOMAIN v.sources = 1 .. Len(v.sources)
  BY LenProperties DEF Shaped
<1>2. /\ u.sources \in Seq(Range(u.sources))
      /\ Len(u.sources) = Len(v.sources) + 1
      /\ \A i \in 1 .. Len(v.sources) : u.sources[i] = v.sources[i]
      /\ u.sources[Len(v.sources) + 1] = new
  BY <1>1, AppendShaped
<1>3. DOMAIN u.sources = 1 .. Len(u.sources)
  BY <1>2, LenProperties
<1>4. ASSUME NEW s \in Sources(u) PROVE DOMAIN u.sources[s] = SourceFields
  <2>1. s \in 1 .. Len(v.sources) \/ s = Len(v.sources) + 1
    BY <1>1, <1>2, <1>3 DEF Sources
  <2> QED BY <1>1, <1>2, <2>1 DEF Shaped, Sources, SourceFields
<1> QED BY <1>1, <1>2, <1>4 DEF SourcesGrow, Sources

LEMMA TaskAdded ==
  ASSUME NEW v, NEW u, Shaped(v), NEW new, DOMAIN new = TaskFields,
         u.tasks = Append(v.tasks, new)
  PROVE  TasksGrow(v, u)
<1>1. v.tasks \in Seq(Range(v.tasks)) /\ Len(v.tasks) \in Nat
      /\ DOMAIN v.tasks = 1 .. Len(v.tasks)
  BY LenProperties DEF Shaped
<1>2. /\ u.tasks \in Seq(Range(u.tasks))
      /\ Len(u.tasks) = Len(v.tasks) + 1
      /\ \A i \in 1 .. Len(v.tasks) : u.tasks[i] = v.tasks[i]
      /\ u.tasks[Len(v.tasks) + 1] = new
  BY <1>1, AppendShaped
<1>3. DOMAIN u.tasks = 1 .. Len(u.tasks)
  BY <1>2, LenProperties
<1>4. ASSUME NEW t \in Tasks(u) PROVE DOMAIN u.tasks[t] = TaskFields
  <2>1. t \in 1 .. Len(v.tasks) \/ t = Len(v.tasks) + 1
    BY <1>1, <1>2, <1>3 DEF Tasks
  <2> QED BY <1>1, <1>2, <2>1 DEF Shaped, Tasks, TaskFields
<1> QED BY <1>1, <1>2, <1>4 DEF TasksGrow, Tasks

LEMMA SourceRewritten ==
  ASSUME NEW v, NEW u, Shaped(v), NEW i, NEW e,
         i \in Sources(v) => DOMAIN e = SourceFields /\ e.client = v.sources[i].client,
         u.sources = [v.sources EXCEPT ![i] = e]
  PROVE  SourcesGrow(v, u)
<1>1. v.sources \in Seq(Range(v.sources)) /\ Len(v.sources) \in Nat
  BY LenProperties DEF Shaped
<1> DEFINE new == [v.sources EXCEPT ![i] = e]
<1>2. new \in Seq(Range(new)) /\ Len(new) = Len(v.sources)
  BY <1>1, ExceptShaped
<1>3. u.sources = new
  OBVIOUS
<1> HIDE DEF new
<1>4. u.sources \in Seq(Range(u.sources)) /\ Len(u.sources) = Len(v.sources)
  BY <1>2, <1>3
<1> QED BY <1>1, <1>4 DEF Shaped, SourcesGrow, SourceFields, Sources

LEMMA TaskRewritten ==
  ASSUME NEW v, NEW u, Shaped(v), NEW i, NEW e,
         i \in Tasks(v) => /\ DOMAIN e = TaskFields
                           /\ e.client = v.tasks[i].client /\ e.params = v.tasks[i].params,
         u.tasks = [v.tasks EXCEPT ![i] = e]
  PROVE  TasksGrow(v, u)
<1>1. v.tasks \in Seq(Range(v.tasks)) /\ Len(v.tasks) \in Nat
  BY LenProperties DEF Shaped
<1> DEFINE new == [v.tasks EXCEPT ![i] = e]
<1>2. new \in Seq(Range(new)) /\ Len(new) = Len(v.tasks)
  BY <1>1, ExceptShaped
<1>3. u.tasks = new
  OBVIOUS
<1> HIDE DEF new
<1>4. u.tasks \in Seq(Range(u.tasks)) /\ Len(u.tasks) = Len(v.tasks)
  BY <1>2, <1>3
<1> QED BY <1>1, <1>4 DEF Shaped, TasksGrow, TaskFields, Tasks

LEMMA SourceWriteGrows ==
  ASSUME NEW v, Shaped(v), NEW r, r.fn \in ContractFunctions.source
  PROVE  Grows(v, AfterSourceWrite(v, r))
<1> DEFINE u == AfterSourceWrite(v, r)
           old == v.sources[r.args.source]
<1> USE DEF ContractFunctions
<1>1. CASE r.fn = "publishSource"
  <2>1. u = [v EXCEPT !.sources = Append(v.sources, NewSource(r.args.params))]
    BY <1>1 DEF AfterSourceWrite
  <2>2. DOMAIN NewSource(r.args.params) = SourceFields
    BY DEF NewSource, SourceFields
  <2>3. DOMAIN u = DOMAIN v /\ u.tasks = v.tasks
        /\ u.sources = Append(v.sources, NewSource(r.args.params))
    BY <2>1 DEF Shaped
  <2> QED BY <2>2, <2>3, SourceAdded, SameTasks, GrowsByParts
<1>2. CASE r.fn # "publishSource"
  <2>1. PICK e :
          /\ u = [v EXCEPT !.sources = [v.sources EXCEPT ![r.args.source] = e]]
          /\ \E f \in {"params", "status", "members"} : \E x : e = [old EXCEPT ![f] = x]
    <3>1. CASE r.fn = "updateSource"
      BY <3>1 DEF AfterSourceWrite
    <3>2. CASE r.fn = "inactivateSource"
      BY <3>2 DEF AfterSourceWrite
    <3>3. CASE r.fn = "setStatus"
      BY <3>3 DEF AfterSourceWrite
    <3>4. CASE r.fn = "register"
      BY <3>4 DEF AfterSourceWrite
    <3>5. CASE r.fn = "unregister"
      BY <3>5 DEF AfterSourceWrite
    <3> QED BY <1>2, <3>1, <3>2, <3>3, <3>4, <3>5
  <2>2. DOMAIN u = DOMAIN v /\ u.tasks = v.tasks
        /\ u.sources = [v.sources EXCEPT ![r.args.source] = e]
    BY <2>1 DEF Shaped
  <2>3. r.args.source \in Sources(v) => DOMAIN e = SourceFields /\ e.client = old.client
    BY <2>1 DEF Shaped, SourceFields
  <2> QED BY <2>2, <2>3, SourceRewritten, SameTasks, GrowsByParts
<1> QED BY <1>1, <1>2

LEMMA GrowsReflexive ==
  ASSUME NEW v, Shaped(v)
  PROVE  Grows(v, v)
BY SameSources, SameTasks, GrowsByParts

LEMMA GrowsTransitive ==
  ASSUME NEW v, NEW u, NEW x, Shaped(v), Grows(v, u), Grows(u, x)
  PROVE  Grows(v, x)
<1>1. /\ v.sources \in Seq(Range(v.sources)) /\ v.tasks \in Seq(Range(v.tasks))
      /\ u.sources \in Seq(Range(u.sources)) /\ u.tasks \in Seq(Range(u.tasks))
      /\ x.sources \in Seq(Range(x.sources)) /\ x.tasks \in Seq(Range(x.tasks))
  BY DEF Grows, Shaped
<1>2. /\ Sources(v) = 1 .. Len(v.sources) /\ Tasks(v) = 1 .. Len(v.tasks)
      /\ Sources(u) = 1 .. Len(u.sources) /\ Tasks(u) = 1 .. Len(u.tasks)
      /\ Len(v.sources) \in Nat /\ Len(u.sources) \in Nat /\ Len(x.sources) \in Nat
      /\ Len(v.tasks) \in Nat /\ Len(u.tasks) \in Nat /\ Len(x.tasks) \in Nat
  BY <1>1, LenProperties DEF Sources, Tasks
<1> QED BY <1>2 DEF Grows

(* The writes on a task keep who published it, and what.                   *)
LEMMA TaskStepGrows ==
  ASSUME NEW v, NEW u, Shaped(v), NEW i, NEW e,
         DOMAIN u = DOMAIN v, u.sources = v.sources, u.tasks = [v.tasks EXCEPT ![i] = e],
         i \in Tasks(v) => /\ DOMAIN e = DOMAIN v.tasks[i]
                           /\ e.client = v.tasks[i].client /\ e.params = v.tasks[i].params
  PROVE  Grows(v, u)
<1>1. i \in Tasks(v) => DOMAIN e = TaskFields
  BY DEF Shaped, TaskFields
<1>2. TasksGrow(v, u)
  BY <1>1, TaskRewritten
<1>3. SourcesGrow(v, u)
  BY SameSources
<1> QED BY <1>2, <1>3, GrowsByParts

LEMMA FinalizedGrows ==
  ASSUME NEW v, Shaped(v), NEW t, NEW p
  PROVE  Grows(v, Finalized(v, t, p))
<1> DEFINE u == Finalized(v, t, p)
           e == [v.tasks[t] EXCEPT !.status = "FINALIZED", !.winner = p,
                                   !.answers = With(@, p, "CONFIRMED")]
<1>1. DOMAIN u = DOMAIN v /\ u.sources = v.sources /\ u.tasks = [v.tasks EXCEPT ![t] = e]
  BY DEF Finalized, Shaped
<1>2. t \in Tasks(v) => /\ DOMAIN e = DOMAIN v.tasks[t]
                        /\ e.client = v.tasks[t].client /\ e.params = v.tasks[t].params
  BY DEF Shaped
<1> HIDE DEF u, e
<1> QED BY <1>1, <1>2, TaskStepGrows DEF u

LEMMA MovesKeepsRest ==
  ASSUME NEW v, NEW account, NEW amount, NEW from, NEW to
  PROVE  LET u == Moves(v, account, amount, from, to)
         IN  DOMAIN u = DOMAIN v /\ \A f \in DOMAIN v \ {"vault"} : u[f] = v[f]
BY DEF Moves

LEMMA TaskWriteGrows ==
  ASSUME NEW v, Shaped(v), NEW r, r.fn \in ContractFunctions.task
  PROVE  Grows(v, AfterTaskWrite(v, r))
<1> DEFINE u == AfterTaskWrite(v, r)
           i == r.args.task
<1> USE DEF ContractFunctions
<1>0. {"sources", "tasks", "vault"} \subseteq DOMAIN v
  BY DEF Shaped
<1>1. CASE r.fn = "publishTask"
  <2> DEFINE x == [v EXCEPT !.tasks = Append(v.tasks, NewTask(v, r.signer, r.args.params))]
  <2>1. u = Moves(x, r.signer, r.args.params[4], "balance", "frozen")
    BY <1>1 DEF AfterTaskWrite
  <2>2. DOMAIN NewTask(v, r.signer, r.args.params) = TaskFields
    BY DEF NewTask, TaskFields
  <2>3. DOMAIN x = DOMAIN v /\ x.sources = v.sources
        /\ x.tasks = Append(v.tasks, NewTask(v, r.signer, r.args.params))
    BY <1>0
  <2> HIDE DEF x
  <2>4. DOMAIN u = DOMAIN v /\ u.sources = v.sources
        /\ u.tasks = Append(v.tasks, NewTask(v, r.signer, r.args.params))
    BY <1>0, <2>1, <2>3, MovesKeepsRest
  <2> QED BY <2>2, <2>4, TaskAdded, SameSources, GrowsByParts
<1>2. CASE r.fn = "attempt"
  <2>1. PICK e :
          /\ u = [v EXCEPT !.tasks[i] = e]
          /\ \E s, q : e = [v.tasks[i] EXCEPT !.attempters = q, !.status = s]
    <3>1. CASE v.tasks[i].expiry = "marks"
      <4> DEFINE e == [v.tasks[i] EXCEPT !.attempters = @, !.status = "EXPIRED"]
      <4>1. u = [v EXCEPT !.tasks[i] = e]
        BY <1>2, <3>1 DEF AfterTaskWrite
      <4>2. \E s, q : e = [v.tasks[i] EXCEPT !.attempters = q, !.status = s]
        <5> WITNESS "EXPIRED", v.tasks[i].attempters
        <5> QED OBVIOUS
      <4> HIDE DEF e
      <4> QED BY <4>1, <4>2
    <3>2. CASE v.tasks[i].expiry # "marks"
      BY <1>2, <3>2 DEF AfterTaskWrite
    <3> QED BY <3>1, <3>2
  <2>2. i \in Tasks(v) => /\ DOMAIN e = DOMAIN v.tasks[i]
                          /\ e.client = v.tasks[i].client /\ e.params = v.tasks[i].params
    BY <2>1 DEF Shaped
  <2>3. DOMAIN u = DOMAIN v /\ u.sources = v.sources /\ u.tasks = [v.tasks EXCEPT ![i] = e]
    BY <1>0, <2>1
  <2> QED BY <2>2, <2>3, TaskStepGrows
<1>3. CASE r.fn = "confirmResponse"
  BY <1>3, FinalizedGrows DEF AfterTaskWrite
<1>4. CASE r.fn = "cancelTask"
  <2> DEFINE e == [v.tasks[i] EXCEPT !.status = "CANCELED"]
             x == [v EXCEPT !.tasks[i].status = "CANCELED"]
  <2>1. u = Moves(x, v.tasks[i].client, v.tasks[i].params[4], "frozen", "balance")
    BY <1>4 DEF AfterTaskWrite
  <2>2. i \in Tasks(v) => /\ DOMAIN e = DOMAIN v.tasks[i]
                          /\ e.client = v.tasks[i].client /\ e.params = v.tasks[i].params
    BY DEF Shaped
  <2>3. DOMAIN x = DOMAIN v /\ x.sources = v.sources /\ x.tasks = [v.tasks EXCEPT ![i] = e]
    BY <1>0
  <2> HIDE DEF e, x
  <2>4. DOMAIN u = DOMAIN v /\ u.sources = v.sources /\ u.tasks = [v.tasks EXCEPT ![i] = e]
    <3>1. "sources" \in DOMAIN x \ {"vault"} /\ "tasks" \in DOMAIN x \ {"vault"}
      BY <1>0, <2>3
    <3> DEFINE client == v.tasks[i].client
               pay == v.tasks[i].params[4]
    <3> HIDE DEF u, client, pay
    <3>2. u = Moves(x, client, pay, "frozen", "balance")
      BY <2>1 DEF client, pay
    <3>3. DOMAIN u = DOMAIN x /\ u["sources"] = x["sources"] /\ u["tasks"] = x["tasks"]
      BY <3>1, <3>2, MovesKeepsRest
    <3> QED BY <2>3, <3>3
  <2> QED BY <2>2, <2>4, TaskStepGrows
<1>5. CASE r.fn = "submitResponse"
  <2> DEFINE e == [v.tasks[i] EXCEPT !.answers = With(@, r.args.provider, "SUBMITTED"),
                                     !.status = "RESPONDED"]
             x == [v EXCEPT !.tasks[i] = e]
  <2>1. u = IF v.tasks[i].delivery = "FIRST_RESPONSE"
            THEN Finalized(x, i, r.args.provider) ELSE x
    BY <1>5 DEF AfterTaskWrite
  <2>2. i \in Tasks(v) => /\ DOMAIN e = DOMAIN v.tasks[i]
                          /\ e.client = v.tasks[i].client /\ e.params = v.tasks[i].params
    BY DEF Shaped
  <2>3. DOMAIN x = DOMAIN v /\ x.sources = v.sources /\ x.tasks = [v.tasks EXCEPT ![i] = e]
    BY <1>0
  <2> HIDE DEF e, x
  <2>4. Grows(v, x)
    BY <2>2, <2>3, TaskStepGrows
  <2>5. Grows(x, Finalized(x, i, r.args.provider))
    BY <2>4, FinalizedGrows DEF Grows
  <2> QED BY <2>1, <2>4, <2>5, GrowsTransitive
<1> QED BY <1>1, <1>2, <1>3, <1>4, <1>5

LEMMA MoneyGrows ==
  ASSUME NEW v, Shaped(v), NEW r, r.fn \in ContractFunctions.vault
  PROVE  Grows(v, AfterVaultWrite(v, r))
<1> DEFINE u == AfterVaultWrite(v, r)
<1> USE DEF ContractFunctions
<1>0. {"sources", "tasks", "vault", "ripe"} \subseteq DOMAIN v
  BY DEF Shaped
<1>1. DOMAIN u = DOMAIN v /\ u.sources = v.sources /\ u.tasks = v.tasks
  <2>1. CASE r.fn \in {"deposit", "withdraw"}
    BY <1>0, <2>1 DEF AfterVaultWrite
  <2>2. CASE r.fn \in {"lock", "cancelUnbonding", "claim"}
    BY <1>0, <2>2 DEF AfterVaultWrite, Moves
  <2>3. CASE r.fn = "unbond"
    BY <1>0, <2>3 DEF AfterVaultWrite, Moves
  <2> QED BY <2>1, <2>2, <2>3
<1> QED BY <1>1, SameSources, SameTasks, GrowsByParts

LEMMA TerminalWriteGrows ==
  ASSUME NEW v, Shaped(v), NEW r, r.fn \in ContractFunctions.terminal
  PROVE  Grows(v, AfterTerminalWrite(v, r))
<1> DEFINE u == AfterTerminalWrite(v, r)
<1> USE DEF ContractFunctions
<1>1. DOMAIN u = DOMAIN v /\ u.sources = v.sources /\ u.tasks = v.tasks
  BY DEF AfterTerminalWrite, Shaped
<1> QED BY <1>1, SameSources, SameTasks, GrowsByParts

LEMMA AfterGrows ==
  ASSUME NEW v, Shaped(v), NEW r, IsContractCall(r)
  PROVE  Grows(v, After(v, r))
<1>1. CASE r.on = "source"
  BY <1>1, SourceWriteGrows DEF After, IsContractCall, ContractFunctions
<1>2. CASE r.on = "task"
  BY <1>2, TaskWriteGrows DEF After, IsContractCall, ContractFunctions
<1>3. CASE r.on = "vault"
  BY <1>3, MoneyGrows DEF After, IsContractCall, ContractFunctions
<1>4. CASE r.on = "terminal"
  BY <1>4, TerminalWriteGrows DEF After, IsContractCall, ContractFunctions
<1> QED BY <1>1, <1>2, <1>3, <1>4 DEF IsContractCall, ContractFunctions

LEMMA TimeSteps ==
  ASSUME NEW v, NEW u \in TimePasses(v)
  PROVE  \/ \E t \in Tasks(v) : \E x : u = [v EXCEPT !.tasks[t].expiry = x]
         \/ \E x : u = [v EXCEPT !.ripe = @ \cup {x}]
<1> DEFINE aged == {[v EXCEPT !.tasks[t].expiry = e] :
                      t \in {x \in Tasks(v) : v.tasks[x].expiry = "ahead"},
                      e \in Expiries \ {"ahead"}}
           ripened == {[v EXCEPT !.ripe = @ \cup {x}] :
                         x \in {y \in Accounts : v.vault[y].unbonding > 0}}
<1>1. CASE u \in aged
  BY <1>1
<1>2. CASE u \in ripened
  BY <1>2
<1>3. TimePasses(v) = aged \cup ripened
  BY DEF TimePasses
<1> HIDE DEF aged, ripened
<1>4. u \in aged \/ u \in ripened
  BY <1>3
<1> QED BY <1>1, <1>2, <1>4

LEMMA TimeGrows ==
  ASSUME NEW v, Shaped(v), NEW u \in TimePasses(v)
  PROVE  Grows(v, u)
<1>0. {"sources", "tasks", "vault", "ripe"} \subseteq DOMAIN v
  BY DEF Shaped
<1>1. ASSUME NEW t \in Tasks(v), NEW x, u = [v EXCEPT !.tasks[t].expiry = x] PROVE Grows(v, u)
  <2> DEFINE e == [v.tasks[t] EXCEPT !.expiry = x]
  <2>1. DOMAIN u = DOMAIN v /\ u.sources = v.sources /\ u.tasks = [v.tasks EXCEPT ![t] = e]
    BY <1>0, <1>1
  <2>2. /\ DOMAIN e = DOMAIN v.tasks[t]
        /\ e.client = v.tasks[t].client /\ e.params = v.tasks[t].params
    BY DEF Shaped
  <2> HIDE DEF e
  <2> QED BY <2>1, <2>2, TaskStepGrows
<1>2. ASSUME NEW x, u = [v EXCEPT !.ripe = @ \cup {x}] PROVE Grows(v, u)
  <2>1. DOMAIN u = DOMAIN v /\ u.sources = v.sources /\ u.tasks = v.tasks
    BY <1>0, <1>2
  <2> QED BY <2>1, SameSources, SameTasks, GrowsByParts
<1>3. CASE \E t \in Tasks(v) : \E x : u = [v EXCEPT !.tasks[t].expiry = x]
  BY <1>1, <1>3
<1>4. CASE \E x : u = [v EXCEPT !.ripe = @ \cup {x}]
  BY <1>2, <1>4
<1>5. u \in TimePasses(v)
  OBVIOUS
<1> QED BY ONLY <1>3, <1>4, <1>5, TimeSteps
-----------------------------------------------------------------------------
(* Publishing.                                                             *)
LEMMA WriteIsContractCall ==
  ASSUME IsWrite(call)
  PROVE  IsContractCall(Request)
<1> USE DEF IsWrite, WriteMethods, VaultMethods, Request, RequestOf, Write, Paying
<1>1. CASE call.of = "nexus"
  BY <1>1 DEF NexusCall, publish_source, update_source, inactivate_source, register, unregister,
              attempt, IsContractCall, ContractFunctions
<1>2. CASE call.of = "controller"
  BY <1>2 DEF ControllerCall, publish_task, confirm_response, cancel_task, IsContractCall,
              ContractFunctions
<1>3. CASE call.of = "terminal"
  BY <1>3 DEF TerminalCall, set_agent, revoke_agent, announce_master, announce_provider,
              remove_provider, remove_container, set_default_agent_disabled,
              IsContractCall, ContractFunctions
<1>4. CASE call.of = "vault"
  BY <1>4 DEF VaultCall, deposit, withdraw, lock, unbond, cancel_unbonding, claim,
              IsContractCall, ContractFunctions
<1>5. CASE call.of = "client"
  BY <1>5
     DEF ClientCall, Client_publish_source, Client_update_source, Client_publish_task,
         Client_inactivate_source, Client_confirm_response, Client_set_agent, Client_cancel_task,
         publish_source, update_source, publish_task, inactivate_source, confirm_response,
         set_agent, cancel_task, IsContractCall, ContractFunctions
<1>6. CASE call.of = "agent"
  BY <1>6
     DEF AgentCall, Agent_register_to, Agent_unregister_from, Agent_attempt, register, unregister,
         attempt, IsContractCall, ContractFunctions
<1>7. CASE call.of = "Source"
  BY <1>7 DEF ProxyCall, Source_set_status, Source_set_params, Source_inactivate, update_source,
              inactivate_source, IsContractCall, ContractFunctions
<1>8. CASE call.of \in {"Task", "Response"}
  <2>1. CASE call.of = "Task"
    BY <2>1 DEF ProxyCall, Task_cancel, cancel_task, IsContractCall, ContractFunctions
  <2>2. CASE call.of = "Response"
    BY <2>2 DEF ProxyCall, Response_confirm, confirm_response, IsContractCall, ContractFunctions
  <2> QED BY <1>8, <2>1, <2>2
<1>9. CASE call.of \in {"Provider", "Master"} /\ call.name \in VaultMethods
  <2>1. Request = VaultMethod(call.name, call.self, call.args, call.signer)
    BY <1>9 DEF ProxyCall, Provider_method, Master_method
  <2> QED BY <1>9, <2>1
          DEF VaultMethod, deposit, withdraw, lock, unbond, cancel_unbonding, claim,
              IsContractCall, ContractFunctions
<1>10. CASE call.of = "Provider" /\ call.name \notin VaultMethods
  <2>1. Request = Provider_method(call.name, call.self, call.args, call.signer)
    BY <1>10 DEF ProxyCall
  <2> QED BY <1>10, <2>1
          DEF Provider_method, announce_master, set_default_agent_disabled, register, unregister,
              attempt, IsContractCall, ContractFunctions
<1>11. CASE call.of = "Master" /\ call.name \notin VaultMethods
  <2>1. Request = Master_method(call.name, call.self, call.args, call.signer)
    BY <1>11 DEF ProxyCall
  <2> QED BY <1>11, <2>1
          DEF Master_method, announce_provider, remove_provider, remove_container, set_agent,
              IsContractCall, ContractFunctions
<1> QED BY <1>1, <1>2, <1>3, <1>4, <1>5, <1>6, <1>7, <1>8, <1>9, <1>10, <1>11

PublishesSource == call.of = "client" /\ call.name = "publish_source"
PublishesTask == call.of = "client" /\ call.name = "publish_task"

(* The contract learns the client's address from the parameters of a       *)
(* source and from the signer of a task.                                   *)
LEMMA SourceRequest ==
  ASSUME PublishesSource, call.signer \in Signers, env \in [Roles -> Signers]
  PROVE  /\ Request.on = "source" /\ Request.fn = "publishSource"
         /\ Request.args.params[1] = Request.signer
<1> DEFINE account == ResolveSigner(call.signer, "client")
<1>1. Request = publish_source([params |-> build_source_params(call.args.info, account)], account)
  BY DEF Request, RequestOf, ClientCall, Client_publish_source, PublishesSource
<1>2. ResolveSigner(account, "client") = account
  BY ResolvedOnce DEF Roles
<1> HIDE DEF account
<1> QED BY <1>1, <1>2
        DEF publish_source, Write, Encoded, SourceTuple, build_source_params

LEMMA TaskRequest ==
  ASSUME PublishesTask
  PROVE  /\ Request.on = "task" /\ Request.fn = "publishTask"
         /\ Request.args.params = TaskTuple(build_task_params(call.args.info))
BY DEF Request, RequestOf, ClientCall, Client_publish_task, PublishesTask, publish_task, Write

OwnSource(v) ==
  logs \in Sources(v) \ Sources(atCall) /\ v.sources[logs].client = Request.signer
OwnTask(v) ==
  /\ logs \in Tasks(v) \ Tasks(atCall)
  /\ v.tasks[logs].client = Request.signer
  /\ v.tasks[logs].params = TaskTuple(build_task_params(call.args.info))

(* The contracts have only grown since the call began, and once its        *)
(* transaction is mined the receipt names what it made.                    *)
WorldInv == Shaped(w) /\ Shaped(atCall) /\ Grows(atCall, w)
LogsInv ==
  /\ tx = "mined" => (PublishesSource => OwnSource(w)) /\ (PublishesTask => OwnTask(w))
  /\ Done("returned") /\ (PublishesSource \/ PublishesTask) => tx = "mined" /\ result.value = logs

LEMMA WorldInit == Init => WorldInv
BY ProtocolAssumption, GrowsReflexive DEF Init, WorldInv, WorldOK

LEMMA WorldStep ==
  ASSUME WorldInv, StageOK, SignerOK, [Next]_vars
  PROVE  /\ WorldInv' /\ atCall' = atCall
         /\ w' = w \/ Grows(w, w')
         /\ w' = w \/ Land \/ StrayLands \/ OthersMove
<1> USE DEF WorldInv
<1>1. CASE Land \/ StrayLands
  <2>1. IsContractCall(Request)
    BY <1>1, ProtocolAssumption, WriteIsContractCall DEF Land, StrayLands, StageOK, SignerOK
  <2>2. w' = w \/ w' = After(w, Request)
    BY <1>1 DEF Land, StrayLands
  <2>3. Grows(w, After(w, Request))
    BY <2>1, AfterGrows
  <2>4. Grows(w, w')
    BY <2>2, <2>3, GrowsReflexive
  <2>5. Shaped(w') /\ atCall' = atCall
    BY <1>1, <2>4 DEF Grows, Land, StrayLands
  <2>6. Grows(atCall, w')
    BY <2>4, GrowsTransitive
  <2>7. Grows(atCall, w)' /\ Shaped(w)' /\ Shaped(atCall)'
    BY <2>5, <2>6 DEF Grows, Shaped, Sources, Tasks
  <2> QED BY <1>1, <2>4, <2>5, <2>7
<1>2. CASE OthersMove
  <2>1. (\E r \in Others : w' = After(w, r)) \/ w' \in TimePasses(w)
    BY <1>2 DEF OthersMove
  <2>2. Grows(w, w')
    BY <2>1, ProtocolAssumption, AfterGrows, TimeGrows
  <2>3. Shaped(w') /\ atCall' = atCall
    BY <1>2, <2>2 DEF Grows, OthersMove
  <2>4. Grows(atCall, w')
    BY <2>2, GrowsTransitive
  <2>5. Grows(atCall, w)' /\ Shaped(w)' /\ Shaped(atCall)'
    BY <2>3, <2>4 DEF Grows, Shaped, Sources, Tasks
  <2> QED BY <1>2, <2>2, <2>3, <2>5
<1>3. CASE w' = w /\ atCall' = atCall
  BY <1>3 DEF Grows, Shaped, Sources, Tasks
<1>4. Land \/ StrayLands \/ OthersMove \/ (w' = w /\ atCall' = atCall)
  BY DEF Next, CallStep, Resolve, Pin, Broadcast, LoseReply, EstimateReverts, ExecuteFails, GetReceipt,
         ReceiptTimesOut, ReceiptFails, ReadFields, load, get_metadata, fetch_ipfs_json,
         get_confirmed_response, ReadFails, Ended, vars
<1> QED BY <1>1, <1>2, <1>3, <1>4

LEMMA Lengths ==
  ASSUME NEW v, Shaped(v)
  PROVE  /\ Sources(v) = 1 .. Len(v.sources) /\ Tasks(v) = 1 .. Len(v.tasks)
         /\ Len(v.sources) \in Nat /\ Len(v.tasks) \in Nat
BY LenProperties DEF Shaped, Sources, Tasks

(* What others do leaves a publication its author's.                       *)
LEMMA OwnStays ==
  ASSUME NEW u, Shaped(w), Grows(w, u)
  PROVE  (OwnSource(w) => OwnSource(u)) /\ (OwnTask(w) => OwnTask(u))
<1>1. Sources(w) \subseteq Sources(u) /\ Tasks(w) \subseteq Tasks(u)
  BY Lengths DEF Grows
<1> QED BY <1>1 DEF OwnSource, OwnTask, Grows

(* The block makes the entity the receipt names.                           *)
LEMMA SourceMade ==
  ASSUME WorldInv, SignerOK, Land, tx' = "mined", PublishesSource
  PROVE  logs' \in Sources(w') \ Sources(atCall) /\ w'.sources[logs'].client = Request.signer
<1>0. Shaped(w) /\ Shaped(atCall) /\ Grows(atCall, w)
  BY DEF WorldInv
<1>1. /\ Request.on = "source" /\ Request.fn = "publishSource"
      /\ Request.args.params[1] = Request.signer
  BY SourceRequest, ProtocolAssumption DEF SignerOK
<1>2. w' = After(w, Request) /\ logs' = Len(w.sources) + 1
  BY <1>1 DEF Land
<1>3. w'.sources = Append(w.sources, NewSource(Request.args.params))
  BY <1>0, <1>1, <1>2 DEF After, AfterSourceWrite, Shaped
<1>4. w.sources \in Seq(Range(w.sources))
  BY <1>0 DEF Shaped
<1>5. w'.sources[logs'] = NewSource(Request.args.params) /\ Len(w'.sources) = logs'
  BY <1>2, <1>3, <1>4, AppendShaped
<1>6. w'.sources[logs'].client = Request.signer
  BY <1>1, <1>5 DEF NewSource
<1>7. w'.sources \in Seq(Range(w'.sources))
  BY <1>3, <1>4, AppendShaped
<1>8. logs' \in Sources(w')
  BY <1>0, <1>2, <1>5, <1>7, Lengths, LenProperties DEF Sources
<1>9. logs' \notin Sources(atCall)
  BY <1>0, <1>2, Lengths DEF Grows
<1> QED BY <1>6, <1>8, <1>9

LEMMA TaskMade ==
  ASSUME WorldInv, Land, tx' = "mined", PublishesTask
  PROVE  /\ logs' \in Tasks(w') \ Tasks(atCall)
         /\ w'.tasks[logs'].client = Request.signer
         /\ w'.tasks[logs'].params = TaskTuple(build_task_params(call.args.info))
<1>0. Shaped(w) /\ Shaped(atCall) /\ Grows(atCall, w)
  BY DEF WorldInv
<1> DEFINE params == Request.args.params
           new == NewTask(w, Request.signer, params)
           x == [w EXCEPT !.tasks = Append(w.tasks, new)]
<1>1. /\ Request.on = "task" /\ Request.fn = "publishTask"
      /\ params = TaskTuple(build_task_params(call.args.info))
  BY TaskRequest
<1>2. w' = After(w, Request) /\ logs' = Len(w.tasks) + 1
  BY <1>1 DEF Land
<1>3. w' = Moves(x, Request.signer, params[4], "balance", "frozen")
  BY <1>1, <1>2 DEF After, AfterTaskWrite
<1>4. new.client = Request.signer /\ new.params = params
  BY DEF NewTask
<1> HIDE DEF new, params
<1>5. x.tasks = Append(w.tasks, new) /\ {"tasks", "vault"} \subseteq DOMAIN x
  BY <1>0 DEF Shaped
<1> HIDE DEF x
<1>6. w'.tasks = Append(w.tasks, new)
  BY <1>3, <1>5, MovesKeepsRest
<1>7. w.tasks \in Seq(Range(w.tasks))
  BY <1>0 DEF Shaped
<1>8. w'.tasks[logs'] = new /\ Len(w'.tasks) = logs' /\ w'.tasks \in Seq(Range(w'.tasks))
  BY <1>2, <1>6, <1>7, AppendShaped
<1>9. logs' \in Tasks(w')
  BY <1>0, <1>2, <1>8, Lengths, LenProperties DEF Tasks
<1>10. logs' \notin Tasks(atCall)
  BY <1>0, <1>2, Lengths DEF Grows
<1> QED BY <1>1, <1>4, <1>8, <1>9, <1>10

OwnInv == WorldInv /\ LogsInv

LEMMA OwnInit == Init => OwnInv
BY WorldInit DEF Init, OwnInv, LogsInv

LEMMA OwnStep == OwnInv /\ SignInv /\ [Next]_vars => OwnInv'
<1> SUFFICES ASSUME OwnInv, SignInv, [Next]_vars PROVE OwnInv'
  OBVIOUS
<1>0. WorldInv /\ LogsInv /\ StageOK /\ SignerOK
  BY DEF OwnInv, SignInv
<1>a. WorldInv' /\ atCall' = atCall /\ (w' = w \/ Grows(w, w'))
  BY <1>0, WorldStep
<1>b. call' = call /\ env' = env
  BY DEF Next, CallStep, Resolve, Pin, Broadcast, LoseReply, EstimateReverts, ExecuteFails, GetReceipt,
         ReceiptTimesOut, ReceiptFails, ReadFields, load, get_metadata, fetch_ipfs_json,
         get_confirmed_response, ReadFails, Land, StrayLands, OthersMove, Ended, vars
<1>c. Request' = Request
  BY <1>b, SameRequest
<1>d. Shaped(w)
  BY <1>0 DEF WorldInv
<1>e. SUFFICES LogsInv'
  BY <1>a DEF OwnInv
<1> USE DEF LogsInv
<1>1. CASE Land
  <2>1. CASE tx' = "mined"
    <3>1. PublishesSource => OwnSource(w)'
      BY <1>0, <1>1, <1>a, <1>c, <2>1, SourceMade DEF OwnSource, Sources
    <3>2. PublishesTask => OwnTask(w)'
      BY <1>0, <1>1, <1>a, <1>b, <1>c, <2>1, TaskMade
         DEF OwnTask, Tasks, TaskTuple, build_task_params
    <3>3. pc' = pc /\ result' = result
      BY <1>1 DEF Land
    <3> QED BY <1>0, <1>1, <1>b, <2>1, <3>1, <3>2, <3>3 DEF PublishesSource, PublishesTask, Land
  <2>2. CASE tx' # "mined"
    BY <1>0, <1>1, <1>b, <2>2 DEF Land, PublishesSource, PublishesTask
  <2> QED BY <2>1, <2>2
<1>2. CASE tx' = tx /\ logs' = logs
           /\ \/ result' = result /\ pc' = pc
              \/ result'.kind = "raised" \/ pc' # "done"
              \/ GetReceipt \/ IsRead(call)
  <2>1. (OwnSource(w) => OwnSource(w)') /\ (OwnTask(w) => OwnTask(w)')
    <3>1. (OwnSource(w) => OwnSource(w')) /\ (OwnTask(w) => OwnTask(w'))
      BY <1>a, <1>d, OwnStays
    <3>2. OwnSource(w)' <=> OwnSource(w')
      BY <1>2, <1>a, <1>c DEF OwnSource, Sources
    <3>3. OwnTask(w)' <=> OwnTask(w')
      BY <1>2, <1>a, <1>b, <1>c DEF OwnTask, Tasks, TaskTuple, build_task_params
    <3> QED BY <3>1, <3>2, <3>3
  <2>2. PublishesSource' = PublishesSource /\ PublishesTask' = PublishesTask
    BY <1>b DEF PublishesSource, PublishesTask
  <2>3. GetReceipt /\ (PublishesSource \/ PublishesTask) /\ result'.kind = "returned"
          => tx = "mined" /\ result'.value = logs
    BY DEF GetReceipt, StatusIsOne, ValueReturned, extract_source_address, extract_task_address,
           PublishesSource, PublishesTask
  <2>4. IsRead(call) => ~PublishesSource /\ ~PublishesTask
    BY DEF IsRead, ReadMethods, PublishesSource, PublishesTask
  <2> QED BY <1>0, <1>2, <2>1, <2>2, <2>3, <2>4
<1>3. CASE Broadcast
  BY <1>0, <1>3, <1>b DEF Broadcast, StageOK, BeforeBroadcast, PublishesSource, PublishesTask
<1>4. CASE Resolve
  BY <1>2, <1>4 DEF Resolve
<1>5. CASE Pin \/ LoseReply \/ EstimateReverts \/ ExecuteFails
  BY <1>2, <1>5 DEF Pin, LoseReply, EstimateReverts, ExecuteFails
<1>6. CASE GetReceipt \/ ReceiptTimesOut \/ ReceiptFails
  BY <1>2, <1>6 DEF GetReceipt, ReceiptTimesOut, ReceiptFails
<1>7. CASE ReadFields \/ load \/ get_metadata \/ fetch_ipfs_json \/ get_confirmed_response \/ ReadFails
  <2>1. IsRead(call) /\ tx' = tx /\ logs' = logs
    BY <1>0, <1>7 DEF ReadFields, load, get_metadata, fetch_ipfs_json, get_confirmed_response,
                      ReadFails, StageOK, Reading
  <2> QED BY <1>2, <2>1
<1>8. CASE StrayLands \/ OthersMove \/ UNCHANGED vars
  BY <1>2, <1>8 DEF StrayLands, OthersMove, vars
<1> QED BY <1>1, <1>3, <1>4, <1>5, <1>6, <1>7, <1>8 DEF Next, CallStep, Ended

(* publish_source and publish_task return the entity their own transaction *)
(* made, with the caller as its client and the caller's parameters, however*)
(* many others publish meanwhile (nexus.py 62-83, controller.py 123-145).  *)
THEOREM ReturnsOwnEntity == Spec => []ReturnsItsOwn
<1>1. OutcomeInv => StageOK
  BY DEF OutcomeInv
<1>2. Spec => []StageOK
  BY <1>1, OutcomeInit, OutcomeStep, PTL DEF Spec
<1>3. Spec => []SignInv
  BY <1>2, SignInit, SignStep, PTL DEF Spec
<1>4. OwnInv => ReturnsItsOwn
  BY DEF OwnInv, LogsInv, ReturnsItsOwn, PublishesSource, PublishesTask, OwnSource, OwnTask,
         TaskField, TaskParamsOf, TaskTuple, build_task_params
<1> QED BY <1>3, <1>4, OwnInit, OwnStep, PTL DEF Spec
-----------------------------------------------------------------------------
(* Errors that name a cause.  A confirmed response is its task's winner,   *)
(* whatever the contracts are asked to do.                                 *)
WinnerOK(task) ==
  \A p \in DOMAIN task.answers :
    task.answers[p] = "CONFIRMED" => task.winner = p /\ task.status = "FINALIZED"

LEMMA WinnersByTask ==
  ASSUME NEW v
  PROVE  WinnersOK(v) <=> \A t \in Tasks(v) : WinnerOK(v.tasks[t])
BY DEF WinnersOK, WinnerOK, Confirmed, Answered

LEMMA WinnersRewritten ==
  ASSUME NEW v, NEW u, WinnersOK(v), NEW i, NEW e, i \in Tasks(v) => WinnerOK(e),
         u.tasks = [v.tasks EXCEPT ![i] = e]
  PROVE  WinnersOK(u)
<1>1. \A t \in Tasks(v) : WinnerOK(v.tasks[t])
  BY WinnersByTask
<1>2. Tasks(u) = Tasks(v)
  BY DEF Tasks
<1>3. ASSUME NEW t \in Tasks(u) PROVE WinnerOK(u.tasks[t])
  BY <1>1, <1>2, <1>3 DEF Tasks
<1> QED BY <1>3, WinnersByTask

LEMMA WinnersAppended ==
  ASSUME NEW v, NEW u, Shaped(v), WinnersOK(v), NEW new, WinnerOK(new),
         u.tasks = Append(v.tasks, new)
  PROVE  WinnersOK(u)
<1>1. \A t \in Tasks(v) : WinnerOK(v.tasks[t])
  BY WinnersByTask
<1>2. v.tasks \in Seq(Range(v.tasks))
  BY DEF Shaped
<1>3. /\ u.tasks \in Seq(Range(u.tasks))
      /\ Len(u.tasks) = Len(v.tasks) + 1
      /\ \A i \in 1 .. Len(v.tasks) : u.tasks[i] = v.tasks[i]
      /\ u.tasks[Len(v.tasks) + 1] = new
  BY <1>2, AppendShaped
<1>4. Tasks(u) = 1 .. Len(u.tasks) /\ Tasks(v) = 1 .. Len(v.tasks) /\ Len(v.tasks) \in Nat
  BY <1>2, <1>3, LenProperties DEF Tasks
<1>5. ASSUME NEW t \in Tasks(u) PROVE WinnerOK(u.tasks[t])
  <2>1. t \in 1 .. Len(v.tasks) \/ t = Len(v.tasks) + 1
    BY <1>3, <1>4
  <2> QED BY <1>1, <1>3, <1>4, <2>1
<1> QED BY <1>5, WinnersByTask

LEMMA WinnersSame ==
  ASSUME NEW v, NEW u, WinnersOK(v), u.tasks = v.tasks
  PROVE  WinnersOK(u)
BY DEF WinnersOK, Confirmed, Answered, Tasks

LEMMA FinalizedKeepsWinners ==
  ASSUME NEW v, Shaped(v), WinnersOK(v), NEW t, NEW p,
         t \in Tasks(v) => v.tasks[t].status # "FINALIZED"
  PROVE  WinnersOK(Finalized(v, t, p))
<1> DEFINE u == Finalized(v, t, p)
           new == With(v.tasks[t].answers, p, "CONFIRMED")
           e == [v.tasks[t] EXCEPT !.status = "FINALIZED", !.winner = p, !.answers = new]
<1>1. u.tasks = [v.tasks EXCEPT ![t] = e]
  BY DEF Finalized, Shaped
<1>2. ASSUME t \in Tasks(v) PROVE WinnerOK(e)
  <2>1. \A q \in DOMAIN v.tasks[t].answers : v.tasks[t].answers[q] # "CONFIRMED"
    BY <1>2, WinnersByTask DEF WinnerOK
  <2>2. /\ DOMAIN new = DOMAIN v.tasks[t].answers \cup {p}
        /\ \A q \in DOMAIN v.tasks[t].answers : q # p => new[q] = v.tasks[t].answers[q]
    BY DEF With
  <2>3. e.answers = new /\ e.winner = p /\ e.status = "FINALIZED"
    BY <1>2 DEF Shaped
  <2> HIDE DEF new, e
  <2> QED BY <2>1, <2>2, <2>3 DEF WinnerOK
<1> HIDE DEF u, e
<1> QED BY <1>1, <1>2, WinnersRewritten DEF u

LEMMA TaskWriteKeepsWinners ==
  ASSUME NEW v, Shaped(v), WinnersOK(v), NEW r, r.fn \in ContractFunctions.task,
         RevertReasons(v, r) = {}
  PROVE  WinnersOK(AfterTaskWrite(v, r))
<1> DEFINE u == AfterTaskWrite(v, r)
           i == r.args.task
           p == r.args.provider
<1> USE DEF ContractFunctions
<1>0. {"sources", "tasks", "vault"} \subseteq DOMAIN v
  BY DEF Shaped
<1>a. \A reason \in Reasons : ~Applies(reason, v, r)
  BY DEF RevertReasons
<1>b. i \in Tasks(v) => WinnerOK(v.tasks[i])
  BY WinnersByTask
<1>1. CASE r.fn = "publishTask"
  <2> DEFINE new == NewTask(v, r.signer, r.args.params)
             x == [v EXCEPT !.tasks = Append(v.tasks, new)]
  <2>1. u = Moves(x, r.signer, r.args.params[4], "balance", "frozen")
    BY <1>1 DEF AfterTaskWrite
  <2>2. WinnerOK(new)
    BY DEF NewTask, WinnerOK
  <2>3. DOMAIN x = DOMAIN v /\ x.tasks = Append(v.tasks, new)
    BY <1>0
  <2> HIDE DEF x, new
  <2>4. u.tasks = Append(v.tasks, new)
    BY <1>0, <2>1, <2>3, MovesKeepsRest
  <2> QED BY <2>2, <2>4, WinnersAppended
<1>2. CASE r.fn = "attempt"
  <2>0. v.tasks[i].status # "FINALIZED"
    <3>1. ~Applies("AlreadyFinalized", v, r)
      BY <1>a DEF Reasons
    <3> QED BY <1>2, <3>1 DEF Applies, Closed, TaskStatuses
  <2>1. PICK e :
          /\ u = [v EXCEPT !.tasks[i] = e]
          /\ \E s, q : e = [v.tasks[i] EXCEPT !.attempters = q, !.status = s]
    <3>1. CASE v.tasks[i].expiry = "marks"
      <4> DEFINE e == [v.tasks[i] EXCEPT !.attempters = @, !.status = "EXPIRED"]
      <4>1. u = [v EXCEPT !.tasks[i] = e]
        BY <1>2, <3>1 DEF AfterTaskWrite
      <4>2. \E s, q : e = [v.tasks[i] EXCEPT !.attempters = q, !.status = s]
        <5> WITNESS "EXPIRED", v.tasks[i].attempters
        <5> QED OBVIOUS
      <4> HIDE DEF e
      <4> QED BY <4>1, <4>2
    <3>2. CASE v.tasks[i].expiry # "marks"
      <4> DEFINE q == IF p \in Range(v.tasks[i].attempters) THEN v.tasks[i].attempters
                      ELSE Append(v.tasks[i].attempters, p)
                 s == IF v.tasks[i].status = "NEW" THEN "ATTEMPTED" ELSE v.tasks[i].status
                 e == [v.tasks[i] EXCEPT !.attempters = q, !.status = s]
      <4>1. u = [v EXCEPT !.tasks[i] = e]
        BY <1>2, <3>2 DEF AfterTaskWrite
      <4> HIDE DEF q, s
      <4>2. \E s_, q_ : e = [v.tasks[i] EXCEPT !.attempters = q_, !.status = s_]
        <5> WITNESS s, q
        <5> QED OBVIOUS
      <4> HIDE DEF e
      <4> QED BY <4>1, <4>2
    <3> QED BY <3>1, <3>2
  <2>2. i \in Tasks(v) => e.answers = v.tasks[i].answers
    BY <2>1 DEF Shaped
  <2>3. u.tasks = [v.tasks EXCEPT ![i] = e]
    BY <1>0, <2>1
  <2>4. i \in Tasks(v) => WinnerOK(e)
    BY <1>b, <2>0, <2>2 DEF WinnerOK
  <2> QED BY <2>3, <2>4, WinnersRewritten
<1>3. CASE r.fn = "confirmResponse"
  <2>1. ~Applies("unmapped", v, r)
    BY <1>a DEF Reasons
  <2>2. v.tasks[i].status # "FINALIZED"
    BY <1>3, <2>1 DEF Applies, Closed, TaskStatuses
  <2> QED BY <1>3, <2>2, FinalizedKeepsWinners DEF AfterTaskWrite
<1>4. CASE r.fn = "cancelTask"
  <2> DEFINE e == [v.tasks[i] EXCEPT !.status = "CANCELED"]
             x == [v EXCEPT !.tasks[i].status = "CANCELED"]
  <2>1. u = Moves(x, v.tasks[i].client, v.tasks[i].params[4], "frozen", "balance")
    BY <1>4 DEF AfterTaskWrite
  <2>2. ~Applies("AlreadyFinalized", v, r)
    BY <1>a DEF Reasons
  <2>3. v.tasks[i].status = "NEW"
    BY <1>4, <2>2 DEF Applies
  <2>4. i \in Tasks(v) => e.answers = v.tasks[i].answers
    BY DEF Shaped
  <2>5. DOMAIN x = DOMAIN v /\ x.tasks = [v.tasks EXCEPT ![i] = e]
    BY <1>0
  <2> HIDE DEF e, x
  <2>6. u.tasks = [v.tasks EXCEPT ![i] = e]
    BY <1>0, <2>1, <2>5, MovesKeepsRest
  <2>7. i \in Tasks(v) => WinnerOK(e)
    BY <1>b, <2>3, <2>4 DEF WinnerOK
  <2> QED BY <2>6, <2>7, WinnersRewritten
<1>5. CASE r.fn = "submitResponse"
  <2> DEFINE new == With(v.tasks[i].answers, p, "SUBMITTED")
             e == [v.tasks[i] EXCEPT !.answers = new, !.status = "RESPONDED"]
             x == [v EXCEPT !.tasks[i] = e]
  <2>1. u = IF v.tasks[i].delivery = "FIRST_RESPONSE" THEN Finalized(x, i, p) ELSE x
    BY <1>5 DEF AfterTaskWrite
  <2>2. ~Applies("unmapped", v, r)
    BY <1>a DEF Reasons
  <2>3. v.tasks[i].status # "FINALIZED"
    BY <1>5, <2>2 DEF Applies, Closed, TaskStatuses
  <2>4. i \in Tasks(v) => e.answers = new /\ e.status = "RESPONDED"
    BY DEF Shaped
  <2>5. /\ DOMAIN new = DOMAIN v.tasks[i].answers \cup {p}
        /\ new[p] = "SUBMITTED"
        /\ \A q \in DOMAIN v.tasks[i].answers : q # p => new[q] = v.tasks[i].answers[q]
    BY DEF With
  <2>6. i \in Tasks(v) =>
          /\ DOMAIN e = DOMAIN v.tasks[i]
          /\ e.client = v.tasks[i].client /\ e.params = v.tasks[i].params
    BY DEF Shaped
  <2>7. DOMAIN x = DOMAIN v /\ x.sources = v.sources /\ x.tasks = [v.tasks EXCEPT ![i] = e]
    BY <1>0
  <2> HIDE DEF e, x, new
  <2>8. i \in Tasks(v) => WinnerOK(e)
    BY <1>b, <2>3, <2>4, <2>5, SMTT(30) DEF WinnerOK
  <2>9. WinnersOK(x) /\ Shaped(x)
    <3>1. WinnersOK(x)
      BY <2>7, <2>8, WinnersRewritten
    <3>2. Grows(v, x)
      BY <2>6, <2>7, TaskStepGrows
    <3> QED BY <3>1, <3>2 DEF Grows
  <2>10. i \in Tasks(x) => x.tasks[i].status # "FINALIZED"
    BY <2>4, <2>7 DEF Tasks
  <2>11. WinnersOK(Finalized(x, i, p))
    BY <2>9, <2>10, FinalizedKeepsWinners
  <2> QED BY <2>1, <2>9, <2>11
<1> QED BY <1>1, <1>2, <1>3, <1>4, <1>5

LEMMA AfterKeepsWinners ==
  ASSUME NEW v, Shaped(v), WinnersOK(v), NEW r, IsContractCall(r), RevertReasons(v, r) = {}
  PROVE  WinnersOK(After(v, r))
<1> DEFINE u == After(v, r)
<1>0. {"sources", "tasks", "vault", "ripe"} \subseteq DOMAIN v
  BY DEF Shaped
<1> USE DEF IsContractCall, ContractFunctions
<1>1. CASE r.on = "task"
  BY <1>1, TaskWriteKeepsWinners DEF After
<1>2. CASE r.on = "source"
  <2>1. u.tasks = v.tasks
    BY <1>0, <1>2 DEF After, AfterSourceWrite
  <2> QED BY <2>1, WinnersSame
<1>3. CASE r.on = "vault"
  <2>0. u = AfterVaultWrite(v, r)
    BY <1>3 DEF After
  <2>1. CASE r.fn \in {"deposit", "withdraw"}
    BY <1>0, <2>0, <2>1, WinnersSame DEF AfterVaultWrite
  <2>2. CASE r.fn \in {"lock", "cancelUnbonding", "claim"}
    BY <1>0, <2>0, <2>2, WinnersSame DEF AfterVaultWrite, Moves
  <2>3. CASE r.fn = "unbond"
    BY <1>0, <2>0, <2>3, WinnersSame DEF AfterVaultWrite, Moves
  <2> QED BY <1>3, <2>1, <2>2, <2>3
<1>4. CASE r.on = "terminal"
  <2>1. u.tasks = v.tasks
    BY <1>0, <1>4 DEF After, AfterTerminalWrite
  <2> QED BY <2>1, WinnersSame
<1> QED BY <1>1, <1>2, <1>3, <1>4

LEMMA TimeKeepsWinners ==
  ASSUME NEW v, Shaped(v), WinnersOK(v), NEW u \in TimePasses(v)
  PROVE  WinnersOK(u)
<1>0. {"sources", "tasks", "vault", "ripe"} \subseteq DOMAIN v
  BY DEF Shaped
<1>1. ASSUME NEW t \in Tasks(v), NEW x, u = [v EXCEPT !.tasks[t].expiry = x] PROVE WinnersOK(u)
  <2> DEFINE e == [v.tasks[t] EXCEPT !.expiry = x]
  <2>1. u.tasks = [v.tasks EXCEPT ![t] = e]
    BY <1>0, <1>1
  <2>2. /\ e.answers = v.tasks[t].answers
        /\ e.winner = v.tasks[t].winner /\ e.status = v.tasks[t].status
    BY DEF Shaped
  <2> HIDE DEF e
  <2>3. WinnerOK(e)
    BY <2>2, WinnersByTask DEF WinnerOK
  <2> QED BY <2>1, <2>3, WinnersRewritten
<1>2. ASSUME NEW x, u = [v EXCEPT !.ripe = @ \cup {x}] PROVE WinnersOK(u)
  BY <1>0, <1>2, WinnersSame
<1>3. CASE \E t \in Tasks(v) : \E x : u = [v EXCEPT !.tasks[t].expiry = x]
  BY <1>1, <1>3
<1>4. CASE \E x : u = [v EXCEPT !.ripe = @ \cup {x}]
  BY <1>2, <1>4
<1>5. u \in TimePasses(v)
  OBVIOUS
<1> QED BY ONLY <1>3, <1>4, <1>5, TimeSteps

(* What the errors that name a lasting cause claim.                        *)
CausesHold(e) ==
  LET a == Request.args IN
  /\ e = "NotSourceOwnerError" =>
       /\ Request.on = "source" /\ Request.fn \in SourceWrites
       /\ w.sources[a.source].client # Request.signer
  /\ e = "NotTaskOwnerError" =>
       /\ Request.on = "task" /\ Request.fn \in TaskWrites
       /\ w.tasks[a.task].client # Request.signer
  /\ e = "TaskAlreadyFinalizedError" =>
       Request.fn \in {"cancelTask", "attempt"} /\ w.tasks[a.task].status # "NEW"
  /\ e = "ResponseAlreadyConfirmedError" =>
       Request.fn = "confirmResponse" /\ w.tasks[a.task].winner = a.provider
  /\ e = "TaskExpiredError" => Request.fn = "attempt" /\ w.tasks[a.task].expiry # "ahead"

LastingCauses ==
  {"NotSourceOwnerError", "NotTaskOwnerError", "TaskAlreadyFinalizedError",
   "ResponseAlreadyConfirmedError", "TaskExpiredError"}

(* A revert is decoded to a cause only if the contract checked that cause: *)
(* the same text is told apart by the function called.                     *)
LEMMA DecodedCause ==
  ASSUME WinnersOK(w), IsContractCall(Request), NEW reason \in RevertReasons(w, Request),
         NEW custom \in BOOLEAN
  PROVE  CausesHold(decode_revert(reason, custom, Request.fn))
<1> DEFINE e == decode_revert(reason, custom, Request.fn)
           a == Request.args
<1>1. reason \in Reasons /\ Applies(reason, w, Request)
  BY DEF RevertReasons
<1>2. e = "NotSourceOwnerError" =>
        /\ Request.on = "source" /\ Request.fn \in SourceWrites
        /\ w.sources[a.source].client # Request.signer
  <2> SUFFICES ASSUME e = "NotSourceOwnerError"
               PROVE  /\ Request.on = "source" /\ Request.fn \in SourceWrites
                      /\ w.sources[a.source].client # Request.signer
    OBVIOUS
  <2>1. reason = "NotOwner" /\ NamesASource(Request.fn)
    BY <1>1 DEF decode_revert, PermissionErrorFor, RevertPatterns, Reasons
  <2> QED BY <1>1, <2>1 DEF Applies, NamesASource, SourceWrites, IsContractCall, ContractFunctions
<1>3. e = "NotTaskOwnerError" =>
        /\ Request.on = "task" /\ Request.fn \in TaskWrites
        /\ w.tasks[a.task].client # Request.signer
  <2> SUFFICES ASSUME e = "NotTaskOwnerError"
               PROVE  /\ Request.on = "task" /\ Request.fn \in TaskWrites
                      /\ w.tasks[a.task].client # Request.signer
    OBVIOUS
  <2>1. reason = "NotOwner" /\ ~NamesASource(Request.fn)
    BY <1>1 DEF decode_revert, PermissionErrorFor, RevertPatterns, Reasons
  <2> QED BY <1>1, <2>1
          DEF Applies, ActsFor, NamesASource, SourceWrites, TaskWrites, IsContractCall,
              ContractFunctions
<1>4. e = "TaskAlreadyFinalizedError" =>
        Request.fn \in {"cancelTask", "attempt"} /\ w.tasks[a.task].status # "NEW"
  <2> SUFFICES ASSUME e = "TaskAlreadyFinalizedError"
               PROVE  Request.fn \in {"cancelTask", "attempt"} /\ w.tasks[a.task].status # "NEW"
    OBVIOUS
  <2>1. reason = "AlreadyFinalized"
    BY <1>1 DEF decode_revert, PermissionErrorFor, RevertPatterns, Reasons
  <2> QED BY <1>1, <2>1 DEF Applies, Closed, TaskStatuses
<1>5. e = "ResponseAlreadyConfirmedError" =>
        Request.fn = "confirmResponse" /\ w.tasks[a.task].winner = a.provider
  <2> SUFFICES ASSUME e = "ResponseAlreadyConfirmedError"
               PROVE  Request.fn = "confirmResponse" /\ w.tasks[a.task].winner = a.provider
    OBVIOUS
  <2>1. reason = "AlreadyConfirmed"
    BY <1>1 DEF decode_revert, PermissionErrorFor, RevertPatterns, Reasons
  <2>2. Request.fn = "confirmResponse" /\ Confirmed(w, a.task, a.provider)
    BY <1>1, <2>1 DEF Applies
  <2> QED BY <2>2 DEF WinnersOK, Confirmed, Answered
<1>6. e = "TaskExpiredError" => Request.fn = "attempt" /\ w.tasks[a.task].expiry # "ahead"
  <2> SUFFICES ASSUME e = "TaskExpiredError"
               PROVE  Request.fn = "attempt" /\ w.tasks[a.task].expiry # "ahead"
    OBVIOUS
  <2>1. reason = "Expired"
    BY <1>1 DEF decode_revert, PermissionErrorFor, RevertPatterns, Reasons
  <2> QED BY <1>1, <2>1 DEF Applies
<1> HIDE DEF e
<1> QED BY <1>2, <1>3, <1>4, <1>5, <1>6 DEF CausesHold, e

(* A stray that still lands leaves the cause that ended the call in place. *)
LEMMA StrayKeepsCause ==
  ASSUME Shaped(w), IsContractCall(Request), RevertReasons(w, Request) = {},
         w' = After(w, Request), Request' = Request, NEW e \in LastingCauses, CausesHold(e)
  PROVE  CausesHold(e)'
<1> DEFINE a == Request.args
           task == w.tasks[a.task]
<1>a. \A reason \in Reasons : ~Applies(reason, w, Request)
  BY DEF RevertReasons
<1>b. ~Applies("unmapped", w, Request) /\ ~Applies("NotOwner", w, Request)
      /\ ~Applies("AlreadyFinalized", w, Request)
  BY <1>a DEF Reasons
<1>1. e # "NotSourceOwnerError"
  BY <1>b DEF CausesHold, Applies
<1>2. Request.on = "task" /\ Request.fn \in {"confirmResponse", "attempt"}
  BY <1>1, <1>b DEF CausesHold, LastingCauses, Applies, TaskWrites, IsContractCall,
                    ContractFunctions
<1>3. a.task \in Tasks(w)
  BY <1>2, <1>b DEF Applies, ContractFunctions
<1>4. w' = AfterTaskWrite(w, Request)
  BY <1>2 DEF After
<1>5. PICK next : /\ w'.tasks = [w.tasks EXCEPT ![a.task] = next]
                  /\ next.client = task.client /\ next.expiry = task.expiry
                  /\ task.status # "NEW" => next.status # "NEW"
                  /\ Request.fn = "confirmResponse" => next.winner = a.provider
  <2>1. CASE Request.fn = "confirmResponse"
    <3> DEFINE next == [task EXCEPT !.status = "FINALIZED", !.winner = a.provider,
                                    !.answers = With(@, a.provider, "CONFIRMED")]
    <3>1. w'.tasks = [w.tasks EXCEPT ![a.task] = next]
      BY <1>4, <2>1 DEF AfterTaskWrite, Finalized, Shaped
    <3>2. /\ next.client = task.client /\ next.expiry = task.expiry
          /\ next.status = "FINALIZED" /\ next.winner = a.provider
      BY <1>3 DEF Shaped
    <3> HIDE DEF next
    <3> QED BY <3>1, <3>2
  <2>2. CASE Request.fn = "attempt" /\ task.expiry = "marks"
    <3> DEFINE next == [task EXCEPT !.status = "EXPIRED"]
    <3>1. w'.tasks = [w.tasks EXCEPT ![a.task] = next]
      BY <1>4, <2>2 DEF AfterTaskWrite, Shaped
    <3>2. next.client = task.client /\ next.expiry = task.expiry /\ next.status = "EXPIRED"
      BY <1>3 DEF Shaped
    <3> HIDE DEF next
    <3> QED BY <2>2, <3>1, <3>2
  <2>3. CASE Request.fn = "attempt" /\ task.expiry # "marks"
    <3> DEFINE next == [task EXCEPT
                          !.attempters = IF a.provider \in Range(@) THEN @ ELSE Append(@, a.provider),
                          !.status = IF @ = "NEW" THEN "ATTEMPTED" ELSE @]
    <3>1. w'.tasks = [w.tasks EXCEPT ![a.task] = next]
      BY <1>4, <2>3 DEF AfterTaskWrite, Shaped
    <3>2. /\ next.client = task.client /\ next.expiry = task.expiry
          /\ next.status = IF task.status = "NEW" THEN "ATTEMPTED" ELSE task.status
      BY <1>3 DEF Shaped
    <3> HIDE DEF next
    <3> QED BY <2>3, <3>1, <3>2
  <2> QED BY <1>2, <2>1, <2>2, <2>3
<1>6. w'.tasks[a.task] = next
  BY <1>3, <1>5 DEF Tasks
<1> QED BY <1>1, <1>2, <1>5, <1>6 DEF CausesHold, LastingCauses

CauseInv ==
  /\ WinnersOK(w)
  /\ ~IsRead(call) /\ Done("raised") /\ result.value \in LastingCauses => CausesHold(result.value)

LEMMA CauseInit == Init => CauseInv
BY ProtocolAssumption DEF Init, CauseInv, WorldOK

LEMMA CauseStep == CauseInv /\ WorldInv /\ OutcomeInv /\ SignInv /\ [Next]_vars => CauseInv'
<1> SUFFICES ASSUME CauseInv, WorldInv, OutcomeInv, SignInv, [Next]_vars PROVE CauseInv'
  OBVIOUS
<1>0. StageOK /\ SignerOK /\ Shaped(w)
  BY DEF OutcomeInv, SignInv, WorldInv
<1>a. call' = call /\ env' = env
  BY DEF Next, CallStep, Resolve, Pin, Broadcast, LoseReply, EstimateReverts, ExecuteFails, GetReceipt,
         ReceiptTimesOut, ReceiptFails, ReadFields, load, get_metadata, fetch_ipfs_json,
         get_confirmed_response, ReadFails, Land, StrayLands, OthersMove, Ended, vars
<1>b. Request' = Request
  BY <1>a, SameRequest
<1> USE DEF CauseInv, LastingCauses
<1>1. CASE Land
  <2>1. IsContractCall(Request)
    BY <1>0, <1>1, ProtocolAssumption, WriteIsContractCall DEF Land, StageOK, SignerOK
  <2>2. w' = w \/ (w' = After(w, Request) /\ RevertReasons(w, Request) = {})
    BY <1>1 DEF Land
  <2>3. WinnersOK(w')
    BY <1>0, <2>1, <2>2, AfterKeepsWinners
  <2>4. ~(Done("raised") /\ result.value \in LastingCauses /\ ~IsRead(call))
    BY <1>0, <1>1 DEF Land, StageOK, LeavesOpen
  <2> QED BY <1>1, <1>a, <2>3, <2>4 DEF Land, WinnersOK, Confirmed, Answered, Tasks
<1>2. CASE OthersMove
  <2>1. \/ \E r \in Others : RevertReasons(w, r) = {} /\ w' = After(w, r)
        \/ w' \in TimePasses(w)
    BY <1>2 DEF OthersMove
  <2>2. WinnersOK(w')
    BY <1>0, <2>1, ProtocolAssumption, AfterKeepsWinners, TimeKeepsWinners
  <2> QED BY <1>2, <2>2 DEF OthersMove, WinnersOK, Confirmed, Answered, Tasks
<1>3. CASE w' = w /\ (\/ result' = result /\ pc' = pc
                      \/ pc' # "done" \/ IsRead(call)
                      \/ result'.kind = "returned"
                      \/ result'.value \notin LastingCauses
                      \/ CausesHold(result'.value))
  <2>1. WinnersOK(w)'
    BY <1>3 DEF WinnersOK, Confirmed, Answered, Tasks
  <2>2. ASSUME NEW e, CausesHold(e) PROVE CausesHold(e)'
    BY <1>3, <1>b, <2>2 DEF CausesHold
  <2>3. Done("raised")' /\ result'.value \in LastingCauses /\ ~IsRead(call)
          => CausesHold(result'.value)
    BY <1>3
  <2>4. CausesHold(result.value)' <=> CausesHold(result'.value)
    BY <1>3, <1>b DEF CausesHold
  <2> QED BY <1>a, <2>1, <2>3, <2>4
<1>4. CASE EstimateReverts
  <2>1. PICK reason \in RevertReasons(w, Request), custom \in BOOLEAN :
          Raise(decode_revert(reason, custom, Request.fn))
    BY <1>4 DEF EstimateReverts
  <2>2. IsContractCall(Request)
    BY <1>0, <1>4, ProtocolAssumption, WriteIsContractCall
       DEF EstimateReverts, StageOK, SignerOK, Reading
  <2>3. CausesHold(decode_revert(reason, custom, Request.fn))
    BY <2>2, DecodedCause
  <2> QED BY <1>3, <1>4, <2>1, <2>3 DEF EstimateReverts
<1>5. CASE Resolve
  BY <1>3, <1>5 DEF Resolve, ConfigErrors
<1>6. CASE Pin
  BY <1>3, <1>6 DEF Pin, IPFSErrors
<1>7. CASE Broadcast \/ LoseReply \/ ExecuteFails
  BY <1>3, <1>7 DEF Broadcast, LoseReply, ExecuteFails
<1>8. CASE GetReceipt \/ ReceiptTimesOut \/ ReceiptFails
  BY <1>3, <1>8 DEF GetReceipt, ReceiptTimesOut, ReceiptFails
<1>9. CASE ReadFields \/ load \/ get_metadata \/ fetch_ipfs_json \/ get_confirmed_response \/ ReadFails
  <2>1. IsRead(call) /\ w' = w
    BY <1>0, <1>9 DEF ReadFields, load, get_metadata, fetch_ipfs_json, get_confirmed_response,
                      ReadFails, StageOK, Reading
  <2> QED BY <1>3, <2>1
<1>10. CASE UNCHANGED vars
  BY <1>3, <1>10 DEF vars
<1>11. CASE StrayLands
  <2>1. IsContractCall(Request)
    BY <1>0, <1>11, ProtocolAssumption, WriteIsContractCall DEF StrayLands, StageOK, SignerOK
  <2>2. CASE w' = w
    BY <1>3, <1>11, <2>2 DEF StrayLands
  <2>3. CASE w' = After(w, Request) /\ RevertReasons(w, Request) = {}
    <3>1. WinnersOK(w')
      BY <1>0, <2>1, <2>3, AfterKeepsWinners
    <3>2. WinnersOK(w)'
      BY <3>1 DEF WinnersOK, Confirmed, Answered, Tasks
    <3>3. \A e \in LastingCauses : CausesHold(e) => CausesHold(e)'
      BY <1>0, <1>b, <2>1, <2>3, StrayKeepsCause
    <3>4. pc' = pc /\ result' = result
      BY <1>11 DEF StrayLands
    <3>5. ASSUME ~IsRead(call), Done("raised"), result.value \in LastingCauses
          PROVE  CausesHold(result.value)'
      <4>1. PICK e \in LastingCauses : e = result.value
        BY <3>5
      <4>2. CausesHold(e)'
        BY <3>3, <3>5, <4>1
      <4> QED BY <3>4, <4>1, <4>2 DEF CausesHold
    <3> QED BY <1>a, <3>2, <3>4, <3>5 DEF IsRead
  <2> QED BY <1>11, <2>2, <2>3 DEF StrayLands
<1> QED BY <1>1, <1>2, <1>4, <1>5, <1>6, <1>7, <1>8, <1>9, <1>10, <1>11 DEF Next, CallStep, Ended

LEMMA CauseInvRaises == CauseInv => RaisesAsDocumented
BY DEF CauseInv, CausesHold, LastingCauses, RaisesAsDocumented

(* The invariants so far, together.                                        *)
LEMMA CallAlways == Spec => [](OutcomeInv /\ SignInv /\ WorldInv /\ CauseInv)
<1>1. Spec => []OutcomeInv
  BY OutcomeInit, OutcomeStep, PTL DEF Spec
<1>2. OutcomeInv => StageOK
  BY DEF OutcomeInv
<1>3. Spec => []SignInv
  BY <1>1, <1>2, SignInit, SignStep, PTL DEF Spec
<1>4. OwnInv => WorldInv
  BY DEF OwnInv
<1>5. Spec => []WorldInv
  BY <1>3, <1>4, OwnInit, OwnStep, PTL DEF Spec
<1> QED BY <1>1, <1>3, <1>5, CauseInit, CauseStep, PTL DEF Spec

(* An error that names a lasting cause names one that holds: the same      *)
(* revert text is told apart by the function called, a custom error or an  *)
(* unknown text claims nothing (decode_revert, _base.py 289-338).          *)
THEOREM CausesTrue == Spec => []RaisesAsDocumented
BY CallAlways, CauseInvRaises, PTL
-----------------------------------------------------------------------------
(* Reads.  While a read runs, a task's attempters stay in their places, an *)
(* answer stays, a confirmed one stays confirmed, and a winner stays.      *)
Later(task, next) ==
  /\ Len(task.attempters) <= Len(next.attempters)
  /\ \A i \in 1 .. Len(task.attempters) : next.attempters[i] = task.attempters[i]
  /\ DOMAIN task.answers \subseteq DOMAIN next.answers
  /\ \A p \in DOMAIN task.answers :
       task.answers[p] = "CONFIRMED" => next.answers[p] = "CONFIRMED"
  /\ task.winner # Nobody => next.winner = task.winner

TasksOK(v) == \A t \in Tasks(v) : TaskOK(v.tasks[t])
TasksGoOn(v, u) ==
  /\ TasksOK(u)
  /\ Tasks(v) \subseteq Tasks(u)
  /\ \A t \in Tasks(v) : Later(v.tasks[t], u.tasks[t])

LEMMA LaterReflexive ==
  ASSUME NEW task, TaskOK(task)
  PROVE  Later(task, task)
<1>1. Len(task.attempters) \in Nat
  BY LenProperties DEF TaskOK
<1> QED BY <1>1 DEF Later

LEMMA LaterTransitive ==
  ASSUME NEW a, NEW b, NEW c, TaskOK(a), TaskOK(b), TaskOK(c), Later(a, b), Later(b, c)
  PROVE  Later(a, c)
<1>1. Len(a.attempters) \in Nat /\ Len(b.attempters) \in Nat /\ Len(c.attempters) \in Nat
  BY LenProperties DEF TaskOK
<1>2. Len(a.attempters) <= Len(c.attempters)
  BY <1>1 DEF Later
<1>3. \A i \in 1 .. Len(a.attempters) : c.attempters[i] = a.attempters[i]
  BY <1>1 DEF Later
<1> QED BY <1>2, <1>3 DEF Later

LEMMA TasksGoOnFurther ==
  ASSUME NEW v, NEW u, NEW x, TasksOK(v), TasksGoOn(v, u), TasksGoOn(u, x)
  PROVE  TasksGoOn(v, x)
<1>1. \A t \in Tasks(v) : Later(v.tasks[t], x.tasks[t])
  BY LaterTransitive DEF TasksGoOn, TasksOK
<1> QED BY <1>1 DEF TasksGoOn

LEMMA TasksStay ==
  ASSUME NEW v, NEW u, TasksOK(v), u.tasks = v.tasks
  PROVE  TasksGoOn(v, u)
BY LaterReflexive DEF TasksGoOn, TasksOK, Tasks

LEMMA TaskGoesOn ==
  ASSUME NEW v, NEW u, TasksOK(v), NEW i, NEW e,
         i \in Tasks(v) => TaskOK(e) /\ Later(v.tasks[i], e),
         u.tasks = [v.tasks EXCEPT ![i] = e]
  PROVE  TasksGoOn(v, u)
<1>1. Tasks(u) = Tasks(v)
  BY DEF Tasks
<1>2. ASSUME NEW t \in Tasks(v) PROVE TaskOK(u.tasks[t]) /\ Later(v.tasks[t], u.tasks[t])
  <2>1. CASE t = i
    BY <2>1 DEF Tasks
  <2>2. CASE t # i
    BY <2>2, LaterReflexive DEF Tasks, TasksOK
  <2> QED BY <2>1, <2>2
<1> QED BY <1>1, <1>2 DEF TasksGoOn, TasksOK

LEMMA TaskJoins ==
  ASSUME NEW v, NEW u, Shaped(v), TasksOK(v), NEW new, TaskOK(new),
         u.tasks = Append(v.tasks, new)
  PROVE  TasksGoOn(v, u)
<1>1. v.tasks \in Seq(Range(v.tasks))
  BY DEF Shaped
<1>2. /\ u.tasks \in Seq(Range(u.tasks))
      /\ Len(u.tasks) = Len(v.tasks) + 1
      /\ \A i \in 1 .. Len(v.tasks) : u.tasks[i] = v.tasks[i]
      /\ u.tasks[Len(v.tasks) + 1] = new
  BY <1>1, AppendShaped
<1>3. Tasks(u) = 1 .. Len(u.tasks) /\ Tasks(v) = 1 .. Len(v.tasks) /\ Len(v.tasks) \in Nat
  BY <1>1, <1>2, LenProperties DEF Tasks
<1>4. ASSUME NEW t \in Tasks(u) PROVE TaskOK(u.tasks[t])
  <2>1. t \in 1 .. Len(v.tasks) \/ t = Len(v.tasks) + 1
    BY <1>2, <1>3
  <2> QED BY <1>2, <1>3, <2>1 DEF TasksOK
<1>5. \A t \in Tasks(v) : Later(v.tasks[t], u.tasks[t])
  BY <1>2, <1>3, LaterReflexive DEF TasksOK
<1>6. Tasks(v) \subseteq Tasks(u)
  BY <1>2, <1>3
<1> QED BY <1>4, <1>5, <1>6 DEF TasksGoOn, TasksOK

(* An attempter is an account, and there is one as soon as one is named.   *)
LEMMA AttempterIsAccount ==
  ASSUME NEW s \in Seq(Accounts), NEW p \in Range(s)
  PROVE  p \in Accounts /\ p # Nobody /\ s # <<>>
<1>1. DOMAIN s = 1 .. Len(s) /\ Len(s) \in Nat /\ s \in [1 .. Len(s) -> Accounts]
  BY LenProperties
<1>2. PICK i \in DOMAIN s : s[i] = p
  BY DEF Range
<1>3. p \in Accounts
  BY <1>1, <1>2
<1>4. s # <<>>
  BY <1>1, <1>2
<1> QED BY <1>3, <1>4, ContractsAssumption

(* Without a winner nothing is confirmed and the task is not over.         *)
LEMMA OpenTask ==
  ASSUME NEW task, TaskOK(task), WinnerOK(task), task.status # "FINALIZED"
  PROVE  task.winner = Nobody /\ \A p \in DOMAIN task.answers : task.answers[p] # "CONFIRMED"
BY DEF TaskOK, WinnerOK

LEMMA FinalizedGoesOn ==
  ASSUME NEW v, Shaped(v), TasksOK(v), NEW t \in Tasks(v), NEW p \in DOMAIN v.tasks[t].answers,
         v.tasks[t].winner = Nobody
  PROVE  TasksGoOn(v, Finalized(v, t, p))
<1> DEFINE u == Finalized(v, t, p)
           new == With(v.tasks[t].answers, p, "CONFIRMED")
           e == [v.tasks[t] EXCEPT !.status = "FINALIZED", !.winner = p, !.answers = new]
<1>1. u.tasks = [v.tasks EXCEPT ![t] = e]
  BY DEF Finalized, Shaped
<1>2. /\ e.answers = new /\ e.winner = p /\ e.status = "FINALIZED"
      /\ e.params = v.tasks[t].params /\ e.attempters = v.tasks[t].attempters
  BY DEF Shaped
<1>3. /\ DOMAIN new = DOMAIN v.tasks[t].answers
      /\ new[p] = "CONFIRMED"
      /\ \A q \in DOMAIN v.tasks[t].answers : q # p => new[q] = v.tasks[t].answers[q]
  BY DEF With
<1> HIDE DEF u, e, new
<1>4. TaskOK(v.tasks[t])
  BY DEF TasksOK
<1>5. p \in Range(v.tasks[t].attempters) /\ v.tasks[t].attempters \in Seq(Accounts)
  BY <1>4 DEF TaskOK
<1>6. p # Nobody /\ v.tasks[t].attempters # <<>>
  BY <1>5, AttempterIsAccount
<1>7. TaskOK(e)
  BY <1>2, <1>3, <1>4, <1>6 DEF TaskOK
<1>8. Later(v.tasks[t], e)
  <2>1. Len(v.tasks[t].attempters) \in Nat
    BY <1>5, LenProperties
  <2> QED BY <1>2, <1>3, <2>1 DEF Later
<1> QED BY <1>1, <1>7, <1>8, TaskGoesOn DEF u

LEMMA TaskWriteGoesOn ==
  ASSUME NEW v, Shaped(v), WinnersOK(v), TasksOK(v), NEW r, r.fn \in ContractFunctions.task,
         r.signer \in Accounts, AmountsOK(r), RevertReasons(v, r) = {}
  PROVE  TasksGoOn(v, AfterTaskWrite(v, r))
<1> DEFINE u == AfterTaskWrite(v, r)
           i == r.args.task
           p == r.args.provider
           task == v.tasks[i]
<1> USE DEF ContractFunctions
<1>0. {"sources", "tasks", "vault"} \subseteq DOMAIN v
  BY DEF Shaped
<1>a. \A reason \in Reasons : ~Applies(reason, v, r)
  BY DEF RevertReasons
<1>b. ~Applies("unmapped", v, r) /\ ~Applies("NotProvider", v, r) /\ ~Applies("AlreadyFinalized", v, r)
  BY <1>a DEF Reasons
<1>c. r.fn # "publishTask" => i \in Tasks(v)
  BY <1>b DEF Applies
<1>d. i \in Tasks(v) => /\ TaskOK(task) /\ WinnerOK(task) /\ DOMAIN task = TaskFields
                        /\ task.attempters \in Seq(Accounts) /\ Len(task.attempters) \in Nat
  <2>1. i \in Tasks(v) => TaskOK(task) /\ WinnerOK(task) /\ DOMAIN task = TaskFields
    BY WinnersByTask DEF TasksOK, Shaped, TaskFields
  <2>2. TaskOK(task) => task.attempters \in Seq(Accounts)
    BY DEF TaskOK
  <2> QED BY <2>1, <2>2, LenProperties
<1>1. CASE r.fn = "publishTask"
  <2> DEFINE new == NewTask(v, r.signer, r.args.params)
             x == [v EXCEPT !.tasks = Append(v.tasks, new)]
  <2>1. u = Moves(x, r.signer, r.args.params[4], "balance", "frozen")
    BY <1>1 DEF AfterTaskWrite
  <2>2. TaskOK(new)
    BY <1>1 DEF NewTask, TaskOK, AmountsOK
  <2>3. DOMAIN x = DOMAIN v /\ x.tasks = Append(v.tasks, new)
    BY <1>0
  <2> HIDE DEF x, new
  <2>4. u.tasks = Append(v.tasks, new)
    BY <1>0, <2>1, <2>3, MovesKeepsRest
  <2> QED BY <2>2, <2>4, TaskJoins
<1>2. CASE r.fn = "attempt" /\ task.expiry # "marks"
  <2> DEFINE came == IF p \in Range(task.attempters) THEN task.attempters
                     ELSE Append(task.attempters, p)
             e == [task EXCEPT !.attempters = came,
                               !.status = IF @ = "NEW" THEN "ATTEMPTED" ELSE @]
  <2>1. u = [v EXCEPT !.tasks[i] = e]
    BY <1>2 DEF AfterTaskWrite
  <2>2. /\ e.answers = task.answers /\ e.winner = task.winner /\ e.params = task.params
        /\ e.attempters = came /\ (e.status = "FINALIZED" => task.status = "FINALIZED")
    BY <1>2, <1>c, <1>d DEF TaskFields
  <2>3. p \in Accounts
    <3>1. Represents(v, r.signer, p)
      BY <1>2, <1>b DEF Applies
    <3> QED BY <3>1 DEF Represents
  <2>4. /\ came \in Seq(Accounts) /\ came # <<>>
        /\ Len(task.attempters) <= Len(came)
        /\ \A k \in 1 .. Len(task.attempters) : came[k] = task.attempters[k]
        /\ Range(task.attempters) \subseteq Range(came)
    <3>1. CASE p \in Range(task.attempters)
      BY <1>2, <1>c, <1>d, <3>1, AttempterIsAccount
    <3>2. CASE p \notin Range(task.attempters)
      <4>0. task.attempters \in Seq(Accounts) /\ Len(task.attempters) \in Nat
        BY <1>2, <1>c, <1>d
      <4>1. /\ came \in Seq(Accounts) /\ Len(came) = Len(task.attempters) + 1
            /\ \A k \in 1 .. Len(task.attempters) : came[k] = task.attempters[k]
        BY <2>3, <3>2, <4>0, AppendProperties
      <4>2. DOMAIN came = 1 .. Len(came) /\ DOMAIN task.attempters = 1 .. Len(task.attempters)
        BY <4>0, <4>1, LenProperties
      <4> HIDE DEF came
      <4>3. Range(task.attempters) \subseteq Range(came)
        <5>1. DOMAIN task.attempters \subseteq DOMAIN came
          <6>1. Len(came) = Len(task.attempters) + 1 /\ Len(task.attempters) \in Nat
            BY <4>0, <4>1
          <6> DEFINE Within(m, n) == 1 .. m \subseteq 1 .. n
          <6>2. \A m, n : m \in Nat /\ n = m + 1 => Within(m, n)
            OBVIOUS
          <6> HIDE DEF Within
          <6>3. Within(Len(task.attempters), Len(came))
            BY <6>1, <6>2, Zenon
          <6>4. 1 .. Len(task.attempters) \subseteq 1 .. Len(came)
            BY <6>3 DEF Within
          <6> QED BY <4>2, <6>4
        <5> QED BY <4>1, <4>2, <5>1 DEF Range
      <4>4. came # <<>> /\ Len(task.attempters) <= Len(came)
        <5>1. Len(came) = Len(task.attempters) + 1 /\ Len(task.attempters) \in Nat
          BY <4>0, <4>1
        <5>2. \A a, b : b \in Nat /\ a = b + 1 => a # 0 /\ b <= a
          OBVIOUS
        <5>3. Len(came) # 0 /\ Len(task.attempters) <= Len(came)
          BY <5>1, <5>2, Zenon
        <5> QED BY <5>3
      <4> QED BY <4>1, <4>3, <4>4
    <3> QED BY <3>1, <3>2
  <2> HIDE DEF e, came
  <2>5. u.tasks = [v.tasks EXCEPT ![i] = e]
    BY <1>0, <2>1
  <2>6. TaskOK(task)
    BY <1>2, <1>c, <1>d
  <2>7. TaskOK(e)
    BY <2>2, <2>4, <2>6 DEF TaskOK
  <2>8. Later(task, e)
    BY <2>2, <2>4 DEF Later
  <2> QED BY <2>5, <2>7, <2>8, TaskGoesOn
<1>3. CASE r.fn = "confirmResponse"
  <2>1. Answered(v, i, p) /\ task.status \notin Closed
    BY <1>3, <1>b DEF Applies
  <2>2. task.winner = Nobody
    BY <1>3, <1>c, <1>d, <2>1, OpenTask DEF Closed, TaskStatuses
  <2> QED BY <1>3, <2>1, <2>2, FinalizedGoesOn DEF AfterTaskWrite, Answered
<1>4. CASE r.fn = "cancelTask"
  <2> DEFINE e == [task EXCEPT !.status = "CANCELED"]
             x == [v EXCEPT !.tasks[i].status = "CANCELED"]
  <2>1. u = Moves(x, task.client, task.params[4], "frozen", "balance")
    BY <1>4 DEF AfterTaskWrite
  <2>2. /\ e.answers = task.answers /\ e.winner = task.winner /\ e.params = task.params
        /\ e.attempters = task.attempters /\ e.status = "CANCELED"
    BY <1>4, <1>c, <1>d DEF TaskFields
  <2>3. DOMAIN x = DOMAIN v /\ x.tasks = [v.tasks EXCEPT ![i] = e]
    BY <1>0
  <2> HIDE DEF e, x
  <2>4. u.tasks = [v.tasks EXCEPT ![i] = e]
    BY <1>0, <2>1, <2>3, MovesKeepsRest
  <2>5. TaskOK(task)
    BY <1>4, <1>c, <1>d
  <2>6. TaskOK(e)
    BY <2>2, <2>5 DEF TaskOK
  <2>7. Later(task, e)
    <3>1. Len(task.attempters) \in Nat
      BY <1>4, <1>c, <1>d
    <3>2. Len(task.attempters) <= Len(e.attempters) /\ DOMAIN task.answers \subseteq DOMAIN e.answers
      BY <2>2, <3>1
    <3> QED BY <2>2, <3>2 DEF Later
  <2> QED BY <2>4, <2>6, <2>7, TaskGoesOn
<1>5. CASE r.fn = "submitResponse"
  <2> DEFINE new == With(task.answers, p, "SUBMITTED")
             e == [task EXCEPT !.answers = new, !.status = "RESPONDED"]
             x == [v EXCEPT !.tasks[i] = e]
  <2>1. u = IF task.delivery = "FIRST_RESPONSE" THEN Finalized(x, i, p) ELSE x
    BY <1>5 DEF AfterTaskWrite
  <2>2. i \in Tasks(v)
    BY <1>5, <1>c
  <2>3. ~Answered(v, i, p) /\ task.status \notin Closed /\ p \in Range(task.attempters)
    BY <1>5, <1>b DEF Applies, Attempters
  <2>4. p \notin DOMAIN task.answers /\ task.winner = Nobody
    BY <1>d, <2>2, <2>3, OpenTask DEF Closed, TaskStatuses, Answered
  <2>5. /\ e.answers = new /\ e.status = "RESPONDED" /\ e.winner = task.winner
        /\ e.params = task.params /\ e.attempters = task.attempters
        /\ e.client = task.client /\ DOMAIN e = DOMAIN task
    BY <1>d, <2>2 DEF TaskFields
  <2>6. /\ DOMAIN new = DOMAIN task.answers \cup {p}
        /\ \A q \in DOMAIN task.answers : new[q] = task.answers[q]
    BY <2>4 DEF With
  <2>7. DOMAIN x = DOMAIN v /\ x.sources = v.sources /\ x.tasks = [v.tasks EXCEPT ![i] = e]
    BY <1>0
  <2> HIDE DEF e, x, new
  <2>8. TaskOK(task) /\ task.attempters # <<>>
    BY <1>d, <2>2, <2>3, AttempterIsAccount
  <2>9. TaskOK(e)
    BY <2>3, <2>4, <2>5, <2>6, <2>8 DEF TaskOK
  <2>10. Later(task, e)
    <3>1. Len(task.attempters) \in Nat
      BY <1>d, <2>2
    <3>2. \A k \in 1 .. Len(task.attempters) : e.attempters[k] = task.attempters[k]
      BY <2>5
    <3>3. Len(task.attempters) <= Len(e.attempters)
      BY <2>5, <3>1
    <3>4. DOMAIN task.answers \subseteq DOMAIN e.answers
      BY <2>5, <2>6
    <3>5. \A q \in DOMAIN task.answers : e.answers[q] = task.answers[q]
      BY <2>5, <2>6
    <3> QED BY <2>4, <3>2, <3>3, <3>4, <3>5 DEF Later
  <2>11. TasksGoOn(v, x)
    BY <2>7, <2>9, <2>10, TaskGoesOn
  <2>12. Shaped(x)
    <3>1. Grows(v, x)
      BY <2>5, <2>7, TaskStepGrows
    <3> QED BY <3>1 DEF Grows
  <2>13. i \in Tasks(x) /\ x.tasks[i] = e
    BY <2>2, <2>7 DEF Tasks
  <2>14. TasksGoOn(x, Finalized(x, i, p))
    <3>1. x.tasks[i].winner = Nobody /\ p \in DOMAIN x.tasks[i].answers
      BY <2>4, <2>5, <2>6, <2>13
    <3> QED BY <2>11, <2>12, <2>13, <3>1, FinalizedGoesOn DEF TasksGoOn
  <2> QED BY <2>1, <2>11, <2>14, TasksGoOnFurther
<1>6. CASE r.fn = "attempt" /\ task.expiry = "marks"
  <2> DEFINE e == [task EXCEPT !.status = "EXPIRED"]
  <2>1. u.tasks = [v.tasks EXCEPT ![i] = e]
    BY <1>0, <1>6 DEF AfterTaskWrite
  <2>2. /\ e.answers = task.answers /\ e.winner = task.winner /\ e.params = task.params
        /\ e.attempters = task.attempters /\ e.status = "EXPIRED"
    BY <1>6, <1>c, <1>d DEF TaskFields
  <2> HIDE DEF e
  <2>3. TaskOK(task)
    BY <1>6, <1>c, <1>d
  <2>4. TaskOK(e)
    BY <2>2, <2>3 DEF TaskOK
  <2>5. Later(task, e)
    BY <2>2, <2>3, LaterReflexive DEF Later
  <2> QED BY <2>1, <2>4, <2>5, TaskGoesOn
<1> QED BY <1>1, <1>2, <1>3, <1>4, <1>5, <1>6

(* Only calls on the task contracts and the passing of time change tasks.  *)
LEMMA AfterGoesOn ==
  ASSUME NEW v, Shaped(v), WinnersOK(v), TasksOK(v), NEW r, IsContractCall(r),
         r.signer \in Accounts, AmountsOK(r), RevertReasons(v, r) = {}
  PROVE  TasksGoOn(v, After(v, r))
<1> DEFINE u == After(v, r)
<1>0. {"sources", "tasks", "vault", "ripe"} \subseteq DOMAIN v
  BY DEF Shaped
<1> USE DEF IsContractCall, ContractFunctions
<1>1. CASE r.on = "task"
  BY <1>1, TaskWriteGoesOn DEF After
<1>2. CASE r.on = "source"
  <2>1. u.tasks = v.tasks
    BY <1>0, <1>2 DEF After, AfterSourceWrite
  <2> QED BY <2>1, TasksStay
<1>3. CASE r.on = "vault"
  <2>0. u = AfterVaultWrite(v, r)
    BY <1>3 DEF After
  <2>1. CASE r.fn \in {"deposit", "withdraw"}
    BY <1>0, <2>0, <2>1, TasksStay DEF AfterVaultWrite
  <2>2. CASE r.fn \in {"lock", "cancelUnbonding", "claim"}
    BY <1>0, <2>0, <2>2, TasksStay DEF AfterVaultWrite, Moves
  <2>3. CASE r.fn = "unbond"
    BY <1>0, <2>0, <2>3, TasksStay DEF AfterVaultWrite, Moves
  <2> QED BY <1>3, <2>1, <2>2, <2>3
<1>4. CASE r.on = "terminal"
  <2>1. u.tasks = v.tasks
    BY <1>0, <1>4 DEF After, AfterTerminalWrite
  <2> QED BY <2>1, TasksStay
<1> QED BY <1>1, <1>2, <1>3, <1>4

LEMMA TimeGoesOn ==
  ASSUME NEW v, Shaped(v), TasksOK(v), NEW u \in TimePasses(v)
  PROVE  TasksGoOn(v, u) /\ u.vault = v.vault
<1>0. {"sources", "tasks", "vault", "ripe"} \subseteq DOMAIN v
  BY DEF Shaped
<1>1. ASSUME NEW t \in Tasks(v), NEW x, u = [v EXCEPT !.tasks[t].expiry = x]
      PROVE  TasksGoOn(v, u) /\ u.vault = v.vault
  <2> DEFINE e == [v.tasks[t] EXCEPT !.expiry = x]
  <2>1. u.tasks = [v.tasks EXCEPT ![t] = e] /\ u.vault = v.vault
    BY <1>0, <1>1
  <2>2. /\ e.answers = v.tasks[t].answers /\ e.winner = v.tasks[t].winner
        /\ e.status = v.tasks[t].status /\ e.params = v.tasks[t].params
        /\ e.attempters = v.tasks[t].attempters
    BY DEF Shaped
  <2> HIDE DEF e
  <2>3. TaskOK(v.tasks[t])
    BY DEF TasksOK
  <2>4. TaskOK(e)
    BY <2>2, <2>3 DEF TaskOK
  <2>5. Later(v.tasks[t], e)
    BY <2>2, <2>3, LaterReflexive DEF Later
  <2> QED BY <2>1, <2>4, <2>5, TaskGoesOn
<1>2. ASSUME NEW x, u = [v EXCEPT !.ripe = @ \cup {x}] PROVE TasksGoOn(v, u) /\ u.vault = v.vault
  BY <1>0, <1>2, TasksStay
<1>3. CASE \E t \in Tasks(v) : \E x : u = [v EXCEPT !.tasks[t].expiry = x]
  BY <1>1, <1>3
<1>4. CASE \E x : u = [v EXCEPT !.ripe = @ \cup {x}]
  BY <1>2, <1>4
<1>5. u \in TimePasses(v)
  OBVIOUS
<1> QED BY ONLY <1>3, <1>4, <1>5, TimeSteps

(* Money moves forward, from balance over lockup to unbonding, or comes in.*)
PurseParts == {"balance", "lockup", "unbonding", "frozen"}
Forward(a, b) ==
  /\ Held(a) <= Held(b)
  /\ a.lockup + a.unbonding <= b.lockup + b.unbonding
  /\ a.unbonding <= b.unbonding
MoneyTyped(v) == v.vault \in [Accounts -> Purses]
MoneyForward(v, u) ==
  MoneyTyped(u) /\ \A x \in Accounts : Forward(v.vault[x], u.vault[x])

LEMMA ForwardReflexive ==
  ASSUME NEW a \in Purses
  PROVE  Forward(a, a)
<1>1. a.balance \in Int /\ a.lockup \in Int /\ a.unbonding \in Int
  BY DEF Purses
<1> QED BY <1>1 DEF Forward, Held

LEMMA MoneyStays ==
  ASSUME NEW v, NEW u, MoneyTyped(v), u.vault = v.vault
  PROVE  MoneyForward(v, u)
BY ForwardReflexive DEF MoneyForward, MoneyTyped

(* One purse is rewritten.                                                 *)
LEMMA PurseRewritten ==
  ASSUME NEW v, NEW u, MoneyTyped(v), NEW x, NEW purse,
         x \in Accounts => purse \in Purses /\ Forward(v.vault[x], purse),
         u.vault = [v.vault EXCEPT ![x] = purse]
  PROVE  MoneyForward(v, u)
<1>1. MoneyTyped(u)
  BY DEF MoneyTyped
<1>2. ASSUME NEW y \in Accounts PROVE Forward(v.vault[y], u.vault[y])
  <2>1. CASE y = x
    BY <2>1 DEF MoneyTyped
  <2>2. CASE y # x
    <3>1. u.vault[y] = v.vault[y] /\ v.vault[y] \in Purses
      BY <2>2 DEF MoneyTyped
    <3> QED BY <3>1, ForwardReflexive
  <2> QED BY <2>1, <2>2
<1> QED BY <1>1, <1>2 DEF MoneyForward

LEMMA MoneyFurther ==
  ASSUME NEW v, NEW u, NEW x, MoneyTyped(v), MoneyForward(v, u), MoneyForward(u, x)
  PROVE  MoneyForward(v, x)
<1>1. ASSUME NEW y \in Accounts PROVE Forward(v.vault[y], x.vault[y])
  <2>1. v.vault[y] \in Purses /\ u.vault[y] \in Purses /\ x.vault[y] \in Purses
    BY DEF MoneyForward, MoneyTyped
  <2>2. Forward(v.vault[y], u.vault[y]) /\ Forward(u.vault[y], x.vault[y])
    BY DEF MoneyForward
  <2> HIDE DEF Forward
  <2>3. \A a, b, c \in Purses : Forward(a, b) /\ Forward(b, c) => Forward(a, c)
    <3>1. \A a \in Purses : a.balance \in Int /\ a.lockup \in Int /\ a.unbonding \in Int
      BY DEF Purses
    <3> QED BY <3>1 DEF Forward, Held
  <2> QED BY <2>1, <2>2, <2>3
<1> QED BY <1>1 DEF MoneyForward

(* A purse that gets something, and one in which something moves on.       *)
LEMMA PurseGets ==
  ASSUME NEW a \in Purses, NEW part \in PurseParts, NEW n \in Nat
  PROVE  LET b == [a EXCEPT ![part] = a[part] + n] IN b \in Purses /\ Forward(a, b)
<1> DEFINE b == [a EXCEPT ![part] = a[part] + n]
<1>1. a.balance \in Int /\ a.lockup \in Int /\ a.unbonding \in Int /\ a[part] \in Int
  BY DEF Purses, PurseParts
<1>2. b \in Purses
  BY <1>1 DEF Purses, PurseParts
<1>3. \A f \in PurseParts : b[f] = IF f = part THEN a[f] + n ELSE a[f]
  BY DEF Purses, PurseParts
<1> HIDE DEF b
<1>4. Forward(a, b)
  BY <1>1, <1>3 DEF Forward, Held, PurseParts
<1> QED BY <1>2, <1>4 DEF b

LEMMA FrozenChanges ==
  ASSUME NEW a \in Purses, NEW n \in Int
  PROVE  LET b == [a EXCEPT !.frozen = a.frozen + n] IN b \in Purses /\ Forward(a, b)
<1> DEFINE b == [a EXCEPT !.frozen = a.frozen + n]
<1>1. a.balance \in Int /\ a.lockup \in Int /\ a.unbonding \in Int /\ a.frozen \in Int
  BY DEF Purses
<1>2. b \in Purses
  BY <1>1 DEF Purses
<1>3. b.balance = a.balance /\ b.lockup = a.lockup /\ b.unbonding = a.unbonding
  BY DEF Purses
<1> HIDE DEF b
<1>4. Forward(a, b)
  BY <1>1, <1>3 DEF Forward, Held
<1> QED BY <1>2, <1>4 DEF b

Onwards == {<<"balance", "lockup">>, <<"lockup", "unbonding">>, <<"frozen", "balance">>}

LEMMA MovesForward ==
  ASSUME NEW v, "vault" \in DOMAIN v, MoneyTyped(v), NEW x, NEW n \in Nat, NEW from, NEW to,
         <<from, to>> \in Onwards
  PROVE  MoneyForward(v, Moves(v, x, n, from, to))
<1> DEFINE a == v.vault[x]
           b == [a EXCEPT ![from] = @ - n, ![to] = @ + n]
           u == Moves(v, x, n, from, to)
<1>1. u.vault = [v.vault EXCEPT ![x] = b]
  BY DEF Moves
<1>2. from \in PurseParts /\ to \in PurseParts /\ from # to
  BY DEF Onwards, PurseParts
<1>3. ASSUME x \in Accounts PROVE b \in Purses /\ Forward(a, b)
  <2>1. a \in Purses
    BY <1>3 DEF MoneyTyped
  <2>2. /\ a.balance \in Int /\ a.lockup \in Int /\ a.unbonding \in Int /\ a.frozen \in Int
        /\ a[from] \in Int /\ a[to] \in Int
    BY <1>2, <2>1 DEF Purses, PurseParts
  <2>3. b \in Purses
    BY <1>2, <2>1, <2>2 DEF Purses, PurseParts
  <2>4. \A f \in PurseParts :
          b[f] = IF f = to THEN a[f] + n ELSE IF f = from THEN a[f] - n ELSE a[f]
    BY <1>2, <2>1 DEF Purses, PurseParts
  <2>a. b.balance = IF to = "balance" THEN a.balance + n
                    ELSE IF from = "balance" THEN a.balance - n ELSE a.balance
    BY <2>4 DEF PurseParts
  <2>b. b.lockup = IF to = "lockup" THEN a.lockup + n
                   ELSE IF from = "lockup" THEN a.lockup - n ELSE a.lockup
    BY <2>4 DEF PurseParts
  <2>c. b.unbonding = IF to = "unbonding" THEN a.unbonding + n
                      ELSE IF from = "unbonding" THEN a.unbonding - n ELSE a.unbonding
    BY <2>4 DEF PurseParts
  <2> HIDE DEF a, b
  <2>5. CASE from = "balance" /\ to = "lockup"
    BY <2>2, <2>3, <2>a, <2>b, <2>c, <2>5 DEF Forward, Held
  <2>6. CASE from = "lockup" /\ to = "unbonding"
    BY <2>2, <2>3, <2>a, <2>b, <2>c, <2>6 DEF Forward, Held
  <2>7. CASE from = "frozen" /\ to = "balance"
    BY <2>2, <2>3, <2>a, <2>b, <2>c, <2>7 DEF Forward, Held
  <2> QED BY <2>3, <2>5, <2>6, <2>7 DEF Onwards
<1> HIDE DEF b, u
<1> QED BY <1>1, <1>3, PurseRewritten DEF u

LEMMA FinalizedForward ==
  ASSUME NEW v, {"tasks", "vault"} \subseteq DOMAIN v, MoneyTyped(v), NEW t, NEW p,
         v.tasks[t].params[4] \in Nat
  PROVE  MoneyForward(v, Finalized(v, t, p))
<1> DEFINE c == v.tasks[t].client
           pay == v.tasks[t].params[4]
           mid == [v.vault EXCEPT ![c] = [v.vault[c] EXCEPT !.frozen = v.vault[c].frozen + (-pay)]]
           end == [mid EXCEPT ![p] = [mid[p] EXCEPT !["balance"] = mid[p]["balance"] + pay]]
           x == [v EXCEPT !.vault = mid]
           u == Finalized(v, t, p)
<1>1. u.vault = end
  <2>1. u.vault = [[v.vault EXCEPT ![c].frozen = v.vault[c].frozen - pay] EXCEPT ![p].balance = @ + pay]
    BY DEF Finalized
  <2>2. ASSUME c \in Accounts PROVE v.vault[c].frozen - pay = v.vault[c].frozen + (-pay)
    BY <2>2 DEF MoneyTyped, Purses
  <2>3. [v.vault EXCEPT ![c].frozen = v.vault[c].frozen - pay] = mid
    BY <2>2 DEF MoneyTyped
  <2> QED BY <2>1, <2>3
<1>2. x.vault = mid
  OBVIOUS
<1>3. MoneyForward(v, x)
  <2>1. c \in Accounts => v.vault[c] \in Purses /\ -pay \in Int
    BY DEF MoneyTyped
  <2> DEFINE purse == [v.vault[c] EXCEPT !.frozen = v.vault[c].frozen + (-pay)]
  <2>2. c \in Accounts => purse \in Purses /\ Forward(v.vault[c], purse)
    BY <2>1, FrozenChanges
  <2>3. x.vault = [v.vault EXCEPT ![c] = purse]
    BY <1>2
  <2> HIDE DEF purse, x
  <2> QED BY <2>2, <2>3, PurseRewritten
<1>4. MoneyForward(x, u)
  <2>1. p \in Accounts => mid[p] \in Purses
    BY <1>2, <1>3 DEF MoneyForward, MoneyTyped
  <2> DEFINE purse == [mid[p] EXCEPT !["balance"] = mid[p]["balance"] + pay]
  <2>2. p \in Accounts => purse \in Purses /\ Forward(mid[p], purse)
    BY <2>1, PurseGets DEF PurseParts
  <2>3. u.vault = [mid EXCEPT ![p] = purse]
    BY <1>1
  <2> HIDE DEF purse, x, u, mid
  <2>4. MoneyTyped(x)
    BY <1>3 DEF MoneyForward
  <2> QED BY <1>2, <2>2, <2>3, <2>4, PurseRewritten
<1> HIDE DEF x, u
<1> QED BY <1>3, <1>4, MoneyFurther DEF u

(* What others may do without taking money out or back.                    *)
LEMMA AfterForward ==
  ASSUME NEW v, Shaped(v), TasksOK(v), MoneyTyped(v), NEW r, IsContractCall(r), AmountsOK(r),
         RevertReasons(v, r) = {}, r.fn \notin Backwards
  PROVE  MoneyForward(v, After(v, r))
<1> DEFINE u == After(v, r)
           i == r.args.task
           p == r.args.provider
           task == v.tasks[i]
<1>0. {"sources", "tasks", "vault", "ripe", "claimed"} \subseteq DOMAIN v
  BY DEF Shaped
<1>a. ~Applies("unmapped", v, r)
  BY DEF RevertReasons, Reasons
<1> USE DEF IsContractCall, ContractFunctions
<1>1. CASE r.on = "source"
  <2>1. u.vault = v.vault
    BY <1>0, <1>1 DEF After, AfterSourceWrite
  <2> QED BY <2>1, MoneyStays
<1>2. CASE r.on = "task"
  <2>0. u = AfterTaskWrite(v, r)
    BY <1>2 DEF After
  <2>1. r.fn \in {"attempt", "confirmResponse", "cancelTask", "submitResponse"}
    BY <1>2 DEF Backwards
  <2>2. i \in Tasks(v)
    BY <1>a, <2>1 DEF Applies
  <2>3. task.params[4] \in Nat /\ DOMAIN task = TaskFields
    BY <2>2 DEF TasksOK, TaskOK, Shaped, TaskFields
  <2>4. CASE r.fn = "attempt"
    <3>1. u.vault = v.vault
      BY <1>0, <2>0, <2>4 DEF AfterTaskWrite
    <3> QED BY <3>1, MoneyStays
  <2>5. CASE r.fn = "confirmResponse"
    BY <1>0, <2>0, <2>3, <2>5, FinalizedForward DEF AfterTaskWrite
  <2>6. CASE r.fn = "cancelTask"
    <3> DEFINE x == [v EXCEPT !.tasks[i].status = "CANCELED"]
    <3>1. u = Moves(x, task.client, task.params[4], "frozen", "balance")
      BY <2>0, <2>6 DEF AfterTaskWrite
    <3>2. x.vault = v.vault /\ "vault" \in DOMAIN x
      BY <1>0
    <3> HIDE DEF x, u
    <3>3. MoneyForward(x, u)
      BY <2>3, <3>1, <3>2, MovesForward, SMTT(30) DEF MoneyTyped, Onwards
    <3> QED BY <3>2, <3>3 DEF MoneyForward, u
  <2>7. CASE r.fn = "submitResponse"
    <3> DEFINE e == [task EXCEPT !.answers = With(@, p, "SUBMITTED"), !.status = "RESPONDED"]
               x == [v EXCEPT !.tasks[i] = e]
    <3>1. u = IF task.delivery = "FIRST_RESPONSE" THEN Finalized(x, i, p) ELSE x
      BY <2>0, <2>7 DEF AfterTaskWrite
    <3>2. e.params = task.params
      OBVIOUS
    <3> HIDE DEF e
    <3>3. x.vault = v.vault /\ {"tasks", "vault"} \subseteq DOMAIN x /\ x.tasks[i].params = task.params
      BY <1>0, <2>2, <3>2 DEF Tasks
    <3> HIDE DEF x, u
    <3>4. MoneyTyped(x)
      BY <3>3 DEF MoneyTyped
    <3>5. MoneyForward(x, Finalized(x, i, p))
      BY <2>3, <3>3, <3>4, FinalizedForward
    <3>6. MoneyForward(v, Finalized(x, i, p))
      BY <3>3, <3>5 DEF MoneyForward
    <3>7. MoneyForward(v, x)
      BY <3>3, MoneyStays
    <3> QED BY <3>1, <3>6, <3>7 DEF u
  <2> QED BY <2>1, <2>4, <2>5, <2>6, <2>7
<1>3. CASE r.on = "vault"
  <2>0. u = AfterVaultWrite(v, r)
    BY <1>3 DEF After
  <2>1. CASE r.fn = "deposit"
    <3> DEFINE x == r.args.account
               purse == [v.vault[x] EXCEPT !["balance"] = v.vault[x]["balance"] + r.value]
    <3>1. u.vault = [v.vault EXCEPT ![x] = purse]
      BY <1>0, <2>0, <2>1 DEF AfterVaultWrite
    <3>2. x \in Accounts => v.vault[x] \in Purses
      BY DEF MoneyTyped
    <3>3. x \in Accounts => purse \in Purses /\ Forward(v.vault[x], purse)
      BY <3>2, PurseGets DEF PurseParts, AmountsOK
    <3> HIDE DEF purse, u, i, p, task
    <3>4. MoneyForward(v, u)
      BY <3>1, <3>3, PurseRewritten, SMTT(30)
    <3> QED BY <3>4 DEF u
  <2>2. CASE r.fn = "lock"
    <3>1. u = Moves(v, r.signer, r.args.amount, "balance", "lockup")
      BY <2>0, <2>2 DEF AfterVaultWrite
    <3> HIDE DEF u
    <3> QED BY <1>0, <2>2, <3>1, MovesForward DEF AmountsOK, Onwards, u
  <2>3. CASE r.fn = "unbond"
    <3> DEFINE x == Moves(v, r.signer, r.args.amount, "lockup", "unbonding")
    <3>1. u = [x EXCEPT !.ripe = @ \ {r.signer}]
      BY <2>0, <2>3 DEF AfterVaultWrite
    <3>2. MoneyForward(v, x)
      BY <1>0, <2>3, MovesForward DEF AmountsOK, Onwards
    <3>3. DOMAIN x = DOMAIN v
      BY DEF Moves
    <3> HIDE DEF x
    <3>4. u.vault = x.vault
      BY <1>0, <3>1, <3>3
    <3> QED BY <3>2, <3>4 DEF MoneyForward, MoneyTyped
  <2> QED BY <1>3, <2>1, <2>2, <2>3 DEF Backwards
<1>4. CASE r.on = "terminal"
  <2>0. u = AfterTerminalWrite(v, r)
    BY <1>4 DEF After
  <2>1. CASE r.fn = "announceProvider"
    <3> DEFINE purse == [v.vault[p] EXCEPT !["lockup"] = v.vault[p]["lockup"] + r.value]
    <3>1. u.vault = [v.vault EXCEPT ![p] = purse]
      BY <1>0, <2>0, <2>1 DEF AfterTerminalWrite
    <3>2. p \in Accounts => v.vault[p] \in Purses
      BY DEF MoneyTyped
    <3>3. p \in Accounts => purse \in Purses /\ Forward(v.vault[p], purse)
      BY <3>2, PurseGets DEF PurseParts, AmountsOK
    <3> HIDE DEF purse, u, i, p, task
    <3>4. MoneyForward(v, u)
      BY <3>1, <3>3, PurseRewritten, SMTT(30)
    <3> QED BY <3>4 DEF u
  <2>2. CASE r.fn # "announceProvider"
    <3>1. u.vault = v.vault
      BY <1>0, <1>4, <2>0, <2>2 DEF AfterTerminalWrite
    <3> QED BY <3>1, MoneyStays
  <2> QED BY <2>1, <2>2
<1> QED BY <1>1, <1>2, <1>3, <1>4

LEMMA OthersGoOn ==
  ASSUME OthersMove, Shaped(w), WinnersOK(w), TasksOK(w)
  PROVE  /\ TasksGoOn(w, w')
         /\ ~recalled' => ~recalled /\ (MoneyTyped(w) => MoneyForward(w, w'))
<1>1. ASSUME NEW r \in Others, RevertReasons(w, r) = {}, w' = After(w, r),
             recalled' = (recalled \/ r.fn \in Backwards)
      PROVE  /\ TasksGoOn(w, w')
             /\ ~recalled' => ~recalled /\ (MoneyTyped(w) => MoneyForward(w, w'))
  <2>1. IsContractCall(r) /\ r.signer \in Accounts /\ AmountsOK(r)
    BY ProtocolAssumption
  <2> QED BY <1>1, <2>1, AfterGoesOn, AfterForward
<1>2. ASSUME w' \in TimePasses(w), UNCHANGED recalled
      PROVE  /\ TasksGoOn(w, w')
             /\ ~recalled' => ~recalled /\ (MoneyTyped(w) => MoneyForward(w, w'))
  BY <1>2, TimeGoesOn, MoneyStays
<1> QED BY <1>1, <1>2 DEF OthersMove

(* What a read may rely on: its task or response is there since it began,  *)
(* and no money has gone out of the reader's sight.                        *)
ReadWorldInv ==
  IsRead(call) =>
    /\ TasksOK(atCall) /\ TasksGoOn(atCall, w)
    /\ MoneyTyped(atCall) /\ (~recalled => MoneyForward(atCall, w))
    /\ call.of \in {"Provider", "Master"} => call.self \in Accounts
    /\ call.name # "load" =>
         /\ call.of = "Task" => call.self \in Tasks(atCall)
         /\ call.of = "Response" => Answered(atCall, call.self[1], call.self[2])

LEMMA ReadWorldInit == Init => ReadWorldInv
<1> SUFFICES ASSUME Init, IsRead(call) PROVE ReadWorldInv
  BY DEF ReadWorldInv
<1>1. w \in Starts /\ atCall = w /\ call \in Calls
  BY DEF Init
<1>2. TasksOK(w) /\ MoneyTyped(w)
  BY <1>1, ProtocolAssumption DEF WorldOK, TasksOK, MoneyTyped
<1>3. call.of \in {"Provider", "Master"} => call.self \in Accounts
  BY <1>1, ProtocolAssumption
<1>4. call.name # "load" /\ call.of \in {"Task", "Response"} => Exists(call.of, w, call.self)
  BY DEF Init, ToItself, IsRead, ReadMethods
<1> QED BY <1>1, <1>2, <1>3, <1>4, TasksStay, MoneyStays DEF ReadWorldInv, Exists

(* Where a read can be, and what its steps leave alone.                    *)
LEMMA ReadSteps ==
  ASSUME IsRead(call), StageOK, [Next]_vars
  PROVE  /\ call' = call /\ atCall' = atCall
         /\ OthersMove \/ (w' = w /\ recalled' = recalled)
         /\ \/ ReadFields \/ load \/ get_metadata \/ fetch_ipfs_json
            \/ get_confirmed_response \/ ReadFails \/ OthersMove \/ UNCHANGED vars
<1>1. pc \in Reading \cup {"done"} /\ tx = "none" /\ strays = 0
  BY DEF StageOK
<1>2. ~(Resolve \/ Pin \/ Broadcast \/ LoseReply \/ EstimateReverts \/ ExecuteFails \/ GetReceipt
        \/ ReceiptTimesOut \/ ReceiptFails \/ Land \/ StrayLands)
  BY <1>1 DEF Reading, Resolve, Pin, Broadcast, LoseReply, EstimateReverts, ExecuteFails, GetReceipt,
              ReceiptTimesOut, ReceiptFails, Land, StrayLands
<1>3. \/ ReadFields \/ load \/ get_metadata \/ fetch_ipfs_json
      \/ get_confirmed_response \/ ReadFails \/ OthersMove \/ UNCHANGED vars
  BY <1>2, Zenon DEF Next, CallStep, Ended
<1> QED BY <1>3 DEF ReadFields, load, get_metadata, fetch_ipfs_json, get_confirmed_response,
                    ReadFails, OthersMove, vars

LEMMA ReadWorldStep ==
  ASSUME ReadWorldInv, Shaped(w), WinnersOK(w), StageOK, [Next]_vars
  PROVE  ReadWorldInv'
<1>1. CASE call' = call /\ ~IsRead(call)
  BY <1>1 DEF ReadWorldInv, IsRead
<1>2. CASE IsRead(call)
  <2>1. /\ call' = call /\ atCall' = atCall
        /\ OthersMove \/ (w' = w /\ recalled' = recalled)
    BY <1>2, ReadSteps
  <2>2. /\ TasksOK(atCall) /\ TasksGoOn(atCall, w)
        /\ MoneyTyped(atCall) /\ (~recalled => MoneyForward(atCall, w))
    BY <1>2 DEF ReadWorldInv
  <2>3. CASE OthersMove
    <3>1. /\ TasksGoOn(w, w')
          /\ ~recalled' => ~recalled /\ (MoneyTyped(w) => MoneyForward(w, w'))
      BY <2>2, <2>3, OthersGoOn DEF TasksGoOn
    <3>2. TasksGoOn(atCall, w')
      BY <2>2, <3>1, TasksGoOnFurther
    <3>3. ~recalled' => MoneyForward(atCall, w')
      <4>1. ~recalled' => MoneyForward(atCall, w) /\ MoneyForward(w, w')
        BY <2>2, <3>1 DEF MoneyForward
      <4> QED BY <2>2, <4>1, MoneyFurther
    <3>4. /\ TasksOK(atCall)' /\ TasksGoOn(atCall, w)' /\ MoneyTyped(atCall)'
          /\ (~recalled => MoneyForward(atCall, w))'
      BY <2>1, <2>2, <3>2, <3>3 DEF TasksGoOn, TasksOK, Tasks, MoneyForward, MoneyTyped
    <3> QED BY <1>2, <2>1, <3>4 DEF ReadWorldInv, Answered, Tasks
  <2>4. CASE w' = w /\ recalled' = recalled
    BY <2>1, <2>4 DEF ReadWorldInv, TasksGoOn, TasksOK, Tasks, MoneyForward, MoneyTyped, Answered, IsRead
  <2> QED BY <2>1, <2>3, <2>4
<1>3. call' = call
  BY DEF Next, CallStep, Resolve, Pin, Broadcast, LoseReply, EstimateReverts, ExecuteFails, GetReceipt,
         ReceiptTimesOut, ReceiptFails, ReadFields, load, get_metadata, fetch_ipfs_json,
         get_confirmed_response, ReadFails, Land, StrayLands, OthersMove, Ended, vars
<1> QED BY <1>1, <1>2, <1>3
-----------------------------------------------------------------------------
(* Snapshots.  What the fields read so far say about the fields to come.   *)
WorkedOn == {"ATTEMPTED", "RESPONDED", "FINALIZED"}
TaskSeen(s, task) ==
  /\ Len(s) >= 2 /\ s[2] \in WorkedOn => Len(task.attempters) > 0
  /\ Len(s) >= 7 /\ s[2] \in WorkedOn => s[7] > 0
  /\ Len(s) >= 2 /\ s[2] = "FINALIZED" => task.winner # Nobody
  /\ Len(s) >= 8 /\ s[2] = "FINALIZED" => s[8] # Nobody

ResponseSeen(s, task, p) ==
  /\ Len(s) >= 2 /\ s[2] = "CONFIRMED" => task.answers[p] = "CONFIRMED"
  /\ Len(s) >= 4 /\ s[2] = "CONFIRMED" => s[4] = TRUE

(* i is the place of the balance; lockup and unbonding come next.          *)
MoneySeen(s, i, before, purse) ==
  /\ Len(s) >= i => s[i] \in Int
  /\ Len(s) >= i + 1 => s[i + 1] \in Int
  /\ Len(s) >= i + 2 => s[i + 2] \in Int
  /\ Len(s) = i => Held(before) <= s[i] + purse.lockup + purse.unbonding
  /\ Len(s) = i + 1 => Held(before) <= s[i] + s[i + 1] + purse.unbonding
  /\ Len(s) >= i + 2 => Held(before) <= s[i] + s[i + 1] + s[i + 2]

LEMMA SeenMore ==
  ASSUME NEW s, s \in Seq(Range(s)), NEW e
  PROVE  /\ Append(s, e) \in Seq(Range(Append(s, e)))
         /\ Len(s) \in Nat
         /\ Len(Append(s, e)) = Len(s) + 1
         /\ \A i \in Nat : 1 <= i /\ i <= Len(s) => Append(s, e)[i] = s[i]
         /\ Append(s, e)[Len(s) + 1] = e
BY AppendShaped, LenProperties

LEMMA TaskSeenMore ==
  ASSUME NEW s, s \in Seq(Range(s)), Len(s) < 8, NEW t, TaskOK(w.tasks[t]),
         TaskSeen(s, w.tasks[t])
  PROVE  TaskSeen(Append(s, TaskField(w, t, TaskSnapshot[Len(s) + 1])), w.tasks[t])
<1> DEFINE task == w.tasks[t]
           e == TaskField(w, t, TaskSnapshot[Len(s) + 1])
           r == Append(s, e)
<1> SUFFICES TaskSeen(r, task)
  OBVIOUS
<1>1. /\ Len(s) \in Nat /\ Len(r) = Len(s) + 1 /\ r[Len(s) + 1] = e
      /\ \A i \in Nat : 1 <= i /\ i <= Len(s) => r[i] = s[i]
  BY SeenMore
<1>2. task.attempters \in Seq(Accounts) /\ Len(task.attempters) \in Nat
  BY LenProperties DEF TaskOK
<1>3. task.status \in WorkedOn => Len(task.attempters) > 0
  BY <1>2 DEF TaskOK, WorkedOn
<1>4. task.status = "FINALIZED" => task.winner # Nobody
  BY DEF TaskOK
<1>5. Len(s) + 1 = 2 => e = task.status
  BY DEF TaskSnapshot, TaskField
<1>6. Len(s) + 1 = 7 => e = Len(task.attempters)
  BY DEF TaskSnapshot, TaskField
<1>7. Len(s) + 1 = 8 => e = task.winner
  BY DEF TaskSnapshot, TaskField, WinningProvider
<1> HIDE DEF e, r, task
<1>8. CASE Len(s) = 0
  BY <1>1, <1>8 DEF TaskSeen
<1>9. CASE Len(s) = 1
  BY <1>1, <1>3, <1>4, <1>5, <1>9 DEF TaskSeen
<1>10. CASE Len(s) \in 2 .. 5
  BY <1>1, <1>10 DEF TaskSeen, task
<1>11. CASE Len(s) = 6
  BY <1>1, <1>6, <1>11 DEF TaskSeen, task
<1>12. CASE Len(s) = 7
  BY <1>1, <1>7, <1>12 DEF TaskSeen, task
<1>13. \A n \in Nat : n < 8 => n = 0 \/ n = 1 \/ n \in 2 .. 5 \/ n = 6 \/ n = 7
  OBVIOUS
<1>14. Len(s) = 0 \/ Len(s) = 1 \/ Len(s) \in 2 .. 5 \/ Len(s) = 6 \/ Len(s) = 7
  BY <1>1, <1>13, Zenon
<1> QED BY <1>8, <1>9, <1>10, <1>11, <1>12, <1>14, Zenon

LEMMA TaskSeenOn ==
  ASSUME NEW s, NEW a, NEW b, TaskOK(a), TaskOK(b), Later(a, b), TaskSeen(s, a)
  PROVE  TaskSeen(s, b)
<1>1. Len(a.attempters) \in Nat /\ Len(b.attempters) \in Nat
  BY LenProperties DEF TaskOK
<1> QED BY <1>1 DEF TaskSeen, Later

LEMMA ResponseSeenMore ==
  ASSUME NEW s, s \in Seq(Range(s)), Len(s) < 4, NEW self,
         ResponseSeen(s, w.tasks[self[1]], self[2])
  PROVE  ResponseSeen(Append(s, ResponseField(w, self, ResponseSnapshot[Len(s) + 1])),
                      w.tasks[self[1]], self[2])
<1> DEFINE task == w.tasks[self[1]]
           p == self[2]
           e == ResponseField(w, self, ResponseSnapshot[Len(s) + 1])
           r == Append(s, e)
<1> SUFFICES ResponseSeen(r, task, p)
  OBVIOUS
<1>1. /\ Len(s) \in Nat /\ Len(r) = Len(s) + 1 /\ r[Len(s) + 1] = e
      /\ \A i \in Nat : 1 <= i /\ i <= Len(s) => r[i] = s[i]
  BY SeenMore
<1>2. Len(s) + 1 = 2 => e = task.answers[p]
  BY DEF ResponseSnapshot, ResponseField
<1>3. Len(s) + 1 = 4 => e = (task.answers[p] = "CONFIRMED")
  BY DEF ResponseSnapshot, ResponseField
<1> HIDE DEF e, r, task
<1>4. CASE Len(s) \in {0, 1}
  BY <1>1, <1>2, <1>4 DEF ResponseSeen
<1>5. CASE Len(s) = 2
  BY <1>1, <1>5 DEF ResponseSeen, task
<1>6. CASE Len(s) = 3
  <2>1. r[4] = (task.answers[p] = "CONFIRMED") /\ r[2] = s[2] /\ Len(r) = 4 /\ s[2] = r[2]
    BY <1>1, <1>3, <1>6
  <2>2. s[2] = "CONFIRMED" => task.answers[p] = "CONFIRMED"
    BY <1>1, <1>6 DEF ResponseSeen, task
  <2>3. r[2] = "CONFIRMED" => r[4] = TRUE
    BY <2>1, <2>2
  <2> QED BY <2>1, <2>2, <2>3 DEF ResponseSeen
<1>7. \A n \in Nat : n < 4 => n \in {0, 1} \/ n = 2 \/ n = 3
  OBVIOUS
<1>8. Len(s) \in {0, 1} \/ Len(s) = 2 \/ Len(s) = 3
  BY <1>1, <1>7, Zenon
<1> QED BY <1>4, <1>5, <1>6, <1>8, Zenon

LEMMA ResponseSeenOn ==
  ASSUME NEW s, NEW a, NEW b, NEW p \in DOMAIN a.answers, Later(a, b), ResponseSeen(s, a, p)
  PROVE  ResponseSeen(s, b, p)
BY DEF ResponseSeen, Later

LEMMA MoneySeenMore ==
  ASSUME NEW s, s \in Seq(Range(s)), NEW i \in Nat \ {0}, NEW before \in Purses, NEW purse \in Purses,
         Forward(before, purse), MoneySeen(s, i, before, purse), NEW e,
         Len(s) + 1 = i => e = purse.balance,
         Len(s) = i => e = purse.lockup,
         Len(s) = i + 1 => e = purse.unbonding
  PROVE  MoneySeen(Append(s, e), i, before, purse)
<1> DEFINE r == Append(s, e)
<1> SUFFICES MoneySeen(r, i, before, purse)
  OBVIOUS
<1>1. /\ Len(s) \in Nat /\ Len(r) = Len(s) + 1 /\ r[Len(s) + 1] = e
      /\ \A k \in Nat : 1 <= k /\ k <= Len(s) => r[k] = s[k]
  BY SeenMore
<1>2. /\ purse.balance \in Int /\ purse.lockup \in Int /\ purse.unbonding \in Int
      /\ Held(before) <= Held(purse) /\ Held(before) \in Int
  BY DEF Forward, Held, Purses
<1> HIDE DEF r
<1>3. CASE Len(s) + 1 < i
  BY <1>1, <1>3 DEF MoneySeen
<1>4. CASE Len(s) + 1 = i
  BY <1>1, <1>2, <1>4 DEF MoneySeen, Held
<1>5. CASE Len(s) = i /\ i # 0
  BY <1>1, <1>2, <1>5 DEF MoneySeen
<1>6. CASE Len(s) = i + 1 /\ i # 0
  BY <1>1, <1>2, <1>6 DEF MoneySeen
<1>7. CASE Len(s) > i + 1 /\ i # 0
  BY <1>1, <1>7 DEF MoneySeen
<1> QED BY <1>1, <1>3, <1>4, <1>5, <1>6, <1>7

LEMMA MoneySeenOn ==
  ASSUME NEW s, s \in Seq(Range(s)), NEW i \in Nat,
         NEW before \in Purses, NEW a \in Purses, NEW b \in Purses,
         Forward(a, b), MoneySeen(s, i, before, a)
  PROVE  MoneySeen(s, i, before, b)
<1>0. \A x \in Purses : x.balance \in Int /\ x.lockup \in Int /\ x.unbonding \in Int
  BY DEF Purses
<1>1. /\ a.lockup \in Int /\ a.unbonding \in Int /\ b.lockup \in Int /\ b.unbonding \in Int
      /\ a.lockup + a.unbonding <= b.lockup + b.unbonding /\ a.unbonding <= b.unbonding
      /\ Held(before) \in Int
  <2>1. \A k, m, n \in Int : k + m + n \in Int
    OBVIOUS
  <2>2. Held(before) \in Int
    BY <1>0, <2>1, Zenon DEF Held
  <2> QED BY <1>0, <2>2 DEF Forward
<1>2. Len(s) \in Nat
  BY LenProperties
<1>3. CASE Len(s) = i
  BY <1>1, <1>2, <1>3 DEF MoneySeen
<1>4. CASE Len(s) = i + 1
  BY <1>1, <1>2, <1>4 DEF MoneySeen
<1>5. CASE Len(s) # i /\ Len(s) # i + 1
  BY <1>2, <1>5 DEF MoneySeen
<1> QED BY <1>3, <1>4, <1>5

SeenFits ==
  /\ call.of = "Task" => TaskSeen(seen, w.tasks[call.self])
  /\ call.of = "Response" => ResponseSeen(seen, w.tasks[call.self[1]], call.self[2])
  /\ call.of = "Provider" /\ ~recalled =>
       MoneySeen(seen, 6, atCall.vault[call.self], w.vault[call.self])
  /\ call.of = "Master" /\ ~recalled =>
       MoneySeen(seen, 3, atCall.vault[call.self], w.vault[call.self])

SnapshotInv ==
  IsRead(call) /\ call.name = "snapshot" =>
    /\ seen \in Seq(Range(seen)) /\ pc \in {"read", "done"}
    /\ pc = "read" => Len(seen) < Len(Snapshot(call.of))
    /\ Done("returned") => Len(seen) = Len(Snapshot(call.of))
    /\ SeenFits

LEMMA SnapshotLengths ==
  /\ Snapshot("Task") = TaskSnapshot /\ Len(TaskSnapshot) = 8
  /\ Snapshot("Response") = ResponseSnapshot /\ Len(ResponseSnapshot) = 4
  /\ Snapshot("Provider") = ProviderSnapshot /\ Len(ProviderSnapshot) = 14
  /\ Snapshot("Master") = MasterSnapshot /\ Len(MasterSnapshot) = 9
  /\ Snapshot("Source") = SourceSnapshot /\ Len(SourceSnapshot) = 5
BY DEF Snapshot, TaskSnapshot, ResponseSnapshot, ProviderSnapshot, MasterSnapshot, SourceSnapshot

LEMMA SnapshotsHaveFields ==
  ASSUME IsRead(call)
  PROVE  Len(Snapshot(call.of)) \in {4, 5, 8, 9, 14}
<1>1. CASE call.of = "Task"
  BY <1>1, SnapshotLengths
<1>2. CASE call.of = "Response"
  BY <1>2, SnapshotLengths
<1>3. CASE call.of = "Provider"
  BY <1>3, SnapshotLengths
<1>4. CASE call.of = "Master"
  BY <1>4, SnapshotLengths
<1>5. CASE call.of = "Source"
  BY <1>5, SnapshotLengths
<1> QED BY <1>1, <1>2, <1>3, <1>4, <1>5 DEF IsRead, ReadMethods

LEMMA SnapshotInit == Init => SnapshotInv
<1> SUFFICES ASSUME Init, IsRead(call), call.name = "snapshot" PROVE SnapshotInv
  BY DEF SnapshotInv
<1>1. seen = <<>> /\ pc = "read" /\ Len(seen) = 0 /\ seen \in Seq(Range(seen))
  BY DEF Init
<1>2. Len(Snapshot(call.of)) \in {4, 5, 8, 9, 14} /\ Len(seen) = 0
  BY <1>1, SnapshotsHaveFields
<1>3. Len(seen) < Len(Snapshot(call.of))
  <2>1. \A n \in {4, 5, 8, 9, 14} : 0 < n
    OBVIOUS
  <2> QED BY <1>2, <2>1, Zenon
<1>4. SeenFits
  BY <1>1 DEF SeenFits, TaskSeen, ResponseSeen, MoneySeen
<1> QED BY <1>1, <1>3, <1>4 DEF SnapshotInv, Done

(* The three reads of an account's money.                                  *)
LEMMA MoneyField ==
  ASSUME NEW v, NEW x, NEW f \in {"balance", "lockup", "unbonding"}
  PROVE  AccountField(v, x, f) = v.vault[x][f]
BY DEF AccountField, TerminalFields, VaultRead

LEMMA ProviderMoney ==
  ASSUME NEW v, NEW x, NEW n \in Nat
  PROVE  LET e == Field("Provider", v, x, Snapshot("Provider")[n + 1]) IN
         /\ n + 1 = 6 => e = v.vault[x].balance
         /\ n = 6 => e = v.vault[x].lockup
         /\ n = 6 + 1 => e = v.vault[x].unbonding
BY SnapshotLengths, MoneyField DEF Field, ProviderField, ProviderSnapshot

LEMMA MasterMoney ==
  ASSUME NEW v, NEW x, NEW n \in Nat
  PROVE  LET e == Field("Master", v, x, Snapshot("Master")[n + 1]) IN
         /\ n + 1 = 3 => e = v.vault[x].balance
         /\ n = 3 => e = v.vault[x].lockup
         /\ n = 3 + 1 => e = v.vault[x].unbonding
BY SnapshotLengths, MoneyField DEF Field, MasterField, MasterSnapshot

(* One more field is read.                                                 *)
LEMMA SeenFitsMore ==
  ASSUME ReadWorldInv, IsRead(call), call.name = "snapshot", seen \in Seq(Range(seen)),
         Len(seen) < Len(Snapshot(call.of)), SeenFits, UNCHANGED <<w, atCall, call, recalled>>,
         seen' = Append(seen, Field(call.of, w, call.self, Snapshot(call.of)[Len(seen) + 1]))
  PROVE  SeenFits'
<1>0. /\ TasksOK(atCall) /\ TasksGoOn(atCall, w)
      /\ MoneyTyped(atCall) /\ (~recalled => MoneyForward(atCall, w))
      /\ call.of \in {"Provider", "Master"} => call.self \in Accounts
      /\ call.of = "Task" => call.self \in Tasks(w)
  BY DEF ReadWorldInv, TasksGoOn
<1>n. Len(seen) \in Nat
  BY LenProperties
<1>1. CASE call.of = "Task"
  <2>1. seen' = Append(seen, TaskField(w, call.self, TaskSnapshot[Len(seen) + 1]))
    BY <1>1, SnapshotLengths DEF Field
  <2>2. TaskOK(w.tasks[call.self]) /\ TaskSeen(seen, w.tasks[call.self]) /\ Len(seen) < 8
    BY <1>0, <1>1, SnapshotLengths DEF TasksGoOn, TasksOK, SeenFits
  <2>3. TaskSeen(seen', w.tasks[call.self])
    BY <2>1, <2>2, TaskSeenMore
  <2> QED BY <1>1, <2>3 DEF SeenFits, TaskSeen
<1>2. CASE call.of = "Response"
  <2>1. seen' = Append(seen, ResponseField(w, call.self, ResponseSnapshot[Len(seen) + 1]))
    BY <1>2, SnapshotLengths DEF Field
  <2>2. ResponseSeen(seen, w.tasks[call.self[1]], call.self[2]) /\ Len(seen) < 4
    BY <1>2, SnapshotLengths DEF SeenFits
  <2>3. ResponseSeen(seen', w.tasks[call.self[1]], call.self[2])
    BY <2>1, <2>2, ResponseSeenMore
  <2> QED BY <1>2, <2>3 DEF SeenFits, ResponseSeen
<1>3. ASSUME call.of \in {"Provider", "Master"}, ~recalled
      PROVE  /\ atCall.vault[call.self] \in Purses /\ w.vault[call.self] \in Purses
             /\ Forward(atCall.vault[call.self], w.vault[call.self])
  BY <1>0, <1>3 DEF MoneyForward, MoneyTyped
<1> DEFINE e == Field(call.of, w, call.self, Snapshot(call.of)[Len(seen) + 1])
<1>4. CASE call.of = "Provider"
  <2>0. e = Field("Provider", w, call.self, Snapshot("Provider")[Len(seen) + 1])
    BY <1>4
  <2> HIDE DEF e
  <2>1. /\ Len(seen) + 1 = 6 => e = w.vault[call.self].balance
        /\ Len(seen) = 6 => e = w.vault[call.self].lockup
        /\ Len(seen) = 6 + 1 => e = w.vault[call.self].unbonding
    BY <1>n, <2>0, ProviderMoney
  <2>2. ASSUME ~recalled
        PROVE  MoneySeen(Append(seen, e), 6, atCall.vault[call.self], w.vault[call.self])
    <3>1. MoneySeen(seen, 6, atCall.vault[call.self], w.vault[call.self])
      BY <1>4, <2>2 DEF SeenFits
    <3>2. /\ atCall.vault[call.self] \in Purses /\ w.vault[call.self] \in Purses
          /\ Forward(atCall.vault[call.self], w.vault[call.self])
      BY <1>3, <1>4, <2>2
    <3>3. 6 \in Nat \ {0}
      OBVIOUS
    <3> QED BY <2>1, <3>1, <3>2, <3>3, MoneySeenMore
  <2>3. seen' = Append(seen, e)
    BY DEF e
  <2> QED BY <1>4, <2>2, <2>3 DEF SeenFits, MoneySeen, Held
<1>5. CASE call.of = "Master"
  <2>0. e = Field("Master", w, call.self, Snapshot("Master")[Len(seen) + 1])
    BY <1>5
  <2> HIDE DEF e
  <2>1. /\ Len(seen) + 1 = 3 => e = w.vault[call.self].balance
        /\ Len(seen) = 3 => e = w.vault[call.self].lockup
        /\ Len(seen) = 3 + 1 => e = w.vault[call.self].unbonding
    BY <1>n, <2>0, MasterMoney
  <2>2. ASSUME ~recalled
        PROVE  MoneySeen(Append(seen, e), 3, atCall.vault[call.self], w.vault[call.self])
    <3>1. MoneySeen(seen, 3, atCall.vault[call.self], w.vault[call.self])
      BY <1>5, <2>2 DEF SeenFits
    <3>2. /\ atCall.vault[call.self] \in Purses /\ w.vault[call.self] \in Purses
          /\ Forward(atCall.vault[call.self], w.vault[call.self])
      BY <1>3, <1>5, <2>2
    <3>3. 3 \in Nat \ {0}
      OBVIOUS
    <3> QED BY <2>1, <3>1, <3>2, <3>3, MoneySeenMore
  <2>3. seen' = Append(seen, e)
    BY DEF e
  <2> QED BY <1>5, <2>2, <2>3 DEF SeenFits, MoneySeen, Held
<1>6. CASE call.of = "Source"
  BY <1>6 DEF SeenFits
<1> QED BY <1>1, <1>2, <1>4, <1>5, <1>6 DEF IsRead, ReadMethods

(* Others move between two fields.                                         *)
LEMMA SeenFitsOn ==
  ASSUME ReadWorldInv, IsRead(call), call.name = "snapshot", seen \in Seq(Range(seen)), SeenFits,
         Shaped(w), WinnersOK(w), OthersMove
  PROVE  SeenFits'
<1>0. /\ TasksOK(atCall) /\ TasksGoOn(atCall, w)
      /\ MoneyTyped(atCall) /\ (~recalled => MoneyForward(atCall, w))
      /\ call.of \in {"Provider", "Master"} => call.self \in Accounts
      /\ call.of = "Task" => call.self \in Tasks(w)
      /\ call.of = "Response" => Answered(atCall, call.self[1], call.self[2])
  BY DEF ReadWorldInv, TasksGoOn
<1>1. /\ TasksGoOn(w, w')
      /\ ~recalled' => ~recalled /\ (MoneyTyped(w) => MoneyForward(w, w'))
  BY <1>0, OthersGoOn DEF TasksGoOn
<1>2. UNCHANGED <<atCall, call, seen>>
  BY DEF OthersMove
<1>3. CASE call.of = "Task"
  <2>1. /\ TaskOK(w.tasks[call.self]) /\ TaskOK(w'.tasks[call.self])
        /\ Later(w.tasks[call.self], w'.tasks[call.self])
    BY <1>0, <1>1, <1>3 DEF TasksGoOn, TasksOK
  <2>2. TaskSeen(seen, w'.tasks[call.self])
    BY <1>3, <2>1, TaskSeenOn DEF SeenFits
  <2> QED BY <1>2, <1>3, <2>2 DEF SeenFits, TaskSeen
<1>4. CASE call.of = "Response"
  <2> DEFINE t == call.self[1]
             p == call.self[2]
  <2>1. t \in Tasks(w) /\ p \in DOMAIN w.tasks[t].answers
    BY <1>0, <1>4 DEF TasksGoOn, Answered, Later
  <2>2. Later(w.tasks[t], w'.tasks[t])
    BY <1>1, <2>1 DEF TasksGoOn
  <2>3. ResponseSeen(seen, w'.tasks[t], p)
    BY <1>4, <2>1, <2>2, ResponseSeenOn DEF SeenFits
  <2> QED BY <1>2, <1>4, <2>3 DEF SeenFits, ResponseSeen
<1>5. ASSUME call.of \in {"Provider", "Master"}, ~recalled'
      PROVE  /\ ~recalled
             /\ atCall.vault[call.self] \in Purses /\ w.vault[call.self] \in Purses
             /\ w'.vault[call.self] \in Purses
             /\ Forward(w.vault[call.self], w'.vault[call.self])
  BY <1>0, <1>1, <1>5 DEF MoneyForward, MoneyTyped
<1>6. CASE call.of = "Provider"
  <2>1. ~recalled' => MoneySeen(seen, 6, atCall.vault[call.self], w'.vault[call.self])
    BY <1>5, <1>6, MoneySeenOn DEF SeenFits
  <2> QED BY <1>2, <1>6, <2>1 DEF SeenFits, MoneySeen, Held
<1>7. CASE call.of = "Master"
  <2>1. ~recalled' => MoneySeen(seen, 3, atCall.vault[call.self], w'.vault[call.self])
    BY <1>5, <1>7, MoneySeenOn DEF SeenFits
  <2> QED BY <1>2, <1>7, <2>1 DEF SeenFits, MoneySeen, Held
<1>8. CASE call.of = "Source"
  BY <1>2, <1>8 DEF SeenFits
<1> QED BY <1>3, <1>4, <1>6, <1>7, <1>8 DEF IsRead, ReadMethods

LEMMA SnapshotStep ==
  ASSUME SnapshotInv, ReadWorldInv, Shaped(w), WinnersOK(w), StageOK, [Next]_vars
  PROVE  SnapshotInv'
<1>1. CASE ~(IsRead(call) /\ call.name = "snapshot")
  <2>1. call' = call
    BY DEF Next, CallStep, Resolve, Pin, Broadcast, LoseReply, EstimateReverts, ExecuteFails, GetReceipt,
           ReceiptTimesOut, ReceiptFails, ReadFields, load, get_metadata, fetch_ipfs_json,
           get_confirmed_response, ReadFails, Land, StrayLands, OthersMove, Ended, vars
  <2> QED BY <1>1, <2>1 DEF SnapshotInv, IsRead
<1>2. CASE IsRead(call) /\ call.name = "snapshot"
  <2>1. /\ call' = call /\ atCall' = atCall
        /\ OthersMove \/ (w' = w /\ recalled' = recalled)
        /\ \/ ReadFields \/ load \/ get_metadata \/ fetch_ipfs_json
           \/ get_confirmed_response \/ ReadFails \/ OthersMove \/ UNCHANGED vars
    BY <1>2, ReadSteps
  <2>2. /\ seen \in Seq(Range(seen)) /\ pc \in {"read", "done"}
        /\ pc = "read" => Len(seen) < Len(Snapshot(call.of))
        /\ Done("returned") => Len(seen) = Len(Snapshot(call.of))
        /\ SeenFits
    BY <1>2 DEF SnapshotInv
  <2>3. ~(load \/ get_metadata \/ fetch_ipfs_json \/ get_confirmed_response)
    BY <1>2, <2>2 DEF load, get_metadata, fetch_ipfs_json, get_confirmed_response, Metadatas
  <2>a. Snapshot(call.of)' = Snapshot(call.of)
    BY <2>1
  <2>4. CASE ReadFields
    <3> DEFINE fields == Snapshot(call.of)
               e == Field(call.of, w, call.self, fields[Len(seen) + 1])
    <3>1. /\ pc = "read" /\ seen' = Append(seen, e) /\ UNCHANGED <<w, atCall, call, recalled>>
          /\ IF Len(seen') = Len(fields) THEN Return("snapshot") ELSE UNCHANGED <<pc, result>>
      BY <2>4 DEF ReadFields
    <3>2. /\ seen' \in Seq(Range(seen')) /\ Len(seen') = Len(seen) + 1 /\ Len(seen) \in Nat
      BY <2>2, <3>1, SeenMore
    <3>3. Len(seen) < Len(fields) /\ Len(fields) \in Nat
      BY <1>2, <2>2, <3>1, SnapshotsHaveFields
    <3>4. SeenFits'
      BY <1>2, <2>2, <3>1, SeenFitsMore
    <3> HIDE DEF fields, e
    <3>5. Len(seen') # Len(fields) => Len(seen') < Len(fields)
      <4>1. \A m, n \in Nat : m < n /\ m + 1 # n => m + 1 < n
        OBVIOUS
      <4> QED BY <3>2, <3>3, <4>1
    <3>6. pc' \in {"read", "done"} /\ (pc' = "read" => Len(seen') < Len(fields))
          /\ (Done("returned")' => Len(seen') = Len(fields))
      BY <3>1, <3>5 DEF Return, Ends, Done
    <3> QED BY <1>2, <2>1, <2>a, <3>2, <3>4, <3>6 DEF SnapshotInv, fields, Done
  <2>5. CASE ReadFails
    <3>1. /\ seen' = seen /\ UNCHANGED <<w, recalled>>
          /\ pc' = "done" /\ result'.kind = "raised"
      BY <2>5 DEF ReadFails, Raise, Ends
    <3>2. SeenFits'
      BY <2>1, <2>2, <3>1, SMTT(30) DEF SeenFits, TaskSeen, ResponseSeen, MoneySeen, Held
    <3> QED BY <1>2, <2>1, <2>2, <3>1, <3>2 DEF SnapshotInv, Done
  <2>6. CASE OthersMove
    <3>1. seen' = seen /\ pc' = pc /\ result' = result
      BY <2>6 DEF OthersMove
    <3>2. SeenFits'
      BY <1>2, <2>2, <2>6, SeenFitsOn
    <3> QED BY <1>2, <2>1, <2>2, <2>a, <3>1, <3>2 DEF SnapshotInv, Done
  <2>7. CASE UNCHANGED vars
    <3>1. /\ seen' = seen /\ pc' = pc /\ result' = result /\ UNCHANGED <<w, recalled>>
      BY <2>7 DEF vars
    <3>2. SeenFits'
      BY <2>1, <2>2, <3>1, SMTT(30) DEF SeenFits, TaskSeen, ResponseSeen, MoneySeen, Held
    <3> QED BY <1>2, <2>1, <2>2, <2>a, <3>1, <3>2 DEF SnapshotInv, Done
  <2> QED BY <2>1, <2>3, <2>4, <2>5, <2>6, <2>7
<1> QED BY <1>1, <1>2

(* Where a field of a complete snapshot is found.                          *)
LEMMA ReadAt ==
  ASSUME seen \in Seq(Range(seen)), NEW n \in Nat, Len(seen) = n, NEW i \in 1 .. n,
         NEW f, \A j \in 1 .. n : Snapshot(call.of)[j] = f <=> j = i
  PROVE  Read(f) = seen[i]
<1>1. DOMAIN seen = 1 .. n
  BY LenProperties
<1>2. (CHOOSE j \in DOMAIN seen : Snapshot(call.of)[j] = f) = i
  BY <1>1
<1> QED BY <1>2 DEF Read

LEMMA SnapshotInvCoherent ==
  ASSUME SnapshotInv, call \in Calls
  PROVE  SnapshotCoherent
<1> SUFFICES ASSUME Done("returned"), call.name = "snapshot" PROVE SnapshotCoherent
  BY DEF SnapshotCoherent
<1>1. IsRead(call)
  BY ProtocolAssumption DEF IsWrite, WriteMethods, VaultMethods
<1>2. seen \in Seq(Range(seen))
  BY <1>1 DEF SnapshotInv
<1>l. Len(seen) = Len(Snapshot(call.of))
  BY <1>1 DEF SnapshotInv
<1>s. SeenFits
  BY <1>1 DEF SnapshotInv
<1>3. CASE call.of = "Task"
  <2>1. Len(seen) = 8
    BY <1>l, <1>3, SnapshotLengths
  <2>2. Read("status") = seen[2] /\ Read("attempt_count") = seen[7] /\ Read("winning_provider") = seen[8]
    <3>1. Snapshot(call.of) = TaskSnapshot
      BY <1>3, SnapshotLengths
    <3>2. \A j \in 1 .. 8 : Snapshot(call.of)[j] = "status" <=> j = 2
      BY <3>1 DEF TaskSnapshot
    <3>3. \A j \in 1 .. 8 : Snapshot(call.of)[j] = "attempt_count" <=> j = 7
      BY <3>1 DEF TaskSnapshot
    <3>4. \A j \in 1 .. 8 : Snapshot(call.of)[j] = "winning_provider" <=> j = 8
      BY <3>1 DEF TaskSnapshot
    <3>5. Read("status") = seen[2]
      BY <1>2, <2>1, <3>2, ReadAt
    <3>6. Read("attempt_count") = seen[7]
      BY <1>2, <2>1, <3>3, ReadAt
    <3>7. Read("winning_provider") = seen[8]
      BY <1>2, <2>1, <3>4, ReadAt
    <3> QED BY <3>5, <3>6, <3>7
  <2>3. /\ seen[2] \in WorkedOn => seen[7] > 0
        /\ seen[2] = "FINALIZED" => seen[8] # Nobody
    <3>1. TaskSeen(seen, w.tasks[call.self])
      BY <1>s, <1>3 DEF SeenFits
    <3> QED BY <2>1, <3>1 DEF TaskSeen
  <2> QED BY <1>3, <2>2, <2>3 DEF SnapshotCoherent, WorkedOn
<1>4. CASE call.of = "Response"
  <2>1. Len(seen) = 4
    BY <1>l, <1>4, SnapshotLengths
  <2>2. Read("status") = seen[2] /\ Read("confirmed") = seen[4]
    <3>1. Snapshot(call.of) = ResponseSnapshot
      BY <1>4, SnapshotLengths
    <3>2. \A j \in 1 .. 4 : Snapshot(call.of)[j] = "status" <=> j = 2
      BY <3>1 DEF ResponseSnapshot
    <3>3. \A j \in 1 .. 4 : Snapshot(call.of)[j] = "confirmed" <=> j = 4
      BY <3>1 DEF ResponseSnapshot
    <3> QED BY <1>2, <2>1, <3>2, <3>3, ReadAt
  <2>3. seen[2] = "CONFIRMED" => seen[4] = TRUE
    <3>1. ResponseSeen(seen, w.tasks[call.self[1]], call.self[2])
      BY <1>s, <1>4 DEF SeenFits
    <3> QED BY <2>1, <3>1 DEF ResponseSeen
  <2> QED BY <1>4, <2>2, <2>3 DEF SnapshotCoherent
<1>5. CASE call.of \in {"Provider", "Master"}
  <2> SUFFICES ASSUME ~recalled
               PROVE  Held([f \in {"balance", "lockup", "unbonding"} |-> Read(f)])
                        >= Held(atCall.vault[call.self])
    BY <1>5 DEF SnapshotCoherent
  <2> DEFINE purse == [f \in {"balance", "lockup", "unbonding"} |-> Read(f)]
             before == atCall.vault[call.self]
  <2>1. purse.balance = Read("balance") /\ purse.lockup = Read("lockup")
        /\ purse.unbonding = Read("unbonding")
    OBVIOUS
  <2> HIDE DEF purse, before
  <2>2. CASE call.of = "Provider"
    <3>1. Len(seen) = 14
      BY <1>l, <2>2, SnapshotLengths
    <3>2. Read("balance") = seen[6] /\ Read("lockup") = seen[7] /\ Read("unbonding") = seen[8]
      <4>1. Snapshot(call.of) = ProviderSnapshot
        BY <2>2, SnapshotLengths
      <4>2. \A j \in 1 .. 14 : Snapshot(call.of)[j] = "balance" <=> j = 6
        BY <4>1 DEF ProviderSnapshot
      <4>3. \A j \in 1 .. 14 : Snapshot(call.of)[j] = "lockup" <=> j = 7
        BY <4>1 DEF ProviderSnapshot
      <4>4. \A j \in 1 .. 14 : Snapshot(call.of)[j] = "unbonding" <=> j = 8
        BY <4>1 DEF ProviderSnapshot
      <4>5. Read("balance") = seen[6]
        BY <1>2, <3>1, <4>2, ReadAt, SMTT(30)
      <4>6. Read("lockup") = seen[7]
        BY <1>2, <3>1, <4>3, ReadAt, SMTT(30)
      <4>7. Read("unbonding") = seen[8]
        BY <1>2, <3>1, <4>4, ReadAt, SMTT(30)
      <4> QED BY <4>5, <4>6, <4>7
    <3>3. Held(before) <= seen[6] + seen[7] + seen[8]
      <4>1. MoneySeen(seen, 6, before, w.vault[call.self])
        BY <1>s, <2>2 DEF SeenFits, before
      <4> QED BY <3>1, <4>1 DEF MoneySeen
    <3> QED BY <2>1, <3>2, <3>3 DEF Held, purse, before
  <2>3. CASE call.of = "Master"
    <3>1. Len(seen) = 9
      BY <1>l, <2>3, SnapshotLengths
    <3>2. Read("balance") = seen[3] /\ Read("lockup") = seen[4] /\ Read("unbonding") = seen[5]
      <4>1. Snapshot(call.of) = MasterSnapshot
        BY <2>3, SnapshotLengths
      <4>2. \A j \in 1 .. 9 : Snapshot(call.of)[j] = "balance" <=> j = 3
        BY <4>1 DEF MasterSnapshot
      <4>3. \A j \in 1 .. 9 : Snapshot(call.of)[j] = "lockup" <=> j = 4
        BY <4>1 DEF MasterSnapshot
      <4>4. \A j \in 1 .. 9 : Snapshot(call.of)[j] = "unbonding" <=> j = 5
        BY <4>1 DEF MasterSnapshot
      <4>5. Read("balance") = seen[3]
        BY <1>2, <3>1, <4>2, ReadAt, SMTT(30)
      <4>6. Read("lockup") = seen[4]
        BY <1>2, <3>1, <4>3, ReadAt, SMTT(30)
      <4>7. Read("unbonding") = seen[5]
        BY <1>2, <3>1, <4>4, ReadAt, SMTT(30)
      <4> QED BY <4>5, <4>6, <4>7
    <3>3. Held(before) <= seen[3] + seen[4] + seen[5]
      <4>1. MoneySeen(seen, 3, before, w.vault[call.self])
        BY <1>s, <2>3 DEF SeenFits, before
      <4> QED BY <3>1, <4>1 DEF MoneySeen
    <3> QED BY <2>1, <3>2, <3>3 DEF Held, purse, before
  <2> QED BY <1>5, <2>2, <2>3
<1>6. CASE call.of = "Source"
  BY <1>6 DEF SnapshotCoherent
<1> QED BY <1>1, <1>3, <1>4, <1>5, <1>6 DEF IsRead, ReadMethods

-----------------------------------------------------------------------------
(* Induction over the naturals, stated of the set of numbers that have a   *)
(* property, from the well-foundedness of <.                               *)
Less == {pair \in Nat \X Nat : pair[1] < pair[2]}

LEMMA LeastNumber ==
  ASSUME NEW P \in SUBSET Nat, P # {}
  PROVE  \E m \in P : \A k \in P : m <= k
<1>1. OpToRel(<, Nat) = Less
  BY DEF OpToRel, Less
<1>2. IsWellFoundedOn(Less, Nat)
  BY NatLessThanWellFounded, <1>1, Zenon
<1>3. PICK m \in P : \A k \in P : ~ (<<k, m>> \in Less)
  BY <1>2, WFMin
<1>4. ASSUME NEW k \in P PROVE m <= k
  <2>1. m \in Nat /\ k \in Nat /\ <<k, m>> \in Nat \X Nat
    OBVIOUS
  <2>2. ~ (<<k, m>>[1] < <<k, m>>[2])
    BY <1>3, <2>1, Zenon DEF Less
  <2> QED BY <2>1, <2>2
<1> QED BY <1>4

LEMMA Induction ==
  ASSUME NEW P \in SUBSET Nat, 0 \in P, \A n \in P : n + 1 \in P
  PROVE  P = Nat
<1> SUFFICES ASSUME P # Nat PROVE FALSE
  OBVIOUS
<1>1. PICK m \in Nat \ P : \A k \in Nat \ P : m <= k
  <2>1. Nat \ P \in SUBSET Nat /\ Nat \ P # {}
    OBVIOUS
  <2> QED BY <2>1, LeastNumber
<1>2. m - 1 \in Nat /\ m - 1 \in P
  BY <1>1
<1> QED BY <1>1, <1>2

(* Without, the list comprehension that drops the zero addresses.          *)
Keeps(f, n, s, out) ==
  f = [i \in 0 .. n |-> IF i = 0 THEN <<>>
                        ELSE IF s[i] \in out THEN f[i - 1] ELSE Append(f[i - 1], s[i])]

LEMMA KeepsExists ==
  ASSUME NEW s, NEW out, NEW n \in Nat
  PROVE  \E f : Keeps(f, n, s, out)
<1> DEFINE P == {k \in Nat : \E f : Keeps(f, k, s, out)}
<1>1. 0 \in P
  <2>1. Keeps([i \in 0 .. 0 |-> <<>>], 0, s, out)
    BY DEF Keeps
  <2> QED BY <2>1
<1>2. ASSUME NEW k \in P PROVE k + 1 \in P
  <2>1. PICK f : Keeps(f, k, s, out)
    BY <1>2
  <2> DEFINE last == IF s[k + 1] \in out THEN f[k] ELSE Append(f[k], s[k + 1])
             g == [i \in 0 .. k + 1 |-> IF i = k + 1 THEN last ELSE f[i]]
  <2>2. \A i \in 0 .. k : f[i] = IF i = 0 THEN <<>>
                                 ELSE IF s[i] \in out THEN f[i - 1] ELSE Append(f[i - 1], s[i])
    BY <2>1 DEF Keeps
  <2>3. g[k + 1] = last /\ \A i \in 0 .. k : g[i] = f[i]
    OBVIOUS
  <2>4. g = [i \in 0 .. k + 1 |-> g[i]]
    OBVIOUS
  <2> HIDE DEF g
  <2>5. ASSUME NEW i \in 0 .. k + 1
        PROVE  g[i] = IF i = 0 THEN <<>>
                      ELSE IF s[i] \in out THEN g[i - 1] ELSE Append(g[i - 1], s[i])
    <3>1. CASE i = k + 1
      <4>1. i # 0 /\ i - 1 = k /\ g[k] = f[k]
        BY <2>3, <3>1
      <4> QED BY <2>3, <3>1, <4>1
    <3>2. CASE i # k + 1
      <4>1. i \in 0 .. k /\ (i # 0 => i - 1 \in 0 .. k)
        BY <3>2
      <4> QED BY <2>2, <2>3, <4>1
    <3> QED BY <3>1, <3>2
  <2>6. Keeps(g, k + 1, s, out)
    BY <2>4, <2>5 DEF Keeps
  <2> QED BY <2>6
<1> HIDE DEF P
<1>3. P = Nat
  <2>1. P \in SUBSET Nat
    BY DEF P
  <2> QED BY <1>1, <1>2, <2>1, Induction
<1> QED BY <1>3 DEF P

(* After n entries: those of the first n that are not in out.              *)
Kept(s, n, out) == {s[k] : k \in 1 .. n} \ out

LEMMA KeepsEntries ==
  ASSUME NEW S, NEW s \in Seq(S), NEW out, NEW f, Keeps(f, Len(s), s, out)
  PROVE  \A n \in 0 .. Len(s) :
           f[n] \in Seq(S) /\ Range(f[n]) = Kept(s, n, out)
<1> DEFINE G(n) == f[n] \in Seq(S) /\ Range(f[n]) = Kept(s, n, out)
           P == {n \in Nat : n <= Len(s) => G(n)}
<1>0. Len(s) \in Nat /\ DOMAIN s = 1 .. Len(s)
  BY LenProperties
<1>1. \A i \in 0 .. Len(s) : f[i] = IF i = 0 THEN <<>>
                                    ELSE IF s[i] \in out THEN f[i - 1] ELSE Append(f[i - 1], s[i])
  BY DEF Keeps
<1>2. G(0)
  <2>1. f[0] = <<>>
    BY <1>0, <1>1
  <2>2. Range(<<>>) = {} /\ <<>> \in Seq(S)
    BY DEF Range
  <2>3. Kept(s, 0, out) = {}
    BY DEF Kept
  <2> QED BY <2>1, <2>2, <2>3
<1>3. ASSUME NEW n \in Nat, n + 1 <= Len(s), G(n) PROVE G(n + 1)
  <2>1. n + 1 \in 1 .. Len(s) /\ n + 1 # 0 /\ (n + 1) - 1 = n /\ s[n + 1] \in S
    BY <1>0, <1>3, ElementOfSeq
  <2>2. f[n + 1] = IF s[n + 1] \in out THEN f[n] ELSE Append(f[n], s[n + 1])
    BY <1>1, <2>1
  <2>3. Kept(s, n + 1, out) = Kept(s, n, out) \cup ({s[n + 1]} \ out)
    BY <2>1 DEF Kept
  <2>4. CASE s[n + 1] \in out
    BY <1>3, <2>2, <2>3, <2>4
  <2>5. CASE s[n + 1] \notin out
    <3> DEFINE t == Append(f[n], s[n + 1])
    <3>1. /\ t \in Seq(S) /\ Len(t) = Len(f[n]) + 1 /\ t[Len(f[n]) + 1] = s[n + 1]
          /\ \A i \in 1 .. Len(f[n]) : t[i] = f[n][i]
      BY <1>3, <2>1, AppendProperties
    <3>2. Len(f[n]) \in Nat /\ DOMAIN f[n] = 1 .. Len(f[n]) /\ DOMAIN t = 1 .. Len(f[n]) + 1
      BY <1>3, <3>1, LenProperties
    <3> HIDE DEF t
    <3>3. Range(t) = Range(f[n]) \cup {s[n + 1]}
      <4>1. Len(f[n]) + 1 \in DOMAIN t /\ DOMAIN f[n] \subseteq DOMAIN t
        BY <3>2
      <4>2. \A i \in DOMAIN t : i \in DOMAIN f[n] \/ i = Len(f[n]) + 1
        BY <3>2
      <4> QED BY <3>1, <3>2, <4>1, <4>2 DEF Range
    <3>4. f[n + 1] = t
      BY <2>2, <2>5 DEF t
    <3> QED BY <1>3, <2>3, <2>5, <3>1, <3>3, <3>4
  <2> QED BY <2>4, <2>5
<1> HIDE DEF G
<1>4. 0 \in P /\ \A n \in P : n + 1 \in P
  BY <1>0, <1>2, <1>3
<1>5. P = Nat
  <2> HIDE DEF P
  <2>1. P \in SUBSET Nat
    BY DEF P
  <2> QED BY <1>4, <2>1, Induction
<1>6. \A n \in 0 .. Len(s) : G(n)
  BY <1>0, <1>5
<1> QED BY <1>6 DEF G

LEMMA WithoutKeeps ==
  ASSUME NEW S, NEW s \in Seq(S), NEW out
  PROVE  Without(s, out) \in Seq(S) /\ Range(Without(s, out)) = Range(s) \ out
<1> DEFINE f == CHOOSE g : Keeps(g, Len(s), s, out)
<1>1. Without(s, out) = f[Len(s)]
  BY DEF Without, Keeps
<1>2. Len(s) \in Nat /\ DOMAIN s = 1 .. Len(s)
  BY LenProperties
<1>3. Keeps(f, Len(s), s, out)
  BY <1>2, KeepsExists
<1> HIDE DEF f
<1>4. Len(s) \in 0 .. Len(s)
  BY <1>2
<1>5. f[Len(s)] \in Seq(S) /\ Range(f[Len(s)]) = Kept(s, Len(s), out)
  <2>1. \A n \in 0 .. Len(s) :
           f[n] \in Seq(S) /\ Range(f[n]) = Kept(s, n, out)
    BY <1>3, KeepsEntries
  <2> QED BY <1>4, <2>1, Zenon
<1>6. Kept(s, Len(s), out) = Range(s) \ out
  BY <1>2 DEF Range, Kept
<1> QED BY <1>1, <1>5, <1>6

(* get_confirmed_response.  The winner when the call began is in a slot    *)
(* still to be read, or among the responses listed and not yet asked; each *)
(* response listed is there.                                               *)
ResponsesOf(t, task) == {<<t, p>> : p \in DOMAIN task.answers}
Listed(list, n, t, before, task) ==
  /\ DOMAIN list = {"count", "next", "found"}
  /\ list.count \in Nat /\ list.next \in Nat /\ list.next <= list.count
  /\ Len(before.attempters) <= list.count /\ list.count <= Len(task.attempters)
  /\ list.found \in Seq(ResponsesOf(t, task))
  /\ before.winner # Nobody =>
       \/ \E i \in 1 .. Len(before.attempters) :
            before.attempters[i] = before.winner /\ list.next < i
       \/ \E i \in 1 .. Len(list.found) : list.found[i] = <<t, before.winner>> /\ n <= i
Found(s, t, before, task) ==
  s # <<>> => /\ Listed(s[1], Len(s), t, before, task)
              /\ s[1].next < s[1].count => Len(s) = 1

LEMMA FoundOn ==
  ASSUME NEW s, NEW t, NEW before, NEW a, NEW b, TaskOK(a), TaskOK(b), Later(a, b),
         Found(s, t, before, a)
  PROVE  Found(s, t, before, b)
<1>1. Len(a.attempters) \in Nat /\ Len(b.attempters) \in Nat
  BY LenProperties DEF TaskOK
<1>2. Len(a.attempters) <= Len(b.attempters) /\ ResponsesOf(t, a) \subseteq ResponsesOf(t, b)
  BY DEF Later, ResponsesOf
<1>3. \A m \in Nat : m <= Len(a.attempters) => m <= Len(b.attempters)
  BY <1>1, <1>2
<1>4. \A q \in Seq(ResponsesOf(t, a)) : q \in Seq(ResponsesOf(t, b))
  BY <1>2
<1>5. ASSUME NEW list, NEW n, Listed(list, n, t, before, a) PROVE Listed(list, n, t, before, b)
  BY <1>3, <1>4, <1>5 DEF Listed
<1> QED BY <1>5 DEF Found

(* The slots read hold the responses of the attempters counted.            *)
LEMMA WinnerIsListed ==
  ASSUME NEW v, NEW t \in Tasks(v), t \in Nat, NEW before, TaskOK(before), TaskOK(v.tasks[t]),
         Later(before, v.tasks[t]), NEW lower \in Nat, NEW upper \in Nat, lower <= upper,
         upper <= Len(v.tasks[t].attempters)
  PROVE  /\ get_responses(v, t, lower, upper) \in Seq(ResponsesOf(t, v.tasks[t]))
         /\ before.winner # Nobody =>
              \A i \in 1 .. Len(before.attempters) :
                before.attempters[i] = before.winner /\ lower < i /\ i <= upper =>
                  <<t, before.winner>> \in Range(get_responses(v, t, lower, upper))
<1> DEFINE task == v.tasks[t]
           n == upper - lower
           R == ResponsesOf(t, task)
           slots == [i \in 1 .. n |-> ResponseOf(v, t, task.attempters[lower + i])]
           list == Without(slots, {Nobody})
<1>0. n \in Nat
  OBVIOUS
<1>1. get_responses(v, t, lower, upper) = list
  BY DEF get_responses, SlotsRead
<1>2. \A p : ResponseOf(v, t, p) = IF p \in DOMAIN task.answers THEN <<t, p>> ELSE Nobody
  BY DEF ResponseOf, Answered
<1>3. slots \in Seq(R \cup {Nobody}) /\ DOMAIN slots = 1 .. n
  <2>1. \A i \in 1 .. n : ResponseOf(v, t, task.attempters[lower + i]) \in R \cup {Nobody}
    BY <1>2 DEF ResponsesOf
  <2>2. slots \in [1 .. n -> R \cup {Nobody}]
    BY <2>1
  <2> QED BY <1>0, <2>2, SeqDef
<1>4. /\ task.attempters \in Seq(Accounts) /\ before.attempters \in Seq(Accounts)
      /\ Len(before.attempters) \in Nat /\ Len(task.attempters) \in Nat
      /\ DOMAIN before.attempters = 1 .. Len(before.attempters)
  BY LenProperties DEF TaskOK
<1>5. \A p \in DOMAIN task.answers : p \in Accounts /\ p # Nobody
  <2>1. DOMAIN task.answers \subseteq Range(task.attempters)
    BY DEF TaskOK
  <2> QED BY <1>4, <2>1, AttempterIsAccount
<1>6. Nobody \notin R
  BY <1>5, ContractsAssumption DEF ResponsesOf
<1>7. /\ list \in Seq(R \cup {Nobody}) /\ Range(list) = Range(slots) \ {Nobody}
  <2> HIDE DEF slots, R
  <2> QED BY <1>3, WithoutKeeps
<1>8. list \in Seq(R)
  <2> HIDE DEF list, R, slots
  <2>1. DOMAIN list = 1 .. Len(list) /\ Len(list) \in Nat
    BY <1>7, LenProperties
  <2>2. \A i \in 1 .. Len(list) : list[i] \in R
    <3>1. ASSUME NEW i \in 1 .. Len(list) PROVE list[i] \in R
      <4>1. list[i] \in Range(list) /\ list[i] \in R \cup {Nobody}
        BY <1>7, <2>1, ElementOfSeq DEF Range
      <4> QED BY <1>7, <4>1
    <3> QED BY <3>1
  <2>3. list = [i \in 1 .. Len(list) |-> list[i]]
    BY <1>7, <2>1
  <2>4. list \in [1 .. Len(list) -> R]
    BY <2>2, <2>3
  <2> QED BY <2>1, <2>4, SeqDef
<1>9. ASSUME before.winner # Nobody, NEW i \in 1 .. Len(before.attempters),
             before.attempters[i] = before.winner, lower < i, i <= upper
      PROVE  <<t, before.winner>> \in Range(list)
  <2>1. before.winner \in DOMAIN before.answers
    BY <1>9 DEF TaskOK
  <2>2. i - lower \in 1 .. n /\ lower + (i - lower) = i
    BY <1>4, <1>9
  <2>3. task.attempters[i] = before.winner /\ before.winner \in DOMAIN task.answers
    BY <1>9, <2>1 DEF Later
  <2>4. slots[i - lower] = <<t, before.winner>>
    <3>1. slots[i - lower] = ResponseOf(v, t, task.attempters[lower + (i - lower)])
      BY <2>2
    <3> QED BY <1>2, <2>2, <2>3, <3>1
  <2>5. <<t, before.winner>> \in R
    BY <2>3 DEF ResponsesOf
  <2> HIDE DEF slots, R, list
  <2>6. <<t, before.winner>> \in Range(slots)
    BY <1>3, <2>2, <2>4 DEF Range
  <2> QED BY <1>6, <1>7, <2>5, <2>6
<1> HIDE DEF list, R
<1> QED BY <1>1, <1>8, <1>9 DEF R

FindInv ==
  IsRead(call) /\ call.name = "get_confirmed_response" =>
    /\ seen \in Seq(Range(seen)) /\ pc \in {"read", "done"}
    /\ Found(seen, call.self, atCall.tasks[call.self], w.tasks[call.self])
    /\ FindsTheWinner

LEMMA FindInit == Init => FindInv
<1> SUFFICES ASSUME Init, IsRead(call), call.name = "get_confirmed_response" PROVE FindInv
  BY DEF FindInv
<1>1. seen = <<>> /\ pc = "read" /\ Len(seen) = 0 /\ seen \in Seq(Range(seen))
  BY DEF Init
<1> QED BY <1>1 DEF FindInv, Found, FindsTheWinner, Done

(* The task being searched, while others go on.                            *)
LEMMA SearchedTask ==
  ASSUME ReadWorldInv, IsRead(call), call.name = "get_confirmed_response", Shaped(w)
  PROVE  /\ call.self \in Tasks(atCall) /\ call.self \in Tasks(w) /\ call.self \in Nat
         /\ TaskOK(atCall.tasks[call.self]) /\ TaskOK(w.tasks[call.self])
         /\ Later(atCall.tasks[call.self], w.tasks[call.self])
<1>1. call.of = "Task"
  BY DEF IsRead, ReadMethods
<1>2. TasksOK(atCall) /\ TasksGoOn(atCall, w) /\ call.self \in Tasks(atCall)
  BY <1>1 DEF ReadWorldInv
<1>3. call.self \in Tasks(w)
  BY <1>2 DEF TasksGoOn
<1>4. call.self \in Nat
  BY <1>3, Lengths
<1> QED BY <1>2, <1>3, <1>4 DEF TasksGoOn, TasksOK

(* One RPC of the search, and what it returns at the end.                  *)
LEMMA FindStep ==
  ASSUME FindInv, ReadWorldInv, Shaped(w), WinnersOK(w), IsRead(call),
         call.name = "get_confirmed_response", get_confirmed_response
  PROVE  FindInv'
<1> DEFINE t == call.self
           before == atCall.tasks[t]
           task == w.tasks[t]
           n == Len(seen)
<1>1. /\ t \in Tasks(atCall) /\ t \in Tasks(w) /\ t \in Nat
      /\ TaskOK(before) /\ TaskOK(task) /\ Later(before, task)
  BY SearchedTask
<1>2. seen \in Seq(Range(seen)) /\ Found(seen, t, before, task) /\ n \in Nat
  BY LenProperties DEF FindInv
<1>3. /\ pc = "read" /\ UNCHANGED <<w, atCall, call, recalled>>
      /\ call.name = "get_confirmed_response"
  BY DEF get_confirmed_response
<1>4. SUFFICES /\ seen' \in Seq(Range(seen')) /\ pc' \in {"read", "done"}
               /\ Found(seen', t, before, task)
               /\ FindsTheWinner'
  BY <1>3 DEF FindInv, Found, Listed, ResponsesOf
<1>5. CASE CountAttempts
  <2> DEFINE list == [count |-> Len(task.attempters), next |-> 0, found |-> <<>>]
  <2>1. seen' = <<list>> /\ UNCHANGED <<pc, result>>
    BY <1>3, <1>5 DEF CountAttempts, TaskField
  <2>2. Len(task.attempters) \in Nat /\ Len(before.attempters) <= Len(task.attempters)
        /\ Len(before.attempters) \in Nat
    BY <1>1, LenProperties DEF TaskOK, Later
  <2>3. ASSUME before.winner # Nobody
        PROVE  \E i \in 1 .. Len(before.attempters) :
                 before.attempters[i] = before.winner /\ list.next < i
    <3>1. before.winner \in Range(before.attempters)
      BY <1>1, <2>3 DEF TaskOK
    <3>2. DOMAIN before.attempters = 1 .. Len(before.attempters)
      BY <1>1, LenProperties DEF TaskOK
    <3>3. PICK i \in 1 .. Len(before.attempters) : before.attempters[i] = before.winner
      BY <3>1, <3>2 DEF Range
    <3>4. list.next < i
      BY <2>2
    <3> QED BY <3>3, <3>4
  <2>4. Listed(list, 1, t, before, task)
    BY <2>2, <2>3 DEF Listed
  <2> HIDE DEF list
  <2>5. Len(seen') = 1 /\ seen'[1] = list /\ seen' \in Seq(Range(seen'))
    <3>1. seen' \in Seq({list})
      BY <2>1
    <3> QED BY <2>1, <3>1, SeqOfRange
  <2> QED BY <1>3, <2>1, <2>4, <2>5 DEF Found, FindsTheWinner, Done
<1>6. CASE ReadChunk
  <2> DEFINE old == seen[1]
             lower == old.next
             upper == IF lower + ChunkSize < old.count THEN lower + ChunkSize ELSE old.count
             chunk == get_responses(w, t, lower, upper)
             both == old.found \o chunk
             list == [old EXCEPT !.next = upper, !.found = both]
  <2>1. seen' = <<list>> /\ UNCHANGED <<pc, result>> /\ lower < old.count /\ seen # <<>>
    BY <1>6 DEF ReadChunk
  <2>2. Listed(old, n, t, before, task) /\ n = 1
    BY <1>2, <2>1 DEF Found
  <2>3. lower \in Nat /\ old.count \in Nat /\ old.count <= Len(task.attempters)
        /\ Len(task.attempters) \in Nat /\ old.found \in Seq(ResponsesOf(t, task))
    BY <1>1, <2>2, LenProperties DEF Listed, TaskOK
  <2>4. upper \in Nat /\ lower <= upper /\ upper <= old.count /\ upper <= Len(task.attempters)
    <3>1. ChunkSize \in Nat
      BY ProtocolAssumption
    <3>2. \A a, b, k \in Nat : a < b =>
            LET x == IF a + k < b THEN a + k ELSE b IN x \in Nat /\ a <= x /\ x <= b
      OBVIOUS
    <3>3. \A a, b, k \in Nat : a <= b /\ b <= k => a <= k
      OBVIOUS
    <3> HIDE DEF lower, old
    <3>4. upper \in Nat /\ lower <= upper /\ upper <= old.count
      BY <2>1, <2>3, <3>1, <3>2
    <3> QED BY <2>3, <3>3, <3>4
  <2>5. /\ DOMAIN list = {"count", "next", "found"} /\ list.count = old.count
        /\ list.next = upper /\ list.found = both
    BY <2>2 DEF Listed
  <2> HIDE DEF list
  <2>6. /\ chunk \in Seq(ResponsesOf(t, task))
        /\ before.winner # Nobody =>
             \A i \in 1 .. Len(before.attempters) :
               before.attempters[i] = before.winner /\ lower < i /\ i <= upper =>
                 <<t, before.winner>> \in Range(chunk)
    <3> HIDE DEF lower, upper
    <3> QED BY <1>1, <2>3, <2>4, WinnerIsListed
  <2> HIDE DEF lower, upper, chunk
  <2>7. /\ both \in Seq(ResponsesOf(t, task)) /\ Len(both) = Len(old.found) + Len(chunk)
        /\ Len(old.found) \in Nat /\ Len(chunk) \in Nat /\ DOMAIN chunk = 1 .. Len(chunk)
        /\ \A i \in 1 .. Len(old.found) : both[i] = old.found[i]
        /\ \A i \in 1 .. Len(chunk) : both[Len(old.found) + i] = chunk[i]
    <3>1. \A i \in 1 .. Len(old.found) + Len(chunk) :
             both[i] = IF i <= Len(old.found) THEN old.found[i] ELSE chunk[i - Len(old.found)]
      BY <2>3, <2>6, ConcatProperties
    <3>2. both \in Seq(ResponsesOf(t, task)) /\ Len(both) = Len(old.found) + Len(chunk)
      BY <2>3, <2>6, ConcatProperties
    <3>3. Len(old.found) \in Nat /\ Len(chunk) \in Nat /\ DOMAIN chunk = 1 .. Len(chunk)
      BY <2>3, <2>6, LenProperties
    <3> HIDE DEF both
    <3>4. ASSUME NEW i \in 1 .. Len(old.found) PROVE both[i] = old.found[i]
      BY <3>1, <3>3
    <3>5. ASSUME NEW i \in 1 .. Len(chunk) PROVE both[Len(old.found) + i] = chunk[i]
      <4>1. /\ Len(old.found) + i \in 1 .. Len(old.found) + Len(chunk)
            /\ ~(Len(old.found) + i <= Len(old.found))
            /\ (Len(old.found) + i) - Len(old.found) = i
        BY <3>3
      <4> QED BY <3>1, <4>1
    <3> QED BY <3>2, <3>3, <3>4, <3>5
  <2> HIDE DEF both
  <2>8. ASSUME before.winner # Nobody
        PROVE  \/ \E i \in 1 .. Len(before.attempters) :
                    before.attempters[i] = before.winner /\ upper < i
               \/ \E i \in 1 .. Len(both) : both[i] = <<t, before.winner>> /\ 1 <= i
    <3>1. CASE \E i \in 1 .. Len(old.found) : old.found[i] = <<t, before.winner>>
      <4>1. PICK i \in 1 .. Len(old.found) : old.found[i] = <<t, before.winner>>
        BY <3>1
      <4>2. i \in 1 .. Len(both) /\ 1 <= i /\ both[i] = <<t, before.winner>>
        BY <2>7, <4>1
      <4> QED BY <4>2
    <3>2. CASE \E i \in 1 .. Len(before.attempters) :
                 before.attempters[i] = before.winner /\ lower < i
      <4>1. PICK i \in 1 .. Len(before.attempters) :
              before.attempters[i] = before.winner /\ lower < i
        BY <3>2
      <4>2. CASE ~(i <= upper)
        BY <2>4, <4>1, <4>2
      <4>3. CASE i <= upper
        <5>1. <<t, before.winner>> \in Range(chunk)
          BY <2>6, <2>8, <4>1, <4>3
        <5>2. PICK k \in 1 .. Len(chunk) : chunk[k] = <<t, before.winner>>
          BY <2>7, <5>1 DEF Range
        <5>3. Len(old.found) + k \in 1 .. Len(both) /\ 1 <= Len(old.found) + k
          BY <2>7
        <5>4. both[Len(old.found) + k] = <<t, before.winner>>
          BY <2>7, <5>2
        <5> QED BY <5>3, <5>4
      <4> QED BY <4>2, <4>3
    <3> QED BY <2>2, <2>8, <3>1, <3>2 DEF Listed, lower
  <2>9. Listed(list, 1, t, before, task)
    BY <2>2, <2>3, <2>4, <2>5, <2>7, <2>8 DEF Listed
  <2>10. Len(seen') = 1 /\ seen'[1] = list /\ seen' \in Seq(Range(seen'))
    <3>1. seen' \in Seq({list})
      BY <2>1
    <3> QED BY <2>1, <3>1, SeqOfRange
  <2> QED BY <1>3, <2>1, <2>9, <2>10 DEF Found, FindsTheWinner, Done
<1>7. CASE AskResponse
  <2> DEFINE list == seen[1]
             found == list.found
             response == found[n]
  <2>1. /\ seen # <<>> /\ list.next = list.count
        /\ \/ n > Len(found) /\ Return(Nobody) /\ UNCHANGED seen
           \/ /\ n <= Len(found) /\ ResponseField(w, response, "confirmed")
              /\ Return(response) /\ UNCHANGED seen
           \/ /\ n <= Len(found) /\ ~ResponseField(w, response, "confirmed")
              /\ seen' = Append(seen, FALSE) /\ UNCHANGED <<pc, result>>
    BY <1>7 DEF AskResponse
  <2>2. Listed(list, n, t, before, task) /\ n >= 1
    BY <1>2, <2>1, LenProperties, EmptySeq DEF Found
  <2>3. /\ found \in Seq(ResponsesOf(t, task)) /\ Len(found) \in Nat
        /\ Len(before.attempters) <= list.next /\ Len(before.attempters) \in Nat
        /\ list.next \in Nat
        /\ before.winner # Nobody =>
             \E i \in 1 .. Len(found) : found[i] = <<t, before.winner>> /\ n <= i
    <3>1. found \in Seq(ResponsesOf(t, task)) /\ Len(found) \in Nat
      BY <2>2, LenProperties DEF Listed
    <3>2. Len(before.attempters) <= list.next /\ list.next \in Nat
      BY <2>1, <2>2 DEF Listed
    <3>3. Len(before.attempters) \in Nat
      BY <1>1, LenProperties DEF TaskOK
    <3>4. \A i \in 1 .. Len(before.attempters) : ~(list.next < i)
      BY <3>2, <3>3
    <3> QED BY <2>2, <3>1, <3>2, <3>3, <3>4 DEF Listed
  <2>4. before.winner # Nobody =>
          /\ task.winner = before.winner /\ before.winner \in DOMAIN task.answers
          /\ task.answers[before.winner] = "CONFIRMED"
    BY <1>1 DEF TaskOK, Later
  <2> HIDE DEF response, found
  <2>5. CASE n > Len(found)
    <3>0. ~(n <= Len(found))
      BY <1>2, <2>3, <2>5
    <3>1. seen' = seen /\ pc' = "done" /\ result' = [kind |-> "returned", value |-> Nobody]
      BY <2>1, <3>0, Zenon
    <3>2. before.winner = Nobody
      BY <1>2, <2>3, <2>5
    <3> QED BY <1>2, <1>3, <3>1, <3>2 DEF FindsTheWinner, Done
  <2>6. CASE n <= Len(found)
    <3>0. ~(n > Len(found))
      BY <1>2, <2>3, <2>6
    <3>1. PICK p \in DOMAIN task.answers : response = <<t, p>>
      <4>1. n \in 1 .. Len(found)
        BY <1>2, <2>2, <2>3, <2>6
      <4>2. response \in ResponsesOf(t, task)
        BY <2>3, <4>1, ElementOfSeq DEF response
      <4> QED BY <4>2 DEF ResponsesOf
    <3>2. ResponseField(w, response, "confirmed") = (task.answers[p] = "CONFIRMED")
      BY <3>1 DEF ResponseField
    <3>3. CASE task.answers[p] = "CONFIRMED"
      <4>1. seen' = seen /\ pc' = "done" /\ result' = [kind |-> "returned", value |-> response]
        <5>1. ResponseField(w, response, "confirmed")
          BY <3>2, <3>3
        <5> QED BY <2>1, <3>0, <5>1, Zenon
      <4>2. task.winner = p
        BY <1>1, <3>3 DEF WinnersOK, Confirmed, Answered
      <4> QED BY <1>2, <1>3, <2>4, <3>1, <4>1, <4>2 DEF FindsTheWinner, Done
    <3>4. CASE task.answers[p] # "CONFIRMED"
      <4>1. seen' = Append(seen, FALSE) /\ UNCHANGED <<pc, result>>
        <5>1. ~ResponseField(w, response, "confirmed")
          BY <3>2, <3>4
        <5> QED BY <2>1, <3>0, <5>1, Zenon
      <4>2. /\ seen' \in Seq(Range(seen')) /\ Len(seen') = n + 1 /\ seen'[1] = list
        <5>0. \A e : /\ Append(seen, e) \in Seq(Range(Append(seen, e)))
                     /\ Len(Append(seen, e)) = n + 1
                     /\ \A i \in Nat : 1 <= i /\ i <= n => Append(seen, e)[i] = seen[i]
          BY <1>2, SeenMore
        <5>1. /\ seen' \in Seq(Range(seen')) /\ Len(seen') = n + 1
              /\ \A i \in Nat : 1 <= i /\ i <= n => seen'[i] = seen[i]
          BY <4>1, <5>0, Zenon
        <5>2. 1 <= n
          BY <1>2, <2>2
        <5> QED BY <5>1, <5>2
      <4>3. before.winner # Nobody =>
              \E i \in 1 .. Len(found) : found[i] = <<t, before.winner>> /\ n + 1 <= i
        <5>1. ASSUME NEW i \in 1 .. Len(found), found[i] = <<t, before.winner>>, n <= i,
                     before.winner # Nobody
              PROVE  n + 1 <= i
          <6>1. i # n
            BY <2>4, <3>1, <3>4, <5>1 DEF response
          <6> QED BY <1>2, <2>3, <5>1, <6>1
        <5> QED BY <2>3, <5>1
      <4>4. Listed(list, n + 1, t, before, task)
        BY <2>2, <4>3 DEF Listed, found
      <4>5. list.next = list.count /\ list.count \in Nat
        BY <2>1, <2>2 DEF Listed
      <4>6. Found(seen', t, before, task)
        BY <4>2, <4>4, <4>5 DEF Found
      <4> QED BY <1>3, <4>1, <4>2, <4>6 DEF FindsTheWinner, Done
    <3> QED BY <3>3, <3>4
  <2> QED BY <1>2, <2>3, <2>5, <2>6
<1> QED BY <1>5, <1>6, <1>7 DEF get_confirmed_response

LEMMA FindNext ==
  ASSUME FindInv, ReadWorldInv, Shaped(w), WinnersOK(w), StageOK, [Next]_vars
  PROVE  FindInv'
<1>1. CASE ~(IsRead(call) /\ call.name = "get_confirmed_response")
  <2>1. call' = call
    BY DEF Next, CallStep, Resolve, Pin, Broadcast, LoseReply, EstimateReverts, ExecuteFails, GetReceipt,
           ReceiptTimesOut, ReceiptFails, ReadFields, load, get_metadata, fetch_ipfs_json,
           get_confirmed_response, ReadFails, Land, StrayLands, OthersMove, Ended, vars
  <2> QED BY <1>1, <2>1 DEF FindInv, IsRead
<1>2. CASE IsRead(call) /\ call.name = "get_confirmed_response"
  <2>1. /\ call' = call /\ atCall' = atCall
        /\ OthersMove \/ (w' = w /\ recalled' = recalled)
        /\ \/ ReadFields \/ load \/ get_metadata \/ fetch_ipfs_json
           \/ get_confirmed_response \/ ReadFails \/ OthersMove \/ UNCHANGED vars
    BY <1>2, ReadSteps
  <2>2. /\ seen \in Seq(Range(seen)) /\ pc \in {"read", "done"}
        /\ Found(seen, call.self, atCall.tasks[call.self], w.tasks[call.self])
        /\ FindsTheWinner
    BY <1>2 DEF FindInv
  <2>3. ~(load \/ get_metadata \/ fetch_ipfs_json \/ ReadFields)
    BY <1>2, <2>2 DEF load, get_metadata, fetch_ipfs_json, ReadFields, Metadatas
  <2>4. CASE get_confirmed_response
    BY <1>2, <2>4, FindStep
  <2>5. CASE ReadFails
    <3>1. /\ seen' = seen /\ w' = w /\ pc' = "done" /\ result'.kind = "raised"
      BY <2>5 DEF ReadFails, Raise, Ends
    <3> QED BY <2>1, <2>2, <3>1 DEF FindInv, Found, Listed, ResponsesOf, FindsTheWinner, Done
  <2>6. CASE OthersMove
    <3>1. seen' = seen /\ pc' = pc /\ pc # "done"
      BY <2>6 DEF OthersMove
    <3>2. /\ TaskOK(w.tasks[call.self]) /\ TaskOK(w'.tasks[call.self])
          /\ Later(w.tasks[call.self], w'.tasks[call.self])
      <4>1. TasksGoOn(w, w')
        <5>1. TasksOK(w)
          BY <1>2 DEF ReadWorldInv, TasksGoOn
        <5> QED BY <2>6, <5>1, OthersGoOn
      <4> QED BY <1>2, <4>1, SearchedTask DEF TasksGoOn, TasksOK
    <3>3. Found(seen, call.self, atCall.tasks[call.self], w'.tasks[call.self])
      BY <2>2, <3>2, FoundOn
    <3> QED BY <2>1, <2>2, <3>1, <3>3 DEF FindInv, Found, Listed, ResponsesOf, FindsTheWinner, Done
  <2>7. CASE UNCHANGED vars
    <3>1. /\ seen' = seen /\ pc' = pc /\ result' = result /\ UNCHANGED <<w, recalled>>
      BY <2>7 DEF vars
    <3> QED BY <2>1, <2>2, <3>1 DEF FindInv, Found, Listed, ResponsesOf, FindsTheWinner, Done
  <2> QED BY <2>1, <2>3, <2>4, <2>5, <2>6, <2>7
<1> QED BY <1>1, <1>2

LEMMA FindInvFinds ==
  ASSUME FindInv, call \in Calls
  PROVE  FindsTheWinner
<1> SUFFICES ASSUME call.name = "get_confirmed_response" PROVE FindsTheWinner
  BY DEF FindsTheWinner
<1>1. IsRead(call)
  BY ProtocolAssumption DEF IsWrite, WriteMethods, VaultMethods
<1> QED BY <1>1 DEF FindInv

-----------------------------------------------------------------------------
LEMMA ReadsAlways == Spec => [](OutcomeInv /\ SignInv /\ WorldInv /\ CauseInv /\ ReadWorldInv)
<1>1. Spec => [](OutcomeInv /\ SignInv /\ WorldInv /\ CauseInv)
  BY CallAlways
<1>2. OutcomeInv /\ WorldInv /\ CauseInv => StageOK /\ Shaped(w) /\ WinnersOK(w)
  BY DEF OutcomeInv, WorldInv, CauseInv
<1>3. ReadWorldInv /\ OutcomeInv /\ WorldInv /\ CauseInv /\ [Next]_vars => ReadWorldInv'
  BY <1>2, ReadWorldStep
<1> QED BY <1>1, <1>3, ReadWorldInit, PTL DEF Spec

(* A snapshot, though read field by field while others move, does not      *)
(* contradict itself where the order of its fields can prevent it.  Money  *)
(* it shows whole unless somebody claimed, withdrew, cancelled an          *)
(* unbonding or published a task meanwhile: these take money out, or back  *)
(* to a field that has been read (the snapshot methods of task.py,         *)
(* response.py, provider.py and master.py).                                *)
THEOREM SnapshotsCohere == Spec => []SnapshotCoherent
<1>1. OutcomeInv /\ WorldInv /\ CauseInv => StageOK /\ Shaped(w) /\ WinnersOK(w)
  BY DEF OutcomeInv, WorldInv, CauseInv
<1>2. SnapshotInv /\ OutcomeInv /\ WorldInv /\ CauseInv /\ ReadWorldInv /\ [Next]_vars
        => SnapshotInv'
  BY <1>1, SnapshotStep
<1>3. SnapshotInv /\ SignInv => SnapshotCoherent
  BY SnapshotInvCoherent DEF SignInv, SignerOK
<1> QED BY <1>2, <1>3, ReadsAlways, SnapshotInit, PTL DEF Spec

(* get_confirmed_response returns the response that had won when it was    *)
(* called, however many attempters and answers are added between its RPCs, *)
(* and never one that did not win (task.py 287-296, 311-314).              *)
THEOREM WinnerIsFound == Spec => []FindsTheWinner
<1>1. OutcomeInv /\ WorldInv /\ CauseInv => StageOK /\ Shaped(w) /\ WinnersOK(w)
  BY DEF OutcomeInv, WorldInv, CauseInv
<1>2. FindInv /\ OutcomeInv /\ WorldInv /\ CauseInv /\ ReadWorldInv /\ [Next]_vars => FindInv'
  BY <1>1, FindNext
<1>3. FindInv /\ SignInv => FindsTheWinner
  BY FindInvFinds DEF SignInv, SignerOK
<1> QED BY <1>2, <1>3, ReadsAlways, FindInit, PTL DEF Spec
-----------------------------------------------------------------------------
(* Effects.  The accounts the contracts keep stay accounts, and their      *)
(* purses purses, whoever calls.                                           *)
Ledgers(v) == MoneyTyped(v) /\ DOMAIN v.master = Accounts /\ DOMAIN v.claimed = Accounts

LEMMA MovesTyped ==
  ASSUME NEW v, "vault" \in DOMAIN v, MoneyTyped(v), NEW x, NEW n, x \in Accounts => n \in Int,
         NEW from \in PurseParts, NEW to \in PurseParts, from # to
  PROVE  MoneyTyped(Moves(v, x, n, from, to))
<1> DEFINE a == v.vault[x]
           b == [a EXCEPT ![from] = @ - n, ![to] = @ + n]
           u == Moves(v, x, n, from, to)
<1>1. u.vault = [v.vault EXCEPT ![x] = b]
  BY DEF Moves
<1>2. ASSUME x \in Accounts PROVE b \in Purses
  <2>1. a \in [PurseParts -> Int]
    BY <1>2 DEF MoneyTyped, Purses, PurseParts
  <2> HIDE DEF a
  <2>2. a[from] - n \in Int /\ a[to] + n \in Int
    BY <1>2, <2>1
  <2>3. b = [f \in PurseParts |-> IF f = to THEN a[to] + n
                                  ELSE IF f = from THEN a[from] - n ELSE a[f]]
    BY <2>1
  <2> HIDE DEF b
  <2>4. b \in [PurseParts -> Int]
    BY <2>1, <2>2, <2>3
  <2> QED BY <2>4 DEF Purses, PurseParts
<1> HIDE DEF b, u
<1> QED BY <1>1, <1>2 DEF MoneyTyped, u

LEMMA AfterMoneyTyped ==
  ASSUME NEW v, Shaped(v), TasksOK(v), MoneyTyped(v), NEW r, IsContractCall(r), AmountsOK(r),
         r.signer \in Accounts, RevertReasons(v, r) = {}
  PROVE  MoneyTyped(After(v, r))
<1> DEFINE u == After(v, r)
           x == r.signer
<1>0. {"sources", "tasks", "vault", "ripe"} \subseteq DOMAIN v
  BY DEF Shaped
<1>1. v.vault[x] \in Purses /\ v.vault[x].unbonding \in Int /\ v.vault[x].balance \in Int
  BY DEF MoneyTyped, Purses
<1> USE DEF IsContractCall, ContractFunctions
<1>2. CASE r.fn \notin Backwards
  BY <1>2, AfterForward DEF MoneyForward
<1>3. CASE r.fn = "withdraw"
  <2> DEFINE purse == [v.vault[x] EXCEPT !.balance = v.vault[x].balance - r.args.amount]
  <2>1. u.vault = [v.vault EXCEPT ![x] = purse]
    BY <1>0, <1>3 DEF After, AfterVaultWrite
  <2>2. purse \in Purses
    BY <1>1, <1>3 DEF Purses, AmountsOK
  <2> HIDE DEF purse, u
  <2> QED BY <2>1, <2>2 DEF MoneyTyped, u
<1>4. CASE r.fn \in {"cancelUnbonding", "claim"}
  <2>1. \E to \in PurseParts \ {"unbonding"} :
          u = Moves(v, x, v.vault[x].unbonding, "unbonding", to)
    BY <1>4 DEF After, AfterVaultWrite, PurseParts
  <2> QED BY <1>0, <1>1, <2>1, MovesTyped DEF PurseParts
<1>5. CASE r.fn = "publishTask"
  <2> DEFINE y == [v EXCEPT !.tasks = Append(v.tasks, NewTask(v, x, r.args.params))]
  <2>1. u = Moves(y, x, r.args.params[4], "balance", "frozen")
    BY <1>5 DEF After, AfterTaskWrite
  <2>2. y.vault = v.vault /\ "vault" \in DOMAIN y
    BY <1>0
  <2>3. r.args.params[4] \in Int
    BY <1>5 DEF AmountsOK
  <2> HIDE DEF y, u
  <2>4. MoneyTyped(y)
    BY <2>2 DEF MoneyTyped
  <2> QED BY <2>1, <2>2, <2>3, <2>4, MovesTyped DEF PurseParts, u
<1> QED BY <1>2, <1>3, <1>4, <1>5 DEF Backwards

LEMMA AfterLedgers ==
  ASSUME NEW v, Shaped(v), TasksOK(v), Ledgers(v), NEW r, IsContractCall(r), AmountsOK(r),
         r.signer \in Accounts, RevertReasons(v, r) = {}
  PROVE  Ledgers(After(v, r))
<1> DEFINE u == After(v, r)
<1>0. {"sources", "tasks", "vault", "ripe", "master", "claimed"} \subseteq DOMAIN v
  BY DEF Shaped
<1>1. MoneyTyped(u)
  BY AfterMoneyTyped DEF Ledgers
<1>2. DOMAIN u.master = DOMAIN v.master /\ DOMAIN u.claimed = DOMAIN v.claimed
  <2> USE DEF IsContractCall, ContractFunctions
  <2>1. CASE r.on = "source"
    BY <1>0, <2>1 DEF After, AfterSourceWrite
  <2>2. CASE r.on = "vault"
    BY <1>0, <2>2 DEF After, AfterVaultWrite, Moves
  <2>3. CASE r.on = "terminal"
    BY <1>0, <2>3 DEF After, AfterTerminalWrite
  <2>4. CASE r.on = "task"
    <3>1. u = AfterTaskWrite(v, r)
      BY <2>4 DEF After
    <3>2. u.master = v.master /\ u.claimed = v.claimed
      <4>1. CASE r.fn = "attempt"
        BY <1>0, <3>1, <4>1 DEF AfterTaskWrite
      <4>2. CASE r.fn = "confirmResponse"
        BY <1>0, <3>1, <4>2 DEF AfterTaskWrite, Finalized
      <4>3. CASE r.fn = "cancelTask"
        BY <1>0, <3>1, <4>3 DEF AfterTaskWrite, Moves
      <4>4. CASE r.fn = "publishTask"
        BY <1>0, <3>1, <4>4 DEF AfterTaskWrite, Moves
      <4>5. CASE r.fn = "submitResponse"
        BY <1>0, <3>1, <4>5 DEF AfterTaskWrite, Finalized
      <4> QED BY <2>4, <4>1, <4>2, <4>3, <4>4, <4>5
    <3> QED BY <3>2
  <2> QED BY <2>1, <2>2, <2>3, <2>4
<1> QED BY <1>1, <1>2 DEF Ledgers

LEMMA TimeLedgers ==
  ASSUME NEW v, Shaped(v), Ledgers(v), NEW u \in TimePasses(v)
  PROVE  Ledgers(u)
<1>0. {"sources", "tasks", "vault", "ripe", "master", "claimed"} \subseteq DOMAIN v
  BY DEF Shaped
<1>1. u.vault = v.vault /\ u.master = v.master /\ u.claimed = v.claimed
  BY <1>0 DEF TimePasses
<1> QED BY <1>1 DEF Ledgers, MoneyTyped

-----------------------------------------------------------------------------
(* From a call to its request: what the caller named arrives under the     *)
(* name the contract knows it by.                                          *)
LEMMA EnvironmentsSurvive ==
  ASSUME NEW envs, envs \subseteq Environments
  PROVE  parse_environments(combine_environments(envs)) = envs
<1> DEFINE mask == combine_environments(envs)
<1>1. Environments = {"CPU", "NVIDIA", "AMD"}
  BY DEF Environments, EnvironmentValue
<1>2. mask = (IF "CPU" \in envs THEN 1 ELSE 0) + (IF "NVIDIA" \in envs THEN 2 ELSE 0)
             + (IF "AMD" \in envs THEN 4 ELSE 0)
  BY DEF combine_environments, EnvironmentValue
<1> HIDE DEF mask
<1>3. /\ (mask \div 1) % 2 = 1 <=> "CPU" \in envs
      /\ (mask \div 2) % 2 = 1 <=> "NVIDIA" \in envs
      /\ (mask \div 4) % 2 = 1 <=> "AMD" \in envs
  BY <1>2
<1>4. /\ EnvironmentValue["CPU"] = 1 /\ EnvironmentValue["NVIDIA"] = 2
      /\ EnvironmentValue["AMD"] = 4
  BY DEF EnvironmentValue
<1>5. \A e \in Environments : (mask \div EnvironmentValue[e]) % 2 = 1 <=> e \in envs
  BY <1>1, <1>3, <1>4
<1>6. parse_environments(mask) = envs
  BY <1>5 DEF parse_environments
<1> QED BY <1>6 DEF mask

LEMMA InfoDescribed ==
  ASSUME NEW info, info.imageEnvs \subseteq Environments, NEW account
  PROVE  Describes(SourceParamsOf(SourceTuple(build_source_params(info, account))), info)
BY EnvironmentsSurvive
   DEF Describes, SourceParamsOf, SourceTuple, build_source_params, Metadata

(* What the proxy adds is what it stands for.                              *)
LEMMA Joined ==
  ASSUME NEW a, NEW f, NEW y
  PROVE  /\ With(a, f, y)[f] = y
         /\ \A g \in DOMAIN a \ {f} : With(a, f, y)[g] = a[g]
BY DEF With

Writes == call \in Calls /\ env \in Keys /\ IsWrite(call) /\ ArgumentsOK(call)

LEMMA ArgumentsOf ==
  ASSUME Writes
  PROVE  DOMAIN call.args = Takes(call)
BY DEF Writes, ArgumentsOK

(* A source's parameters arrive as the tuple of what was given; client     *)
(* makes them of the info and the account it signs with.                   *)
SourceNames == {"publish_source", "update_source", "set_params"}

LEMMA SourceArrives ==
  ASSUME Writes, call.name \in SourceNames
  PROVE  /\ Request.on = "source"
         /\ Request.fn = IF call.name = "publish_source" THEN "publishSource" ELSE "updateSource"
         /\ call.name # "publish_source" => Request.args.source = Named("source")
         /\ call.of = "client" =>
              /\ Request.args.params =
                   SourceTuple(build_source_params(call.args.info, Request.signer))
              /\ call.args.info.imageEnvs \subseteq Environments
         /\ call.of # "client" => Request.args.params = SourceTuple(call.args.params)
<1>0. call.signer \in Signers /\ env \in [Roles -> Signers]
  BY ProtocolAssumption DEF Writes
<1>1. CASE call.of = "client"
  <2>0. call.name \in {"publish_source", "update_source"}
    BY <1>1 DEF Writes, IsWrite, WriteMethods, SourceNames
  <2>1. "info" \in Takes(call)
    BY <1>1, <2>0 DEF Takes, Parameters, StandsFor
  <2>2. call.args.info.imageEnvs \subseteq Environments
    BY <2>0, <2>1 DEF Writes, ArgumentsOK
  <2> DEFINE account == ResolveSigner(call.signer, "client")
  <2>3. ResolveSigner(account, "client") = account
    BY <1>0, ResolvedOnce DEF Roles
  <2>4. CASE call.name = "publish_source"
    <3>1. Request = publish_source([params |-> build_source_params(call.args.info, account)], account)
      BY <1>1, <2>4 DEF Request, RequestOf, ClientCall, Client_publish_source
    <3> HIDE DEF account
    <3>2. Request.signer = account
      BY <2>3, <3>1 DEF publish_source, Write
    <3> QED BY <1>1, <2>2, <2>4, <3>1, <3>2 DEF publish_source, Write, Encoded
  <2>5. CASE call.name = "update_source"
    <3>1. Request = update_source([source |-> call.args.source,
                                   params |-> build_source_params(call.args.info, account)], account)
      BY <1>1, <2>5 DEF Request, RequestOf, ClientCall, Client_update_source
    <3> HIDE DEF account
    <3>2. Request.signer = account
      BY <2>3, <3>1 DEF update_source, Write
    <3>3. "source" \in DOMAIN call.args
      BY <1>1, <2>5, ArgumentsOf DEF Takes, Parameters, StandsFor
    <3> QED BY <1>1, <2>2, <2>5, <3>1, <3>2, <3>3 DEF update_source, Write, Encoded, Named
  <2> QED BY <2>0, <2>4, <2>5
<1>2. CASE call.of = "nexus"
  <2>0. call.name \in {"publish_source", "update_source"}
    BY <1>2 DEF Writes, IsWrite, WriteMethods, SourceNames
  <2>1. CASE call.name = "publish_source"
    <3>1. DOMAIN call.args = {"params"}
      BY <1>2, <2>1, ArgumentsOf DEF Takes, Parameters, StandsFor
    <3> QED BY <1>2, <2>1, <3>1 DEF Request, RequestOf, NexusCall, publish_source, Write, Encoded
  <2>2. CASE call.name = "update_source"
    <3>1. DOMAIN call.args = {"source", "params"}
      BY <1>2, <2>2, ArgumentsOf DEF Takes, Parameters, StandsFor
    <3> QED BY <1>2, <2>2, <3>1
            DEF Request, RequestOf, NexusCall, update_source, Write, Encoded, Named
  <2> QED BY <2>0, <2>1, <2>2
<1>3. CASE call.of = "Source"
  <2>1. call.name = "set_params"
    BY <1>3 DEF Writes, IsWrite, WriteMethods, SourceNames
  <2>2. DOMAIN call.args = {"params"}
    BY <1>3, <2>1, ArgumentsOf DEF Takes, Parameters, StandsFor
  <2> DEFINE joined == With(call.args, "source", call.self)
  <2>3. Request = update_source(joined, call.signer)
    BY <1>3, <2>1 DEF Request, RequestOf, ProxyCall, Source_set_params
  <2>4. joined.source = call.self /\ joined.params = call.args.params
        /\ DOMAIN joined = {"source", "params"}
    BY <2>2, Joined DEF With
  <2> HIDE DEF joined
  <2> QED BY <1>3, <2>1, <2>2, <2>3, <2>4 DEF update_source, Write, Encoded, Named
<1> QED BY <1>1, <1>2, <1>3 DEF Writes, IsWrite, WriteMethods, VaultMethods, SourceNames

(* They read back as what was given.                                       *)
LEMMA SourceReadsBack ==
  ASSUME Writes, call.name \in SourceNames, NEW s,
         SourceField(w', s, "params") = SourceParamsOf(Request.args.params)
  PROVE  SourceReads(s)
<1>1. CASE call.of = "client"
  <2> DEFINE params == build_source_params(call.args.info, Request.signer)
  <2>1. Request.args.params = SourceTuple(params) /\ call.args.info.imageEnvs \subseteq Environments
    BY <1>1, SourceArrives
  <2>2. Describes(SourceParamsOf(SourceTuple(params)), call.args.info)
    BY <2>1, InfoDescribed
  <2>3. SourceParamsOf(SourceTuple(params)).client = Request.signer
    BY DEF SourceParamsOf, SourceTuple, build_source_params
  <2> HIDE DEF params
  <2> QED BY <1>1, <2>1, <2>2, <2>3 DEF SourceReads
<1>2. CASE call.of # "client"
  <2> DEFINE read == SourceParamsOf(SourceTuple(call.args.params))
  <2>1. SourceField(w', s, "params") = read
    BY <1>2, SourceArrives
  <2>2. \A f \in DOMAIN read : read[f] = call.args.params[f]
    BY DEF SourceParamsOf, SourceTuple
  <2> HIDE DEF read
  <2> QED BY <1>2, <2>1, <2>2 DEF SourceReads
<1> QED BY <1>1, <1>2

(* The same for a task.                                                    *)
LEMMA TaskArrives ==
  ASSUME Writes, call.name = "publish_task"
  PROVE  LET given == IF call.of = "client" THEN call.args.info ELSE call.args.params
         IN  /\ Request.on = "task" /\ Request.fn = "publishTask" /\ Request.value = 0
             /\ Request.args.params = TaskTuple(given)
             /\ given.payment \in Nat
<1>1. call.of \in {"controller", "client"}
  BY DEF Writes, IsWrite, WriteMethods, VaultMethods
<1>2. (IF call.of = "client" THEN call.args.info ELSE call.args.params).payment \in Nat
  BY DEF Writes, ArgumentsOK
<1>3. CASE call.of = "controller"
  <2>1. "params" \in DOMAIN call.args
    BY <1>3, ArgumentsOf DEF Takes, Parameters, StandsFor
  <2> QED BY <1>2, <1>3, <2>1 DEF Request, RequestOf, ControllerCall, publish_task, Write
<1>4. CASE call.of = "client"
  BY <1>2, <1>4 DEF Request, RequestOf, ClientCall, Client_publish_task, publish_task, Write,
                    TaskTuple, build_task_params
<1> QED BY <1>1, <1>3, <1>4

LEMMA TaskReadsBack ==
  ASSUME Writes, call.name = "publish_task", NEW t,
         TaskField(w', t, "params") = TaskParamsOf(Request.args.params)
  PROVE  TaskReads(t)
<1> DEFINE given == IF call.of = "client" THEN call.args.info ELSE call.args.params
           read == TaskParamsOf(TaskTuple(given))
<1>1. TaskField(w', t, "params") = read
  BY TaskArrives
<1>2. \A f \in DOMAIN read : read[f] = given[f]
  BY DEF TaskParamsOf, TaskTuple
<1> HIDE DEF read
<1> QED BY <1>1, <1>2 DEF TaskReads

LEMMA SetStatusRequest ==
  ASSUME Writes, call.name = "set_status"
  PROVE  /\ Request.on = "source" /\ Request.fn = "setStatus"
         /\ Request.args.source = call.self /\ Request.args.status = call.args.status
<1>1. call.of = "Source"
  BY DEF Writes, IsWrite, WriteMethods, VaultMethods
<1>2. DOMAIN call.args = {"status"}
  BY <1>1, ArgumentsOf DEF Takes, Parameters, StandsFor
<1> DEFINE joined == With(call.args, "source", call.self)
<1>3. joined.source = call.self /\ joined.status = call.args.status
  BY <1>2, Joined
<1>4. Request = Write(call.signer, "client", "source", "setStatus", joined)
  BY <1>1 DEF Request, RequestOf, ProxyCall, Source_set_status
<1> HIDE DEF joined
<1> QED BY <1>3, <1>4 DEF Write

LEMMA InactivateRequest ==
  ASSUME Writes, call.name \in {"inactivate", "inactivate_source"}
  PROVE  /\ Request.on = "source" /\ Request.fn = "inactivateSource"
         /\ Request.args.source = Named("source")
<1>1. CASE call.of = "Source"
  <2>1. DOMAIN call.args = {} /\ call.name = "inactivate"
    BY <1>1, ArgumentsOf DEF Takes, Parameters, StandsFor, Writes, IsWrite, WriteMethods
  <2>2. Request = inactivate_source([source |-> call.self], call.signer)
    BY <1>1, <2>1 DEF Request, RequestOf, ProxyCall, Source_inactivate
  <2> QED BY <2>1, <2>2 DEF inactivate_source, Write, Named
<1>2. CASE call.of \in {"nexus", "client"}
  <2>0. call.name = "inactivate_source"
    <3>1. call.name \in WriteMethods[call.of]
      BY DEF Writes, IsWrite
    <3> QED BY <1>2, <3>1 DEF WriteMethods
  <2>a. Parameters(call.name) = {"source"}
    BY <2>0 DEF Parameters
  <2>b. StandsFor(call.of) = {}
    BY <1>2 DEF StandsFor
  <2>1. DOMAIN call.args = {"source"} /\ call.name = "inactivate_source"
    BY <2>0, <2>a, <2>b, ArgumentsOf DEF Takes
  <2>2. \E s : Request = inactivate_source(call.args, s)
    BY <1>2, <2>1 DEF Request, RequestOf, NexusCall, ClientCall, Client_inactivate_source
  <2>3. Named("source") = call.args.source
    BY <2>1 DEF Named
  <2> QED BY <2>2, <2>3 DEF inactivate_source, Write
<1> QED BY <1>1, <1>2 DEF Writes, IsWrite, WriteMethods, VaultMethods

LEMMA RegisterRequest ==
  ASSUME Writes, call.name \in {"register", "register_to"}
  PROVE  /\ Request.on = "source" /\ Request.fn = "register"
         /\ Request.args.source = call.args.source
         /\ Request.args.provider = Named("provider") /\ Request.args.env = call.args.env
<1>1. CASE call.of = "Provider"
  <2>1. DOMAIN call.args = {"source", "env"} /\ call.name = "register_to"
    BY <1>1, ArgumentsOf DEF Takes, Parameters, StandsFor, Writes, IsWrite, WriteMethods, VaultMethods
  <2> DEFINE joined == With(call.args, "provider", call.self)
  <2>2. Request = register(joined, call.signer)
    BY <1>1, <2>1 DEF Request, RequestOf, ProxyCall, Provider_method
  <2>3. joined.provider = call.self /\ joined.source = call.args.source /\ joined.env = call.args.env
    BY <2>1, Joined
  <2> HIDE DEF joined
  <2>4. Named("provider") = call.self
    BY <2>1 DEF Named
  <2> QED BY <2>2, <2>3, <2>4 DEF register, Write
<1>2. CASE call.of \in {"nexus", "agent"}
  <2>1. DOMAIN call.args = {"source", "provider", "env"}
    BY <1>2, ArgumentsOf DEF Takes, Parameters, StandsFor, Writes, IsWrite, WriteMethods
  <2>2. \E s : Request = register(call.args, s)
    BY <1>2 DEF Request, RequestOf, NexusCall, AgentCall, Agent_register_to, Writes, IsWrite, WriteMethods
  <2>3. Named("provider") = call.args.provider
    BY <2>1 DEF Named
  <2> QED BY <2>2, <2>3 DEF register, Write
<1> QED BY <1>1, <1>2 DEF Writes, IsWrite, WriteMethods, VaultMethods

LEMMA UnregisterRequest ==
  ASSUME Writes, call.name \in {"unregister", "unregister_from"}
  PROVE  /\ Request.on = "source" /\ Request.fn = "unregister"
         /\ Request.args.source = call.args.source
         /\ Request.args.provider = Named("provider")
<1>1. CASE call.of = "Provider"
  <2>1. DOMAIN call.args = {"source"} /\ call.name = "unregister_from"
    BY <1>1, ArgumentsOf DEF Takes, Parameters, StandsFor, Writes, IsWrite, WriteMethods, VaultMethods
  <2> DEFINE joined == With(call.args, "provider", call.self)
  <2>2. Request = unregister(joined, call.signer)
    BY <1>1, <2>1 DEF Request, RequestOf, ProxyCall, Provider_method
  <2>3. joined.provider = call.self /\ joined.source = call.args.source
    BY <2>1, Joined
  <2> HIDE DEF joined
  <2>4. Named("provider") = call.self
    BY <2>1 DEF Named
  <2> QED BY <2>2, <2>3, <2>4 DEF unregister, Write
<1>2. CASE call.of \in {"nexus", "agent"}
  <2>1. DOMAIN call.args = {"source", "provider"}
    BY <1>2, ArgumentsOf DEF Takes, Parameters, StandsFor, Writes, IsWrite, WriteMethods
  <2>2. \E s : Request = unregister(call.args, s)
    BY <1>2 DEF Request, RequestOf, NexusCall, AgentCall, Agent_unregister_from, Writes, IsWrite, WriteMethods
  <2>3. Named("provider") = call.args.provider
    BY <2>1 DEF Named
  <2> QED BY <2>2, <2>3 DEF unregister, Write
<1> QED BY <1>1, <1>2 DEF Writes, IsWrite, WriteMethods, VaultMethods

LEMMA AttemptRequest ==
  ASSUME Writes, call.name = "attempt"
  PROVE  /\ Request.on = "task" /\ Request.fn = "attempt"
         /\ Request.args.task = call.args.task /\ Request.args.provider = Named("provider")
<1>1. CASE call.of = "Provider"
  <2>1. DOMAIN call.args = {"task", "payment"}
    BY <1>1, ArgumentsOf DEF Takes, Parameters, StandsFor
  <2> DEFINE joined == With(call.args, "provider", call.self)
  <2>2. Request = attempt(joined, call.signer)
    BY <1>1 DEF Request, RequestOf, ProxyCall, Provider_method
  <2>3. joined.provider = call.self /\ joined.task = call.args.task
    BY <2>1, Joined
  <2> HIDE DEF joined
  <2>4. Named("provider") = call.self
    BY <2>1 DEF Named
  <2> QED BY <2>2, <2>3, <2>4 DEF attempt, Write
<1>2. CASE call.of \in {"nexus", "agent"}
  <2>1. DOMAIN call.args = {"task", "provider", "payment"}
    BY <1>2, ArgumentsOf DEF Takes, Parameters, StandsFor
  <2> QED BY <1>2, <2>1 DEF Request, RequestOf, NexusCall, AgentCall, Agent_attempt, attempt,
                            Write, Named
<1> QED BY <1>1, <1>2 DEF Writes, IsWrite, WriteMethods, VaultMethods

LEMMA ConfirmRequest ==
  ASSUME Writes, call.name \in {"confirm", "confirm_response"}
  PROVE  LET r == IF call.name = "confirm" THEN call.self ELSE <<call.args.task, call.args.provider>>
         IN  /\ Request.on = "task" /\ Request.fn = "confirmResponse"
             /\ Request.args.task = r[1] /\ Request.args.provider = r[2] /\ r = <<r[1], r[2]>>
<1>1. CASE call.of = "Response"
  <2>1. call.name = "confirm" /\ call.self \in Nat \X Accounts
    BY <1>1 DEF Writes, IsWrite, WriteMethods, ArgumentsOK
  <2> QED BY <1>1, <2>1 DEF Request, RequestOf, ProxyCall, Response_confirm, confirm_response, Write
<1>2. CASE call.of \in {"controller", "client"}
  <2>1. call.name = "confirm_response"
    BY <1>2 DEF Writes, IsWrite, WriteMethods
  <2> QED BY <1>2, <2>1 DEF Request, RequestOf, ControllerCall, ClientCall,
                            Client_confirm_response, confirm_response, Write
<1> QED BY <1>1, <1>2 DEF Writes, IsWrite, WriteMethods, VaultMethods

LEMMA CancelRequest ==
  ASSUME Writes, call.name \in {"cancel", "cancel_task"}
  PROVE  /\ Request.on = "task" /\ Request.fn = "cancelTask"
         /\ Request.args.task = Named("task")
<1>1. CASE call.of = "Task"
  <2>1. DOMAIN call.args = {} /\ call.name = "cancel"
    BY <1>1, ArgumentsOf DEF Takes, Parameters, StandsFor, Writes, IsWrite, WriteMethods
  <2> QED BY <1>1, <2>1 DEF Request, RequestOf, ProxyCall, Task_cancel, cancel_task, Write, Named
<1>2. CASE call.of \in {"controller", "client"}
  <2>1. DOMAIN call.args = {"task"} /\ call.name = "cancel_task"
    BY <1>2, ArgumentsOf DEF Takes, Parameters, StandsFor, Writes, IsWrite, WriteMethods
  <2> QED BY <1>2, <2>1 DEF Request, RequestOf, ControllerCall, ClientCall, Client_cancel_task,
                            cancel_task, Write, Named
<1> QED BY <1>1, <1>2 DEF Writes, IsWrite, WriteMethods, VaultMethods

LEMMA DepositRequest ==
  ASSUME Writes, call.name \in {"deposit", "deposit_to_vault"}
  PROVE  /\ Request.on = "vault" /\ Request.fn = "deposit"
         /\ Request.args.account = Named("account") /\ Request.value = call.args.amount
         /\ Named("account") \in Accounts
<1>1. CASE call.of \in {"Provider", "Master"}
  <2> DEFINE joined == With(call.args, "account", call.self)
  <2>1. DOMAIN call.args = {"amount"} /\ call.name = "deposit_to_vault"
    BY <1>1, ArgumentsOf DEF Takes, Parameters, StandsFor, Writes, IsWrite, WriteMethods, VaultMethods
  <2>2. Request = deposit(joined, call.signer)
    BY <1>1, <2>1 DEF Request, RequestOf, ProxyCall, Provider_method, Master_method, VaultMethod
  <2>3. joined.account = call.self /\ joined.amount = call.args.amount
    BY <2>1, Joined
  <2> HIDE DEF joined
  <2>4. Named("account") = call.self
    BY <2>1 DEF Named
  <2>5. Request.on = "vault" /\ Request.fn = "deposit" /\ Request.args = joined
        /\ Request.value = joined.amount
    BY <2>2 DEF deposit, Paying, Write
  <2> QED BY <1>1, <2>3, <2>4, <2>5, ProtocolAssumption DEF Writes
<1>2. CASE call.of = "vault"
  <2>1. DOMAIN call.args = {"account", "amount"} /\ call.name = "deposit"
    BY <1>2, ArgumentsOf DEF Takes, Parameters, StandsFor, Writes, IsWrite, WriteMethods
  <2>2. Request = deposit(call.args, call.signer)
    BY <1>2, <2>1 DEF Request, RequestOf, VaultCall
  <2>3. Named("account") = call.args.account
    BY <2>1 DEF Named
  <2>4. call.args.account \in Accounts
    BY <2>1, ArgumentsOf DEF Writes, ArgumentsOK
  <2> QED BY <2>2, <2>3, <2>4 DEF deposit, Paying, Write
<1> QED BY <1>1, <1>2 DEF Writes, IsWrite, WriteMethods, VaultMethods

SpendsAs ==
  [withdraw |-> "withdraw", withdraw_from_vault |-> "withdraw", lock |-> "lock", stake |-> "lock",
   unbond |-> "unbond", unstake |-> "unbond"]

LEMMA SpendRequest ==
  ASSUME Writes, call.name \in DOMAIN SpendsAs
  PROVE  /\ Request.on = "vault" /\ Request.fn = SpendsAs[call.name]
         /\ Request.args.amount = call.args.amount /\ call.args.amount \in Nat
<1>1. "amount" \in Takes(call)
  BY DEF Takes, Parameters, StandsFor, SpendsAs
<1>2. call.args.amount \in Nat
  BY <1>1 DEF Writes, ArgumentsOK
<1>3. call.of \in {"vault", "Provider", "Master"}
  BY DEF Writes, IsWrite, WriteMethods, VaultMethods, SpendsAs
<1>4. CASE call.of = "vault"
  <2>1. Request = VaultCall(call.name, call.args, call.signer)
    BY <1>4 DEF Request, RequestOf
  <2>2. call.name \in {"withdraw", "lock", "unbond"}
    BY <1>4 DEF Writes, IsWrite, WriteMethods, SpendsAs
  <2> QED BY <1>2, <2>1, <2>2 DEF VaultCall, withdraw, lock, unbond, Write, SpendsAs
<1>5. CASE call.of \in {"Provider", "Master"}
  <2>1. call.name \in {"withdraw_from_vault", "stake", "unstake"}
    BY <1>5 DEF Writes, IsWrite, WriteMethods, VaultMethods, SpendsAs
  <2>2. Request = VaultMethod(call.name, call.self, call.args, call.signer)
    BY <1>5, <2>1 DEF Request, RequestOf, ProxyCall, Provider_method, Master_method
  <2> QED BY <1>2, <2>1, <2>2 DEF VaultMethod, withdraw, lock, unbond, Write, SpendsAs
<1> QED BY <1>3, <1>4, <1>5

(* What is unbonding comes out whole, to the balance or to the lockup.     *)
LEMMA UnbondedRequest ==
  ASSUME Writes, call.name \in {"claim", "claim_earnings", "cancel_unbonding"}
  PROVE  /\ Request.on = "vault"
         /\ Request.fn = IF call.name = "cancel_unbonding" THEN "cancelUnbonding" ELSE "claim"
<1>1. CASE call.of = "vault"
  <2>1. call.name \in {"claim", "cancel_unbonding"}
    BY <1>1 DEF Writes, IsWrite, WriteMethods
  <2> QED BY <1>1, <2>1 DEF Request, RequestOf, VaultCall, claim, cancel_unbonding, Write
<1>2. CASE call.of \in {"Provider", "Master"}
  <2>1. call.name \in {"claim_earnings", "cancel_unbonding"}
    BY <1>2 DEF Writes, IsWrite, WriteMethods, VaultMethods
  <2>2. Request = VaultMethod(call.name, call.self, call.args, call.signer)
    BY <1>2, <2>1 DEF Request, RequestOf, ProxyCall, Provider_method, Master_method
  <2> QED BY <2>1, <2>2 DEF VaultMethod, claim, cancel_unbonding, Write
<1> QED BY <1>1, <1>2 DEF Writes, IsWrite, WriteMethods, VaultMethods

LEMMA AnnounceProviderRequest ==
  ASSUME Writes, call.name = "announce_provider"
  PROVE  /\ Request.on = "terminal" /\ Request.fn = "announceProvider"
         /\ Request.args.provider = call.args.provider /\ Request.value = call.args.amount
         /\ call.args.provider \in Accounts
<1>1. call.of \in {"terminal", "Master"}
  BY DEF Writes, IsWrite, WriteMethods, VaultMethods
<1>2. "provider" \in Takes(call)
  BY <1>1 DEF Takes, Parameters, StandsFor
<1>3. call.args.provider \in Accounts
  BY <1>2 DEF Writes, ArgumentsOK
<1>4. Request = announce_provider(call.args, call.signer)
  BY <1>1 DEF Request, RequestOf, TerminalCall, ProxyCall, Master_method
<1> QED BY <1>3, <1>4 DEF announce_provider, Paying, Write

LEMMA AnnounceMasterRequest ==
  ASSUME Writes, call.name = "announce_master"
  PROVE  /\ Request.on = "terminal" /\ Request.fn = "announceMaster"
         /\ Request.args.master = call.args.master
<1>1. call.of \in {"terminal", "Provider"}
  BY DEF Writes, IsWrite, WriteMethods, VaultMethods
<1>2. Request = announce_master(call.args, call.signer)
  BY <1>1 DEF Request, RequestOf, TerminalCall, ProxyCall, Provider_method
<1> QED BY <1>2 DEF announce_master, Write

LEMMA RemoveProviderRequest ==
  ASSUME Writes, call.name = "remove_provider"
  PROVE  /\ Request.on = "terminal" /\ Request.fn = "removeProvider"
         /\ Request.args.provider = call.args.provider /\ call.args.provider \in Accounts
<1>1. call.of \in {"terminal", "Master"}
  BY DEF Writes, IsWrite, WriteMethods, VaultMethods
<1>2. "provider" \in Takes(call)
  BY <1>1 DEF Takes, Parameters, StandsFor
<1>3. call.args.provider \in Accounts
  BY <1>2 DEF Writes, ArgumentsOK
<1>4. Request = remove_provider(call.args, call.signer)
  BY <1>1 DEF Request, RequestOf, TerminalCall, ProxyCall, Master_method
<1> QED BY <1>3, <1>4 DEF remove_provider, Write

LEMMA RemoveContainerRequest ==
  ASSUME Writes, call.name = "remove_container"
  PROVE  Request.on = "terminal" /\ Request.fn = "removeContainer"
<1>1. call.of \in {"terminal", "Master"}
  BY DEF Writes, IsWrite, WriteMethods, VaultMethods
<1>2. Request = remove_container(call.args, call.signer)
  BY <1>1 DEF Request, RequestOf, TerminalCall, ProxyCall, Master_method
<1> QED BY <1>2 DEF remove_container, Write

LEMMA SetAgentRequest ==
  ASSUME Writes, call.name = "set_agent"
  PROVE  /\ Request.on = "terminal" /\ Request.fn = "setAgent"
         /\ Request.args.agent = call.args.agent /\ Request.args.value = call.args.value
         /\ call.args.value \in BOOLEAN
<1>1. call.of \in {"terminal", "client", "Master"}
  BY DEF Writes, IsWrite, WriteMethods, VaultMethods
<1>2. "value" \in Takes(call)
  BY <1>1 DEF Takes, Parameters, StandsFor
<1>3. call.args.value \in BOOLEAN
  BY <1>2 DEF Writes, ArgumentsOK
<1>4. \E s : Request = set_agent(call.args, s)
  BY <1>1 DEF Request, RequestOf, TerminalCall, ClientCall, Client_set_agent, ProxyCall,
              Master_method
<1> QED BY <1>3, <1>4 DEF set_agent, Write

LEMMA RevokeAgentRequest ==
  ASSUME Writes, call.name = "revoke_agent"
  PROVE  /\ Request.on = "terminal" /\ Request.fn = "setAgent"
         /\ Request.args.agent = call.args.agent /\ Request.args.value = FALSE
<1>1. call.of = "terminal"
  BY DEF Writes, IsWrite, WriteMethods, VaultMethods
<1>2. Request = set_agent([agent |-> call.args.agent, value |-> FALSE], call.signer)
  BY <1>1 DEF Request, RequestOf, TerminalCall, revoke_agent
<1> QED BY <1>2 DEF set_agent, Write

LEMMA SetDefaultRequest ==
  ASSUME Writes, call.name = "set_default_agent_disabled"
  PROVE  /\ Request.on = "terminal" /\ Request.fn = "setDefaultAgentDisabled"
         /\ Request.args.value = call.args.value /\ call.args.value \in BOOLEAN
<1>1. call.of \in {"terminal", "Provider"}
  BY DEF Writes, IsWrite, WriteMethods, VaultMethods
<1>2. "value" \in Takes(call)
  BY <1>1 DEF Takes, Parameters, StandsFor
<1>3. call.args.value \in BOOLEAN
  BY <1>2 DEF Writes, ArgumentsOK
<1>4. Request = set_default_agent_disabled(call.args, call.signer)
  BY <1>1 DEF Request, RequestOf, TerminalCall, ProxyCall, Provider_method
<1> QED BY <1>3, <1>4 DEF set_default_agent_disabled, Write
(* The other writes carry no amount.                                       *)
LEMMA OtherRequest ==
  ASSUME IsWrite(call),
         call.name \notin {"publish_task", "deposit", "deposit_to_vault", "announce_provider",
                           "withdraw", "withdraw_from_vault", "lock", "stake", "unbond", "unstake"}
  PROVE  Request.value = 0 /\ Request.fn \notin {"withdraw", "lock", "unbond", "publishTask"}
<1> USE DEF IsWrite, WriteMethods, VaultMethods, Request, RequestOf, Write
<1>1. CASE call.of = "nexus"
  BY <1>1 DEF NexusCall, publish_source, update_source, inactivate_source, register, unregister,
              attempt
<1>2. CASE call.of = "controller"
  BY <1>2 DEF ControllerCall, confirm_response, cancel_task
<1>3. CASE call.of = "terminal"
  BY <1>3 DEF TerminalCall, set_agent, revoke_agent, announce_master, remove_provider,
              remove_container, set_default_agent_disabled
<1>4. CASE call.of = "vault"
  BY <1>4 DEF VaultCall, cancel_unbonding, claim
<1>5. CASE call.of = "client"
  BY <1>5
     DEF ClientCall, Client_publish_source, Client_update_source, Client_inactivate_source,
         Client_confirm_response, Client_set_agent, Client_cancel_task, publish_source,
         update_source, inactivate_source, confirm_response, set_agent, cancel_task
<1>6. CASE call.of = "agent"
  BY <1>6 DEF AgentCall, Agent_register_to, Agent_unregister_from, Agent_attempt, register,
              unregister, attempt
<1>7. CASE call.of \in {"Source", "Task", "Response"}
  <2>1. CASE call.of = "Source"
    BY <2>1 DEF ProxyCall, Source_set_status, Source_set_params, Source_inactivate, update_source,
                inactivate_source
  <2>2. CASE call.of = "Task"
    BY <2>2 DEF ProxyCall, Task_cancel, cancel_task
  <2>3. CASE call.of = "Response"
    BY <2>3 DEF ProxyCall, Response_confirm, confirm_response
  <2> QED BY <1>7, <2>1, <2>2, <2>3
<1>8. CASE call.of \in {"Provider", "Master"} /\ call.name \in VaultMethods
  <2>1. Request = VaultMethod(call.name, call.self, call.args, call.signer)
    BY <1>8 DEF ProxyCall, Provider_method, Master_method
  <2> QED BY <1>8, <2>1 DEF VaultMethod, cancel_unbonding, claim
<1>9. CASE call.of = "Provider" /\ call.name \notin VaultMethods
  <2>1. Request = Provider_method(call.name, call.self, call.args, call.signer)
    BY <1>9 DEF ProxyCall
  <2> QED BY <1>9, <2>1 DEF Provider_method, announce_master, set_default_agent_disabled, register,
                            unregister, attempt
<1>10. CASE call.of = "Master" /\ call.name \notin VaultMethods
  <2>1. Request = Master_method(call.name, call.self, call.args, call.signer)
    BY <1>10 DEF ProxyCall
  <2> QED BY <1>10, <2>1 DEF Master_method, remove_provider, remove_container, set_agent
<1> QED BY <1>1, <1>2, <1>3, <1>4, <1>5, <1>6, <1>7, <1>8, <1>9, <1>10

(* Every amount a request carries was given as one.                        *)
LEMMA RequestAmounts ==
  ASSUME Writes
  PROVE  AmountsOK(Request)
<1>0. IsWrite(call)
  BY DEF Writes
<1>1. CASE call.name = "publish_task"
  <2> DEFINE given == IF call.of = "client" THEN call.args.info ELSE call.args.params
  <2>1. /\ Request.fn = "publishTask" /\ Request.value = 0
        /\ Request.args.params = TaskTuple(given) /\ given.payment \in Nat
    BY <1>1, TaskArrives
  <2>2. TaskTuple(given)[4] = given.payment
    BY DEF TaskTuple
  <2> HIDE DEF given
  <2> QED BY <2>1, <2>2 DEF AmountsOK
<1>2. CASE call.name \in {"deposit", "deposit_to_vault"}
  <2>1. call.args.amount \in Nat
    BY <1>2 DEF Writes, ArgumentsOK, Takes, Parameters, StandsFor
  <2> QED BY <1>2, <2>1, DepositRequest DEF AmountsOK
<1>3. CASE call.name = "announce_provider"
  <2>1. call.args.amount \in Nat
    BY <1>3 DEF Writes, ArgumentsOK, Takes, Parameters, StandsFor
  <2> QED BY <1>3, <2>1, AnnounceProviderRequest DEF AmountsOK
<1>4. CASE call.name \in DOMAIN SpendsAs
  <2>1. Request.args.amount \in Nat /\ Request.fn # "publishTask"
    BY <1>4, SpendRequest DEF SpendsAs
  <2>2. Request.value = 0
    <3>1. CASE call.of = "vault"
      BY <1>0, <1>4, <3>1 DEF Request, RequestOf, VaultCall, withdraw, lock, unbond, Write,
                              IsWrite, WriteMethods, SpendsAs
    <3>2. CASE call.of \in {"Provider", "Master"}
      <4>1. call.name \in {"withdraw_from_vault", "stake", "unstake"}
        BY <1>0, <1>4, <3>2 DEF IsWrite, WriteMethods, VaultMethods, SpendsAs
      <4>2. Request = VaultMethod(call.name, call.self, call.args, call.signer)
        BY <3>2, <4>1 DEF Request, RequestOf, ProxyCall, Provider_method, Master_method
      <4> QED BY <4>1, <4>2 DEF VaultMethod, withdraw, lock, unbond, Write
    <3> QED BY <1>0, <1>4, <3>1, <3>2 DEF IsWrite, WriteMethods, VaultMethods, SpendsAs
  <2> QED BY <2>1, <2>2 DEF AmountsOK
<1>5. CASE call.name \notin {"publish_task", "deposit", "deposit_to_vault", "announce_provider"}
           /\ call.name \notin DOMAIN SpendsAs
  <2>1. Request.value = 0 /\ Request.fn \notin {"withdraw", "lock", "unbond", "publishTask"}
    BY <1>0, <1>5, OtherRequest DEF SpendsAs
  <2> QED BY <2>1 DEF AmountsOK
<1> QED BY <1>1, <1>2, <1>3, <1>4, <1>5

(* Whoever moves, every task and every purse stays in order, and what a    *)
(* call asks of a source's own address goes to a source.                   *)
MarketInv ==
  /\ TasksOK(w) /\ Ledgers(w)
  /\ call.name = "set_status" => call.self \in Sources(atCall)

LEMMA MarketInit == Init => MarketInv
<1> SUFFICES ASSUME Init PROVE MarketInv
  OBVIOUS
<1>1. WorldOK(w) /\ atCall = w /\ call \in Calls
  BY ProtocolAssumption DEF Init
<1>2. TasksOK(w) /\ Ledgers(w)
  BY <1>1 DEF WorldOK, TasksOK, Ledgers, MoneyTyped
<1>3. call.name = "set_status" => call.of = "Source"
  BY <1>1, ProtocolAssumption DEF IsWrite, WriteMethods, IsRead, ReadMethods, VaultMethods
<1>4. call.name = "set_status" => call.self \in Sources(w)
  BY <1>3 DEF Init, ToItself, Exists
<1> QED BY <1>1, <1>2, <1>4 DEF MarketInv

(* What lands, the call's transaction or a stray, is a contract call by an *)
(* account over amounts.                                                   *)
LEMMA LandsProperly ==
  ASSUME OutcomeInv, SignerOK, tx = "pending" \/ strays > 0
  PROVE  Writes /\ IsContractCall(Request) /\ Request.signer \in Accounts /\ AmountsOK(Request)
<1>1. ~IsRead(call)
  BY DEF OutcomeInv, StageOK
<1>2. Writes
  BY <1>1, ProtocolAssumption DEF Writes, SignerOK
<1>3. tx # "none" \/ unanswered > 0
  BY DEF OutcomeInv, StageOK, EffectsCounted
<1> QED BY <1>2, <1>3, RequestAmounts, WriteIsContractCall DEF Writes, SignerOK

LEMMA MarketStep ==
  ASSUME MarketInv, OutcomeInv, SignerOK, Shaped(w), WinnersOK(w), [Next]_vars
  PROVE  MarketInv'
<1> USE DEF MarketInv
<1>1. call' = call /\ atCall' = atCall
  BY DEF Next, CallStep, Resolve, Pin, Broadcast, LoseReply, EstimateReverts, ExecuteFails, GetReceipt,
         ReceiptTimesOut, ReceiptFails, ReadFields, load, get_metadata, fetch_ipfs_json,
         get_confirmed_response, ReadFails, Land, StrayLands, OthersMove, Ended, vars
<1>2. Land \/ StrayLands \/ OthersMove \/ w' = w
  BY DEF Next, CallStep, Resolve, Pin, Broadcast, LoseReply, EstimateReverts, ExecuteFails, GetReceipt,
         ReceiptTimesOut, ReceiptFails, ReadFields, load, get_metadata, fetch_ipfs_json,
         get_confirmed_response, ReadFails, Ended, vars
<1>3. TasksOK(w') /\ Ledgers(w')
  <2>1. CASE w' = w
    BY <2>1
  <2>2. CASE (Land \/ StrayLands) /\ w' # w
    <3>1. /\ tx = "pending" \/ strays > 0
          /\ RevertReasons(w, Request) = {} /\ w' = After(w, Request)
      BY <2>2 DEF Land, StrayLands
    <3>2. IsContractCall(Request) /\ Request.signer \in Accounts /\ AmountsOK(Request)
      BY <3>1, LandsProperly
    <3>3. TasksOK(w')
      BY <3>1, <3>2, AfterGoesOn DEF TasksGoOn
    <3>4. Ledgers(w')
      BY <3>1, <3>2, AfterLedgers
    <3> QED BY <3>3, <3>4
  <2>3. CASE OthersMove
    <3>1. TasksOK(w')
      BY <2>3, OthersGoOn DEF TasksGoOn
    <3>2. \/ w' \in TimePasses(w)
          \/ \E r \in Others : RevertReasons(w, r) = {} /\ w' = After(w, r)
      BY <2>3 DEF OthersMove
    <3>3. Ledgers(w')
      BY <3>2, AfterLedgers, TimeLedgers, ProtocolAssumption
    <3> QED BY <3>1, <3>3
  <2> QED BY <1>2, <2>1, <2>2, <2>3
<1> QED BY <1>1, <1>3 DEF TasksOK, Tasks, Ledgers, MoneyTyped, Sources
-----------------------------------------------------------------------------
(* A request carried out.                                                  *)
Accepted ==
  /\ Writes /\ Shaped(w) /\ TasksOK(w) /\ Ledgers(w)
  /\ IsContractCall(Request) /\ Request.signer \in Accounts
  /\ RevertReasons(w, Request) = {} /\ w' = After(w, Request)

LEMMA NotReverted ==
  ASSUME Accepted, NEW reason \in Reasons
  PROVE  ~Applies(reason, w, Request)
BY DEF Accepted, RevertReasons

(* A source in the sequence of sources.                                    *)
LEMMA SourceRecord ==
  ASSUME Accepted, NEW s \in Sources(w)
  PROVE  DOMAIN w.sources[s] = SourceFields
BY DEF Accepted, Shaped, SourceFields

LEMMA PublishSourceDelivers ==
  ASSUME Accepted, call.name = "publish_source"
  PROVE  SourceReads(Len(w'.sources))
<1>1. Request.on = "source" /\ Request.fn = "publishSource"
  BY SourceArrives DEF Accepted, SourceNames
<1>2. w'.sources = Append(w.sources, NewSource(Request.args.params))
  BY <1>1 DEF Accepted, After, AfterSourceWrite, Shaped
<1>3. w'.sources[Len(w'.sources)] = NewSource(Request.args.params)
  <2>1. w.sources \in Seq(Range(w.sources))
    BY DEF Accepted, Shaped
  <2> HIDE DEF Accepted
  <2> DEFINE new == NewSource(Request.args.params)
  <2> HIDE DEF new
  <2>2. w'.sources = Append(w.sources, new)
    BY <1>2 DEF new
  <2>3. Len(w'.sources) = Len(w.sources) + 1 /\ w'.sources[Len(w.sources) + 1] = new
    BY <2>1, <2>2, AppendShaped
  <2> QED BY <2>3 DEF new
<1>4. SourceField(w', Len(w'.sources), "params") = SourceParamsOf(Request.args.params)
  BY <1>3 DEF SourceField, NewSource
<1> QED BY <1>4, SourceReadsBack DEF Accepted, SourceNames

(* One entry of the sources is rewritten.                                  *)
LEMMA SourceEntry ==
  ASSUME Accepted, NEW s \in Sources(w), NEW e, w'.sources = [w.sources EXCEPT ![s] = e]
  PROVE  w'.sources[s] = e
BY DEF Sources

LEMMA UpdateSourceDelivers ==
  ASSUME Accepted, call.name \in {"update_source", "set_params"}
  PROVE  SourceReads(Named("source"))
<1> DEFINE s == Named("source")
           e == [w.sources[s] EXCEPT !.params = Request.args.params]
<1>1. Request.on = "source" /\ Request.fn = "updateSource" /\ Request.args.source = s
  BY SourceArrives DEF Accepted, SourceNames
<1>2. s \in Sources(w)
  BY <1>1, NotReverted DEF Applies, Reasons, ContractFunctions
<1>3. w'.sources = [w.sources EXCEPT ![s] = e]
  BY <1>1 DEF Accepted, After, AfterSourceWrite, Shaped
<1>4. e.params = Request.args.params
  BY <1>2, SourceRecord DEF SourceFields
<1> HIDE DEF e, s
<1>5. SourceField(w', s, "params") = SourceParamsOf(Request.args.params)
  BY <1>2, <1>3, <1>4, SourceEntry DEF SourceField
<1>6. SourceReads(s)
  BY <1>5, SourceReadsBack DEF Accepted, SourceNames
<1> QED BY <1>6 DEF s

LEMMA StatusDelivers ==
  ASSUME Accepted, Request.on = "source", NEW s \in Sources(w), NEW status,
         Request.args.source = s,
         \/ Request.fn = "setStatus" /\ Request.args.status = status
         \/ Request.fn = "inactivateSource" /\ status = "INACTIVE"
  PROVE  SourceField(w', s, "status") = status
<1> DEFINE e == [w.sources[s] EXCEPT !.status = status]
<1>1. w'.sources = [w.sources EXCEPT ![s] = e]
  BY DEF Accepted, After, AfterSourceWrite, Shaped
<1>2. e.status = status
  BY SourceRecord DEF SourceFields
<1> HIDE DEF e
<1> QED BY <1>1, <1>2, SourceEntry DEF SourceField

LEMMA MembersDeliver ==
  ASSUME Accepted, Request.on = "source", NEW s, NEW p, Request.args.source = s,
         Request.args.provider = p, Request.fn \in {"register", "unregister"}
  PROVE  PreferredEnvironmentOf(w', s, p) =
           IF Request.fn = "register" THEN parse_environments(Request.args.env) ELSE {}
<1> DEFINE members == IF Request.fn = "register"
                      THEN With(w.sources[s].members, p, Request.args.env)
                      ELSE RestrictDomain(w.sources[s].members, LAMBDA x : x # p)
           e == [w.sources[s] EXCEPT !.members = members]
<1>1. s \in Sources(w)
  BY NotReverted DEF Applies, Reasons, ContractFunctions
<1>2. w'.sources = [w.sources EXCEPT ![s] = e]
  <2>1. w' = AfterSourceWrite(w, Request)
    BY DEF Accepted, After
  <2>2. "sources" \in DOMAIN w
    BY DEF Accepted, Shaped
  <2>3. CASE Request.fn = "register"
    BY <2>1, <2>2, <2>3 DEF AfterSourceWrite
  <2>4. CASE Request.fn = "unregister"
    BY <2>1, <2>2, <2>4 DEF AfterSourceWrite
  <2> QED BY <2>3, <2>4
<1>3. e.members = members
  BY <1>1, SourceRecord DEF SourceFields
<1> HIDE DEF e
<1>4. w'.sources[s].members = members
  BY <1>1, <1>2, <1>3, SourceEntry
<1>5. CASE Request.fn = "register"
  BY <1>4, <1>5 DEF PreferredEnvironmentOf, With
<1>6. CASE Request.fn = "unregister"
  <2>1. p \notin DOMAIN members
    BY <1>6 DEF RestrictDomain, Restrict
  <2> QED BY <1>4, <1>6, <2>1 DEF PreferredEnvironmentOf
<1> QED BY <1>5, <1>6

(* Tasks.                                                                  *)
LEMMA TaskRecord ==
  ASSUME Accepted, NEW t \in Tasks(w)
  PROVE  /\ DOMAIN w.tasks[t] = TaskFields
         /\ w.tasks[t].params[4] \in Nat /\ w.tasks[t].attempters \in Seq(Accounts)
BY DEF Accepted, Shaped, TaskFields, TasksOK, TaskOK

LEMMA TaskNamed ==
  ASSUME Accepted, Request.fn \in {"attempt", "confirmResponse", "cancelTask"}
  PROVE  Request.args.task \in Tasks(w)
BY NotReverted DEF Applies, Reasons, ContractFunctions

LEMMA AttemptDelivers ==
  ASSUME Accepted, Request.on = "task", Request.fn = "attempt", NEW t, NEW p,
         Request.args.task = t, Request.args.provider = p, w.tasks[t].expiry # "marks"
  PROVE  p \in Attempters(w', t)
<1> DEFINE task == w.tasks[t]
           attempters == IF p \in Range(task.attempters) THEN task.attempters
                         ELSE Append(task.attempters, p)
           e == [task EXCEPT !.attempters = attempters,
                             !.status = IF @ = "NEW" THEN "ATTEMPTED" ELSE @]
<1>1. t \in Tasks(w)
  BY TaskNamed
<1>2. w'.tasks = [w.tasks EXCEPT ![t] = e]
  BY DEF Accepted, After, AfterTaskWrite, Shaped
<1>3. e.attempters = attempters
  BY <1>1, TaskRecord DEF TaskFields
<1> HIDE DEF e
<1>4. w'.tasks[t].attempters = attempters
  BY <1>1, <1>2, <1>3 DEF Tasks
<1>5. p \in Range(attempters)
  <2>1. CASE p \in Range(task.attempters)
    BY <2>1
  <2>2. CASE p \notin Range(task.attempters)
    <3> DEFINE q == Append(task.attempters, p)
    <3>1. task.attempters \in Seq(Range(task.attempters)) /\ Len(task.attempters) \in Nat
      BY <1>1, TaskRecord, SeqOfRange, LenProperties
    <3>2. /\ q \in Seq(Range(q)) /\ Len(q) = Len(task.attempters) + 1
          /\ q[Len(task.attempters) + 1] = p
      BY <3>1, AppendShaped
    <3> HIDE DEF q
    <3>3. DOMAIN q = 1 .. Len(q)
      BY <3>2, LenProperties
    <3>4. p \in Range(q)
      BY <3>1, <3>2, <3>3, SMTT(30) DEF Range
    <3> QED BY <2>2, <3>4, SMTT(30) DEF q
  <2> QED BY <2>1, <2>2
<1> QED BY <1>4, <1>5 DEF Attempters

LEMMA AttemptMarks ==
  ASSUME Accepted, Request.on = "task", Request.fn = "attempt", NEW t, Request.args.task = t,
         w.tasks[t].expiry = "marks"
  PROVE  TaskField(w', t, "status") = "EXPIRED"
<1> DEFINE e == [w.tasks[t] EXCEPT !.status = "EXPIRED"]
<1>1. t \in Tasks(w)
  BY TaskNamed
<1>2. w'.tasks = [w.tasks EXCEPT ![t] = e]
  BY DEF Accepted, After, AfterTaskWrite, Shaped
<1>3. e.status = "EXPIRED"
  BY <1>1, TaskRecord DEF TaskFields
<1> HIDE DEF e
<1> QED BY <1>1, <1>2, <1>3 DEF Tasks, TaskField

LEMMA ConfirmDelivers ==
  ASSUME Accepted, Request.on = "task", Request.fn = "confirmResponse", NEW t, NEW p,
         Request.args.task = t, Request.args.provider = p
  PROVE  /\ ResponseOf(w', t, p) = <<t, p>>
         /\ ResponseField(w', <<t, p>>, "confirmed")
         /\ TaskField(w', t, "winning_provider") = p
<1> DEFINE task == w.tasks[t]
           e == [task EXCEPT !.status = "FINALIZED", !.winner = p,
                             !.answers = With(@, p, "CONFIRMED")]
<1>1. t \in Tasks(w)
  BY TaskNamed
<1>2. w'.tasks = [w.tasks EXCEPT ![t] = e]
  BY DEF Accepted, After, AfterTaskWrite, Finalized, Shaped
<1>3. e.winner = p /\ e.answers = With(task.answers, p, "CONFIRMED")
  BY <1>1, TaskRecord DEF TaskFields
<1> HIDE DEF e
<1>4. t \in Tasks(w') /\ w'.tasks[t] = e
  BY <1>1, <1>2 DEF Tasks
<1>5. p \in DOMAIN e.answers /\ e.answers[p] = "CONFIRMED"
  BY <1>3 DEF With
<1> QED BY <1>3, <1>4, <1>5 DEF ResponseOf, Answered, ResponseField, TaskField, WinningProvider

(* Money.                                                                  *)
LEMMA PaidBy ==
  ASSUME Accepted, NEW x \in Accounts, NEW amounts, NEW e, w'.vault = [w.vault EXCEPT ![x] = e],
         e = [f \in PurseParts |->
                w.vault[x][f] + IF f \in DOMAIN amounts THEN amounts[f] ELSE 0]
  PROVE  Paid(x, amounts)
<1>1. DOMAIN w.vault[x] = PurseParts
  BY DEF Accepted, Ledgers, MoneyTyped, Purses, PurseParts
<1> HIDE DEF Accepted
<1> QED BY <1>1 DEF Paid

LEMMA PaidMoves ==
  ASSUME Accepted, NEW x \in Accounts, NEW n \in Int, NEW from \in PurseParts,
         NEW to \in PurseParts, from # to, NEW v, v.vault = w.vault, "vault" \in DOMAIN v,
         w'.vault = Moves(v, x, n, from, to).vault, NEW amounts,
         DOMAIN amounts = {from, to}, amounts[from] = -n, amounts[to] = n
  PROVE  Paid(x, amounts)
<1> DEFINE a == w.vault[x]
           e == [a EXCEPT ![from] = @ - n, ![to] = @ + n]
<1>1. a \in [PurseParts -> Int]
  BY DEF Accepted, Ledgers, MoneyTyped, Purses, PurseParts
<1>2. w'.vault = [w.vault EXCEPT ![x] = e]
  BY DEF Moves
<1> HIDE DEF a
<1>3. e = [f \in PurseParts |-> IF f = to THEN a[to] + n
                                ELSE IF f = from THEN a[from] - n ELSE a[f]]
  BY <1>1
<1> HIDE DEF e
<1>4. \A f \in PurseParts : a[f] \in Int
  BY <1>1
<1>5. \A f \in PurseParts :
        (IF f = to THEN a[to] + n ELSE IF f = from THEN a[from] - n ELSE a[f])
        = a[f] + IF f \in DOMAIN amounts THEN amounts[f] ELSE 0
  BY <1>4
<1>6. e = [f \in PurseParts |-> a[f] + IF f \in DOMAIN amounts THEN amounts[f] ELSE 0]
  BY <1>3, <1>5
<1> QED BY <1>2, <1>6, PaidBy DEF a

(* One part of a purse changes.                                            *)
LEMMA PaidOne ==
  ASSUME Accepted, NEW x \in Accounts, NEW n \in Int, NEW part \in PurseParts,
         w'.vault = [w.vault EXCEPT ![x] = [w.vault[x] EXCEPT ![part] = w.vault[x][part] + n]],
         NEW amounts, DOMAIN amounts = {part}, amounts[part] = n
  PROVE  Paid(x, amounts)
<1> DEFINE a == w.vault[x]
           e == [a EXCEPT ![part] = a[part] + n]
<1>1. a \in [PurseParts -> Int] /\ x \in DOMAIN w.vault
  BY DEF Accepted, Ledgers, MoneyTyped, Purses, PurseParts
<1>2. w'.vault = [w.vault EXCEPT ![x] = e]
  OBVIOUS
<1> HIDE DEF a
<1>3. e = [f \in PurseParts |-> a[f] + IF f \in DOMAIN amounts THEN amounts[f] ELSE 0]
  <2>1. \A f \in PurseParts : a[f] \in Int
    BY <1>1
  <2>2. \A f \in PurseParts :
          (IF f = part THEN a[f] + n ELSE a[f])
          = a[f] + IF f \in DOMAIN amounts THEN amounts[f] ELSE 0
    BY <2>1
  <2>3. e = [f \in PurseParts |-> IF f = part THEN a[f] + n ELSE a[f]]
    BY <1>1
  <2> HIDE DEF e
  <2> QED BY <2>2, <2>3
<1> HIDE DEF e
<1> QED BY <1>2, <1>3, PaidBy DEF a

LEMMA VaultThere ==
  ASSUME Accepted
  PROVE  {"sources", "tasks", "vault", "ripe", "master", "claimed", "agents", "undispatched"}
         \subseteq DOMAIN w
BY DEF Accepted, Shaped

LEMMA DepositDelivers ==
  ASSUME Accepted, Request.on = "vault", Request.fn = "deposit", NEW x \in Accounts,
         Request.args.account = x, NEW n \in Nat, Request.value = n
  PROVE  Paid(x, [balance |-> n])
<1>1. w'.vault = [w.vault EXCEPT ![x] = [w.vault[x] EXCEPT !["balance"] = w.vault[x]["balance"] + n]]
  BY VaultThere DEF Accepted, After, AfterVaultWrite
<1> DEFINE amounts == [balance |-> n]
<1>2. DOMAIN amounts = {"balance"} /\ amounts["balance"] = n /\ "balance" \in PurseParts
  BY DEF PurseParts
<1> HIDE DEF amounts, Accepted
<1>3. Paid(x, amounts)
  BY <1>1, <1>2, PaidOne
<1> QED BY <1>3 DEF amounts

LEMMA WithdrawDelivers ==
  ASSUME Accepted, Request.on = "vault", Request.fn = "withdraw", NEW n \in Nat,
         Request.args.amount = n
  PROVE  Paid(Request.signer, [balance |-> -n])
<1> DEFINE x == Request.signer
<1>1. x \in Accounts /\ w.vault[x].balance \in Int
  BY DEF Accepted, Ledgers, MoneyTyped, Purses
<1>2. w'.vault = [w.vault EXCEPT ![x] = [w.vault[x] EXCEPT !["balance"] = w.vault[x]["balance"] - n]]
  BY VaultThere DEF Accepted, After, AfterVaultWrite
<1>3. w.vault[x]["balance"] - n = w.vault[x]["balance"] + (-n) /\ -n \in Int
  BY <1>1
<1> HIDE DEF x
<1>4. w'.vault = [w.vault EXCEPT ![x] = [w.vault[x] EXCEPT !["balance"] = w.vault[x]["balance"] + (-n)]]
  BY <1>2, <1>3
<1> DEFINE amounts == [balance |-> -n]
<1>5. DOMAIN amounts = {"balance"} /\ amounts["balance"] = -n /\ "balance" \in PurseParts
  BY DEF PurseParts
<1> HIDE DEF amounts, Accepted
<1>6. Paid(x, amounts)
  BY <1>1, <1>3, <1>4, <1>5, PaidOne
<1> QED BY <1>6 DEF amounts, x

LEMMA LockDelivers ==
  ASSUME Accepted, Request.on = "vault", Request.fn = "lock", NEW n \in Nat,
         Request.args.amount = n
  PROVE  Paid(Request.signer, [balance |-> -n, lockup |-> n])
<1>1. Request.signer \in Accounts
  BY DEF Accepted
<1>2. w' = Moves(w, Request.signer, n, "balance", "lockup")
  BY DEF Accepted, After, AfterVaultWrite
<1> HIDE DEF Accepted
<1> DEFINE amounts == [balance |-> -n, lockup |-> n]
<1>3. DOMAIN amounts = {"balance", "lockup"} /\ amounts["balance"] = -n /\ amounts["lockup"] = n
  OBVIOUS
<1> HIDE DEF amounts
<1>4. "balance" \in PurseParts /\ "lockup" \in PurseParts /\ "vault" \in DOMAIN w
  BY VaultThere, SMTT(30) DEF PurseParts
<1>5. /\ n \in Int /\ "balance" # "lockup"
      /\ w'.vault = Moves(w, Request.signer, n, "balance", "lockup").vault
      /\ DOMAIN amounts = {"balance", "lockup"}
  BY <1>2, <1>3
<1>6. Paid(Request.signer, amounts)
  BY <1>1, <1>3, <1>4, <1>5, PaidMoves
<1> QED BY <1>6 DEF amounts

LEMMA UnbondDelivers ==
  ASSUME Accepted, Request.on = "vault", Request.fn = "unbond", NEW n \in Nat,
         Request.args.amount = n
  PROVE  Paid(Request.signer, [lockup |-> -n, unbonding |-> n])
<1> DEFINE u == Moves(w, Request.signer, n, "lockup", "unbonding")
<1>1. Request.signer \in Accounts
  BY DEF Accepted
<1>2. w' = [u EXCEPT !.ripe = @ \ {Request.signer}]
  BY DEF Accepted, After, AfterVaultWrite
<1>3. w'.vault = u.vault
  BY <1>2
<1> HIDE DEF Accepted
<1> DEFINE amounts == [lockup |-> -n, unbonding |-> n]
<1>4. /\ DOMAIN amounts = {"lockup", "unbonding"}
      /\ amounts["lockup"] = -n /\ amounts["unbonding"] = n
  OBVIOUS
<1> HIDE DEF amounts
<1>5. "unbonding" \in PurseParts /\ "lockup" \in PurseParts /\ "vault" \in DOMAIN w
  BY VaultThere DEF PurseParts
<1>6. Paid(Request.signer, amounts)
  BY <1>1, <1>3, <1>4, <1>5, PaidMoves
<1> QED BY <1>6 DEF amounts

LEMMA UnbondedDelivers ==
  ASSUME Accepted, Request.on = "vault", NEW to, NEW n, n = w.vault[Request.signer].unbonding,
         \/ Request.fn = "claim" /\ to = "balance"
         \/ Request.fn = "cancelUnbonding" /\ to = "lockup",
         NEW amounts, DOMAIN amounts = {"unbonding", to}, amounts["unbonding"] = -n, amounts[to] = n
  PROVE  Paid(Request.signer, amounts)
<1>1. Request.signer \in Accounts /\ n \in Int
  BY DEF Accepted, Ledgers, MoneyTyped, Purses
<1>2. w' = Moves(w, Request.signer, n, "unbonding", to)
  BY DEF Accepted, After, AfterVaultWrite
<1>3. to \in PurseParts /\ "unbonding" \in PurseParts /\ to # "unbonding" /\ "vault" \in DOMAIN w
  BY VaultThere DEF PurseParts
<1> HIDE DEF Accepted
<1> QED BY <1>1, <1>2, <1>3, PaidMoves

(* What a new task costs is frozen.                                        *)
LEMMA PublishTaskDelivers ==
  ASSUME Accepted, call.name = "publish_task"
  PROVE  LET t == Len(w'.tasks)  pay == TaskField(w', t, "payment")
         IN  TaskReads(t) /\ Paid(Request.signer, [balance |-> -pay, frozen |-> pay])
<1> DEFINE params == Request.args.params
           new == NewTask(w, Request.signer, params)
           v == [w EXCEPT !.tasks = Append(w.tasks, new)]
           t == Len(w'.tasks)
           n == params[4]
<1>1. Request.on = "task" /\ Request.fn = "publishTask" /\ n \in Nat
  BY TaskArrives, RequestAmounts DEF Accepted, AmountsOK
<1>2. w' = Moves(v, Request.signer, n, "balance", "frozen")
  BY <1>1 DEF Accepted, After, AfterTaskWrite
<1>3. v.vault = w.vault /\ {"vault", "tasks"} \subseteq DOMAIN v /\ v.tasks = Append(w.tasks, new)
  BY VaultThere
<1>4. new.params = params
  BY DEF NewTask
<1> HIDE DEF v, new
<1>5. w'.tasks = Append(w.tasks, new)
  BY <1>2, <1>3, MovesKeepsRest
<1>6. w'.tasks[t] = new
  <2>1. w.tasks \in Seq(Range(w.tasks))
    BY DEF Accepted, Shaped
  <2> QED BY <1>5, <2>1, AppendShaped
<1> HIDE DEF t
<1>7. TaskField(w', t, "params") = TaskParamsOf(params) /\ TaskField(w', t, "payment") = n
  BY <1>4, <1>6 DEF TaskField
<1>8. TaskReads(t)
  BY <1>7, TaskReadsBack DEF Accepted
<1>9. Paid(Request.signer, [balance |-> -n, frozen |-> n])
  <2>1. "balance" \in PurseParts /\ "frozen" \in PurseParts /\ Request.signer \in Accounts
        /\ n \in Int
    BY <1>1 DEF PurseParts, Accepted
  <2> DEFINE amounts == [balance |-> -n, frozen |-> n]
  <2>2. DOMAIN amounts = {"balance", "frozen"} /\ amounts["balance"] = -n /\ amounts["frozen"] = n
    OBVIOUS
  <2> HIDE DEF amounts, n, Accepted
  <2>3. Paid(Request.signer, amounts)
    BY <1>1, <1>2, <1>3, <2>1, <2>2, PaidMoves
  <2> QED BY <2>3 DEF amounts
<1> QED BY <1>7, <1>8, <1>9 DEF t

LEMMA CancelDelivers ==
  ASSUME Accepted, Request.on = "task", Request.fn = "cancelTask", NEW t, Request.args.task = t
  PROVE  /\ TaskField(w', t, "status") = "CANCELED"
         /\ LET pay == TaskField(w, t, "payment")
            IN  Paid(Request.signer, [balance |-> pay, frozen |-> -pay])
<1> DEFINE task == w.tasks[t]
           pay == task.params[4]
           e == [task EXCEPT !.status = "CANCELED"]
           v == [w EXCEPT !.tasks[t].status = "CANCELED"]
<1>1. t \in Tasks(w)
  BY TaskNamed
<1>2. task.client = Request.signer /\ Request.signer \in Accounts /\ pay \in Nat
  BY <1>1, NotReverted, TaskRecord DEF Applies, Reasons, Accepted
<1>3. w' = Moves(v, Request.signer, pay, "frozen", "balance")
  BY <1>2 DEF Accepted, After, AfterTaskWrite
<1>4. v.vault = w.vault /\ {"vault", "tasks"} \subseteq DOMAIN v
      /\ v.tasks = [w.tasks EXCEPT ![t] = e]
  BY VaultThere
<1>5. e.status = "CANCELED"
  BY <1>1, TaskRecord DEF TaskFields
<1> HIDE DEF v, e
<1>6. w'.tasks[t] = e
  BY <1>1, <1>3, <1>4, MovesKeepsRest DEF Tasks
<1>7. TaskField(w', t, "status") = "CANCELED" /\ TaskField(w, t, "payment") = pay
  BY <1>5, <1>6 DEF TaskField
<1>8. "frozen" \in PurseParts /\ "balance" \in PurseParts /\ pay \in Int
  BY <1>2 DEF PurseParts
<1> HIDE DEF pay, task, Accepted
<1>9. Paid(Request.signer, [balance |-> pay, frozen |-> -pay])
  <2> DEFINE amounts == [balance |-> pay, frozen |-> -pay]
  <2>1. /\ DOMAIN amounts = {"frozen", "balance"}
        /\ amounts["frozen"] = -pay /\ amounts["balance"] = pay
    OBVIOUS
  <2> HIDE DEF amounts
  <2>2. Paid(Request.signer, amounts)
    BY <1>2, <1>3, <1>4, <1>8, <2>1, PaidMoves
  <2> QED BY <2>2 DEF amounts
<1> QED BY <1>7, <1>9

(* The terminal.                                                           *)
LEMMA TerminalDelivers ==
  ASSUME Accepted, Request.on = "terminal"
  PROVE  LET a == Request.args  x == Request.signer IN
         /\ Request.fn = "setAgent" /\ a.value \in BOOLEAN =>
              IsAgentOf(w', x, a.agent) = a.value
         /\ Request.fn = "announceMaster" => TerminalRead(w', x, "master") = a.master
         /\ Request.fn = "removeProvider" /\ a.provider \in Accounts =>
              TerminalRead(w', a.provider, "master") = Nobody
         /\ Request.fn = "setDefaultAgentDisabled" /\ a.value \in BOOLEAN =>
              TerminalRead(w', x, "default_agent_disabled") = a.value
         /\ Request.fn = "announceProvider" /\ a.provider \in Accounts /\ Request.value \in Nat =>
              w'.claimed[a.provider] = x /\ Paid(a.provider, [lockup |-> Request.value])
<1> DEFINE a == Request.args
           x == Request.signer
<1>1. w' = AfterTerminalWrite(w, Request) /\ x \in Accounts
      /\ DOMAIN w.master = Accounts /\ DOMAIN w.claimed = Accounts
  BY DEF Accepted, After, Ledgers
<1>2. CASE Request.fn = "setAgent"
  <2>1. w'.agents = IF a.value THEN w.agents \cup {<<x, a.agent>>} ELSE w.agents \ {<<x, a.agent>>}
    BY <1>1, <1>2, VaultThere DEF AfterTerminalWrite
  <2> QED BY <1>2, <2>1 DEF IsAgentOf
<1>3. CASE Request.fn = "announceMaster"
  <2>1. w'.master = [w.master EXCEPT ![x] = a.master]
    BY <1>1, <1>3, VaultThere DEF AfterTerminalWrite
  <2> QED BY <1>1, <1>3, <2>1 DEF TerminalRead
<1>4. CASE Request.fn = "removeProvider"
  <2>1. w'.master = [w.master EXCEPT ![a.provider] = Nobody]
    BY <1>1, <1>4, VaultThere DEF AfterTerminalWrite
  <2> QED BY <1>1, <1>4, <2>1 DEF TerminalRead
<1>5. CASE Request.fn = "setDefaultAgentDisabled"
  <2>1. w'.undispatched = IF a.value THEN w.undispatched \cup {x} ELSE w.undispatched \ {x}
    BY <1>1, <1>5, VaultThere DEF AfterTerminalWrite
  <2> QED BY <1>5, <2>1 DEF TerminalRead
<1>6. CASE Request.fn = "announceProvider"
  <2> SUFFICES ASSUME a.provider \in Accounts, Request.value \in Nat
               PROVE  w'.claimed[a.provider] = x /\ Paid(a.provider, [lockup |-> Request.value])
    BY <1>6
  <2> DEFINE p == a.provider
  <2>1. w'.claimed = [w.claimed EXCEPT ![p] = x]
    BY <1>1, <1>6, VaultThere DEF AfterTerminalWrite
  <2>2. w'.vault = [w.vault EXCEPT ![p] =
                      [w.vault[p] EXCEPT !["lockup"] = w.vault[p]["lockup"] + Request.value]]
    BY <1>1, <1>6, VaultThere DEF AfterTerminalWrite
  <2> HIDE DEF Accepted
  <2> DEFINE amounts == [lockup |-> Request.value]
  <2>3. /\ DOMAIN amounts = {"lockup"} /\ amounts["lockup"] = Request.value
        /\ "lockup" \in PurseParts /\ p \in Accounts /\ Request.value \in Int
    BY DEF PurseParts
  <2> HIDE DEF amounts, p
  <2>4. Paid(p, amounts)
    BY <2>2, <2>3, PaidOne
  <2> QED BY <1>1, <2>1, <2>3, <2>4 DEF amounts, p
<1> QED BY <1>1, <1>2, <1>3, <1>4, <1>5, <1>6 DEF Accepted, IsContractCall, ContractFunctions

(* Every write that has a promise to keep, keeps it.                       *)
LEMMA AcceptedDelivers ==
  ASSUME Accepted, call.name = "set_status" => call.self \in Sources(w)
  PROVE  Delivered
<1> DEFINE a == call.args
           n == call.name
<1>0. Writes
  BY DEF Accepted
<1>a. IsWrite(call)
  BY <1>0 DEF Writes
<1>1. CASE n = "publish_source"
  BY <1>1, PublishSourceDelivers DEF Delivered
<1>2. CASE n \in {"update_source", "set_params"}
  BY <1>2, UpdateSourceDelivers DEF Delivered
<1>3. CASE n = "set_status"
  BY <1>0, <1>3, SetStatusRequest, StatusDelivers DEF Delivered
<1>4. CASE n \in {"inactivate", "inactivate_source"}
  <2>1. Request.args.source \in Sources(w)
    BY <1>0, <1>4, InactivateRequest, NotReverted DEF Applies, Reasons, ContractFunctions
  <2> QED BY <1>0, <1>4, <2>1, InactivateRequest, StatusDelivers DEF Delivered
<1>5. CASE n \in {"register", "register_to"}
  BY <1>0, <1>5, RegisterRequest, MembersDeliver DEF Delivered
<1>6. CASE n \in {"unregister", "unregister_from"}
  BY <1>0, <1>6, UnregisterRequest, MembersDeliver DEF Delivered
<1>7. CASE n = "attempt"
  <2>1. /\ Request.on = "task" /\ Request.fn = "attempt"
        /\ Request.args.task = a.task /\ Request.args.provider = Named("provider")
    BY <1>0, <1>7, AttemptRequest
  <2>2. IF w.tasks[a.task].expiry = "marks" THEN TaskField(w', a.task, "status") = "EXPIRED"
        ELSE Named("provider") \in Attempters(w', a.task)
    BY <2>1, AttemptDelivers, AttemptMarks
  <2> QED BY <1>7, <2>2 DEF Delivered
<1>8. CASE n \in {"confirm", "confirm_response"}
  BY <1>0, <1>8, ConfirmRequest, ConfirmDelivers DEF Delivered
<1>9. CASE n \in {"cancel", "cancel_task"}
  BY <1>0, <1>9, CancelRequest, CancelDelivers DEF Delivered
<1>10. CASE n \in {"deposit", "deposit_to_vault"}
  <2>1. a.amount \in Nat
    BY <1>0, <1>10 DEF Writes, ArgumentsOK, Takes, Parameters, StandsFor
  <2> QED BY <1>0, <1>10, <2>1, DepositRequest, DepositDelivers DEF Delivered
<1>11. CASE n \in DOMAIN SpendsAs
  <2>1. CASE n \in {"withdraw", "withdraw_from_vault"}
    <3>1. Paid(Request.signer, [balance |-> -a.amount])
      BY <1>0, <1>11, <2>1, SpendRequest, WithdrawDelivers DEF SpendsAs
    <3> QED BY <2>1, <3>1 DEF Delivered
  <2>2. CASE n \in {"lock", "stake"}
    <3>1. Paid(Request.signer, [balance |-> -a.amount, lockup |-> a.amount])
      BY <1>0, <1>11, <2>2, SpendRequest, LockDelivers DEF SpendsAs
    <3> QED BY <2>2, <3>1 DEF Delivered
  <2>3. CASE n \in {"unbond", "unstake"}
    <3>1. Paid(Request.signer, [lockup |-> -a.amount, unbonding |-> a.amount])
      BY <1>0, <1>11, <2>3, SpendRequest, UnbondDelivers DEF SpendsAs
    <3> QED BY <2>3, <3>1 DEF Delivered
  <2> QED BY <1>11, <2>1, <2>2, <2>3 DEF SpendsAs
<1>12. CASE n = "announce_provider"
  <2>1. a.amount \in Nat
    BY <1>0, <1>12 DEF Writes, ArgumentsOK, Takes, Parameters, StandsFor
  <2> QED BY <1>0, <1>12, <2>1, AnnounceProviderRequest, TerminalDelivers DEF Delivered
<1>13. CASE n = "announce_master"
  BY <1>0, <1>13, AnnounceMasterRequest, TerminalDelivers DEF Delivered
<1>14. CASE n = "remove_provider"
  BY <1>0, <1>14, RemoveProviderRequest, TerminalDelivers DEF Delivered
<1>15. CASE n = "set_agent"
  BY <1>0, <1>15, SetAgentRequest, TerminalDelivers DEF Delivered
<1>16. CASE n = "revoke_agent"
  BY <1>0, <1>16, RevokeAgentRequest, TerminalDelivers DEF Delivered
<1>17. CASE n = "set_default_agent_disabled"
  BY <1>0, <1>17, SetDefaultRequest, TerminalDelivers DEF Delivered
<1>18. CASE n = "publish_task"
  BY <1>18, PublishTaskDelivers DEF Delivered
<1>19. CASE n \in {"claim", "claim_earnings"}
  <2> DEFINE m == w.vault[Request.signer].unbonding
             amounts == [unbonding |-> -m, balance |-> m]
  <2>1. DOMAIN amounts = {"unbonding", "balance"}
        /\ amounts["unbonding"] = -m /\ amounts["balance"] = m
    OBVIOUS
  <2>2. Request.on = "vault" /\ Request.fn = "claim"
    BY <1>0, <1>19, UnbondedRequest
  <2> HIDE DEF amounts
  <2>3. Paid(Request.signer, amounts)
    BY <2>1, <2>2, UnbondedDelivers
  <2> QED BY <1>19, <2>3 DEF Delivered, amounts
<1>20. CASE n = "cancel_unbonding"
  <2> DEFINE m == w.vault[Request.signer].unbonding
             amounts == [unbonding |-> -m, lockup |-> m]
  <2>1. DOMAIN amounts = {"unbonding", "lockup"}
        /\ amounts["unbonding"] = -m /\ amounts["lockup"] = m
    OBVIOUS
  <2>2. Request.on = "vault" /\ Request.fn = "cancelUnbonding"
    BY <1>0, <1>20, UnbondedRequest
  <2> HIDE DEF amounts
  <2>3. Paid(Request.signer, amounts)
    BY <2>1, <2>2, UnbondedDelivers
  <2> QED BY <1>20, <2>3 DEF Delivered, amounts
<1>21. CASE n = "remove_container"
  <2>1. w' = w
    BY <1>0, <1>21, RemoveContainerRequest DEF Accepted, After, AfterTerminalWrite
  <2> QED BY <1>21, <2>1 DEF Delivered
<1>22. n \in {"publish_source", "update_source", "set_params", "set_status", "inactivate",
              "inactivate_source", "register", "register_to", "unregister", "unregister_from",
              "attempt", "confirm", "confirm_response", "cancel", "cancel_task", "deposit",
              "deposit_to_vault", "announce_provider", "announce_master", "remove_provider",
              "set_agent", "revoke_agent", "set_default_agent_disabled", "publish_task", "claim",
              "claim_earnings", "cancel_unbonding", "remove_container"} \cup DOMAIN SpendsAs
  BY <1>a DEF IsWrite, WriteMethods, VaultMethods, SpendsAs
<1> QED BY <1>1, <1>2, <1>3, <1>4, <1>5, <1>6, <1>7, <1>8, <1>9, <1>10, <1>11, <1>12, <1>13, <1>14,
           <1>15, <1>16, <1>17, <1>18, <1>19, <1>20, <1>21, <1>22

LEMMA EffectDelivers ==
  ASSUME MarketInv, WorldInv, OutcomeInv, SignerOK, [Next]_vars, took' > took
  PROVE  Delivered
<1>0. took \in Nat
  BY DEF OutcomeInv, StageOK
<1>1. Land \/ StrayLands
  <2>1. took' # took
    BY <1>0
  <2> QED BY <2>1 DEF Next, CallStep, Resolve, Pin, Broadcast, LoseReply, EstimateReverts,
                      ExecuteFails, GetReceipt, ReceiptTimesOut, ReceiptFails, ReadFields, load,
                      get_metadata, fetch_ipfs_json, get_confirmed_response, ReadFails, OthersMove,
                      Ended, vars
<1>2. tx = "pending" \/ strays > 0
  BY <1>1 DEF Land, StrayLands
<1>3. RevertReasons(w, Request) = {} /\ w' = After(w, Request)
  BY <1>0, <1>1 DEF Land, StrayLands
<1>4. Writes /\ IsContractCall(Request) /\ Request.signer \in Accounts
  BY <1>2, LandsProperly
<1>5. Shaped(w) /\ TasksOK(w) /\ Ledgers(w)
  BY DEF WorldInv, MarketInv
<1>6. call.name = "set_status" => call.self \in Sources(w)
  BY Lengths DEF MarketInv, WorldInv, Grows
<1> QED BY <1>3, <1>4, <1>5, <1>6, AcceptedDelivers DEF Accepted

(* Whenever a write takes effect, its own transaction or one whose reply   *)
(* was lost, the contracts read back what the caller described, named or   *)
(* paid, through whichever of the SDK's layers the call came and whatever  *)
(* others did since the gas was estimated: the proxy's address and the     *)
(* caller's arguments arrive in their places, the tuples and the           *)
(* environment mask turn back into what went in, exactly the purse meant   *)
(* changes by exactly the amount given, and an attempt leaves its provider *)
(* among the attempters or the task EXPIRED (metadata.py 151-168,          *)
(* client/__init__.py 93-122, vault.py 67-77, terminal.py 153-163,         *)
(* nexus.py 246-249).                                                      *)
THEOREM WritesDeliver == Spec => DoesWhatItSays
<1>1. Spec => [](OutcomeInv /\ SignInv /\ WorldInv /\ CauseInv)
  BY CallAlways
<1>2. OutcomeInv /\ SignInv /\ WorldInv /\ CauseInv => SignerOK /\ Shaped(w) /\ WinnersOK(w)
  BY DEF SignInv, WorldInv, CauseInv
<1>3. MarketInv /\ OutcomeInv /\ SignInv /\ WorldInv /\ CauseInv /\ [Next]_vars => MarketInv'
  BY <1>2, MarketStep
<1>4. Spec => [](MarketInv /\ OutcomeInv /\ SignInv /\ WorldInv)
  BY <1>1, <1>3, MarketInit, PTL DEF Spec
<1>5. MarketInv /\ OutcomeInv /\ SignInv /\ WorldInv /\ [Next]_vars
        => [took' > took => Delivered]_vars
  BY EffectDelivers DEF SignInv
<1>6. Spec => [][took' > took => Delivered]_vars
  BY <1>4, <1>5, PTL DEF Spec
<1> QED BY <1>6 DEF DoesWhatItSays
=============================================================================
