----------------------------- MODULE DataTypes -----------------------------
(***************************************************************************)
(* types/: the exception hierarchy, the enums, and the structures that     *)
(* cross to the contracts as positional tuples.  An exception is its       *)
(* class; catching a domain is membership in its set.                      *)
(***************************************************************************)
EXTENDS Integers, Sequences, FiniteSets

NotFoundErrors ==
  {"TaskNotFoundError", "SourceNotFoundError", "ResponseNotFoundError",
   "ProviderNotFoundError", "MasterNotFoundError"}
StateErrors ==
  {"TaskExpiredError", "TaskAlreadyFinalizedError", "ResponseAlreadyConfirmedError",
   "SourceInactiveError"}
PermissionErrors ==
  {"NotTaskOwnerError", "NotSourceOwnerError", "NotMasterError", "NotProviderError"}
VaultErrors ==
  {"InsufficientBalanceError", "InsufficientLockupError",
   "UnbondingPeriodNotElapsedError", "NotEligibleError"}
TxErrors ==
  {"TxRevertError", "NonceError", "GasError", "TxReceiptTimeoutError", "TxRpcError",
   "InvalidRpcUrlError"}
ConfigErrors == {"MissingSignerError", "InvalidSignerError", "ChainNotSupportedError"}
IPFSErrors == {"IPFSFetchError", "IPFSGatewayError"}

OGPUErrors ==
  UNION {NotFoundErrors, StateErrors, PermissionErrors, VaultErrors, TxErrors,
         ConfigErrors, IPFSErrors, {"PublishTimeoutError"}}
-----------------------------------------------------------------------------
TaskStatuses == {"NEW", "ATTEMPTED", "RESPONDED", "CANCELED", "EXPIRED", "FINALIZED"}
SourceStatuses == {"ACTIVE", "INACTIVE"}
ResponseStatuses == {"SUBMITTED", "CONFIRMED"}
DeliveryMethods == {"MANUAL_CONFIRMATION", "FIRST_RESPONSE"}
Roles == {"client", "provider", "master", "agent"}

(* The flags of Environment are powers of two, their union a bit mask.     *)
EnvironmentValue == [CPU |-> 1, NVIDIA |-> 2, AMD |-> 4]
Environments == DOMAIN EnvironmentValue

combine_environments(envs) ==
  LET Bit(e) == IF e \in envs THEN EnvironmentValue[e] ELSE 0
  IN Bit("CPU") + Bit("NVIDIA") + Bit("AMD")
parse_environments(mask) ==
  {e \in Environments : (mask \div EnvironmentValue[e]) % 2 = 1}
-----------------------------------------------------------------------------
(* Deliberate fault: two uint256 fields of the tuple trade places.         *)
SwappedTuple(p) ==
  <<p.client, p.imageMetadataUrl, p.imageEnvironments, p.minAvailableLockup,
    p.minPayment, p.maxExpiryDuration, p.deliveryMethod>>

(* SourceParams.to_tuple, and what Source.get_params makes of the          *)
(* contract's tuple.  privacyEnabled, optionalParamsUrl and lastUpdateTime *)
(* are left out: nothing in the SDK depends on them.                       *)
SourceTuple(p) ==
  <<p.client, p.imageMetadataUrl, p.imageEnvironments, p.minPayment,
    p.minAvailableLockup, p.maxExpiryDuration, p.deliveryMethod>>
SourceParamsOf(raw) ==
  [client |-> raw[1], imageMetadataUrl |-> raw[2], imageEnvironments |-> raw[3],
   minPayment |-> raw[4], minAvailableLockup |-> raw[5],
   maxExpiryDuration |-> raw[6], deliveryMethod |-> raw[7]]

TaskTuple(p) == <<p.source, p.config, p.expiryTime, p.payment>>
TaskParamsOf(raw) ==
  [source |-> raw[1], config |-> raw[2], expiryTime |-> raw[3], payment |-> raw[4]]

(* client._build_source_params and _build_task_params.  A link stands for  *)
(* the content pinned under it.                                            *)
Metadata(info) == [name |-> info.name, images |-> info.imageEnvs]
build_source_params(info, address) ==
  [client |-> address,
   imageMetadataUrl |-> Metadata(info),
   imageEnvironments |-> combine_environments(info.imageEnvs),
   minPayment |-> info.minPayment,
   minAvailableLockup |-> info.minAvailableLockup,
   maxExpiryDuration |-> info.maxExpiryDuration,
   deliveryMethod |-> info.deliveryMethod]
build_task_params(info) ==
  [source |-> info.source, config |-> info.config,
   expiryTime |-> info.expiryTime, payment |-> info.payment]
=============================================================================
