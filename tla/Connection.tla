----------------------------- MODULE Connection -----------------------------
(***************************************************************************)
(* The process-wide connection state and the calls that share it: which    *)
(* chain is current, each chain's RPC URL and ABIs (ChainConfig), the pool *)
(* of Web3 instances keyed by chain (Web3Manager) and the pool of          *)
(* AsyncWeb3 instances keyed by URL (events).  None of it is locked: each  *)
(* access to a shared dictionary, each probe of a node, is a step.         *)
(*                                                                         *)
(*   get       test -> take | url -> probe -> store                        *)
(*   contract  (get) -> abi -> directory -> parse -> address               *)
(*   watch     async -> dial -> address -> abi -> directory -> parse       *)
(*   set_rpc   vet -> write -> cached -> delete                            *)
(*   reset_rpc        write -> cached -> delete                            *)
(*                                                                         *)
(* An instance is the URL it was built for; an ABI is the chain whose      *)
(* directory it was read from; an address is the chain it belongs to.      *)
(***************************************************************************)
EXTENDS Naturals

CONSTANTS
  Threads, Chains, Urls,
  DefaultUrl,       \* _DEFAULT_RPC_URLS
  Dead,             \* URLs no node answers at
  SwapsAlone,       \* the program runs set_chain while no other call is made
  MaxCalls,
  Nothing           \* no instance, no ABI

ASSUME ConnectionAssumption ==
  /\ Dead \subseteq Urls
  /\ DefaultUrl \in [Chains -> Urls \ Dead]
  /\ SwapsAlone \in BOOLEAN
  /\ MaxCalls \in Nat
  /\ Nothing \notin Urls \cup Chains

VARIABLES
  current,      \* ChainConfig._current_chain
  rpc,          \* CHAIN_RPC_URLS
  abis,         \* ChainConfig._loaded_abis, for one ABI name
  instances,    \* Web3Manager._web3_instances
  dialed,       \* keys of events._async_web3._instances
  pc, op,
  target,       \* chain_id, or target of set_rpc and reset_rpc
  url,          \* rpc_url
  key,          \* current in load_abi
  got,          \* what the call has put together so far
  result,
  calls,
  raced         \* chains used or updated while an update of theirs was under way

shared == <<current, rpc, abis, instances, dialed>>
locals == <<pc, op, target, url, key, got, result>>
vars == <<shared, locals, calls, raced>>

Ops == {"none", "get", "contract", "watch", "set_rpc", "reset_rpc"}
Labels == {"idle", "test", "take", "url", "probe", "store", "async", "dial",
           "abi", "directory", "parse", "address",
           "vet", "write", "cached", "delete"}
Results == {"none", "ok", "KeyError", "ConnectionError", "InvalidRpcUrlError"}

TypeOK ==
  /\ current \in Chains
  /\ rpc \in [Chains -> Urls]
  /\ abis \in [Chains -> Chains \cup {Nothing}]
  /\ instances \in [Chains -> Urls \cup {Nothing}]
  /\ dialed \subseteq Urls
  /\ pc \in [Threads -> Labels]
  /\ op \in [Threads -> Ops]
  /\ target \in [Threads -> Chains]
  /\ url \in [Threads -> Urls]
  /\ key \in [Threads -> Chains]
  /\ got \in [Threads -> [url : Urls \cup {Nothing}, abi : Chains \cup {Nothing},
                          address : Chains \cup {Nothing}]]
  /\ result \in [Threads -> Results]
  /\ calls \in 0 .. MaxCalls
  /\ raced \subseteq Chains

NothingYet == [url |-> Nothing, abi |-> Nothing, address |-> Nothing]

Init ==
  /\ current \in Chains
  /\ rpc = DefaultUrl
  /\ abis = [c \in Chains |-> Nothing]
  /\ instances = [c \in Chains |-> Nothing]
  /\ dialed = {}
  /\ pc = [t \in Threads |-> "idle"]
  /\ op = [t \in Threads |-> "none"]
  /\ target = [t \in Threads |-> current]
  /\ url = [t \in Threads |-> DefaultUrl[current]]
  /\ key = [t \in Threads |-> current]
  /\ got = [t \in Threads |-> NothingYet]
  /\ result = [t \in Threads |-> "none"]
  /\ calls = 0
  /\ raced = {}
-----------------------------------------------------------------------------
At(t, label) == pc[t] = label
Goto(t, label) == pc' = [pc EXCEPT ![t] = label]
Return(t, r) == pc' = [pc EXCEPT ![t] = "idle"] /\ result' = [result EXCEPT ![t] = r]

(* Calls on c made at the same time as update_rpc_url(c).                  *)
Updating(t, c) == pc[t] \in {"write", "cached", "delete"} /\ target[t] = c
Using(t, c) == pc[t] # "idle" /\ target[t] = c
Overlap(c) == \E t, u \in Threads : t # u /\ Updating(t, c) /\ Using(u, c)
NoteRaces == raced' = raced \cup {c \in Chains : Overlap(c)'}

(* The parts a call collects, in the order of load_contract and of         *)
(* _poll_event.                                                            *)
After(t, part) ==
  CASE op[t] = "contract" /\ part = "web3" -> "abi"
    [] op[t] = "contract" /\ part = "abi" -> "address"
    [] op[t] = "watch" /\ part = "web3" -> "address"
    [] op[t] = "watch" /\ part = "address" -> "abi"
    [] OTHER -> "idle"

Obtain(t, field, value, part) ==
  /\ got' = [got EXCEPT ![t][field] = value]
  /\ IF After(t, part) = "idle" THEN Return(t, "ok")
                                ELSE Goto(t, After(t, part)) /\ UNCHANGED result

FirstStep(o) ==
  CASE o \in {"get", "contract"} -> "test"
    [] o = "watch" -> "async"
    [] o = "set_rpc" -> "vet"
    [] o = "reset_rpc" -> "write"

(* A call on chain c: contract and watch are for the current chain, the    *)
(* others take an optional chain.                                          *)
Begin(t, o, c, u) ==
  /\ At(t, "idle")
  /\ calls < MaxCalls
  /\ o \in {"contract", "watch"} => c = current
  /\ o # "set_rpc" => u = DefaultUrl[c]
  /\ calls' = calls + 1
  /\ op' = [op EXCEPT ![t] = o]
  /\ target' = [target EXCEPT ![t] = c]
  /\ url' = [url EXCEPT ![t] = u]
  /\ got' = [got EXCEPT ![t] = NothingYet]
  /\ result' = [result EXCEPT ![t] = "none"]
  /\ Goto(t, FirstStep(o))
  /\ UNCHANGED <<shared, key>>
  /\ NoteRaces

SetChain(c) ==
  /\ SwapsAlone => \A t \in Threads : At(t, "idle")
  /\ c # current
  /\ calls < MaxCalls
  /\ calls' = calls + 1
  /\ current' = c
  /\ UNCHANGED <<rpc, abis, instances, dialed, locals, raced>>
-----------------------------------------------------------------------------
(* get_web3_instance.                                                      *)
TestInstance(t) ==
  /\ At(t, "test")
  /\ Goto(t, IF instances[target[t]] # Nothing THEN "take" ELSE "url")
  /\ UNCHANGED <<shared, op, target, url, key, got, result, calls>>
  /\ NoteRaces

(* The entry may be gone by the time it is taken.                          *)
TakeInstance(t) ==
  /\ At(t, "take")
  /\ \/ /\ instances[target[t]] # Nothing
        /\ Obtain(t, "url", instances[target[t]], "web3")
     \/ /\ instances[target[t]] = Nothing
        /\ Return(t, "KeyError")
        /\ UNCHANGED got
  /\ UNCHANGED <<shared, op, target, url, key, calls>>
  /\ NoteRaces

ReadUrl(t) ==
  /\ At(t, "url")
  /\ url' = [url EXCEPT ![t] = rpc[target[t]]]
  /\ Goto(t, "probe")
  /\ UNCHANGED <<shared, op, target, key, got, result, calls>>
  /\ NoteRaces

Probe(t) ==
  /\ At(t, "probe")
  /\ \/ url[t] \notin Dead /\ Goto(t, "store") /\ UNCHANGED result
     \/ Return(t, "ConnectionError")
  /\ UNCHANGED <<shared, op, target, url, key, got, calls>>
  /\ NoteRaces

StoreInstance(t) ==
  /\ At(t, "store")
  /\ instances' = [instances EXCEPT ![target[t]] = url[t]]
  /\ Obtain(t, "url", url[t], "web3")
  /\ UNCHANGED <<current, rpc, abis, dialed, op, target, url, key, calls>>
  /\ NoteRaces
-----------------------------------------------------------------------------
(* get_async_web3: entries are never dropped, so finding one is one step.  *)
FindAsync(t) ==
  /\ At(t, "async")
  /\ url' = [url EXCEPT ![t] = rpc[current]]
  /\ \/ rpc[current] \in dialed /\ Obtain(t, "url", rpc[current], "web3")
     \/ rpc[current] \notin dialed /\ Goto(t, "dial") /\ UNCHANGED <<got, result>>
  /\ UNCHANGED <<shared, op, target, key, calls>>
  /\ NoteRaces

Dial(t) ==
  /\ At(t, "dial")
  /\ \/ /\ url[t] \notin Dead
        /\ dialed' = dialed \cup {url[t]}
        /\ Obtain(t, "url", url[t], "web3")
     \/ Return(t, "ConnectionError") /\ UNCHANGED <<got, dialed>>
  /\ UNCHANGED <<current, rpc, abis, instances, op, target, url, key, calls>>
  /\ NoteRaces
-----------------------------------------------------------------------------
(* load_abi reads the current chain twice: as the key of the cache and,    *)
(* through get_chain_abi_directory, for the file it parses.                *)
FindAbi(t) ==
  /\ At(t, "abi")
  /\ key' = [key EXCEPT ![t] = current]
  /\ \/ abis[current] # Nothing /\ Obtain(t, "abi", abis[current], "abi")
     \/ abis[current] = Nothing /\ Goto(t, "directory") /\ UNCHANGED <<got, result>>
  /\ UNCHANGED <<shared, op, target, url, calls>>
  /\ NoteRaces

ReadDirectory(t) ==
  /\ At(t, "directory")
  /\ got' = [got EXCEPT ![t].abi = current]
  /\ Goto(t, "parse")
  /\ UNCHANGED <<shared, op, target, url, key, result, calls>>
  /\ NoteRaces

(* Deliberate fault: the cache is keyed by the name of the ABI alone.      *)
StoredForEveryChain(t) ==
  /\ At(t, "parse")
  /\ abis' = [c \in Chains |-> got[t].abi]
  /\ Obtain(t, "abi", got[t].abi, "abi")
  /\ UNCHANGED <<current, rpc, instances, dialed, op, target, url, key, calls>>
  /\ NoteRaces

StoreAbi(t) ==
  /\ At(t, "parse")
  /\ abis' = [abis EXCEPT ![key[t]] = got[t].abi]
  /\ Obtain(t, "abi", got[t].abi, "abi")
  /\ UNCHANGED <<current, rpc, instances, dialed, op, target, url, key, calls>>
  /\ NoteRaces

GetAddress(t) ==
  /\ At(t, "address")
  /\ Obtain(t, "address", current, "address")
  /\ UNCHANGED <<shared, op, target, url, key, calls>>
  /\ NoteRaces
-----------------------------------------------------------------------------
(* Deliberate faults: the probe's answer is ignored; a cached instance is  *)
(* kept, or deleted without a test.                                        *)
VetIgnored(t) ==
  /\ At(t, "vet")
  /\ Goto(t, "write")
  /\ UNCHANGED <<shared, op, target, url, key, got, result, calls>>
  /\ NoteRaces
KeptInstance(t) ==
  /\ At(t, "cached")
  /\ Return(t, "ok")
  /\ UNCHANGED <<shared, op, target, url, key, got, calls>>
  /\ NoteRaces

DeletedUntested(t) ==
  /\ At(t, "cached")
  /\ Goto(t, "delete")
  /\ UNCHANGED <<shared, op, target, url, key, got, result, calls>>
  /\ NoteRaces

(* set_rpc probes the URL before anything is written.                      *)
Vet(t) ==
  /\ At(t, "vet")
  /\ \/ url[t] \notin Dead /\ Goto(t, "write") /\ UNCHANGED result
     \/ Return(t, "InvalidRpcUrlError")
  /\ UNCHANGED <<shared, op, target, url, key, got, calls>>
  /\ NoteRaces

(* update_rpc_url.                                                         *)
WriteUrl(t) ==
  /\ At(t, "write")
  /\ rpc' = [rpc EXCEPT ![target[t]] = url[t]]
  /\ Goto(t, "cached")
  /\ UNCHANGED <<current, abis, instances, dialed, op, target, url, key, got, result, calls>>
  /\ NoteRaces

TestCached(t) ==
  /\ At(t, "cached")
  /\ IF instances[target[t]] # Nothing THEN Goto(t, "delete") /\ UNCHANGED result
                                       ELSE Return(t, "ok")
  /\ UNCHANGED <<shared, op, target, url, key, got, calls>>
  /\ NoteRaces

DeleteInstance(t) ==
  /\ At(t, "delete")
  /\ instances' = [instances EXCEPT ![target[t]] = Nothing]
  /\ Return(t, IF instances[target[t]] # Nothing THEN "ok" ELSE "KeyError")
  /\ UNCHANGED <<current, rpc, abis, dialed, op, target, url, key, got, calls>>
  /\ NoteRaces

Terminated ==
  /\ calls = MaxCalls /\ \A t \in Threads : At(t, "idle")
  /\ UNCHANGED vars

Next ==
  \/ \E c \in Chains : SetChain(c)
  \/ \E t \in Threads :
       \/ \E o \in Ops \ {"none"}, c \in Chains, u \in Urls : Begin(t, o, c, u)
       \/ TestInstance(t) \/ TakeInstance(t) \/ ReadUrl(t) \/ Probe(t) \/ StoreInstance(t)
       \/ FindAsync(t) \/ Dial(t)
       \/ FindAbi(t) \/ ReadDirectory(t) \/ StoreAbi(t) \/ GetAddress(t)
       \/ Vet(t) \/ WriteUrl(t) \/ TestCached(t) \/ DeleteInstance(t)
  \/ Terminated

Spec == Init /\ [][Next]_vars
-----------------------------------------------------------------------------
(* No stale instance stays in the pool: unless a call overlapped an update *)
(* of the chain's URL, the cached instance is for the configured URL.      *)
PoolIsFresh ==
  \A c \in Chains :
    c \notin raced /\ (\A t \in Threads : ~Updating(t, c))
      => instances[c] \in {Nothing, rpc[c]}

(* The contract a call returns has the ABI and the address of one chain,   *)
(* the one its connection is for (load_contract, get_nexus_contract).      *)
ContractsOfOneChain ==
  \A t \in Threads :
    At(t, "idle") /\ op[t] \in {"contract", "watch"} /\ result[t] = "ok"
      => got[t].abi = target[t] /\ got[t].address = target[t]

(* A URL no node answers at is never committed, and no instance is built   *)
(* for it: set_rpc leaves the existing URL when the probe fails.           *)
DeadUrlNeverUsed ==
  \A c \in Chains : rpc[c] \notin Dead /\ instances[c] \notin Dead

(* The unlocked test-then-use of the pool fails only under a race.         *)
KeyErrorOnlyRaced ==
  \A t \in Threads : result[t] = "KeyError" => target[t] \in raced

(* web3.py 88-92: after update_rpc_url, the next call connects to the new  *)
(* URL.                                                                    *)
NextCallIsFresh ==
  \A c \in Chains :
    (\A t \in Threads : ~Using(t, c)) => instances[c] \in {Nothing, rpc[c]}
=============================================================================
