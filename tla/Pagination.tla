----------------------------- MODULE Pagination -----------------------------
(***************************************************************************)
(* One list read through _paginated_call, while the contract's array       *)
(* changes: the count is read first, then the array in chunks (or, for the *)
(* getters of Source, from its beginning in one call), each by an RPC of   *)
(* its own.  The array grows at its end and a removal leaves a hole; an    *)
(* entry is known by its slot, counted from 0 as the contract does.        *)
(*                                                                         *)
(*   count -> fetch (-> fetch)* -> done | raised                           *)
(***************************************************************************)
EXTENDS Naturals, Sequences, SequencesExt, Lists

CONSTANTS
  Bounds,           \* lower and upper, as callers pass them
  ToCount,          \* upper=None
  ChunkSizes,
  MaxSlots

ASSUME PaginationAssumption ==
  /\ Bounds \subseteq Nat
  /\ ToCount \notin Nat
  /\ ChunkSizes \subseteq Nat \ {0}
  /\ MaxSlots \in Nat

VARIABLES
  slots,        \* length of the contract's array
  holes,        \* its slots that hold the zero address
  lower, upper, chunkSize, fromZero,
  bound,        \* upper after it has been resolved
  pc,
  current,
  results,
  arrived, left  \* slots added and removed since the call began

array == <<slots, holes, arrived, left>>
callParams == <<lower, upper, chunkSize, fromZero>>
vars == <<array, callParams, bound, pc, current, results>>

Slots == 0 .. MaxSlots - 1

TypeOK ==
  /\ slots \in 0 .. MaxSlots
  /\ holes \subseteq Slots /\ arrived \subseteq Slots /\ left \subseteq Slots
  /\ lower \in Bounds
  /\ upper \in Bounds \cup {ToCount}
  /\ chunkSize \in ChunkSizes
  /\ fromZero \in BOOLEAN
  /\ bound \in Nat
  /\ pc \in {"count", "fetch", "done", "raised"}
  /\ current \in Nat
  /\ pc = "fetch" => current < bound
  /\ results \in Seq(Slots)

Init ==
  /\ slots \in 0 .. MaxSlots
  /\ holes \in SUBSET (0 .. slots - 1)
  /\ lower \in Bounds
  /\ upper \in Bounds \cup {ToCount}
  /\ chunkSize \in ChunkSizes
  /\ fromZero \in BOOLEAN
  /\ bound = 0
  /\ pc = "count"
  /\ current = lower
  /\ results = <<>>
  /\ arrived = {} /\ left = {}
-----------------------------------------------------------------------------
Grow ==
  /\ pc \in {"count", "fetch"}
  /\ slots < MaxSlots
  /\ slots' = slots + 1
  /\ arrived' = arrived \cup {slots}
  /\ UNCHANGED <<holes, left, callParams, bound, pc, current, results>>

Vacate(slot) ==
  /\ pc \in {"count", "fetch"}
  /\ slot \in 0 .. slots - 1 /\ slot \notin holes
  /\ holes' = holes \cup {slot}
  /\ left' = left \cup {slot}
  /\ UNCHANGED <<slots, arrived, callParams, bound, pc, current, results>>

Raise ==
  /\ pc \in {"count", "fetch"}
  /\ pc' = "raised"
  /\ UNCHANGED <<array, callParams, bound, current, results>>

(* Deliberate faults: the count is one too many; the end is taken for      *)
(* inclusive; holes are kept.                                              *)
CountTooFar ==
  /\ pc = "count"
  /\ bound' = IF upper = ToCount THEN slots + 1 ELSE upper
  /\ pc' = IF bound' <= lower THEN "done" ELSE "fetch"
  /\ UNCHANGED <<array, callParams, current, results>>
InclusiveEnd(end) == end
WithHoles(entries) == entries

(* count_fn, unless an upper bound was given.                              *)
Count ==
  /\ pc = "count"
  /\ bound' = IF upper = ToCount THEN slots ELSE upper
  /\ pc' = IF bound' <= lower THEN "done" ELSE "fetch"
  /\ UNCHANGED <<array, callParams, current, results>>

(* The bounds of fetch_fn are both inclusive.                              *)
LastBefore(end) == end - 1
Readable(last) == last < slots
Entries(first, last) == [i \in 1 .. last + 1 - first |-> first + i - 1]
NoHoles(entries) == Without(entries, holes)

(* One call of fetch_fn up to end, of which the entries from first on are  *)
(* kept; the contract panics on a slot it does not have.                   *)
Fetch(first, end) ==
  \/ /\ Readable(LastBefore(end))
     /\ results' = results \o NoHoles(Entries(first, LastBefore(end)))
     /\ current' = end
     /\ pc' = IF end < bound THEN "fetch" ELSE "done"
  \/ /\ ~Readable(LastBefore(end))
     /\ pc' = "raised"
     /\ UNCHANGED <<current, results>>

FetchChunk ==
  /\ pc = "fetch" /\ ~fromZero
  /\ Fetch(current, IF current + chunkSize <= bound THEN current + chunkSize ELSE bound)
  /\ UNCHANGED <<array, callParams, bound>>

(* The getters of Source are asked for all the slots from 0 at once.       *)
FetchFromZero ==
  /\ pc = "fetch" /\ fromZero
  /\ Fetch(lower, bound)
  /\ UNCHANGED <<array, callParams, bound>>

Terminated == pc \in {"done", "raised"} /\ UNCHANGED vars

Next ==
  \/ Grow \/ (\E slot \in Slots : Vacate(slot))
  \/ Raise \/ Count \/ FetchChunk \/ FetchFromZero
  \/ Terminated

Spec == Init /\ [][Next]_vars
-----------------------------------------------------------------------------
(* A list read returns, of the slots asked for, each entry that stood      *)
(* during the whole call, none that was a hole before it began, and each   *)
(* once and in order, whatever changed meanwhile (_paginated_call).        *)
Asked == lower .. bound - 1
ReadsWhatStood ==
  pc = "done" =>
    /\ \A slot \in Asked : slot \notin holes => slot \in ToSet(results)
    /\ ToSet(results) \subseteq {slot \in Asked : slot \notin holes \/ slot \in left}
    /\ \A i, j \in DOMAIN results : i < j => results[i] < results[j]

(* The array that did not change is returned as the reference definition   *)
(* has it, by chunks of any size and by a slice from the beginning alike.  *)
Reference ==
  Without([i \in 1 .. slots |-> i - 1],
          holes \cup {slot \in Slots : slot < lower \/ slot >= bound})
ReadsTheRange == pc = "done" /\ arrived = {} /\ left = {} => results = Reference

(* A call to the end never asks for a slot the contract does not have: it  *)
(* raises only when an RPC fails (the panic 0x32 of the docstring).        *)
NeverPastTheEnd ==
  [][pc = "fetch" /\ pc' = "raised" /\ ~Readable(bound - 1) => upper # ToCount]_vars
=============================================================================
