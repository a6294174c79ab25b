----------------------------- MODULE NonceCache -----------------------------
(***************************************************************************)
(* One address's entry in NonceManager._nonces, and what each operation    *)
(* computes from it.  The modules that use these operators decide where    *)
(* the reads and the writes fall with respect to the locks.                *)
(***************************************************************************)
EXTENDS Naturals

CONSTANT NoNonce  \* the address has no key in _nonces

ASSUME NoNonceAssumption == NoNonce \notin Nat

Entry == Nat \cup {NoNonce}

Higher(a, b) == IF a >= b THEN a ELSE b

(* The nonce reserve_nonce hands out: the cached value or the chain's      *)
(* pending count, whichever is ahead.                                      *)
ReservedNonce(entry, pending) ==
  IF entry = NoNonce THEN pending ELSE Higher(entry, pending)

(* Deliberate faults (used only to see the properties fail): the counter   *)
(* is not advanced, as before 0.2.3; it skips a nonce; release leaves the  *)
(* entry alone; reset leaves it alone.                                     *)
ReserveWithoutAdvancing(entry, pending) == ReservedNonce(entry, pending)
ReserveSkippingOne(entry, pending) == ReservedNonce(entry, pending) + 2
ReleaseForgotten(entry, nonce) == entry
ResetForgotten(entry) == entry

AfterReserve(entry, pending) == ReservedNonce(entry, pending) + 1

(* get_nonce caches what it returns; force_refresh discards the entry.     *)
AfterGet(entry, pending, force) ==
  ReservedNonce(IF force THEN NoNonce ELSE entry, pending)

(* release_nonce rolls the counter back only when the nonce handed back is *)
(* the latest one; otherwise it drops the entry.                           *)
AfterRelease(entry, nonce) ==
  IF entry = nonce + 1 THEN nonce ELSE NoNonce

AfterIncrement(entry) == IF entry = NoNonce THEN NoNonce ELSE entry + 1

AfterReset(entry) == NoNonce
=============================================================================
