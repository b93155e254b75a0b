---------------------------- MODULE Advertisement ----------------------------
(***************************************************************************)
(* The status of a ClusterAdvertisement, as far as chunk accounting and    *)
(* freshness go, and the writes the Broker makes to it.  Every write is a  *)
(* read-modify-write under the object's resourceVersion: a stale read      *)
(* makes the update fail with a conflict, so a write that succeeds is      *)
(* applied to the status it read.  Each operator below is such a write.    *)
(*                                                                         *)
(*   available  Status.Available                                           *)
(*   total      Status.TotalChunks                                         *)
(*   reserved   Status.ReservedChunks                                      *)
(*   free       Status.AvailableChunks                                     *)
(*                                                                         *)
(* A provider that never advertised has no object; every reader treats it  *)
(* like the unavailable status NoAdvertisement.                            *)
(***************************************************************************)
EXTENDS Naturals

AdvertisementStatus ==
    [available: BOOLEAN, total: Nat, reserved: Nat, free: Nat]

NoAdvertisement ==
    [available |-> FALSE, total |-> 0, reserved |-> 0, free |-> 0]

(* Subtraction clamped at zero, as in every counter update of the Broker.  *)
Monus(a, b) == IF a > b THEN a - b ELSE 0

(* ReservedChunks := n with AvailableChunks recomputed from it.            *)
WithReserved(adv, n) ==
    [adv EXCEPT !.reserved = n, !.free = Monus(adv.total, n)]

(* reserveChunks: the caller has checked adv.free >= 1 on the same read.   *)
Charged(adv) == WithReserved(adv, adv.reserved + 1)

(* adjustReservedChunks(-1) in the API, releaseChunks in the reconciler.   *)
Credited(adv) == WithReserved(adv, Monus(adv.reserved, 1))

(* Mutant: a report resets the free count to the full capacity. *)
TouchedAtFullCapacity(adv, count) ==
    [adv EXCEPT !.available = TRUE, !.total = count, !.free = count]

(* touchClusterAdvertisementStatus: a fresh report of `count` chunks.      *)
Touched(adv, count) ==
    [adv EXCEPT !.available = TRUE, !.total = count,
                !.free = Monus(count, adv.reserved)]

(* ClusterAdvertisementReconciler on a status whose lastSeen is too old.   *)
Staled(adv) == [adv EXCEPT !.available = FALSE, !.free = 0]
=============================================================================
