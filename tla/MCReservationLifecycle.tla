----------------------- MODULE MCReservationLifecycle -----------------------
(* ReservationLifecycle for TLC: one or two reservations of the pair.      *)
EXTENDS ReservationLifecycle, TLC

Symmetry == Permutations(Resv)
=============================================================================
