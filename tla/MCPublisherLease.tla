------------------------- MODULE MCPublisherLease --------------------------
(* PublisherLease on small instances: symmetry of its model values.         *)
EXTENDS PublisherLease, TLC

LeaseSymmetry ==
  Permutations(Reservation) \cup Permutations(Session)
    \cup Permutations(Request) \cup Permutations(Track)
=============================================================================
