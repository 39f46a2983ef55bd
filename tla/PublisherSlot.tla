--------------------------- MODULE PublisherSlot ---------------------------
(***************************************************************************)
(* What the publisher lease of one language stream promises, without its   *)
(* tables: at any time at most one reservation holds the stream, a         *)
(* reservation goes on the air at most once and only while it is the       *)
(* holder, and a reservation that has lost the stream never gets it back.  *)
(* PublisherLease implements this specification.                           *)
(***************************************************************************)

CONSTANT Reservation  \* identities of publisher reservations

VARIABLES
  holder,   \* the reservation that holds the stream, as a set: {} or {r}
  onAir,    \* the holder once it is confirmed as publishing, {} before
  retired   \* the reservations that have lost the stream

slotVars == <<holder, onAir, retired>>

SlotInit ==
  /\ holder = {}
  /\ onAir = {}
  /\ retired = {}

(* A reservation nobody has used takes the stream; whoever held it retires. *)
Acquire(r) ==
  /\ r \notin holder \cup retired
  /\ holder' = {r}
  /\ onAir' = {}
  /\ retired' = retired \cup holder

GoLive ==
  /\ holder # {}
  /\ onAir = {}
  /\ onAir' = holder
  /\ UNCHANGED <<holder, retired>>

Release ==
  /\ holder # {}
  /\ holder' = {}
  /\ onAir' = {}
  /\ retired' = retired \cup holder

SlotNext ==
  \/ \E r \in Reservation : Acquire(r)
  \/ GoLive
  \/ Release

SlotSpec == SlotInit /\ [][SlotNext]_slotVars
=============================================================================
