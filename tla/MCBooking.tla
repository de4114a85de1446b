------------------------------ MODULE MCBooking ------------------------------
(***************************************************************************)
(* Instances of Booking.  The client calls are interchangeable, and so are *)
(* the order ids, the LSPs and the handlers.                               *)
(***************************************************************************)
EXTENDS Booking, TLC

MCSymmetry ==
  Permutations(InitReq) \cup Permutations(ConfirmReq) \cup Permutations(OrderId)
  \cup Permutations(Bpp) \cup Permutations(Handler) \cup Permutations(Txn)
==============================================================================
