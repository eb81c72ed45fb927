----------------------------- MODULE MCDelivery -----------------------------
(* A small instance of Delivery: two users who share a phone, the first of whom
   was removed and added again and is enrolled twice, so that a list names the
   phone up to three times; batches of two, a task that is retried twice, two
   failures, and a pool that two requests exhaust. *)
EXTENDS Delivery

CONSTANTS r1, r2, ana, bia, phone

UsedDevices == (ana :> phone) @@ (bia :> phone)

EnrolledKeys == {<<ana, 1>>, <<ana, 2>>, <<bia, 1>>}
KeyOfEntry == [e \in EnrolledKeys |-> e[1]]

=============================================================================
