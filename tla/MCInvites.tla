----------------------------- MODULE MCInvites -----------------------------
(* Small instances of Invites: one user, whose address comes in two
   spellings, and two classes named in either order. *)
EXTENDS Invites, TLC

CONSTANTS i1, i2, plain, shouted, guest, k1, k2, k3, r1, r2

OneUser == [a \in Addresses |-> guest]
BothOrders == {<<k1, k2>>, <<k2, k1>>}
WithUnknown == {<<>>, <<k1, k3>>, <<k1>>}

=============================================================================
