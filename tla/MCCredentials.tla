--------------------------- MODULE MCCredentials ---------------------------
(* A small instance of Credentials: an access token lives for two seconds, a
   refresh token for three, the mark of a reuse for two, and the third wrong
   entry ends a code. *)
EXTENDS Credentials

CONSTANTS r1

=============================================================================
