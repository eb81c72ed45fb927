------------------------------ MODULE RollCall ------------------------------
(***************************************************************************)
(* What the attendance module promises about roll calls, with requests,    *)
(* transactions and tasks left out: a call is opened once, its deadline    *)
(* never moves, it is ended by hand one call at a time or, once past its   *)
(* deadline, together with other expired calls, and it never opens again.  *)
(* An ended call may still change between "closed" and "cancelled": the    *)
(* code does not promise more (see OnlyOpenMoves in AttendanceSessions).   *)
(***************************************************************************)
EXTENDS Naturals

CONSTANTS Calls,        \* the calls that may be opened
          Deadlines     \* the expiry times a call may be given

ASSUME DeadlinesAssumption == Deadlines \subseteq Nat

VARIABLES phase,        \* phase[c]: where call c is in its life
          deadline,     \* deadline[c]: its expires_at, 0 before it is opened
          now           \* the time every process reads

rollCallVars == <<phase, deadline, now>>

Ended == {"closed", "cancelled"}
Phases == {"absent", "open"} \union Ended

RollCallInit ==
    /\ phase = [c \in Calls |-> "absent"]
    /\ deadline = [c \in Calls |-> 0]
    /\ now = 0

Start(c) ==
    /\ phase[c] = "absent"
    /\ phase' = [phase EXCEPT ![c] = "open"]
    /\ \E d \in Deadlines : deadline' = [deadline EXCEPT ![c] = d]
    /\ UNCHANGED now

EndByHand(c) ==
    /\ phase[c] # "absent"
    /\ \E p \in Ended : phase' = [phase EXCEPT ![c] = p]
    /\ UNCHANGED <<deadline, now>>

Expire(S) ==
    /\ \A c \in S : phase[c] # "absent" /\ deadline[c] <= now
    /\ phase' = [c \in Calls |-> IF c \in S THEN "closed" ELSE phase[c]]
    /\ UNCHANGED <<deadline, now>>

Tick ==
    /\ now' = now + 1
    /\ UNCHANGED <<phase, deadline>>

RollCallNext ==
    \/ \E c \in Calls : Start(c) \/ EndByHand(c)
    \/ \E S \in SUBSET Calls : Expire(S)
    \/ Tick

RollCallSpec == RollCallInit /\ [][RollCallNext]_rollCallVars

=============================================================================
