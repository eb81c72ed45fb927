---------------------------- MODULE Credentials ----------------------------
(***************************************************************************)
(* The tokens of one user: login, refresh, logout, change of institution,  *)
(* and the three stages of a password reset.                               *)
(*                                                                         *)
(* A token is a signed claim and is stored nowhere.  What ends it early is *)
(* in Redis, under keys that expire: one per token that was given up       *)
(* (blacklist:<jti>) and one per user for a change of password             *)
(* (user_revoked_before).  A third kind of key holds the code of a reset.  *)
(* Redis executes one command at a time, and a use case issues several.    *)
(*                                                                         *)
(* Time is in seconds, as the claims are.  The moment of a revocation is a *)
(* fraction of a second later than its second, so a token with the same    *)
(* second counts as earlier.                                               *)
(***************************************************************************)
EXTENDS Naturals, FiniteSets, Sequences

CONSTANTS AccessLife, RefreshLife, ResetLife, CodeLife,   \* settings
          ReuseLife,        \* how long the mark of a reuse is kept: seven days
          MaxAttempts,      \* wrong codes that destroy a code
          Chances,          \* bound: whether and which codes are entered wrong
          MaxTokens,        \* bound: tokens issued in all
          MaxCodes,         \* bound: codes mailed in all
          MaxNow,           \* bound on the clock
          MaxLapses,        \* bound: failed writes that a use case passes over
          Requests          \* requests the API serves at the same time

ASSUME CredentialsAssumption ==
    /\ {AccessLife, RefreshLife, ResetLife, CodeLife, ReuseLife, MaxAttempts} \subseteq Nat \ {0}
    /\ {MaxTokens, MaxCodes, MaxNow, MaxLapses} \subseteq Nat
    /\ AccessLife <= RefreshLife /\ AccessLife <= ReuseLife
    /\ Chances \subseteq {"right", "wrong"}
    /\ IsFiniteSet(Requests)

VARIABLES now,          \* datetime.now(timezone.utc), in seconds
          tokens,       \* the tokens issued, in that order: the index is the jti
          gone,         \* until when Redis keeps blacklist:<jti>
          ended,        \* user_revoked_before: its value, and until when it is kept
          code,         \* password_reset:<email>: the code, its attempts, its end
          mailed,       \* how many codes have been made
          wrong,        \* history: wrong entries answered, by code
          changes,      \* the password changes committed, the latest last
          lapses,       \* failed writes so far
          req           \* req[r]: where request r is, and what it holds

resetVars == <<code, mailed, wrong, changes>>
vars == <<now, tokens, gone, ended, resetVars, lapses, req>>

-----------------------------------------------------------------------------
(* Types *)

Ids == 1..MaxTokens
Token == [kind : {"access", "refresh", "reset"}, iat : 0..MaxNow, exp : Nat,
          of : 1..(MaxTokens + MaxCodes)]
Code == [nth : 0..MaxCodes, attempts : 0..(MaxAttempts - 1), until : Nat]
Change == [by : Ids, upto : Ids]    \* the reset token, and the tokens issued until then

Request == [step : {"idle", "valid", "reused", "given_up", "switched", "read", "wrong",
                    "timed", "saved", "spent", "revoked"},
            op : {"none", "refresh", "logout", "switch", "verify", "reset"},
            token : 0..MaxTokens,
            saw : Code,             \* the value of the key, as it was read
            ttl : Nat]

IdleRequest == [step |-> "idle", op |-> "none", token |-> 0,
                saw |-> [nth |-> 0, attempts |-> 0, until |-> 0], ttl |-> 0]

TypeOK ==
    /\ now \in 0..MaxNow
    /\ tokens \in Seq(Token) /\ Len(tokens) <= MaxTokens
    /\ gone \in [Ids -> Nat]
    /\ ended \in [at : 0..MaxNow, until : Nat]
    /\ code \in Code
    /\ mailed \in 0..MaxCodes
    /\ wrong \in [1..MaxCodes -> Nat]
    /\ changes \in Seq(Change)
    /\ lapses \in 0..MaxLapses
    /\ req \in [Requests -> Request]

Init ==
    /\ now = 0
    /\ tokens = <<>>
    /\ gone = [t \in Ids |-> 0]
    /\ ended = [at |-> 0, until |-> 0]
    /\ code = IdleRequest.saw
    /\ mailed = 0
    /\ wrong = [n \in 1..MaxCodes |-> 0]
    /\ changes = <<>>
    /\ lapses = 0
    /\ req = [r \in Requests |-> IdleRequest]

-----------------------------------------------------------------------------
(* What a token is worth *)

Issued(kind) == {t \in DOMAIN tokens : tokens[t].kind = kind}
Expired(t) == tokens[t].exp <= now
Blacklisted(t) == now < gone[t]

(* Faulty variant: tokens of the second of the revocation are spared. *)
EndedBefore(t) == now < ended.until /\ tokens[t].iat < ended.at
SessionEnded(t) == now < ended.until /\ tokens[t].iat <= ended.at

(* An access token is held against both keys, the others against the first. *)
Refused(t) ==
    \/ Expired(t) \/ Blacklisted(t)
    \/ tokens[t].kind = "access" /\ SessionEnded(t)

Claim(kind, life, of) == [kind |-> kind, iat |-> now, exp |-> now + life, of |-> of]
Pair(of) == <<Claim("access", AccessLife, of), Claim("refresh", RefreshLife, of)>>

(* The newest refresh token of a login: what the cookie holds. *)
Newest(of) == CHOOSE t \in Issued("refresh") :
                 /\ tokens[t].of = of
                 /\ \A u \in Issued("refresh") : tokens[u].of = of => u <= t

(* Faulty variant: the key ends a second before the token does. *)
RemainingShort(t) == tokens[t].exp - now - 1
Remaining(t) == tokens[t].exp - now

(* add_token_to_blacklist: nothing is written for an expired token. *)
GiveUp(t) == IF Expired(t) THEN gone ELSE [gone EXCEPT ![t] = now + Remaining(t)]

Goto(r, step) == req' = [req EXCEPT ![r].step = step]
Begin(r, op, step, t) ==
    req' = [req EXCEPT ![r] = [IdleRequest EXCEPT !.op = op, !.step = step, !.token = t]]
Finish(r) == req' = [req EXCEPT ![r] = IdleRequest]
At(r, op, step) == req[r].op = op /\ req[r].step = step
Idle(r) == req[r].step = "idle"

(* Room for the tokens of every request under way: the bound on tokens. *)
Room(n) == Len(tokens) + 2 * Cardinality({r \in Requests : ~Idle(r)}) + n <= MaxTokens

-----------------------------------------------------------------------------
(* Login, refresh, logout, change of institution *)

Login(r) ==
    /\ Idle(r) /\ Room(2)
    /\ tokens' = tokens \o Pair(Len(tokens) + 1)
    /\ UNCHANGED <<now, gone, ended, resetVars, lapses, req>>

RefreshCheck(r, t) ==
    /\ Idle(r) /\ Room(2)
    /\ t \in Issued("refresh") /\ ~Expired(t)
    /\ Begin(r, "refresh", IF Blacklisted(t) THEN "reused" ELSE "valid", t)
    /\ UNCHANGED <<now, tokens, gone, ended, resetVars, lapses>>

(* revoke_user_sessions *)
EndSessions(life) == ended' = [at |-> now, until |-> now + life]

(* A token that was given up comes again: all sessions are ended, by a mark that
   is kept for the default time and not for the life of a refresh token. *)
RefreshReused(r) ==
    /\ At(r, "refresh", "reused")
    /\ EndSessions(ReuseLife)
    /\ Finish(r)
    /\ UNCHANGED <<now, tokens, gone, resetVars, lapses>>

(* Faulty variant: the old token stays good until it expires. *)
NotRotated(t) == gone
Rotated(t) == GiveUp(t)

(* The failure to give up the old token is passed over. *)
RefreshRotate(r) ==
    /\ At(r, "refresh", "valid")
    /\ \/ gone' = Rotated(req[r].token) /\ UNCHANGED lapses
       \/ lapses < MaxLapses /\ lapses' = lapses + 1 /\ UNCHANGED gone
    /\ tokens' = tokens \o Pair(tokens[req[r].token].of)
    /\ Finish(r)
    /\ UNCHANGED <<now, ended, resetVars>>

LogoutAccess(r, t) ==
    /\ Idle(r)
    /\ t \in Issued("access") /\ ~Refused(t)
    /\ gone' = GiveUp(t)
    /\ Begin(r, "logout", "given_up", t)
    /\ UNCHANGED <<now, tokens, ended, resetVars, lapses>>

LogoutRefresh(r) ==
    /\ At(r, "logout", "given_up")
    /\ gone' = GiveUp(Newest(tokens[req[r].token].of))
    /\ Finish(r)
    /\ UNCHANGED <<now, tokens, ended, resetVars, lapses>>

SwitchCheck(r, t) ==
    /\ Idle(r) /\ Room(2)
    /\ t \in Issued("access") /\ ~Refused(t)
    /\ Begin(r, "switch", "switched", t)
    /\ UNCHANGED <<now, tokens, gone, ended, resetVars, lapses>>

(* The cookie is renewed with the institution, unless there is none, it has
   expired or the write fails: then only the access token is new. *)
Switch(r) ==
    /\ At(r, "switch", "switched")
    /\ LET of == tokens[req[r].token].of
           cookie == Newest(of)
       IN \/ /\ tokens' = Append(tokens, Claim("access", AccessLife, of))
             /\ UNCHANGED gone
          \/ /\ ~Expired(cookie)
             /\ tokens' = tokens \o Pair(of)
             /\ gone' = Rotated(cookie)
    /\ Finish(r)
    /\ UNCHANGED <<now, ended, resetVars, lapses>>

-----------------------------------------------------------------------------
(* The code of a password reset *)

Forgot(r) ==
    /\ Idle(r) /\ mailed < MaxCodes
    /\ mailed' = mailed + 1
    /\ code' = [nth |-> mailed + 1, attempts |-> 0, until |-> now + CodeLife]
    /\ UNCHANGED <<now, tokens, gone, ended, wrong, changes, lapses, req>>

NoCode == IdleRequest.saw
CodeKept == code.nth # 0 /\ now < code.until

(* GET, and the comparison with what was entered. *)
VerifyRead(r, entered) ==
    /\ Idle(r) /\ Room(2) /\ CodeKept
    /\ req' = [req EXCEPT ![r] = [IdleRequest EXCEPT !.op = "verify", !.saw = code,
                 !.step = IF entered = "right" THEN "read" ELSE "wrong"]]
    /\ UNCHANGED <<now, tokens, gone, ended, resetVars, lapses>>

(* Faulty variant: the code stays for the rest of its time. *)
CodeStays == code
CodeUsedUp == NoCode

VerifyRight(r) ==
    /\ At(r, "verify", "read")
    /\ code' = CodeUsedUp
    /\ tokens' = Append(tokens, Claim("reset", ResetLife, MaxTokens + req[r].saw.nth))
    /\ Finish(r)
    /\ UNCHANGED <<now, gone, ended, mailed, wrong, changes, lapses>>

Answer(r) == wrong' = [wrong EXCEPT ![req[r].saw.nth] = @ + 1]

LastAttempt(r) == req[r].saw.attempts + 1 >= MaxAttempts

VerifyLastWrong(r) ==
    /\ At(r, "verify", "wrong") /\ LastAttempt(r)
    /\ code' = NoCode
    /\ Answer(r)
    /\ Finish(r)
    /\ UNCHANGED <<now, tokens, gone, ended, mailed, changes, lapses>>

(* TTL, then SET of what was read with one attempt more. *)
VerifyTtl(r) ==
    /\ At(r, "verify", "wrong") /\ ~LastAttempt(r)
    /\ req' = [req EXCEPT ![r] = IF CodeKept THEN [@ EXCEPT !.step = "timed", !.ttl = code.until - now]
                                             ELSE IdleRequest]
    /\ IF CodeKept THEN UNCHANGED wrong ELSE Answer(r)
    /\ UNCHANGED <<now, tokens, gone, ended, code, mailed, changes, lapses>>

(* Faulty variant: what is written back is what was read. *)
NotCounted(saw) == saw
Counted(saw) == [saw EXCEPT !.attempts = @ + 1]

VerifyCount(r) ==
    /\ At(r, "verify", "timed")
    /\ code' = [Counted(req[r].saw) EXCEPT !.until = now + req[r].ttl]
    /\ Answer(r)
    /\ Finish(r)
    /\ UNCHANGED <<now, tokens, gone, ended, mailed, changes, lapses>>

-----------------------------------------------------------------------------
(* The reset itself: password, blacklist, sessions, and the commit last *)

ResetCheck(r, t) ==
    /\ Idle(r)
    /\ t \in Issued("reset") /\ ~Refused(t)
    /\ Begin(r, "reset", "saved", t)
    /\ UNCHANGED <<now, tokens, gone, ended, resetVars, lapses>>

(* Faulty variant: the key is kept for no time at all. *)
SpentForNothing(t) == gone
(* At least for a second, whatever is left of the token. *)
SpentFor(t) == [gone EXCEPT ![t] = now + IF Expired(t) THEN 1 ELSE Remaining(t)]

ResetSpend(r) ==
    /\ At(r, "reset", "saved")
    /\ gone' = SpentFor(req[r].token)
    /\ Goto(r, "spent")
    /\ UNCHANGED <<now, tokens, ended, resetVars, lapses>>

ResetRevoke(r) ==
    /\ At(r, "reset", "spent")
    /\ EndSessions(RefreshLife)
    /\ Goto(r, "revoked")
    /\ UNCHANGED <<now, tokens, gone, resetVars, lapses>>

ResetCommit(r) ==
    /\ At(r, "reset", "revoked")
    /\ changes' = Append(changes, [by |-> req[r].token, upto |-> Len(tokens)])
    /\ Finish(r)
    /\ UNCHANGED <<now, tokens, gone, ended, code, mailed, wrong, lapses>>

(* A failed command, a lost connection or a failed commit: what Redis was told
   stays, what the database was told does not. *)
Abort(r) ==
    /\ ~Idle(r)
    /\ Finish(r)
    /\ UNCHANGED <<now, tokens, gone, ended, resetVars, lapses>>

Tick ==
    /\ now < MaxNow
    /\ now' = now + 1
    /\ UNCHANGED <<tokens, gone, ended, resetVars, lapses, req>>

RequestNext(r) ==
    \/ Login(r) \/ RefreshReused(r) \/ RefreshRotate(r) \/ LogoutRefresh(r) \/ Switch(r)
    \/ Forgot(r) \/ VerifyRight(r) \/ VerifyLastWrong(r) \/ VerifyTtl(r) \/ VerifyCount(r)
    \/ \E entered \in Chances : VerifyRead(r, entered)
    \/ ResetSpend(r) \/ ResetRevoke(r) \/ ResetCommit(r) \/ Abort(r)
    \/ \E t \in Ids : \/ RefreshCheck(r, t) \/ LogoutAccess(r, t)
                      \/ SwitchCheck(r, t) \/ ResetCheck(r, t)

Next == Tick \/ \E r \in Requests : RequestNext(r)

Spec == Init /\ [][Next]_vars

-----------------------------------------------------------------------------
(* Properties *)

(* A token that is refused is refused for ever: no key in Redis expires before
   every token it stands against has, whenever it was written. *)
RefusedForGood ==
    [][\A t \in DOMAIN tokens : Refused(t) => Refused(t)']_vars

(* One login has one refresh token that is good, through any number of
   refreshes and changes of institution, and one more for each failure to give
   a token up.  Holds while requests come one at a time. *)
OneRefreshPerLogin ==
    \A of \in {tokens[t].of : t \in Issued("refresh")} :
        Cardinality({t \in Issued("refresh") : tokens[t].of = of /\ ~Refused(t)}) <= 1 + lapses

(* A reset token changes the password once, and a code gives one reset token:
   one mail, at most one change of password.  Holds while requests come one at
   a time. *)
OneChangePerCode ==
    \A m, n \in DOMAIN changes :
        tokens[changes[m].by].of = tokens[changes[n].by].of => m = n

(* Once a change of password is committed, none of the access tokens issued
   before it is accepted any more. *)
ChangeEndsSessions ==
    \A n \in DOMAIN changes :
        \A t \in Issued("access") : t <= changes[n].upto => Refused(t)

(* "Limite de ate 5 tentativas incorretas antes de destruir a chave": a code
   that still stands has been answered wrong fewer times than that.  Holds while
   requests come one at a time: overlapping entries are counted once. *)
WrongEntriesEndCode ==
    CodeKept => wrong[code.nth] < MaxAttempts

=============================================================================
