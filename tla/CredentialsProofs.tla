-------------------------- MODULE CredentialsProofs --------------------------
(***************************************************************************)
(* Proofs about Credentials for any number of tokens, codes and requests,  *)
(* and any lives of tokens and codes.                                      *)
(*                                                                         *)
(* That a refused token is refused for ever needs nothing of the requests. *)
(* The other properties do not survive every interleaving; each is proved  *)
(* from the overlap that breaks it being excluded, and from no more.       *)
(***************************************************************************)
EXTENDS Credentials, FiniteSetTheorems, SequenceTheorems, TLAPS

(* No two requests enter the same code at the same time. *)
EntriesApart ==
    \A q, r \in Requests :
        req[q].op = "verify" /\ req[r].op = "verify" /\ req[q].saw.nth = req[r].saw.nth => q = r

(* No two requests use the same reset token at the same time. *)
ResetsApart ==
    \A q, r \in Requests :
        req[q].op = "reset" /\ req[r].op = "reset" /\ req[q].token = req[r].token => q = r

(* No two requests renew the cookie of the same login at the same time. *)
Renewing(r) == req[r].op \in {"refresh", "switch"}
RenewalsApart ==
    \A q, r \in Requests :
        Renewing(q) /\ Renewing(r) /\ tokens[req[q].token].of = tokens[req[r].token].of => q = r

(* Nothing is issued between the end of the sessions, in Redis, and the commit
   of the reset, in the database. *)
NothingIssuedMeanwhile ==
    (\E r \in Requests : At(r, "reset", "revoked")) => tokens' = tokens

-----------------------------------------------------------------------------
(* Whatever the requests do *)

(* The requests that will issue a pair of tokens at most, and room for them. *)
Issuers == {r \in Requests : req[r].op \in {"refresh", "switch", "verify"}}
RoomOK == Len(tokens) + 2 * Cardinality(Issuers) <= MaxTokens

(* t is the newest refresh token of its login. *)
IsNewest(t, of) ==
    /\ t \in Issued("refresh") /\ tokens[t].of = of
    /\ \A u \in Issued("refresh") : tokens[u].of = of => u <= t

TokensOK ==
    \A t \in DOMAIN tokens :
        /\ tokens[t].iat <= now
        /\ tokens[t].kind = "access" => tokens[t].exp = tokens[t].iat + AccessLife
        /\ IF tokens[t].kind = "reset"
           THEN \E n \in 1..mailed : tokens[t].of = MaxTokens + n
           ELSE tokens[t].of \in DOMAIN tokens /\ \E u \in DOMAIN tokens : IsNewest(u, tokens[t].of)

(* A key outlives the token it stands against. *)
GoneOK == \A t \in Ids : gone[t] # 0 => t \in DOMAIN tokens /\ gone[t] >= tokens[t].exp
EndedOK == ended.at <= now /\ (ended.until # 0 => ended.at + AccessLife <= ended.until)

CodeOK ==
    /\ code.nth <= mailed
    /\ \A n \in 1..MaxCodes : n > mailed => wrong[n] = 0

RefusedTokens == {t \in DOMAIN tokens : Refused(t)}
ChangesOK == \A m \in DOMAIN changes : changes[m].by \in Issued("reset") \intersect RefusedTokens

(* A request holds a token of the kind its operation takes, or a code; after
   the token is spent it is refused. *)
RequestOK(q, access, refresh, reset, refused, n) ==
    /\ q.step = "idle" <=> q.op = "none"
    /\ q.op = "refresh" => q.step \in {"valid", "reused"} /\ q.token \in refresh
    /\ q.op = "logout" => q.step = "given_up" /\ q.token \in access
    /\ q.op = "switch" => q.step = "switched" /\ q.token \in access
    /\ q.op = "verify" => q.step \in {"read", "wrong", "timed"} /\ q.saw.nth \in 1..n
    /\ q.step = "timed" => q.saw.attempts + 1 < MaxAttempts
    /\ q.op = "reset" => q.step \in {"saved", "spent", "revoked"} /\ q.token \in reset
    /\ q.step \in {"spent", "revoked"} => q.token \in refused

RequestsOK ==
    \A r \in Requests :
        RequestOK(req[r], Issued("access"), Issued("refresh"), Issued("reset"), RefusedTokens, mailed)

IInv ==
    /\ TypeOK /\ RoomOK
    /\ TokensOK /\ GoneOK /\ EndedOK /\ CodeOK /\ ChangesOK
    /\ RequestsOK

-----------------------------------------------------------------------------
(* What the overlaps break *)

(* A code that can still be entered, or is being entered. *)
Live(n) == n # 0 /\ (code.nth = n \/ \E r \in Requests : req[r].op = "verify" /\ req[r].saw.nth = n)

(* It has given no token yet; and no two tokens are of one code. *)
OneTokenPerCode ==
    /\ \A t \in Issued("reset") : ~Live(tokens[t].of - MaxTokens)
    /\ \A t, u \in Issued("reset") : tokens[t].of = tokens[u].of => t = u

(* Its wrong entries were counted. *)
EntriesCounted ==
    /\ CodeKept => wrong[code.nth] <= code.attempts
    /\ \A r \in Requests : req[r].op = "verify" => wrong[req[r].saw.nth] <= req[r].saw.attempts

(* A reset token that is being used has changed no password. *)
OneChangePerToken ==
    /\ \A r \in Requests : req[r].op = "reset" => \A m \in DOMAIN changes : changes[m].by # req[r].token
    /\ \A m, n \in DOMAIN changes : changes[m].by = changes[n].by => m = n

(* Except for the newest refresh token of a login, and for the one that is being
   given up, every one that is good is due to a failure to give it up. *)
Good(of) == {t \in Issued("refresh") : tokens[t].of = of /\ ~Refused(t)}
FewGood ==
    \A t \in Issued("refresh") : \A of \in {tokens[u].of : u \in Issued("refresh")} :
        IsNewest(t, of) => Cardinality(Good(of) \ {t}) <= lapses
RenewalsFit ==
    \A r \in Requests : At(r, "refresh", "valid") =>
        Cardinality(Good(tokens[req[r].token].of) \ {req[r].token}) <= lapses

(* While the sessions are ended and the change is not committed. *)
NobodyIsIn ==
    (\E r \in Requests : At(r, "reset", "revoked")) => \A t \in Issued("access") : Refused(t)

-----------------------------------------------------------------------------
(* Tokens are only ever added *)

LEMMA OneAppended ==
    ASSUME NEW S, NEW s \in Seq(S), NEW a \in S
    PROVE  /\ Append(s, a) \in Seq(S) /\ Len(Append(s, a)) = Len(s) + 1
           /\ DOMAIN Append(s, a) = 1..(Len(s) + 1)
           /\ \A i \in 1..Len(s) : Append(s, a)[i] = s[i]
           /\ Append(s, a)[Len(s) + 1] = a
OBVIOUS

LEMMA PairAppended ==
    ASSUME NEW S, NEW s \in Seq(S), NEW a \in S, NEW b \in S
    PROVE  LET new == s \o <<a, b>> IN
           /\ new \in Seq(S) /\ Len(new) = Len(s) + 2
           /\ DOMAIN new = 1..(Len(s) + 2)
           /\ \A i \in 1..Len(s) : new[i] = s[i]
           /\ new[Len(s) + 1] = a /\ new[Len(s) + 2] = b
<1>1. <<a, b>> \in Seq(S) /\ Len(<<a, b>>) = 2 /\ <<a, b>>[1] = a /\ <<a, b>>[2] = b
  OBVIOUS
<1> DEFINE t == <<a, b>>
<1> HIDE DEF t
<1>2. t \in Seq(S) /\ Len(t) = 2 /\ t[1] = a /\ t[2] = b
  BY <1>1 DEF t
<1>3. /\ s \o t \in Seq(S) /\ Len(s \o t) = Len(s) + Len(t)
      /\ \A i \in 1..(Len(s) + Len(t)) :
            (s \o t)[i] = IF i <= Len(s) THEN s[i] ELSE t[i - Len(s)]
  BY <1>2, ConcatProperties
<1>4. Len(s) \in Nat /\ DOMAIN (s \o t) = 1..Len(s \o t)
  BY <1>3
<1> QED
  BY <1>2, <1>3, <1>4 DEF t

LEMMA NullIsRequest ==
    /\ IdleRequest \in Request /\ IdleRequest.step = "idle" /\ IdleRequest.op = "none"
    /\ NoCode \in Code /\ NoCode.nth = 0
BY CredentialsAssumption DEF IdleRequest, Request, NoCode, Code

(* The sessions end now, for the life of a refresh token or after a reuse. *)
SessionsEnd == \E life \in {RefreshLife, ReuseLife} : ended' = [at |-> now, until |-> now + life]

(* What is done to Redis, and to the tokens, in one step: none is taken back, a
   key that is written outlives its token, and the sessions end now. *)
Evolves ==
    /\ Len(tokens) <= Len(tokens') /\ \A t \in DOMAIN tokens : tokens'[t] = tokens[t]
    /\ \A t \in DOMAIN tokens :
          \/ gone'[t] = gone[t]
          \/ gone'[t] >= tokens[t].exp /\ gone'[t] > now
    /\ ended' = ended \/ SessionsEnd
    /\ \/ now' = now
       \/ now' = now + 1 /\ UNCHANGED <<tokens, gone, ended>>
    /\ mailed <= mailed'

LEMMA RefusedStays ==
    ASSUME IInv, tokens' \in Seq(Token), Evolves, NEW t \in DOMAIN tokens, Refused(t)
    PROVE  t \in DOMAIN tokens' /\ Refused(t)'
<1> DEFINE tok == tokens[t]
<1>1. /\ t \in 1..Len(tokens) /\ Len(tokens) \in Nat /\ Len(tokens') \in Nat
      /\ Len(tokens) <= MaxTokens /\ t \in Ids /\ tok \in Token
      /\ now \in Nat /\ gone[t] \in Nat /\ ended.at \in Nat /\ ended.until \in Nat
      /\ AccessLife \in Nat
      /\ \A life \in {RefreshLife, ReuseLife} : life \in Nat \ {0} /\ AccessLife <= life
  <2>1. \A life \in {RefreshLife, ReuseLife} : life \in Nat \ {0} /\ AccessLife <= life
    BY CredentialsAssumption
  <2> QED
    BY <2>1, CredentialsAssumption DEF IInv, TypeOK, Ids
<1>2. t \in DOMAIN tokens' /\ tokens'[t] = tok
  BY <1>1 DEF Evolves
<1>3. tok.exp \in Nat /\ tok.iat \in Nat /\ tok.iat <= now
  BY <1>1 DEF Token, IInv, TokensOK
<1>4. now' \in Nat /\ now <= now'
  BY <1>1 DEF Evolves
<1>5. CASE Expired(t)
  BY <1>1, <1>2, <1>3, <1>4, <1>5 DEF Expired, Refused
<1>6. CASE Blacklisted(t)
  <2>1. gone[t] >= tok.exp
    BY <1>1, <1>6 DEF Blacklisted, IInv, GoneOK
  <2>2. CASE now' < gone'[t]
    BY <1>2, <2>2 DEF Refused, Blacklisted
  <2>3. CASE ~(now' < gone'[t])
    <3>1. tok.exp <= now'
      BY <1>1, <1>3, <1>4, <1>6, <2>1, <2>3 DEF Evolves, Blacklisted
    <3> QED
      BY <1>2, <3>1 DEF Refused, Expired
  <2> QED
    BY <1>2, <2>2, <2>3
<1>7. CASE tok.kind = "access" /\ SessionEnded(t)
  <2>1. tok.exp = tok.iat + AccessLife
    BY <1>7 DEF IInv, TokensOK
  <2>2. ended.at + AccessLife <= ended.until /\ ended.at <= now
    BY <1>1, <1>7 DEF IInv, EndedOK, SessionEnded
  <2>3. CASE ended' = ended
    BY <1>1, <1>2, <1>3, <1>4, <1>7, <2>1, <2>2, <2>3 DEF Evolves, Refused, SessionEnded, Expired
  <2>4. ASSUME NEW life \in {RefreshLife, ReuseLife},
               ended' = [at |-> now, until |-> now + life], now' = now
        PROVE  Refused(t)'
    BY <1>1, <1>2, <1>3, <1>4, <1>7, <2>1, <2>2, <2>4 DEF Refused, SessionEnded
  <2> QED
    BY <2>3, <2>4 DEF Evolves, SessionsEnd
<1> QED
  BY <1>5, <1>6, <1>7 DEF Refused

-----------------------------------------------------------------------------
(* What the invariant gives a step *)

LEMMA Basics ==
    ASSUME IInv
    PROVE  /\ Len(tokens) \in Nat /\ DOMAIN tokens = 1..Len(tokens) /\ DOMAIN tokens \subseteq Ids
           /\ \A t \in DOMAIN tokens : /\ tokens[t] \in Token /\ tokens[t].exp \in Nat
                                       /\ tokens[t].iat \in Nat /\ tokens[t].of \in Nat
           /\ tokens \in Seq(Token) /\ Len(tokens) <= MaxTokens
           /\ now \in 0..MaxNow /\ now \in Nat
           /\ gone \in [Ids -> Nat]
           /\ AccessLife \in Nat /\ RefreshLife \in Nat \ {0} /\ ResetLife \in Nat
           /\ CodeLife \in Nat /\ MaxAttempts \in Nat \ {0}
           /\ MaxTokens \in Nat /\ MaxCodes \in Nat /\ MaxNow \in Nat /\ MaxLapses \in Nat
           /\ mailed \in Nat /\ lapses \in Nat
           /\ req \in [Requests -> Request] /\ \A r \in Requests : req[r] \in Request
           /\ code \in Code /\ mailed <= MaxCodes
<1>1. /\ Len(tokens) \in Nat /\ DOMAIN tokens = 1..Len(tokens) /\ DOMAIN tokens \subseteq Ids
      /\ tokens \in Seq(Token) /\ Len(tokens) <= MaxTokens
      /\ {MaxTokens, MaxCodes, MaxNow, MaxLapses} \subseteq Nat
  BY CredentialsAssumption DEF IInv, TypeOK, Ids
<1>2. ASSUME NEW t \in DOMAIN tokens
      PROVE  /\ tokens[t] \in Token /\ tokens[t].exp \in Nat
             /\ tokens[t].iat \in Nat /\ tokens[t].of \in Nat
  <2>1. tokens[t] \in Token
    BY <1>1
  <2> QED
    BY <1>1, <2>1 DEF Token
<1>3. /\ AccessLife \in Nat /\ RefreshLife \in Nat \ {0} /\ ResetLife \in Nat
      /\ CodeLife \in Nat /\ MaxAttempts \in Nat \ {0}
      /\ now \in 0..MaxNow /\ now \in Nat /\ gone \in [Ids -> Nat]
      /\ mailed \in Nat /\ mailed <= MaxCodes /\ lapses \in Nat
      /\ req \in [Requests -> Request] /\ \A r \in Requests : req[r] \in Request
      /\ code \in Code
  BY CredentialsAssumption DEF IInv, TypeOK
<1> QED
  BY <1>1, <1>2, <1>3

LEMMA Sizes ==
    ASSUME IInv
    PROVE  /\ Len(tokens) \in Nat /\ DOMAIN tokens = 1..Len(tokens) /\ Len(tokens) <= MaxTokens
           /\ MaxTokens \in Nat /\ MaxCodes \in Nat /\ mailed \in Nat /\ mailed <= MaxCodes
           /\ AccessLife \in Nat /\ RefreshLife \in Nat /\ ResetLife \in Nat /\ now \in Nat
BY Basics

LEMMA Held ==
    ASSUME IInv, NEW r \in Requests
    PROVE  /\ Idle(r) <=> req[r].op = "none"
           /\ req[r].op = "refresh" => req[r].token \in Issued("refresh")
           /\ req[r].op \in {"logout", "switch"} => req[r].token \in Issued("access")
           /\ req[r].op = "reset" => req[r].token \in Issued("reset")
           /\ req[r].op = "verify" => req[r].saw \in Code /\ req[r].saw.nth \in 1..mailed
           /\ req[r].op = "reset" /\ req[r].step \in {"spent", "revoked"} => req[r].token \in RefusedTokens
           /\ req[r].step = "timed" => req[r].saw.attempts + 1 < MaxAttempts
           /\ req[r].ttl \in Nat
<1>1. RequestOK(req[r], Issued("access"), Issued("refresh"), Issued("reset"), RefusedTokens, mailed)
      /\ req[r] \in Request
  BY Basics DEF IInv, RequestsOK
<1> QED
  BY <1>1 DEF RequestOK, Idle, Request

LEMMA NewestIs ==
    ASSUME IInv, NEW t \in Issued("access") \union Issued("refresh")
    PROVE  IsNewest(Newest(tokens[t].of), tokens[t].of) /\ Newest(tokens[t].of) \in DOMAIN tokens
<1>1. PICK u \in DOMAIN tokens : IsNewest(u, tokens[t].of)
  BY DEF IInv, TokensOK, Issued
<1>2. u \in Issued("refresh")
  BY <1>1 DEF IsNewest
<1> QED
  BY <1>1, <1>2 DEF Newest, IsNewest, Issued

LEMMA ClaimType ==
    ASSUME IInv, NEW kind \in {"access", "refresh", "reset"}, NEW life \in Nat,
           NEW of \in 1..(MaxTokens + MaxCodes)
    PROVE  /\ Claim(kind, life, of) \in Token
           /\ Claim(kind, life, of).kind = kind /\ Claim(kind, life, of).of = of
           /\ Claim(kind, life, of).iat = now /\ Claim(kind, life, of).exp = now + life
BY Basics DEF Claim, Token

LEMMA GivenUp ==
    ASSUME IInv, NEW t \in DOMAIN tokens
    PROVE  /\ GiveUp(t) = gone \/ \E v \in Nat : /\ v >= tokens[t].exp /\ v > now
                                                 /\ GiveUp(t) = [gone EXCEPT ![t] = v]
           /\ \E v \in Nat : /\ v >= tokens[t].exp /\ v > now
                             /\ SpentFor(t) = [gone EXCEPT ![t] = v]
<1>1. tokens[t].exp \in Nat /\ now \in Nat
  BY Basics
<1>2. CASE Expired(t)
  BY <1>1, <1>2 DEF GiveUp, SpentFor, Expired
<1>3. CASE ~Expired(t)
  <2>1. now + Remaining(t) = tokens[t].exp /\ tokens[t].exp > now
    BY <1>1, <1>3 DEF Remaining, Expired
  <2>2. /\ GiveUp(t) = [gone EXCEPT ![t] = tokens[t].exp]
        /\ SpentFor(t) = [gone EXCEPT ![t] = tokens[t].exp]
    BY <1>3, <2>1 DEF GiveUp, SpentFor
  <2>3. tokens[t].exp >= tokens[t].exp
    BY <1>1
  <2> QED
    BY <1>1, <2>1, <2>2, <2>3
<1> QED
  BY <1>2, <1>3

-----------------------------------------------------------------------------
(* What one step does to each variable *)

(* A key is written for one token, which it outlives. *)
WritesGone ==
    \/ gone' = gone
    \/ \E t \in DOMAIN tokens, v \in Nat :
          v >= tokens[t].exp /\ v > now /\ gone' = [gone EXCEPT ![t] = v]

LEMMA GoneMoves ==
    ASSUME IInv, Next
    PROVE  WritesGone
<1>1. ASSUME NEW t \in DOMAIN tokens, gone' = GiveUp(t)
      PROVE  WritesGone
  BY <1>1, GivenUp DEF WritesGone
<1>2. CASE Tick
  BY <1>2 DEF Tick, WritesGone
<1>3. ASSUME NEW r \in Requests, RequestNext(r)
      PROVE  WritesGone
  <2>1. ASSUME gone' = gone
        PROVE  WritesGone
    BY <2>1 DEF WritesGone
  <2>2. CASE Login(r) \/ RefreshReused(r) \/ Forgot(r) \/ VerifyRight(r) \/ VerifyLastWrong(r)
             \/ VerifyTtl(r) \/ VerifyCount(r) \/ ResetRevoke(r) \/ ResetCommit(r) \/ Abort(r)
    BY <2>1, <2>2 DEF Login, RefreshReused, Forgot, VerifyRight, VerifyLastWrong, VerifyTtl,
       VerifyCount, ResetRevoke, ResetCommit, Abort
  <2>3. CASE \E entered \in Chances : VerifyRead(r, entered)
    BY <2>1, <2>3 DEF VerifyRead
  <2>4. CASE \E t \in Ids : RefreshCheck(r, t) \/ SwitchCheck(r, t) \/ ResetCheck(r, t)
    BY <2>1, <2>4 DEF RefreshCheck, SwitchCheck, ResetCheck
  <2>5. CASE \E t \in Ids : LogoutAccess(r, t)
    BY <1>1, <2>5 DEF LogoutAccess, Issued
  <2>6. CASE RefreshRotate(r)
    <3>1. req[r].token \in DOMAIN tokens
      BY <2>6, Held DEF RefreshRotate, At, Issued
    <3> QED
      BY <1>1, <2>1, <2>6, <3>1 DEF RefreshRotate, Rotated
  <2>7. CASE LogoutRefresh(r)
    <3>1. Newest(tokens[req[r].token].of) \in DOMAIN tokens
      BY <2>7, Held, NewestIs DEF LogoutRefresh, At
    <3> QED
      BY <1>1, <2>7, <3>1 DEF LogoutRefresh
  <2>8. CASE Switch(r)
    <3>1. Newest(tokens[req[r].token].of) \in DOMAIN tokens
      BY <2>8, Held, NewestIs DEF Switch, At
    <3> QED
      BY <1>1, <2>1, <2>8, <3>1 DEF Switch, Rotated
  <2>9. CASE ResetSpend(r)
    <3>1. req[r].token \in DOMAIN tokens
      BY <2>9, Held DEF ResetSpend, At, Issued
    <3> QED
      BY <2>9, <3>1, GivenUp DEF ResetSpend, WritesGone
  <2> QED
    BY <1>3, <2>2, <2>3, <2>4, <2>5, <2>6, <2>7, <2>8, <2>9 DEF RequestNext
<1> QED
  BY <1>2, <1>3 DEF Next

(* Nothing, one token or a pair is issued: an access token or a pair for a login
   that is there, a pair for a new one, or a reset token for a code that was mailed. *)
OneIssued ==
    \E kind \in {"access", "reset"}, life \in Nat, of \in 1..(MaxTokens + MaxCodes) :
        /\ tokens' = Append(tokens, Claim(kind, life, of))
        /\ kind = "access" => life = AccessLife /\ \E t \in Issued("access") : tokens[t].of = of
        /\ kind = "reset" => \E r \in Requests : VerifyRight(r) /\ of = MaxTokens + req[r].saw.nth
PairIssued ==
    \E of \in 1..(Len(tokens) + 1) : tokens' = tokens \o Pair(of)

(* A request that issues tokens has room for a pair. *)
LEMMA IssuersCount ==
    /\ IsFiniteSet(Issuers) /\ Cardinality(Issuers) \in Nat
    /\ \A r \in Issuers : /\ Cardinality(Issuers \ {r}) = Cardinality(Issuers) - 1
                          /\ Cardinality(Issuers) >= 1
<1>1. IsFiniteSet(Issuers) /\ Cardinality(Issuers) \in Nat
  BY CredentialsAssumption, FS_Subset, FS_CardinalityType DEF Issuers
<1>2. ASSUME NEW r \in Issuers
      PROVE  /\ Cardinality(Issuers \ {r}) = Cardinality(Issuers) - 1
             /\ Cardinality(Issuers) >= 1
  <2>1. Cardinality(Issuers \ {r}) = Cardinality(Issuers) - 1 /\ IsFiniteSet(Issuers \ {r})
    BY <1>1, FS_RemoveElement
  <2>2. Cardinality(Issuers \ {r}) \in Nat
    BY <2>1, FS_CardinalityType
  <2> QED
    BY <1>1, <2>1, <2>2
<1> QED
  BY <1>1, <1>2

LEMMA RoomForPair ==
    ASSUME IInv, NEW r \in Requests, req[r].op \in {"refresh", "switch", "verify"}
    PROVE  r \in Issuers /\ Len(tokens) + 2 <= MaxTokens
<1>1. r \in Issuers
  BY DEF Issuers
<1>2. Cardinality(Issuers) \in Nat /\ Cardinality(Issuers) >= 1
  BY <1>1, IssuersCount
<1>3. Len(tokens) + 2 * Cardinality(Issuers) <= MaxTokens
  BY DEF IInv, RoomOK
<1> QED
  BY <1>1, <1>2, <1>3, Basics

Busy == {r \in Requests : ~Idle(r)}
LEMMA RoomOf ==
    ASSUME IInv, NEW r \in Requests, Idle(r), Room(2)
    PROVE  /\ IsFiniteSet(Busy) /\ Cardinality(Busy) \in Nat
           /\ Len(tokens) + 2 + 2 * Cardinality(Busy) <= MaxTokens
           /\ Len(tokens) + 2 <= MaxTokens
           /\ Issuers \subseteq Busy
           /\ Cardinality(Busy \union {r}) = Cardinality(Busy) + 1 /\ IsFiniteSet(Busy \union {r})
<1>1. IsFiniteSet(Busy) /\ Cardinality(Busy) \in Nat
  BY CredentialsAssumption, FS_Subset, FS_CardinalityType DEF Busy
<1>2. Len(tokens) + 2 + 2 * Cardinality(Busy) <= MaxTokens
  BY <1>1, Basics DEF Room, Busy
<1>3. Issuers \subseteq Busy
  BY Held DEF Issuers, Busy
<1>4. r \notin Busy
  BY DEF Busy
<1>5. Cardinality(Busy \union {r}) = Cardinality(Busy) + 1 /\ IsFiniteSet(Busy \union {r})
  BY <1>1, <1>4, FS_AddElement
<1> QED
  BY <1>1, <1>2, <1>3, <1>5, Basics

LEMMA TokensMove ==
    ASSUME IInv, Next
    PROVE  \/ tokens' = tokens
           \/ Len(tokens) + 2 <= MaxTokens /\ (OneIssued \/ PairIssued)
<1> DEFINE Goal == \/ tokens' = tokens
                   \/ Len(tokens) + 2 <= MaxTokens /\ (OneIssued \/ PairIssued)
<1>1. CASE Tick
  BY <1>1 DEF Tick
<1>2. ASSUME NEW r \in Requests, RequestNext(r)
      PROVE  Goal
  <2>1. ASSUME tokens' = tokens
        PROVE  Goal
    BY <2>1
  <2>2. CASE RefreshReused(r) \/ LogoutRefresh(r) \/ Forgot(r) \/ VerifyLastWrong(r)
             \/ VerifyTtl(r) \/ VerifyCount(r) \/ ResetSpend(r) \/ ResetRevoke(r) \/ ResetCommit(r)
             \/ Abort(r)
    BY <2>1, <2>2 DEF RefreshReused, LogoutRefresh, Forgot, VerifyLastWrong, VerifyTtl,
       VerifyCount, ResetSpend, ResetRevoke, ResetCommit, Abort
  <2>3. CASE \E entered \in Chances : VerifyRead(r, entered)
    BY <2>1, <2>3 DEF VerifyRead
  <2>4. CASE \E t \in Ids : \/ RefreshCheck(r, t) \/ LogoutAccess(r, t)
                            \/ SwitchCheck(r, t) \/ ResetCheck(r, t)
    BY <2>1, <2>4 DEF RefreshCheck, LogoutAccess, SwitchCheck, ResetCheck
  <2>5. CASE Login(r)
    <3>1. Len(tokens) + 1 \in 1..(Len(tokens) + 1)
      BY Basics
    <3> QED
      BY <2>5, <3>1, RoomOf DEF Login, PairIssued
  <2>6. CASE RefreshRotate(r)
    <3>1. req[r].token \in Issued("refresh") /\ Len(tokens) + 2 <= MaxTokens
      BY <2>6, Held, RoomForPair DEF RefreshRotate, At
    <3>2. req[r].token \in DOMAIN tokens /\ tokens[req[r].token].of \in DOMAIN tokens
      BY <3>1 DEF IInv, TokensOK, Issued
    <3>3. tokens[req[r].token].of \in 1..(Len(tokens) + 1)
      BY <3>2, Basics
    <3> QED
      BY <2>6, <3>1, <3>3 DEF RefreshRotate, PairIssued
  <2>7. CASE Switch(r)
    <3>1. req[r].token \in Issued("access") /\ Len(tokens) + 2 <= MaxTokens
      BY <2>7, Held, RoomForPair DEF Switch, At
    <3>2. req[r].token \in DOMAIN tokens /\ tokens[req[r].token].of \in DOMAIN tokens
      BY <3>1 DEF IInv, TokensOK, Issued
    <3>3. /\ tokens[req[r].token].of \in 1..(Len(tokens) + 1)
          /\ tokens[req[r].token].of \in 1..(MaxTokens + MaxCodes) /\ AccessLife \in Nat
      BY <3>2, Sizes
    <3>4. CASE tokens' = tokens \o Pair(tokens[req[r].token].of)
      BY <3>1, <3>3, <3>4 DEF PairIssued
    <3>5. CASE tokens' = Append(tokens, Claim("access", AccessLife, tokens[req[r].token].of))
      <4>1. \E t \in Issued("access") : tokens[t].of = tokens[req[r].token].of
        BY <3>1
      <4>2. "access" \in {"access", "reset"} /\ "access" # "reset"
        OBVIOUS
      <4>3. OneIssued
        BY <3>3, <3>5, <4>1, <4>2, Zenon DEF OneIssued
      <4> QED
        BY <3>1, <4>3
    <3> QED
      BY <2>7, <3>4, <3>5 DEF Switch
  <2>8. CASE VerifyRight(r)
    <3>1. req[r].saw.nth \in 1..mailed /\ Len(tokens) + 2 <= MaxTokens
      BY <2>8, Held, RoomForPair DEF VerifyRight, At
    <3>2. MaxTokens + req[r].saw.nth \in 1..(MaxTokens + MaxCodes) /\ ResetLife \in Nat
      BY <3>1, Sizes
    <3>3. tokens' = Append(tokens, Claim("reset", ResetLife, MaxTokens + req[r].saw.nth))
      BY <2>8 DEF VerifyRight
    <3>4. /\ \E q \in Requests : VerifyRight(q) /\ MaxTokens + req[r].saw.nth = MaxTokens + req[q].saw.nth
          /\ "reset" \in {"access", "reset"} /\ "access" # "reset"
      BY <2>8
    <3>5. OneIssued
      BY <3>2, <3>3, <3>4, Zenon DEF OneIssued
    <3> QED
      BY <3>1, <3>5
  <2> QED
    BY <1>2, <2>2, <2>3, <2>4, <2>5, <2>6, <2>7, <2>8 DEF RequestNext
<1> QED
  BY <1>1, <1>2 DEF Next

LEMMA TokensGrow ==
    ASSUME IInv, Next
    PROVE  /\ tokens' \in Seq(Token) /\ Len(tokens) <= Len(tokens') /\ Len(tokens') <= MaxTokens
           /\ \A t \in DOMAIN tokens : t \in DOMAIN tokens' /\ tokens'[t] = tokens[t]
           /\ DOMAIN tokens' = 1..Len(tokens') /\ Len(tokens') \in Nat
           /\ Len(tokens') <= Len(tokens) + 2
<1>1. CASE tokens' = tokens
  BY <1>1, Basics
<1>2. CASE Len(tokens) + 2 <= MaxTokens /\ OneIssued
  <2>1. PICK a \in Token : tokens' = Append(tokens, a)
    BY <1>2, ClaimType DEF OneIssued
  <2>2. /\ tokens' \in Seq(Token) /\ Len(tokens') = Len(tokens) + 1
        /\ DOMAIN tokens' = 1..(Len(tokens) + 1)
        /\ \A i \in 1..Len(tokens) : tokens'[i] = tokens[i]
    BY <2>1, Basics, OneAppended
  <2> QED
    BY <1>2, <2>2, Sizes
<1>3. CASE Len(tokens) + 2 <= MaxTokens /\ PairIssued
  <2>1. PICK of \in 1..(Len(tokens) + 1) : tokens' = tokens \o Pair(of)
    BY <1>3 DEF PairIssued
  <2>2. of \in 1..(MaxTokens + MaxCodes) /\ AccessLife \in Nat /\ RefreshLife \in Nat
    BY <1>3, Sizes
  <2>3. Claim("access", AccessLife, of) \in Token /\ Claim("refresh", RefreshLife, of) \in Token
    BY <2>2, ClaimType
  <2>4. /\ tokens' \in Seq(Token) /\ Len(tokens') = Len(tokens) + 2
        /\ DOMAIN tokens' = 1..(Len(tokens) + 2)
        /\ \A i \in 1..Len(tokens) : tokens'[i] = tokens[i]
    BY <2>1, <2>3, Basics, PairAppended DEF Pair
  <2> QED
    BY <1>3, <2>4, Sizes
<1> QED
  BY <1>1, <1>2, <1>3, TokensMove

(* The sessions end now, or are left; the clock goes on alone. *)
LEMMA EndedMoves ==
    ASSUME Next
    PROVE  /\ ended' = ended \/ SessionsEnd
           /\ \/ now' = now
              \/ now' = now + 1 /\ now < MaxNow /\ UNCHANGED <<tokens, gone, ended, req, resetVars, lapses>>
BY DEF Next, Tick, RequestNext, Login, RefreshReused, RefreshRotate, LogoutRefresh, Switch, Forgot,
   VerifyRight, VerifyLastWrong, VerifyTtl, VerifyCount, VerifyRead, ResetSpend, ResetRevoke,
   ResetCommit, Abort, RefreshCheck, LogoutAccess, SwitchCheck, ResetCheck, EndSessions,
   SessionsEnd

(* The code is destroyed, replaced by a new one or written back; an entry is
   answered for the code that was read. *)
LEMMA CodeMoves ==
    ASSUME IInv, Next
    PROVE  /\ \/ mailed' = mailed
              \/ mailed' = mailed + 1 /\ mailed < MaxCodes /\ wrong' = wrong
           /\ code' \in Code /\ code'.nth <= mailed'
           /\ wrong' \in [1..MaxCodes -> Nat]
           /\ wrong' = wrong \/ \E n \in 1..mailed : wrong' = [wrong EXCEPT ![n] = @ + 1]
<1> DEFINE Goal == /\ \/ mailed' = mailed
                      \/ mailed' = mailed + 1 /\ mailed < MaxCodes /\ wrong' = wrong
                   /\ code' \in Code /\ code'.nth <= mailed'
                   /\ wrong' \in [1..MaxCodes -> Nat]
                   /\ wrong' = wrong \/ \E n \in 1..mailed : wrong' = [wrong EXCEPT ![n] = @ + 1]
<1>1. /\ code \in Code /\ code.nth <= mailed /\ wrong \in [1..MaxCodes -> Nat]
      /\ NoCode \in Code /\ NoCode.nth <= mailed
  BY Sizes, NullIsRequest DEF IInv, TypeOK, CodeOK
<1>2. ASSUME mailed' = mailed, wrong' = wrong, code' = code \/ code' = NoCode
      PROVE  Goal
  BY <1>1, <1>2
<1>3. CASE Tick
  BY <1>2, <1>3 DEF Tick, resetVars
<1>4. ASSUME NEW r \in Requests, RequestNext(r)
      PROVE  Goal
  <2>1. CASE Login(r) \/ RefreshReused(r) \/ RefreshRotate(r) \/ LogoutRefresh(r) \/ Switch(r)
             \/ VerifyRight(r) \/ ResetSpend(r) \/ ResetRevoke(r) \/ ResetCommit(r) \/ Abort(r)
    BY <1>2, <2>1 DEF Login, RefreshReused, RefreshRotate, LogoutRefresh, Switch, VerifyRight,
       CodeUsedUp, ResetSpend, ResetRevoke, ResetCommit, Abort, resetVars
  <2>2. CASE \E entered \in Chances : VerifyRead(r, entered)
    BY <1>2, <2>2 DEF VerifyRead, resetVars
  <2>3. CASE \E t \in Ids : \/ RefreshCheck(r, t) \/ LogoutAccess(r, t)
                            \/ SwitchCheck(r, t) \/ ResetCheck(r, t)
    BY <1>2, <2>3 DEF RefreshCheck, LogoutAccess, SwitchCheck, ResetCheck, resetVars
  <2>4. CASE Forgot(r)
    <3>1. mailed + 1 \in 0..MaxCodes /\ 0 \in 0..(MaxAttempts - 1) /\ now + CodeLife \in Nat
      BY <2>4, Basics DEF Forgot
    <3>2. code' \in Code /\ code'.nth = mailed + 1
      BY <2>4, <3>1 DEF Forgot, Code
    <3> QED
      BY <1>1, <2>4, <3>1, <3>2, Sizes DEF Forgot
  <2>5. ASSUME At(r, "verify", req[r].step), Answer(r)
        PROVE  /\ wrong' \in [1..MaxCodes -> Nat]
               /\ \E n \in 1..mailed : wrong' = [wrong EXCEPT ![n] = @ + 1]
    <3>1. req[r].saw.nth \in 1..mailed
      BY <2>5, Held DEF At
    <3>2. req[r].saw.nth \in 1..MaxCodes
      BY <3>1, Sizes
    <3> DEFINE n == req[r].saw.nth
    <3>3. wrong' = [wrong EXCEPT ![n] = wrong[n] + 1]
      BY <2>5 DEF Answer
    <3>4. wrong[n] + 1 \in Nat
      BY <1>1, <3>2
    <3> QED
      BY <1>1, <3>1, <3>2, <3>3, <3>4
  <2>6. CASE VerifyLastWrong(r)
    BY <1>1, <2>5, <2>6 DEF VerifyLastWrong, At
  <2>7. CASE VerifyTtl(r)
    BY <1>1, <1>2, <2>5, <2>7 DEF VerifyTtl, At
  <2>8. CASE VerifyCount(r)
    <3>1. /\ req[r].saw \in Code /\ req[r].saw.nth \in 1..mailed /\ req[r].ttl \in Nat
          /\ At(r, "verify", req[r].step) /\ Answer(r) /\ mailed' = mailed
      BY <2>8, Held DEF VerifyCount, At
    <3>2. req[r].saw.attempts + 1 < MaxAttempts
      BY <2>8, Held DEF VerifyCount, At
    <3>3. /\ req[r].saw.attempts + 1 \in 0..(MaxAttempts - 1)
          /\ now + req[r].ttl \in Nat
      <4>1. MaxAttempts \in Nat /\ now \in Nat
        BY Basics
      <4>2. req[r].saw.attempts \in Nat
        BY <3>1, <4>1 DEF Code
      <4> QED
        BY <3>1, <3>2, <4>1, <4>2
    <3>4. code' = [[req[r].saw EXCEPT !.attempts = req[r].saw.attempts + 1]
                      EXCEPT !.until = now + req[r].ttl]
      BY <2>8 DEF VerifyCount, Counted
    <3>5. code' \in Code /\ code'.nth = req[r].saw.nth
      BY <3>1, <3>3, <3>4 DEF Code
    <3>6. code'.nth <= mailed
      BY <3>1, <3>5, Sizes
    <3> QED
      BY <2>5, <3>1, <3>5, <3>6
  <2> QED
    BY <1>4, <2>1, <2>2, <2>3, <2>4, <2>6, <2>7, <2>8 DEF RequestNext
<1> QED
  BY <1>3, <1>4 DEF Next

LEMMA Evolution ==
    ASSUME IInv, Next
    PROVE  Evolves
<1>1. Len(tokens) <= Len(tokens') /\ \A t \in DOMAIN tokens : tokens'[t] = tokens[t]
  BY TokensGrow
<1>2. \A t \in DOMAIN tokens : \/ gone'[t] = gone[t]
                               \/ gone'[t] >= tokens[t].exp /\ gone'[t] > now
  BY GoneMoves, Basics DEF WritesGone
<1>3. mailed <= mailed'
  BY CodeMoves, Sizes
<1> QED
  BY <1>1, <1>2, <1>3, EndedMoves DEF Evolves

-----------------------------------------------------------------------------
(* The requests *)

LEMMA IssuedStay ==
    ASSUME IInv, Next
    PROVE  /\ \A k : Issued(k) \subseteq Issued(k)'
           /\ RefusedTokens \subseteq RefusedTokens'
           /\ mailed <= mailed'
<1>1. \A t \in DOMAIN tokens : t \in DOMAIN tokens' /\ tokens'[t] = tokens[t]
  BY TokensGrow
<1>2. \A k : Issued(k) \subseteq Issued(k)'
  BY <1>1 DEF Issued
<1>3. ASSUME NEW t \in RefusedTokens
      PROVE  t \in RefusedTokens'
  <2>1. t \in DOMAIN tokens /\ Refused(t)
    BY DEF RefusedTokens
  <2>2. t \in DOMAIN tokens' /\ Refused(t)'
    BY <2>1, Evolution, RefusedStays, TokensGrow
  <2> QED
    BY <2>2 DEF RefusedTokens
<1> QED
  BY <1>2, <1>3, CodeMoves, Sizes

LEMMA RequestGrows ==
    ASSUME NEW q, NEW A, NEW B, NEW C, NEW D, NEW n \in Nat,
           NEW A1, NEW B1, NEW C1, NEW D1, NEW m \in Nat,
           A \subseteq A1, B \subseteq B1, C \subseteq C1, D \subseteq D1, n <= m,
           RequestOK(q, A, B, C, D, n)
    PROVE  RequestOK(q, A1, B1, C1, D1, m)
<1>1. q.saw.nth \in 1..n => q.saw.nth \in 1..m
  OBVIOUS
<1> QED
  BY <1>1 DEF RequestOK

(* A request that finishes holds nothing. *)
LEMMA IdleIsOK == \A A, B, C, D, n : RequestOK(IdleRequest, A, B, C, D, n)
BY DEF RequestOK, IdleRequest

(* A step leaves the requests alone, or changes one: that starts, goes on or ends. *)
Starts(r, new) ==
    /\ Idle(r) /\ new.op # "none"
    /\ tokens' = tokens
    /\ new.op \in {"refresh", "switch", "verify"} => Room(2)
GoesOn(r, new) ==
    /\ ~Idle(r) /\ new.op = req[r].op /\ tokens' = tokens
    /\ new.token = req[r].token /\ new.saw = req[r].saw
Ends(r, new) ==
    /\ ~Idle(r) /\ new = IdleRequest
    /\ tokens' = tokens \/ req[r].op \in {"refresh", "switch", "verify"}

Moves(r) ==
    \E new \in Request :
        /\ req' = [req EXCEPT ![r] = new]
        /\ RequestOK(new, Issued("access"), Issued("refresh"), Issued("reset"), RefusedTokens', mailed)
        /\ Starts(r, new) \/ GoesOn(r, new) \/ Ends(r, new)

LEMMA RequestsMove ==
    ASSUME IInv, NEW r \in Requests, RequestNext(r)
    PROVE  \/ req' = req /\ (tokens' = tokens \/ (Idle(r) /\ Room(2)))
           \/ Moves(r)
<1> DEFINE Fits(new) ==
      RequestOK(new, Issued("access"), Issued("refresh"), Issued("reset"), RefusedTokens', mailed)
<1>1. Next
  BY DEF Next
<1>2. RefusedTokens \subseteq RefusedTokens'
  BY <1>1, IssuedStay
<1>3. /\ RequestOK(req[r], Issued("access"), Issued("refresh"), Issued("reset"), RefusedTokens, mailed)
      /\ req[r] \in Request
  BY Basics DEF IInv, RequestsOK
<1>4. ASSUME ~Idle(r), Finish(r), tokens' = tokens \/ req[r].op \in {"refresh", "switch", "verify"}
      PROVE  Moves(r)
  BY <1>4, NullIsRequest, IdleIsOK DEF Finish, Moves, Ends
<1>5. ASSUME NEW op \in {"refresh", "logout", "switch", "reset"}, NEW step, NEW t \in Ids,
             Idle(r), Begin(r, op, step, t), tokens' = tokens,
             op = "refresh" => step \in {"valid", "reused"} /\ t \in Issued("refresh"),
             op = "logout" => step = "given_up" /\ t \in Issued("access"),
             op = "switch" => step = "switched" /\ t \in Issued("access"),
             op = "reset" => step = "saved" /\ t \in Issued("reset"),
             op \in {"refresh", "switch"} => Room(2)
      PROVE  Moves(r)
  <2> DEFINE new == [IdleRequest EXCEPT !.op = op, !.step = step, !.token = t]
  <2>1. t \in 0..MaxTokens /\ 0 \in Nat
    BY Sizes DEF Ids
  <2>2. /\ new.op = op /\ new.step = step /\ new.token = t
        /\ new \in Request
    BY <1>5, <2>1, NullIsRequest DEF Request, IdleRequest
  <2>3. Fits(new)
    BY <1>5, <2>2 DEF RequestOK
  <2>4. Starts(r, new)
    BY <1>5, <2>2 DEF Starts
  <2> QED
    BY <1>5, <2>2, <2>3, <2>4 DEF Begin, Moves
<1>6. ASSUME NEW step \in {"spent", "revoked"}, req[r].op = "reset",
             Goto(r, step), tokens' = tokens, req[r].token \in RefusedTokens'
      PROVE  Moves(r)
  <2> DEFINE new == [req[r] EXCEPT !.step = step]
  <2>1. /\ new \in Request /\ new.op = "reset" /\ new.step = step
        /\ new.token = req[r].token /\ new.saw = req[r].saw
    BY <1>3, <1>6 DEF Request
  <2>2. req[r].token \in Issued("reset") /\ ~Idle(r)
    BY <1>6, Held
  <2>3. Fits(new)
    BY <1>6, <2>1, <2>2 DEF RequestOK
  <2>4. GoesOn(r, new)
    BY <1>6, <2>1, <2>2 DEF GoesOn
  <2>5. req' = [req EXCEPT ![r] = new]
    BY <1>6 DEF Goto
  <2> QED
    BY <2>1, <2>3, <2>4, <2>5 DEF Moves
<1>7. CASE Login(r) \/ Forgot(r)
  BY <1>7 DEF Login, Forgot
<1>8. CASE RefreshReused(r) \/ RefreshRotate(r) \/ LogoutRefresh(r) \/ Switch(r)
  BY <1>4, <1>8 DEF RefreshReused, RefreshRotate, LogoutRefresh, Switch, At, Idle
<1>9. CASE VerifyRight(r) \/ VerifyLastWrong(r) \/ VerifyCount(r) \/ ResetCommit(r) \/ Abort(r)
  BY <1>4, <1>9 DEF VerifyRight, VerifyLastWrong, VerifyCount, ResetCommit, Abort, At, Idle
<1>10. CASE VerifyTtl(r)
  <2>1. req[r].op = "verify" /\ ~Idle(r) /\ tokens' = tokens /\ req[r].saw.nth \in 1..mailed
    BY <1>10, Held DEF VerifyTtl, At, Idle
  <2>2. CASE ~CodeKept
    BY <1>4, <1>10, <2>1, <2>2 DEF VerifyTtl, Finish
  <2>3. CASE CodeKept
    <3> DEFINE new == [req[r] EXCEPT !.step = "timed", !.ttl = code.until - now]
    <3>1. code.until - now \in Nat
      BY <2>3, Basics DEF CodeKept, Code
    <3>2. /\ new \in Request /\ new.op = "verify" /\ new.step = "timed"
          /\ new.token = req[r].token /\ new.saw = req[r].saw
      BY <1>3, <2>1, <3>1 DEF Request
    <3>3. req[r].saw.attempts + 1 < MaxAttempts
      <4>1. req[r].saw.attempts \in Nat /\ MaxAttempts \in Nat
        BY <1>3, Basics DEF Request, Code
      <4> QED
        BY <1>10, <4>1 DEF VerifyTtl, LastAttempt
    <3>4. Fits(new)
      BY <2>1, <3>2, <3>3 DEF RequestOK
    <3>5. GoesOn(r, new)
      BY <2>1, <3>2 DEF GoesOn
    <3>6. req' = [req EXCEPT ![r] = new]
      BY <1>10, <2>3 DEF VerifyTtl
    <3> QED
      BY <3>2, <3>4, <3>5, <3>6 DEF Moves
  <2> QED
    BY <2>2, <2>3
<1>11. CASE \E entered \in Chances : VerifyRead(r, entered)
  <2>1. PICK entered \in Chances : VerifyRead(r, entered)
    BY <1>11
  <2> DEFINE new == [IdleRequest EXCEPT !.op = "verify", !.saw = code,
                       !.step = IF entered = "right" THEN "read" ELSE "wrong"]
  <2>2. code \in Code /\ code.nth \in 1..mailed
    <3>1. code \in Code /\ code.nth \in Nat /\ code.nth # 0 /\ code.nth <= mailed
      BY <2>1, Basics DEF VerifyRead, CodeKept, IInv, CodeOK, Code
    <3> QED
      BY <3>1, Sizes
  <2>3. /\ new.op = "verify" /\ new.step \in {"read", "wrong"} /\ new.saw = code
        /\ new \in Request
    BY <2>2, NullIsRequest DEF Request, IdleRequest
  <2>4. Fits(new)
    BY <2>2, <2>3 DEF RequestOK
  <2>5. Starts(r, new)
    BY <2>1, <2>3 DEF VerifyRead, Starts
  <2>6. req' = [req EXCEPT ![r] = new]
    BY <2>1 DEF VerifyRead
  <2> QED
    BY <2>3, <2>4, <2>5, <2>6 DEF Moves
<1>12. CASE \E t \in Ids : RefreshCheck(r, t)
  <2>1. PICK t \in Ids : RefreshCheck(r, t)
    BY <1>12
  <2> DEFINE step == IF Blacklisted(t) THEN "reused" ELSE "valid"
  <2>2. step \in {"valid", "reused"}
    OBVIOUS
  <2> HIDE DEF step
  <2>3. Begin(r, "refresh", step, t)
    BY <2>1 DEF RefreshCheck, step
  <2> QED
    BY <1>5, <2>1, <2>2, <2>3 DEF RefreshCheck
<1>13. CASE \E t \in Ids : LogoutAccess(r, t) \/ SwitchCheck(r, t) \/ ResetCheck(r, t)
  BY <1>5, <1>13 DEF LogoutAccess, SwitchCheck, ResetCheck
<1>14. CASE ResetSpend(r)
  <2>1. req[r].op = "reset" /\ Goto(r, "spent") /\ tokens' = tokens /\ now' = now
    BY <1>14 DEF ResetSpend, At
  <2>2. req[r].token \in DOMAIN tokens
    BY <2>1, Held DEF Issued
  <2>3. gone'[req[r].token] > now
    BY <1>14, <2>2, GivenUp, Basics DEF ResetSpend
  <2>4. req[r].token \in RefusedTokens'
    BY <2>1, <2>2, <2>3 DEF RefusedTokens, Refused, Blacklisted
  <2> QED
    BY <1>6, <2>1, <2>4
<1>15. CASE ResetRevoke(r)
  <2>1. /\ req[r].op = "reset" /\ req[r].step = "spent"
        /\ Goto(r, "revoked") /\ tokens' = tokens
    BY <1>15 DEF ResetRevoke, At
  <2>2. req[r].token \in RefusedTokens'
    BY <1>2, <2>1, Held
  <2> QED
    BY <1>6, <2>1, <2>2
<1> QED
  BY <1>7, <1>8, <1>9, <1>10, <1>11, <1>12, <1>13, <1>14, <1>15 DEF RequestNext

LEMMA RequestsStayOK ==
    ASSUME IInv, Next
    PROVE  req' \in [Requests -> Request] /\ RequestsOK'
<1>1. /\ req \in [Requests -> Request] /\ mailed \in Nat /\ mailed' \in Nat
      /\ \A q \in Requests :
            RequestOK(req[q], Issued("access"), Issued("refresh"), Issued("reset"), RefusedTokens, mailed)
  BY CodeMoves, Basics DEF IInv, RequestsOK
<1>2. /\ Issued("access") \subseteq Issued("access")' /\ Issued("refresh") \subseteq Issued("refresh")'
      /\ Issued("reset") \subseteq Issued("reset")'
      /\ RefusedTokens \subseteq RefusedTokens' /\ mailed <= mailed'
  BY IssuedStay
<1> DEFINE OKNow(q) ==
      RequestOK(q, Issued("access")', Issued("refresh")', Issued("reset")', RefusedTokens', mailed')
<1>3. \A q \in Requests : OKNow(req[q])
  BY <1>1, <1>2, RequestGrows
<1>4. ASSUME NEW new,
             RequestOK(new, Issued("access"), Issued("refresh"), Issued("reset"), RefusedTokens', mailed)
      PROVE  OKNow(new)
  BY <1>1, <1>2, <1>4, RequestGrows
<1> HIDE DEF OKNow
<1>5. req' \in [Requests -> Request] /\ \A q \in Requests : OKNow(req'[q])
  <2>1. CASE req' = req
    BY <1>1, <1>3, <2>1
  <2>2. ASSUME NEW r \in Requests, Moves(r)
        PROVE  req' \in [Requests -> Request] /\ \A q \in Requests : OKNow(req'[q])
    <3>1. PICK new \in Request :
             /\ req' = [req EXCEPT ![r] = new]
             /\ RequestOK(new, Issued("access"), Issued("refresh"), Issued("reset"), RefusedTokens', mailed)
      BY <2>2 DEF Moves
    <3>2. OKNow(new)
      BY <1>4, <3>1
    <3> QED
      BY <1>1, <1>3, <3>1, <3>2
  <2>3. CASE Tick
    BY <2>1, <2>3 DEF Tick
  <2> QED
    BY <2>1, <2>2, <2>3, RequestsMove DEF Next
<1> QED
  BY <1>5 DEF OKNow, RequestsOK

LEMMA RoomStaysOK ==
    ASSUME IInv, Next
    PROVE  RoomOK'
<1>1. /\ Len(tokens) \in Nat /\ Len(tokens') \in Nat /\ MaxTokens \in Nat
      /\ Len(tokens') <= Len(tokens) + 2
      /\ Len(tokens) + 2 * Cardinality(Issuers) <= MaxTokens
      /\ IsFiniteSet(Issuers) /\ Cardinality(Issuers) \in Nat
      /\ req \in [Requests -> Request]
  BY Basics, TokensGrow, IssuersCount DEF IInv, RoomOK
<1>2. Issuers' = {r \in Requests : req'[r].op \in {"refresh", "switch", "verify"}}
  BY DEF Issuers
<1>3. ASSUME NEW B, IsFiniteSet(B), Issuers' \subseteq B,
             Len(tokens') + 2 * Cardinality(B) <= MaxTokens
      PROVE  RoomOK'
  <2>1. /\ Cardinality(Issuers') <= Cardinality(B)
        /\ Cardinality(Issuers') \in Nat /\ Cardinality(B) \in Nat
    BY <1>3, FS_Subset, FS_CardinalityType
  <2> QED
    BY <1>1, <1>3, <2>1 DEF RoomOK
<1>4. ASSUME Issuers' \subseteq Issuers, tokens' = tokens
      PROVE  RoomOK'
  BY <1>1, <1>3, <1>4
<1>5. CASE Tick
  BY <1>4, <1>5 DEF Tick, Issuers
<1>6. ASSUME NEW r \in Requests, RequestNext(r)
      PROVE  RoomOK'
  <2>1. CASE req' = req /\ tokens' = tokens
    BY <1>4, <2>1 DEF Issuers
  <2>2. CASE req' = req /\ Idle(r) /\ Room(2)
    <3>1. /\ IsFiniteSet(Busy) /\ Cardinality(Busy) \in Nat /\ Issuers \subseteq Busy
          /\ Len(tokens) + 2 + 2 * Cardinality(Busy) <= MaxTokens
      BY <2>2, RoomOf
    <3>2. Issuers' \subseteq Busy
      BY <2>2, <3>1 DEF Issuers
    <3>3. Len(tokens') + 2 * Cardinality(Busy) <= MaxTokens
      BY <1>1, <3>1
    <3> QED
      BY <1>3, <3>1, <3>2, <3>3
  <2>3. ASSUME NEW new \in Request, req' = [req EXCEPT ![r] = new], Starts(r, new)
        PROVE  RoomOK'
    <3>1. CASE new.op \in {"refresh", "switch", "verify"}
      <4>1. /\ IsFiniteSet(Busy) /\ Cardinality(Busy) \in Nat /\ Issuers \subseteq Busy
            /\ Len(tokens) + 2 + 2 * Cardinality(Busy) <= MaxTokens
            /\ Cardinality(Busy \union {r}) = Cardinality(Busy) + 1 /\ IsFiniteSet(Busy \union {r})
        BY <2>3, <3>1, RoomOf DEF Starts
      <4>2. Issuers' \subseteq Busy \union {r}
        BY <1>1, <1>2, <2>3, <4>1 DEF Issuers
      <4>3. Len(tokens') + 2 * Cardinality(Busy \union {r}) <= MaxTokens
        BY <1>1, <2>3, <4>1 DEF Starts
      <4> QED
        BY <1>3, <4>1, <4>2, <4>3
    <3>2. CASE new.op \notin {"refresh", "switch", "verify"}
      <4>1. Issuers' \subseteq Issuers
        BY <1>1, <1>2, <2>3, <3>2 DEF Issuers
      <4> QED
        BY <1>4, <2>3, <4>1 DEF Starts
    <3> QED
      BY <3>1, <3>2
  <2>4. ASSUME NEW new \in Request, req' = [req EXCEPT ![r] = new], GoesOn(r, new)
        PROVE  RoomOK'
    <3>1. Issuers' \subseteq Issuers
      BY <1>1, <1>2, <2>4 DEF Issuers, GoesOn
    <3> QED
      BY <1>4, <2>4, <3>1 DEF GoesOn
  <2>5. ASSUME NEW new \in Request, req' = [req EXCEPT ![r] = new], Ends(r, new)
        PROVE  RoomOK'
    <3>1. Issuers' \subseteq Issuers \ {r}
      BY <1>1, <1>2, <2>5, NullIsRequest DEF Issuers, Ends
    <3>2. CASE tokens' = tokens
      BY <1>4, <3>1, <3>2
    <3>3. CASE req[r].op \in {"refresh", "switch", "verify"}
      <4>1. r \in Issuers
        BY <3>3 DEF Issuers
      <4>2. Cardinality(Issuers \ {r}) = Cardinality(Issuers) - 1 /\ IsFiniteSet(Issuers \ {r})
        BY <1>1, <4>1, IssuersCount, FS_RemoveElement
      <4>3. Len(tokens') + 2 * Cardinality(Issuers \ {r}) <= MaxTokens
        BY <1>1, <4>2
      <4> QED
        BY <1>3, <3>1, <4>2, <4>3
    <3> QED
      BY <2>5, <3>2, <3>3 DEF Ends
  <2> QED
    BY <1>6, <2>1, <2>2, <2>3, <2>4, <2>5, RequestsMove DEF Moves
<1> QED
  BY <1>5, <1>6 DEF Next

LEMMA KeysStayOK ==
    ASSUME IInv, Next
    PROVE  /\ gone' \in [Ids -> Nat] /\ GoneOK'
           /\ ended' \in [at : 0..MaxNow, until : Nat] /\ EndedOK'
           /\ now' \in 0..MaxNow /\ now <= now'
<1>1. now' \in 0..MaxNow /\ now <= now'
  BY EndedMoves, Basics
<1>2. gone' \in [Ids -> Nat] /\ GoneOK'
  <2>1. /\ \A t \in DOMAIN tokens : t \in DOMAIN tokens' /\ tokens'[t] = tokens[t]
        /\ \A t \in DOMAIN tokens : tokens[t].exp \in Nat
        /\ gone \in [Ids -> Nat] /\ GoneOK
    BY TokensGrow, Basics DEF IInv
  <2>2. CASE gone' = gone
    BY <2>1, <2>2 DEF GoneOK
  <2>3. ASSUME NEW t \in DOMAIN tokens, NEW v \in Nat, v >= tokens[t].exp,
               gone' = [gone EXCEPT ![t] = v]
        PROVE  gone' \in [Ids -> Nat] /\ GoneOK'
    BY <2>1, <2>3 DEF GoneOK
  <2> QED
    BY <2>2, <2>3, GoneMoves DEF WritesGone
<1>3. ended' \in [at : 0..MaxNow, until : Nat] /\ EndedOK'
  <2>1. /\ ended \in [at : 0..MaxNow, until : Nat] /\ ended.at <= now
        /\ ended.until # 0 => ended.at + AccessLife <= ended.until
        /\ now \in 0..MaxNow /\ now \in Nat /\ MaxNow \in Nat /\ AccessLife \in Nat
        /\ \A life \in {RefreshLife, ReuseLife} : life \in Nat /\ AccessLife <= life
    BY Basics, CredentialsAssumption DEF IInv, TypeOK, EndedOK
  <2>2. CASE ended' = ended
    BY <1>1, <2>1, <2>2 DEF EndedOK
  <2>3. ASSUME NEW life \in {RefreshLife, ReuseLife}, ended' = [at |-> now, until |-> now + life]
        PROVE  ended' \in [at : 0..MaxNow, until : Nat] /\ EndedOK'
    <3>1. ended'.at = now /\ ended'.until = now + life
      BY <2>3
    <3>2. now + life \in Nat /\ now + AccessLife <= now + life
      BY <2>1
    <3> QED
      BY <1>1, <2>1, <2>3, <3>1, <3>2 DEF EndedOK
  <2> QED
    BY <2>2, <2>3, EndedMoves DEF SessionsEnd
<1> QED
  BY <1>1, <1>2, <1>3

LEMMA CodeStaysOK ==
    ASSUME IInv, Next
    PROVE  /\ code' \in Code /\ mailed' \in 0..MaxCodes
           /\ wrong' \in [1..MaxCodes -> Nat] /\ CodeOK'
<1>1. /\ mailed \in Nat /\ mailed <= MaxCodes /\ MaxCodes \in Nat
      /\ wrong \in [1..MaxCodes -> Nat]
      /\ \A n \in 1..MaxCodes : n > mailed => wrong[n] = 0
  BY Basics DEF IInv, TypeOK, CodeOK
<1>2. mailed' \in 0..MaxCodes /\ mailed <= mailed'
  BY <1>1, CodeMoves
<1>3. \A n \in 1..MaxCodes : n > mailed' => wrong'[n] = 0
  <2>1. CASE wrong' = wrong
    BY <1>1, <1>2, <2>1
  <2>2. ASSUME NEW n \in 1..mailed, wrong' = [wrong EXCEPT ![n] = @ + 1]
        PROVE  \A k \in 1..MaxCodes : k > mailed' => wrong'[k] = 0
    BY <1>1, <1>2, <2>2
  <2> QED
    BY <2>1, <2>2, CodeMoves
<1> QED
  BY <1>2, <1>3, CodeMoves DEF CodeOK

(* A token that was well issued stays so, whatever comes after it: the newest
   refresh token of its login is the old one, or one that comes now. *)
OkToken(t) ==
    /\ tokens[t].iat <= now
    /\ tokens[t].kind = "access" => tokens[t].exp = tokens[t].iat + AccessLife
    /\ IF tokens[t].kind = "reset"
       THEN \E n \in 1..mailed : tokens[t].of = MaxTokens + n
       ELSE tokens[t].of \in DOMAIN tokens /\ \E u \in DOMAIN tokens : IsNewest(u, tokens[t].of)

LEMMA OldTokensStayOK ==
    ASSUME IInv, Next,
           \A of \in DOMAIN tokens : (\E u \in DOMAIN tokens : IsNewest(u, of))
                                        => \E u \in DOMAIN tokens' : IsNewest(u, of)'
    PROVE  \A t \in DOMAIN tokens : OkToken(t)'
<1> SUFFICES ASSUME NEW t \in DOMAIN tokens
             PROVE  OkToken(t)'
  OBVIOUS
<1>1. OkToken(t)
  BY DEF IInv, TokensOK, OkToken
<1>2. tokens'[t] = tokens[t] /\ DOMAIN tokens \subseteq DOMAIN tokens' /\ tokens[t].iat \in Nat
  BY TokensGrow, Basics
<1>3. now <= now' /\ now \in Nat /\ now' \in Nat /\ mailed <= mailed' /\ mailed \in Nat /\ mailed' \in Nat
  BY KeysStayOK, CodeMoves, Basics
<1>4. tokens[t].iat <= now'
  BY <1>1, <1>2, <1>3 DEF OkToken
<1>5. CASE tokens[t].kind = "reset"
  <2>1. PICK n \in 1..mailed : tokens[t].of = MaxTokens + n
    BY <1>1, <1>5 DEF OkToken
  <2>2. n \in 1..mailed'
    BY <1>3
  <2> QED
    BY <1>2, <1>4, <1>5, <2>1, <2>2 DEF OkToken
<1>6. CASE tokens[t].kind # "reset"
  <2>1. PICK g \in DOMAIN tokens :
           g = tokens[t].of /\ \E u \in DOMAIN tokens : IsNewest(u, g)
    BY <1>1, <1>6 DEF OkToken
  <2>2. PICK u \in DOMAIN tokens' : IsNewest(u, g)'
    BY <2>1
  <2>3. tokens'[t].of \in DOMAIN tokens' /\ tokens'[t].of = g
    BY <1>2, <2>1
  <2>4. (\E v \in DOMAIN tokens : IsNewest(v, tokens[t].of))'
    BY <2>2, <2>3 DEF IsNewest
  <2>5. tokens'[t].kind = "access" => tokens'[t].exp = tokens'[t].iat + AccessLife
    BY <1>1, <1>2 DEF OkToken
  <2> QED
    BY <1>2, <1>4, <1>6, <2>3, <2>4, <2>5 DEF OkToken
<1> QED
  BY <1>5, <1>6

(* What a pair adds: an access token, and the newest refresh token of the login. *)
LEMMA PairGives ==
    ASSUME IInv, Len(tokens) + 2 <= MaxTokens, NEW of \in 1..(Len(tokens) + 1),
           tokens' = tokens \o Pair(of), NEW n \in Nat, n = Len(tokens)
    PROVE  /\ DOMAIN tokens' = DOMAIN tokens \union {n + 1, n + 2}
           /\ n + 1 \notin DOMAIN tokens /\ n + 2 \notin DOMAIN tokens
           /\ \A t \in DOMAIN tokens : tokens'[t] = tokens[t]
           /\ tokens'[n + 1].kind = "access" /\ tokens'[n + 1].of = of /\ tokens'[n + 1].iat = now
           /\ tokens'[n + 1].exp = now + AccessLife
           /\ tokens'[n + 2].kind = "refresh" /\ tokens'[n + 2].of = of /\ tokens'[n + 2].iat = now
           /\ Issued("refresh")' = Issued("refresh") \union {n + 2}
           /\ IsNewest(n + 2, of)' /\ of \in DOMAIN tokens'
<1>0. /\ Len(tokens) \in Nat /\ DOMAIN tokens = 1..Len(tokens) /\ tokens \in Seq(Token)
      /\ now \in 0..MaxNow /\ now \in Nat /\ AccessLife \in Nat /\ RefreshLife \in Nat
  BY Basics
<1> DEFINE a == Claim("access", AccessLife, of)
           b == Claim("refresh", RefreshLife, of)
<1>1. of \in 1..(MaxTokens + MaxCodes)
  BY Sizes
<1>2. /\ a \in Token /\ a.kind = "access" /\ a.of = of /\ a.iat = now /\ a.exp = now + AccessLife
  BY <1>0, <1>1 DEF Claim, Token
<1>3. b \in Token /\ b.kind = "refresh" /\ b.of = of /\ b.iat = now
  BY <1>0, <1>1 DEF Claim, Token
<1>4. tokens' = tokens \o <<a, b>>
  BY DEF Pair
<1> HIDE DEF a, b
<1>5. /\ DOMAIN tokens' = 1..(n + 2) /\ tokens'[n + 1] = a /\ tokens'[n + 2] = b
      /\ \A t \in DOMAIN tokens : tokens'[t] = tokens[t]
  BY <1>0, <1>2, <1>3, <1>4, PairAppended
<1>6. /\ DOMAIN tokens' = DOMAIN tokens \union {n + 1, n + 2}
      /\ \A t \in DOMAIN tokens : t <= n + 2 /\ t # n + 1 /\ t # n + 2
      /\ n + 2 <= n + 2 /\ of \in DOMAIN tokens'
  BY <1>0, <1>5
<1>7. Issued("refresh")' = Issued("refresh") \union {n + 2}
  BY <1>2, <1>3, <1>5, <1>6 DEF Issued
<1>8. IsNewest(n + 2, of)'
  BY <1>3, <1>5, <1>6, <1>7 DEF IsNewest, Issued
<1> QED
  BY <1>2, <1>3, <1>5, <1>6, <1>7, <1>8

LEMMA TokensStayOK ==
    ASSUME IInv, Next
    PROVE  TokensOK'
<1>0. /\ Len(tokens) \in Nat /\ DOMAIN tokens = 1..Len(tokens) /\ tokens \in Seq(Token)
      /\ now \in Nat /\ AccessLife \in Nat /\ RefreshLife \in Nat
  BY Basics
<1>1. now <= now' /\ mailed <= mailed' /\ now' \in Nat /\ mailed \in Nat /\ mailed' \in Nat
  BY KeysStayOK, CodeMoves, Basics
<1>2. \A t \in DOMAIN tokens : t \in DOMAIN tokens' /\ tokens'[t] = tokens[t]
  BY TokensGrow
<1>3. ASSUME \A t \in DOMAIN tokens' : OkToken(t)'
      PROVE  TokensOK'
  BY <1>3 DEF OkToken, TokensOK
<1>4. ASSUME Issued("refresh")' = Issued("refresh"), NEW of, NEW u \in DOMAIN tokens, IsNewest(u, of)
      PROVE  u \in DOMAIN tokens' /\ IsNewest(u, of)'
  BY <1>2, <1>4 DEF IsNewest, Issued
<1>5. CASE tokens' = tokens
  <2>1. Issued("refresh")' = Issued("refresh")
    BY <1>5 DEF Issued
  <2>2. \A t \in DOMAIN tokens : OkToken(t)'
    BY <1>4, <2>1, OldTokensStayOK
  <2> QED
    BY <1>3, <1>5, <2>2
<1>6. CASE Len(tokens) + 2 <= MaxTokens /\ OneIssued
  <2>1. PICK kind \in {"access", "reset"}, life \in Nat, of \in 1..(MaxTokens + MaxCodes) :
           /\ tokens' = Append(tokens, Claim(kind, life, of))
           /\ kind = "access" => life = AccessLife /\ \E t \in Issued("access") : tokens[t].of = of
           /\ kind = "reset" => \E r \in Requests : VerifyRight(r) /\ of = MaxTokens + req[r].saw.nth
    BY <1>6 DEF OneIssued
  <2> DEFINE a == Claim(kind, life, of)
  <2> PICK last \in Nat : last = Len(tokens) + 1
    BY <1>0
  <2>2. a \in Token /\ a.kind = kind /\ a.of = of /\ a.iat = now /\ a.exp = now + life
    BY ClaimType
  <2>3. /\ DOMAIN tokens' = DOMAIN tokens \union {last} /\ tokens'[last] = a
        /\ last \notin DOMAIN tokens
    <3> HIDE DEF a
    <3>1. /\ DOMAIN tokens' = 1..(Len(tokens) + 1) /\ tokens'[Len(tokens) + 1] = a
      BY <1>0, <2>1, <2>2, OneAppended DEF a
    <3> QED
      BY <1>0, <3>1
  <2> HIDE DEF a
  <2>4. Issued("refresh")' = Issued("refresh")
    BY <1>2, <2>2, <2>3 DEF Issued
  <2>5. \A t \in DOMAIN tokens : OkToken(t)'
    BY <1>4, <2>4, OldTokensStayOK
  <2>6. OkToken(last)'
    <3>1. a.iat <= now' /\ (a.kind = "access" => a.exp = a.iat + AccessLife)
      BY <1>0, <1>1, <2>1, <2>2
    <3>2. CASE kind = "reset"
      <4>1. PICK r \in Requests : VerifyRight(r) /\ of = MaxTokens + req[r].saw.nth
        BY <2>1, <3>2
      <4> DEFINE n == req[r].saw.nth
      <4>2. n \in 1..mailed'
        BY <1>1, <4>1, Held DEF VerifyRight, At
      <4> QED
        BY <2>2, <2>3, <3>1, <3>2, <4>1, <4>2 DEF OkToken
    <3>3. CASE kind = "access"
      <4>1. PICK t \in Issued("access") : tokens[t].of = of
        BY <2>1, <3>3
      <4>2. t \in DOMAIN tokens /\ tokens[t].kind = "access"
        BY DEF Issued
      <4>3. OkToken(t)' /\ tokens'[t].of = of /\ tokens'[t].kind = "access"
        BY <1>2, <2>5, <4>1, <4>2
      <4> QED
        BY <2>2, <2>3, <3>1, <3>3, <4>3 DEF OkToken
    <3> QED
      BY <3>2, <3>3
  <2> QED
    BY <1>3, <2>3, <2>5, <2>6
<1>7. CASE Len(tokens) + 2 <= MaxTokens /\ PairIssued
  <2>1. PICK of \in 1..(Len(tokens) + 1) : tokens' = tokens \o Pair(of)
    BY <1>7 DEF PairIssued
  <2>2. PICK n \in Nat : n = Len(tokens)
    BY <1>0
  <2>3. /\ DOMAIN tokens' = DOMAIN tokens \union {n + 1, n + 2}
        /\ tokens'[n + 1].kind = "access" /\ tokens'[n + 1].of = of /\ tokens'[n + 1].iat = now
        /\ tokens'[n + 1].exp = now + AccessLife
        /\ tokens'[n + 2].kind = "refresh" /\ tokens'[n + 2].of = of /\ tokens'[n + 2].iat = now
        /\ Issued("refresh")' = Issued("refresh") \union {n + 2}
        /\ IsNewest(n + 2, of)' /\ of \in DOMAIN tokens'
    BY <1>7, <2>1, <2>2, PairGives
  <2>4. ASSUME NEW g \in DOMAIN tokens, NEW u \in DOMAIN tokens, IsNewest(u, g), g # of
        PROVE  IsNewest(u, g)'
    BY <1>2, <2>3, <2>4 DEF IsNewest, Issued
  <2>5. \A t \in DOMAIN tokens : OkToken(t)'
    <3>1. ASSUME NEW g \in DOMAIN tokens, \E u \in DOMAIN tokens : IsNewest(u, g)
          PROVE  \E u \in DOMAIN tokens' : IsNewest(u, g)'
      BY <1>2, <2>3, <2>4, <3>1
    <3> QED
      BY <3>1, OldTokensStayOK
  <2>6. OkToken(n + 1)' /\ OkToken(n + 2)'
    BY <1>1, <2>3 DEF OkToken
  <2> QED
    BY <1>3, <2>3, <2>5, <2>6
<1> QED
  BY <1>5, <1>6, <1>7, TokensMove

LEMMA ChangesStayOK ==
    ASSUME IInv, Next
    PROVE  changes' \in Seq(Change) /\ ChangesOK' /\ lapses' \in 0..MaxLapses
<1>1. changes \in Seq(Change) /\ ChangesOK /\ lapses \in 0..MaxLapses /\ MaxLapses \in Nat
  BY CredentialsAssumption DEF IInv, TypeOK
<1>2. /\ Issued("reset") \subseteq Issued("reset")' /\ RefusedTokens \subseteq RefusedTokens'
  BY IssuedStay
<1>3. \/ changes' = changes
      \/ \E r \in Requests : /\ At(r, "reset", "revoked")
                             /\ changes' = Append(changes, [by |-> req[r].token, upto |-> Len(tokens)])
  BY DEF Next, Tick, RequestNext, Login, RefreshReused, RefreshRotate, LogoutRefresh, Switch, Forgot,
     VerifyRight, VerifyLastWrong, VerifyTtl, VerifyCount, VerifyRead, ResetSpend, ResetRevoke,
     ResetCommit, Abort, RefreshCheck, LogoutAccess, SwitchCheck, ResetCheck, resetVars
<1>4. lapses' = lapses \/ (lapses' = lapses + 1 /\ lapses < MaxLapses)
  BY DEF Next, Tick, RequestNext, Login, RefreshReused, RefreshRotate, LogoutRefresh, Switch, Forgot,
     VerifyRight, VerifyLastWrong, VerifyTtl, VerifyCount, VerifyRead, ResetSpend, ResetRevoke,
     ResetCommit, Abort, RefreshCheck, LogoutAccess, SwitchCheck, ResetCheck
<1>5. lapses' \in 0..MaxLapses
  BY <1>1, <1>4
<1>6. CASE changes' = changes
  BY <1>1, <1>2, <1>5, <1>6 DEF ChangesOK
<1>7. ASSUME NEW r \in Requests, At(r, "reset", "revoked"),
             changes' = Append(changes, [by |-> req[r].token, upto |-> Len(tokens)])
      PROVE  changes' \in Seq(Change) /\ ChangesOK'
  <2> DEFINE c == [by |-> req[r].token, upto |-> Len(tokens)]
  <2>1. req[r].token \in Issued("reset") \intersect RefusedTokens
    BY <1>7, Held DEF At
  <2>2. req[r].token \in DOMAIN tokens
    BY <2>1 DEF Issued
  <2>3. req[r].token \in Ids /\ Len(tokens) \in Ids
    BY <2>2, Sizes DEF Ids
  <2>4. c \in Change /\ c.by = req[r].token
    BY <2>3 DEF Change
  <2> HIDE DEF c
  <2>5. /\ changes' \in Seq(Change) /\ DOMAIN changes' = 1..(Len(changes) + 1)
        /\ \A i \in 1..Len(changes) : changes'[i] = changes[i]
        /\ changes'[Len(changes) + 1] = c
    BY <1>1, <1>7, <2>4, OneAppended DEF c
  <2>6. DOMAIN changes' = DOMAIN changes \union {Len(changes) + 1} /\ DOMAIN changes = 1..Len(changes)
    BY <1>1, <2>5
  <2> QED
    BY <1>1, <1>2, <2>1, <2>4, <2>5, <2>6 DEF ChangesOK
<1> QED
  BY <1>3, <1>5, <1>6, <1>7

LEMMA InitIsOK ==
    ASSUME Init
    PROVE  IInv
<1>1. /\ {MaxTokens, MaxCodes, MaxNow, MaxLapses} \subseteq Nat /\ RefreshLife \in Nat
  BY CredentialsAssumption
<1>2. TypeOK
  BY <1>1, NullIsRequest DEF Init, TypeOK, NoCode
<1>3. Issuers = {} /\ Cardinality(Issuers) = 0
  <2>1. Issuers = {}
    BY NullIsRequest DEF Init, Issuers
  <2> QED
    BY <2>1, FS_EmptySet
<1>4. RoomOK
  BY <1>1, <1>3 DEF Init, RoomOK
<1>5. TokensOK /\ GoneOK /\ EndedOK /\ ChangesOK
  BY <1>1 DEF Init, TokensOK, GoneOK, EndedOK, ChangesOK
<1>6. CodeOK
  BY <1>1, NullIsRequest DEF Init, CodeOK, NoCode
<1>7. RequestsOK
  BY IdleIsOK DEF Init, RequestsOK
<1> QED
  BY <1>2, <1>4, <1>5, <1>6, <1>7 DEF IInv

LEMMA NextKeepsOK ==
    ASSUME IInv, [Next]_vars
    PROVE  IInv'
<1>1. CASE Next
  <2>1. TypeOK'
    BY <1>1, TokensGrow, RequestsStayOK, KeysStayOK, CodeStaysOK, ChangesStayOK DEF TypeOK
  <2> QED
    BY <1>1, <2>1, RoomStaysOK, TokensStayOK, KeysStayOK, CodeStaysOK, ChangesStayOK,
       RequestsStayOK DEF IInv
<1>2. CASE UNCHANGED vars
  BY <1>2 DEF vars, resetVars, IInv, TypeOK, RoomOK, Issuers, TokensOK, IsNewest, Issued, GoneOK, EndedOK, CodeOK,
     ChangesOK, RefusedTokens, Refused, Expired, Blacklisted, SessionEnded, RequestsOK
<1> QED
  BY <1>1, <1>2

(* Whatever the requests do, and however many they are: the bookkeeping of the
   tokens, of the keys in Redis, of the code and of the changes. *)
THEOREM Invariance == Spec => []IInv
<1>1. Init => IInv
  BY InitIsOK
<1>2. IInv /\ [Next]_vars => IInv'
  BY NextKeepsOK
<1> QED
  BY <1>1, <1>2, PTL DEF Spec

(* Type correctness: the bounds of the model are kept by its guards, and a key
   in Redis has always an end. *)
THEOREM TypeCorrect == Spec => []TypeOK
<1>1. IInv => TypeOK
  BY DEF IInv
<1> QED
  BY <1>1, Invariance, PTL

(* A refused token stays refused, for any number of requests in any order: a key
   of Redis ends no earlier than the tokens it stands against, and is never
   written back with an earlier end. *)
THEOREM RefusedStaysRefused == Spec => RefusedForGood
<1>1. IInv /\ [Next]_vars => [\A t \in DOMAIN tokens : Refused(t) => Refused(t)']_vars
  <2> SUFFICES ASSUME IInv, Next, NEW t \in DOMAIN tokens, Refused(t)
               PROVE  Refused(t)'
    OBVIOUS
  <2> QED
    BY Evolution, RefusedStays, TokensGrow
<1> QED
  BY <1>1, Invariance, PTL DEF Spec, RefusedForGood

-----------------------------------------------------------------------------
(* The entry of a code *)

Entering(r) == req[r].op = "verify"

(* No request begins to enter a code. *)
NoEntryBegins ==
    \A q \in Requests : Entering(q)' => Entering(q) /\ req'[q].saw = req[q].saw

(* Request r answers what was entered, and is done. *)
Answers(r) ==
    /\ r \in Requests /\ Entering(r) /\ req[r].saw \in Code /\ req[r].saw.nth \in 1..mailed
    /\ ~Entering(r)' /\ NoEntryBegins
    /\ now' = now /\ mailed' = mailed
AnswersRight(r) ==
    /\ Answers(r) /\ code' = NoCode /\ wrong' = wrong
    /\ \E t : /\ t \notin DOMAIN tokens /\ Issued("reset")' = Issued("reset") \union {t}
              /\ tokens'[t].of = MaxTokens + req[r].saw.nth
AnswersWrong(r) ==
    /\ Answers(r) /\ Issued("reset")' = Issued("reset")
    /\ wrong' = [wrong EXCEPT ![req[r].saw.nth] = @ + 1]
    /\ \/ code' = NoCode
       \/ code' = code /\ ~CodeKept
       \/ code'.nth = req[r].saw.nth /\ code'.attempts = req[r].saw.attempts + 1

NothingEntered ==
    /\ NoEntryBegins /\ wrong' = wrong /\ Issued("reset")' = Issued("reset")
    /\ \/ code' = code /\ mailed' = mailed
       \/ /\ code'.nth = mailed + 1 /\ mailed' = mailed + 1 /\ mailed < MaxCodes
          /\ code'.attempts = 0
EntryBegins(r) ==
    /\ r \in Requests /\ CodeKept /\ req'[r].saw = code
    /\ \A q \in Requests \ {r} : req'[q] = req[q]
    /\ UNCHANGED <<now, tokens, code, mailed, wrong>>

LEMMA ResetsIssued ==
    ASSUME IInv, Next, \A r \in Requests : ~VerifyRight(r)
    PROVE  Issued("reset")' = Issued("reset")
<1>0. /\ Len(tokens) \in Nat /\ DOMAIN tokens = 1..Len(tokens) /\ tokens \in Seq(Token)
      /\ now \in 0..MaxNow /\ AccessLife \in Nat /\ RefreshLife \in Nat
  BY Basics
<1>1. \A t \in DOMAIN tokens : t \in DOMAIN tokens' /\ tokens'[t] = tokens[t]
  BY TokensGrow
<1>2. CASE tokens' = tokens
  BY <1>2 DEF Issued
<1>3. CASE OneIssued
  <2>1. PICK kind \in {"access", "reset"}, life \in Nat, of \in 1..(MaxTokens + MaxCodes) :
           /\ tokens' = Append(tokens, Claim(kind, life, of))
           /\ kind = "reset" => \E r \in Requests : VerifyRight(r)
    BY <1>3 DEF OneIssued
  <2> DEFINE a == Claim(kind, life, of)
  <2>2. a \in Token /\ a.kind # "reset"
    BY <2>1, ClaimType
  <2> HIDE DEF a
  <2>3. DOMAIN tokens' = 1..(Len(tokens) + 1) /\ tokens'[Len(tokens) + 1] = a
    BY <1>0, <2>1, <2>2, OneAppended DEF a
  <2>4. \A t \in DOMAIN tokens' : t \in DOMAIN tokens \/ tokens'[t] = a
    BY <1>0, <2>3
  <2> QED
    BY <1>1, <2>2, <2>4 DEF Issued
<1>4. CASE Len(tokens) + 2 <= MaxTokens /\ PairIssued
  <2>1. PICK of \in 1..(Len(tokens) + 1) : tokens' = tokens \o Pair(of)
    BY <1>4 DEF PairIssued
  <2>2. PICK n \in Nat : n = Len(tokens)
    BY <1>0
  <2>3. /\ DOMAIN tokens' = DOMAIN tokens \union {n + 1, n + 2}
        /\ tokens'[n + 1].kind = "access" /\ tokens'[n + 2].kind = "refresh"
    BY <1>4, <2>1, <2>2, PairGives
  <2> QED
    BY <1>1, <2>3 DEF Issued
<1> QED
  BY <1>2, <1>3, <1>4, TokensMove

LEMMA EntriesMove ==
    ASSUME IInv, Next
    PROVE  \/ NothingEntered
           \/ \E r \in Requests : EntryBegins(r) \/ AnswersRight(r) \/ AnswersWrong(r)
<1> DEFINE Goal == \/ NothingEntered
                   \/ \E r \in Requests : EntryBegins(r) \/ AnswersRight(r) \/ AnswersWrong(r)
<1>0. req \in [Requests -> Request] /\ IdleRequest.op = "none"
  BY Basics, NullIsRequest
<1>1. ASSUME code' = code, mailed' = mailed, wrong' = wrong, NoEntryBegins,
             Issued("reset")' = Issued("reset")
      PROVE  Goal
  BY <1>1 DEF NothingEntered
<1>2. ASSUME req' = req
      PROVE  NoEntryBegins
  BY <1>2 DEF NoEntryBegins, Entering
<1>3. ASSUME NEW r \in Requests, Finish(r)
      PROVE  NoEntryBegins /\ ~Entering(r)'
  BY <1>0, <1>3 DEF NoEntryBegins, Entering, Finish
<1>4. ASSUME NEW r \in Requests, NEW op \in {"refresh", "logout", "switch", "reset"}, NEW step, NEW t,
             Begin(r, op, step, t)
      PROVE  NoEntryBegins
  <2>1. req'[r].op = op /\ \A q \in Requests \ {r} : req'[q] = req[q]
    BY <1>0, <1>4 DEF Begin, IdleRequest
  <2> QED
    BY <2>1 DEF NoEntryBegins, Entering
<1>5. ASSUME NEW r \in Requests, NEW step, Goto(r, step)
      PROVE  NoEntryBegins
  <2>1. /\ req'[r].op = req[r].op /\ req'[r].saw = req[r].saw
        /\ \A q \in Requests \ {r} : req'[q] = req[q]
    BY <1>0, <1>5 DEF Goto, Request
  <2> QED
    BY <2>1 DEF NoEntryBegins, Entering
<1>6. CASE Tick
  BY <1>1, <1>2, <1>6 DEF Tick, resetVars, Issued
<1>7. ASSUME NEW r \in Requests, VerifyRight(r)
      PROVE  Goal
  <2>1. /\ req[r].op = "verify" /\ Finish(r) /\ code' = NoCode /\ wrong' = wrong
        /\ now' = now /\ mailed' = mailed
        /\ tokens' = Append(tokens, Claim("reset", ResetLife, MaxTokens + req[r].saw.nth))
    BY <1>7 DEF VerifyRight, At, CodeUsedUp
  <2>2. Answers(r)
    BY <1>3, <2>1, Held DEF Answers, Entering
  <2> DEFINE a == Claim("reset", ResetLife, MaxTokens + req[r].saw.nth)
             last == Len(tokens) + 1
  <2>3. a \in Token /\ a.kind = "reset" /\ a.of = MaxTokens + req[r].saw.nth
    <3>1. MaxTokens + req[r].saw.nth \in 1..(MaxTokens + MaxCodes)
      BY <2>2, Sizes DEF Answers
    <3>2. now \in 0..MaxNow /\ now \in Nat /\ ResetLife \in Nat
      BY Basics
    <3> QED
      BY <3>1, <3>2 DEF Claim, Token
  <2> HIDE DEF a
  <2>4. /\ DOMAIN tokens' = DOMAIN tokens \union {last} /\ tokens'[last] = a
        /\ last \notin DOMAIN tokens
        /\ \A t \in DOMAIN tokens : tokens'[t] = tokens[t]
    <3>1. /\ DOMAIN tokens' = 1..(Len(tokens) + 1) /\ tokens'[Len(tokens) + 1] = a
          /\ \A t \in 1..Len(tokens) : tokens'[t] = tokens[t]
      BY <2>1, <2>3, Basics, OneAppended DEF a
    <3> QED
      BY <3>1, Sizes
  <2> HIDE DEF last
  <2>5. Issued("reset")' = Issued("reset") \union {last}
    BY <2>3, <2>4 DEF Issued
  <2>6. AnswersRight(r)
    BY <2>1, <2>2, <2>3, <2>4, <2>5 DEF AnswersRight
  <2> QED
    BY <2>6
<1>8. ASSUME \A r \in Requests : ~VerifyRight(r)
      PROVE  Issued("reset")' = Issued("reset")
  BY <1>8, ResetsIssued
<1>9. ASSUME NEW r \in Requests, RequestNext(r), \A q \in Requests : ~VerifyRight(q)
      PROVE  Goal
  <2>0. Issued("reset")' = Issued("reset")
    BY <1>8, <1>9
  <2>1. CASE Login(r) \/ RefreshReused(r) \/ RefreshRotate(r) \/ LogoutRefresh(r) \/ Switch(r)
             \/ ResetCommit(r) \/ Abort(r)
    <3>1. code' = code /\ mailed' = mailed /\ wrong' = wrong /\ (req' = req \/ Finish(r))
      BY <2>1 DEF Login, RefreshReused, RefreshRotate, LogoutRefresh, Switch, ResetCommit, Abort, resetVars
    <3>2. NoEntryBegins
      BY <1>2, <1>3, <3>1
    <3> QED
      BY <1>1, <2>0, <3>1, <3>2
  <2>2. CASE ResetSpend(r) \/ ResetRevoke(r)
    <3>1. code' = code /\ mailed' = mailed /\ wrong' = wrong /\ (Goto(r, "spent") \/ Goto(r, "revoked"))
      BY <2>2 DEF ResetSpend, ResetRevoke, resetVars
    <3>2. NoEntryBegins
      BY <1>5, <3>1
    <3> QED
      BY <1>1, <2>0, <3>1, <3>2
  <2>3. CASE \E t \in Ids : \/ RefreshCheck(r, t) \/ LogoutAccess(r, t)
                            \/ SwitchCheck(r, t) \/ ResetCheck(r, t)
    <3>1. code' = code /\ mailed' = mailed /\ wrong' = wrong
      BY <2>3 DEF RefreshCheck, LogoutAccess, SwitchCheck, ResetCheck, resetVars
    <3>2. \E op \in {"refresh", "logout", "switch", "reset"} : \E step, t : Begin(r, op, step, t)
      BY <2>3 DEF RefreshCheck, LogoutAccess, SwitchCheck, ResetCheck
    <3>3. NoEntryBegins
      BY <1>4, <3>2
    <3> QED
      BY <1>1, <2>0, <3>1, <3>3
  <2>4. CASE Forgot(r)
    <3>1. /\ code'.nth = mailed + 1 /\ code'.attempts = 0 /\ mailed' = mailed + 1
          /\ mailed < MaxCodes /\ wrong' = wrong /\ req' = req
      BY <2>4 DEF Forgot
    <3> QED
      BY <1>2, <2>0, <3>1 DEF NothingEntered
  <2>5. CASE \E entered \in Chances : VerifyRead(r, entered)
    <3>1. PICK entered \in Chances : VerifyRead(r, entered)
      BY <2>5
    <3>2. req'[r].saw = code /\ \A q \in Requests \ {r} : req'[q] = req[q]
      BY <1>0, <3>1 DEF VerifyRead, IdleRequest
    <3>3. EntryBegins(r)
      BY <3>1, <3>2 DEF VerifyRead, EntryBegins, resetVars
    <3> QED
      BY <3>3
  <2>6. CASE VerifyLastWrong(r)
    <3>1. /\ Finish(r) /\ req[r].op = "verify" /\ now' = now /\ mailed' = mailed
          /\ wrong' = [wrong EXCEPT ![req[r].saw.nth] = @ + 1] /\ code' = NoCode
      BY <2>6 DEF VerifyLastWrong, At, Answer
    <3>2. Answers(r)
      BY <1>3, <3>1, Held DEF Answers, Entering
    <3>3. AnswersWrong(r)
      BY <2>0, <3>1, <3>2 DEF AnswersWrong
    <3> QED
      BY <3>3
  <2>7. CASE VerifyCount(r)
    <3>1. /\ Finish(r) /\ req[r].op = "verify" /\ now' = now /\ mailed' = mailed
          /\ wrong' = [wrong EXCEPT ![req[r].saw.nth] = @ + 1]
          /\ code' = [[req[r].saw EXCEPT !.attempts = req[r].saw.attempts + 1]
                         EXCEPT !.until = now + req[r].ttl]
      BY <2>7 DEF VerifyCount, At, Answer, Counted
    <3>2. Answers(r)
      BY <1>3, <3>1, Held DEF Answers, Entering
    <3>3. code'.nth = req[r].saw.nth /\ code'.attempts = req[r].saw.attempts + 1
      BY <3>1, <3>2 DEF Answers, Code
    <3>4. AnswersWrong(r)
      BY <2>0, <3>1, <3>2, <3>3 DEF AnswersWrong
    <3> QED
      BY <3>4
  <2>8. CASE VerifyTtl(r)
    <3>1. CASE CodeKept
      <4>1. /\ req' = [req EXCEPT ![r] = [req[r] EXCEPT !.step = "timed", !.ttl = code.until - now]]
            /\ code' = code /\ mailed' = mailed /\ wrong' = wrong
        BY <2>8, <3>1 DEF VerifyTtl
      <4>2. /\ req'[r].op = req[r].op /\ req'[r].saw = req[r].saw
            /\ \A q \in Requests \ {r} : req'[q] = req[q]
        BY <1>0, <4>1 DEF Request
      <4>3. NoEntryBegins
        BY <4>2 DEF NoEntryBegins, Entering
      <4> QED
        BY <1>1, <2>0, <4>1, <4>3
    <3>2. CASE ~CodeKept
      <4>1. /\ Finish(r) /\ req[r].op = "verify" /\ now' = now /\ mailed' = mailed
            /\ wrong' = [wrong EXCEPT ![req[r].saw.nth] = @ + 1] /\ code' = code
        BY <2>8, <3>2 DEF VerifyTtl, Finish, At, Answer
      <4>2. Answers(r)
        BY <1>3, <4>1, Held DEF Answers, Entering
      <4>3. AnswersWrong(r)
        BY <2>0, <3>2, <4>1, <4>2 DEF AnswersWrong
      <4> QED
        BY <4>3
    <3> QED
      BY <3>1, <3>2
  <2> QED
    BY <1>9, <2>1, <2>2, <2>3, <2>4, <2>5, <2>6, <2>7, <2>8 DEF RequestNext
<1> QED
  BY <1>6, <1>7, <1>9 DEF Next

(* A code becomes live when it is mailed, and in no other way. *)
LEMMA LiveMoves ==
    ASSUME IInv, Next, NEW n, Live(n)'
    PROVE  Live(n) \/ (n = mailed + 1 /\ NothingEntered)
<1>1. n # 0 /\ (code'.nth = n \/ \E q \in Requests : req'[q].op = "verify" /\ req'[q].saw.nth = n)
  BY DEF Live
<1>2. NoCode.nth = 0
  BY NullIsRequest
<1>3. CASE NothingEntered
  BY <1>1, <1>3 DEF NothingEntered, NoEntryBegins, Entering, Live
<1>4. ASSUME NEW r \in Requests, EntryBegins(r)
      PROVE  Live(n)
  BY <1>1, <1>4 DEF EntryBegins, Live
<1>5. ASSUME NEW r \in Requests, AnswersRight(r)
      PROVE  Live(n)
  BY <1>1, <1>2, <1>5 DEF AnswersRight, Answers, NoEntryBegins, Entering, Live
<1>6. ASSUME NEW r \in Requests, AnswersWrong(r)
      PROVE  Live(n)
  BY <1>1, <1>2, <1>6 DEF AnswersWrong, Answers, NoEntryBegins, Entering, Live
<1> QED
  BY <1>3, <1>4, <1>5, <1>6, EntriesMove

LEMMA OneTokenPerCodeStays ==
    ASSUME IInv, EntriesApart, OneTokenPerCode, [Next]_vars
    PROVE  OneTokenPerCode'
<1>1. CASE Next
  <2>0. /\ \A t \in DOMAIN tokens : t \in DOMAIN tokens' /\ tokens'[t] = tokens[t] /\ tokens[t].of \in Nat
        /\ MaxTokens \in Nat /\ mailed \in Nat
    BY <1>1, TokensGrow, Basics
  <2>1. \A t \in Issued("reset") :
           t \in DOMAIN tokens /\ \E n \in 1..mailed : tokens[t].of = MaxTokens + n
    BY DEF IInv, TokensOK, Issued
  <2>2. ASSUME Issued("reset")' = Issued("reset")
        PROVE  OneTokenPerCode'
    <3>1. ASSUME NEW t \in Issued("reset")'
          PROVE  ~Live(tokens[t].of - MaxTokens)'
      <4>1. PICK n \in 1..mailed : n = tokens[t].of - MaxTokens /\ t \in DOMAIN tokens
        BY <2>0, <2>1, <2>2
      <4>2. ~Live(n)
        BY <2>2, <4>1 DEF OneTokenPerCode
      <4>3. ~Live(n)'
        BY <1>1, <2>0, <4>1, <4>2, LiveMoves
      <4>4. tokens'[t].of - MaxTokens = n
        BY <2>0, <4>1
      <4> QED
        BY <4>3, <4>4 DEF Live
    <3>2. \A t, u \in Issued("reset")' : tokens'[t].of = tokens'[u].of => t = u
      BY <2>0, <2>1, <2>2 DEF OneTokenPerCode
    <3> QED
      BY <3>1, <3>2 DEF OneTokenPerCode
  <2>3. ASSUME NEW r \in Requests, AnswersRight(r)
        PROVE  OneTokenPerCode'
    <3>1. PICK last : /\ last \notin DOMAIN tokens /\ Issued("reset")' = Issued("reset") \union {last}
                      /\ tokens'[last].of = MaxTokens + req[r].saw.nth
      BY <2>3 DEF AnswersRight
    <3>2. PICK k \in 1..mailed : k = req[r].saw.nth
      BY <2>3 DEF AnswersRight, Answers
    <3>3. Live(k)
      BY <2>3, <3>2 DEF AnswersRight, Answers, Entering, Live
    <3>4. ~Live(k)'
      BY <2>3, <3>2, NullIsRequest
         DEF AnswersRight, Answers, NoEntryBegins, Entering, Live, EntriesApart
    <3>5. \A t \in Issued("reset") : tokens[t].of # MaxTokens + k
      <4> SUFFICES ASSUME NEW t \in Issued("reset"), tokens[t].of = MaxTokens + k
                   PROVE  FALSE
        OBVIOUS
      <4>1. tokens[t].of - MaxTokens = k
        BY <2>0
      <4> QED
        BY <3>3, <4>1 DEF OneTokenPerCode
    <3>6. ASSUME NEW t \in Issued("reset")'
          PROVE  ~Live(tokens[t].of - MaxTokens)'
      <4>1. CASE t = last
        <5>1. tokens'[t].of - MaxTokens = k
          BY <2>0, <3>1, <3>2, <4>1
        <5> QED
          BY <3>4, <5>1 DEF Live
      <4>2. CASE t \in Issued("reset")
        <5>1. PICK n \in 1..mailed : n = tokens[t].of - MaxTokens /\ t \in DOMAIN tokens
          BY <2>0, <2>1, <4>2
        <5>2. ~Live(n)
          BY <4>2, <5>1 DEF OneTokenPerCode
        <5>3. ~Live(n)'
          BY <1>1, <2>0, <5>1, <5>2, LiveMoves
        <5>4. tokens'[t].of - MaxTokens = n
          BY <2>0, <5>1
        <5> QED
          BY <5>3, <5>4 DEF Live
      <4> QED
        BY <3>1, <4>1, <4>2
    <3>7. \A t, u \in Issued("reset")' : tokens'[t].of = tokens'[u].of => t = u
      BY <2>0, <2>1, <3>1, <3>2, <3>5 DEF OneTokenPerCode
    <3> QED
      BY <3>6, <3>7 DEF OneTokenPerCode
  <2>4. CASE NothingEntered
    BY <2>2, <2>4 DEF NothingEntered
  <2>5. ASSUME NEW r \in Requests, EntryBegins(r)
        PROVE  OneTokenPerCode'
    BY <2>2, <2>5 DEF EntryBegins, Issued
  <2>6. ASSUME NEW r \in Requests, AnswersWrong(r)
        PROVE  OneTokenPerCode'
    BY <2>2, <2>6 DEF AnswersWrong
  <2> QED
    BY <1>1, <2>3, <2>4, <2>5, <2>6, EntriesMove
<1>2. CASE UNCHANGED vars
  BY <1>2 DEF vars, resetVars, OneTokenPerCode, Live, Issued
<1> QED
  BY <1>1, <1>2

LEMMA EntriesCountedStays ==
    ASSUME IInv, EntriesApart, EntriesCounted, [Next]_vars
    PROVE  EntriesCounted'
<1>1. CASE Next
  <2>0. /\ code \in Code /\ code.nth \in Nat /\ code.attempts \in Nat /\ code.until \in Nat
        /\ code.nth <= mailed
        /\ mailed \in Nat /\ now \in Nat /\ now' \in Nat /\ now <= now' /\ mailed <= MaxCodes
        /\ MaxCodes \in Nat /\ wrong \in [1..MaxCodes -> Nat]
        /\ \A n \in 1..MaxCodes : n > mailed => wrong[n] = 0
    <3>1. /\ code \in Code /\ code.nth <= mailed /\ wrong \in [1..MaxCodes -> Nat]
          /\ \A n \in 1..MaxCodes : n > mailed => wrong[n] = 0
      BY DEF IInv, TypeOK, CodeOK
    <3>2. code.nth \in Nat /\ code.attempts \in Nat /\ code.until \in Nat
      BY <3>1, CredentialsAssumption DEF Code
    <3>3. now \in Nat /\ mailed \in Nat /\ mailed <= MaxCodes /\ MaxCodes \in Nat
      BY Sizes
    <3>4. now' \in Nat /\ now <= now'
      BY <1>1, KeysStayOK, Sizes
    <3> QED
      BY <3>1, <3>2, <3>3, <3>4
  <2>1. \A q \in Requests : req[q].op = "verify" =>
           /\ req[q].saw.nth \in 1..MaxCodes /\ req[q].saw.attempts \in Nat
           /\ wrong[req[q].saw.nth] <= req[q].saw.attempts
    <3> SUFFICES ASSUME NEW q \in Requests, req[q].op = "verify"
                 PROVE  /\ req[q].saw.nth \in 1..MaxCodes /\ req[q].saw.attempts \in Nat
                        /\ wrong[req[q].saw.nth] <= req[q].saw.attempts
      OBVIOUS
    <3>1. req[q].saw \in Code /\ req[q].saw.nth \in 1..mailed
      BY Held
    <3> QED
      BY <2>0, <3>1, CredentialsAssumption DEF EntriesCounted, Code
  <2>2. ASSUME code' = code, CodeKept'
        PROVE  CodeKept
    BY <2>0, <2>2 DEF CodeKept
  <2>3. CASE NothingEntered
    <3>1. CodeKept' => wrong'[code'.nth] <= code'.attempts
      <4>1. CASE code' = code
        BY <2>2, <2>3, <4>1 DEF NothingEntered, EntriesCounted
      <4>2. CASE code'.nth = mailed + 1 /\ mailed < MaxCodes /\ code'.attempts = 0
        <5>1. mailed + 1 \in 1..MaxCodes /\ mailed + 1 > mailed
          BY <2>0, <4>2
        <5> QED
          BY <2>0, <2>3, <4>2, <5>1 DEF NothingEntered
      <4> QED
        BY <2>3, <4>1, <4>2 DEF NothingEntered
    <3> QED
      BY <2>3, <3>1 DEF NothingEntered, NoEntryBegins, Entering, EntriesCounted
  <2>4. ASSUME NEW r \in Requests, EntryBegins(r)
        PROVE  EntriesCounted'
    <3>1. wrong[code.nth] <= code.attempts
      BY <2>4 DEF EntryBegins, EntriesCounted
    <3>2. \A q \in Requests : req'[q].op = "verify" =>
             wrong'[req'[q].saw.nth] <= req'[q].saw.attempts
      BY <2>4, <3>1 DEF EntryBegins, EntriesCounted
    <3> QED
      BY <2>4, <3>1, <3>2 DEF EntryBegins, EntriesCounted
  <2>5. ASSUME NEW r \in Requests, AnswersRight(r)
        PROVE  EntriesCounted'
    BY <2>5, NullIsRequest
       DEF AnswersRight, Answers, NoEntryBegins, Entering, EntriesCounted, CodeKept
  <2>6. ASSUME NEW r \in Requests, AnswersWrong(r)
        PROVE  EntriesCounted'
    <3> DEFINE k == req[r].saw.nth
    <3>1. /\ req[r].op = "verify" /\ k \in 1..MaxCodes /\ req[r].saw.attempts \in Nat
          /\ wrong[k] <= req[r].saw.attempts /\ wrong[k] \in Nat
      BY <2>0, <2>1, <2>6 DEF AnswersWrong, Answers, Entering
    <3>2. /\ wrong'[k] = wrong[k] + 1
          /\ \A n \in 1..MaxCodes : n # k => wrong'[n] = wrong[n]
      BY <2>0, <2>6, <3>1 DEF AnswersWrong
    <3>3. \A q \in Requests : req'[q].op = "verify" =>
             /\ req[q].op = "verify" /\ req'[q].saw = req[q].saw /\ req[q].saw.nth # k
      BY <2>6, <3>1 DEF AnswersWrong, Answers, NoEntryBegins, Entering, EntriesApart
    <3>4. \A q \in Requests : req'[q].op = "verify" =>
             wrong'[req'[q].saw.nth] <= req'[q].saw.attempts
      BY <2>1, <3>2, <3>3
    <3>5. CodeKept' => wrong'[code'.nth] <= code'.attempts
      <4>1. CASE code' = NoCode
        BY <4>1, NullIsRequest DEF CodeKept
      <4>2. CASE code' = code /\ ~CodeKept
        BY <2>2, <4>2
      <4>3. CASE code'.nth = k /\ code'.attempts = req[r].saw.attempts + 1
        BY <3>1, <3>2, <4>3
      <4> QED
        BY <2>6, <4>1, <4>2, <4>3 DEF AnswersWrong
    <3> QED
      BY <3>4, <3>5 DEF EntriesCounted
  <2> QED
    BY <1>1, <2>3, <2>4, <2>5, <2>6, EntriesMove
<1>2. CASE UNCHANGED vars
  BY <1>2 DEF vars, resetVars, EntriesCounted, CodeKept
<1> QED
  BY <1>1, <1>2

(* A code that stands has been answered wrong fewer times than destroys it, as
   long as no two requests enter the same code at the same time: then every
   wrong entry is counted before the next one is read. *)
THEOREM WrongEntriesDestroyCode == Spec /\ []EntriesApart => []WrongEntriesEndCode
<1>1. Init => EntriesCounted
  <2> SUFFICES ASSUME Init
               PROVE  EntriesCounted
    OBVIOUS
  <2> QED
    BY NullIsRequest DEF Init, EntriesCounted, CodeKept, NoCode
<1>2. IInv /\ EntriesApart /\ EntriesCounted /\ [Next]_vars => EntriesCounted'
  BY EntriesCountedStays
<1>3. IInv /\ EntriesCounted => WrongEntriesEndCode
  <2> SUFFICES ASSUME IInv, EntriesCounted, CodeKept
               PROVE  wrong[code.nth] < MaxAttempts
    BY DEF WrongEntriesEndCode
  <2>1. /\ code.attempts \in 0..(MaxAttempts - 1) /\ MaxAttempts \in Nat
        /\ code.nth \in 1..MaxCodes /\ wrong \in [1..MaxCodes -> Nat]
    BY CredentialsAssumption DEF IInv, TypeOK, Code, CodeKept
  <2>2. wrong[code.nth] <= code.attempts /\ wrong[code.nth] \in Nat
    BY <2>1 DEF EntriesCounted
  <2> QED
    BY <2>1, <2>2
<1> QED
  BY <1>1, <1>2, <1>3, Invariance, PTL DEF Spec

-----------------------------------------------------------------------------
(* The use of a reset token *)

(* A change is committed by the request that used the token, or nothing is. *)
LEMMA ResetsMove ==
    ASSUME IInv, Next
    PROVE  \/ /\ changes' = changes
              /\ \A q \in Requests : req'[q].op = "reset" =>
                    \/ req[q].op = "reset" /\ req'[q].token = req[q].token
                    \/ req'[q].token \in Issued("reset") /\ ~Refused(req'[q].token)
           \/ \E r \in Requests :
                 /\ At(r, "reset", "revoked") /\ req' = [req EXCEPT ![r] = IdleRequest]
                 /\ changes' = Append(changes, [by |-> req[r].token, upto |-> Len(tokens)])
                 /\ tokens' = tokens
<1> DEFINE Uses == \A q \in Requests : req'[q].op = "reset" =>
                      \/ req[q].op = "reset" /\ req'[q].token = req[q].token
                      \/ req'[q].token \in Issued("reset") /\ ~Refused(req'[q].token)
           Goal == \/ changes' = changes /\ Uses
                   \/ \E r \in Requests :
                         /\ At(r, "reset", "revoked") /\ req' = [req EXCEPT ![r] = IdleRequest]
                         /\ changes' = Append(changes, [by |-> req[r].token, upto |-> Len(tokens)])
                         /\ tokens' = tokens
<1>0. req \in [Requests -> Request] /\ IdleRequest.op = "none"
  BY Basics, NullIsRequest
<1>1. CASE Tick
  BY <1>1 DEF Tick, resetVars
<1>2. ASSUME NEW r \in Requests, RequestNext(r)
      PROVE  Goal
  <2>1. CASE ResetCommit(r)
    BY <2>1 DEF ResetCommit, Finish
  <2>2. CASE Login(r) \/ Forgot(r) \/ RefreshReused(r) \/ RefreshRotate(r) \/ LogoutRefresh(r)
             \/ Switch(r) \/ VerifyRight(r) \/ VerifyLastWrong(r) \/ VerifyCount(r) \/ Abort(r)
    <3>1. changes' = changes /\ (req' = req \/ req' = [req EXCEPT ![r] = IdleRequest])
      BY <2>2 DEF Login, Forgot, RefreshReused, RefreshRotate, LogoutRefresh, Switch, VerifyRight,
         VerifyLastWrong, VerifyCount, Abort, Finish, resetVars
    <3> QED
      BY <1>0, <3>1
  <2>3. CASE VerifyTtl(r)
    <3>1. changes' = changes /\ req[r].op = "verify"
      BY <2>3 DEF VerifyTtl, At
    <3>2. \/ req' = [req EXCEPT ![r] = IdleRequest]
          \/ req' = [req EXCEPT ![r] = [req[r] EXCEPT !.step = "timed", !.ttl = code.until - now]]
      BY <2>3 DEF VerifyTtl
    <3>3. req'[r].op # "reset" /\ \A q \in Requests \ {r} : req'[q] = req[q]
      BY <1>0, <3>1, <3>2 DEF Request
    <3> QED
      BY <3>1, <3>3
  <2>4. CASE \E entered \in Chances : VerifyRead(r, entered)
    <3>1. /\ changes' = changes /\ req'[r].op = "verify"
          /\ \A q \in Requests \ {r} : req'[q] = req[q]
      BY <1>0, <2>4 DEF VerifyRead, resetVars, IdleRequest
    <3> QED
      BY <3>1
  <2>5. CASE ResetSpend(r) \/ ResetRevoke(r)
    <3>1. changes' = changes /\ \E step : req' = [req EXCEPT ![r].step = step]
      BY <2>5 DEF ResetSpend, ResetRevoke, Goto, resetVars
    <3>2. PICK step : req' = [req EXCEPT ![r].step = step]
      BY <3>1
    <3>3. /\ req'[r].op = req[r].op /\ req'[r].token = req[r].token
          /\ \A q \in Requests \ {r} : req'[q] = req[q]
      BY <1>0, <3>2 DEF Request
    <3> QED
      BY <3>1, <3>3
  <2>6. ASSUME NEW t \in Ids, RefreshCheck(r, t) \/ LogoutAccess(r, t) \/ SwitchCheck(r, t)
        PROVE  Goal
    <3>1. changes' = changes /\ \E op \in {"refresh", "logout", "switch"} : \E step : Begin(r, op, step, t)
      BY <2>6 DEF RefreshCheck, LogoutAccess, SwitchCheck, resetVars
    <3>2. PICK op \in {"refresh", "logout", "switch"} : \E step : Begin(r, op, step, t)
      BY <3>1
    <3>3. req'[r].op = op /\ \A q \in Requests \ {r} : req'[q] = req[q]
      BY <1>0, <3>2 DEF Begin, IdleRequest
    <3> QED
      BY <3>1, <3>3
  <2>7. ASSUME NEW t \in Ids, ResetCheck(r, t)
        PROVE  Goal
    <3>1. changes' = changes /\ t \in Issued("reset") /\ ~Refused(t)
      BY <2>7 DEF ResetCheck, resetVars
    <3>2. req'[r].token = t /\ \A q \in Requests \ {r} : req'[q] = req[q]
      BY <1>0, <2>7 DEF ResetCheck, Begin, IdleRequest
    <3> QED
      BY <3>1, <3>2
  <2> QED
    BY <1>2, <2>1, <2>2, <2>3, <2>4, <2>5, <2>6, <2>7 DEF RequestNext
<1> QED
  BY <1>1, <1>2 DEF Next

LEMMA OneChangePerTokenStays ==
    ASSUME IInv, ResetsApart, OneChangePerToken, [Next]_vars
    PROVE  OneChangePerToken'
<1>0. /\ req \in [Requests -> Request] /\ IdleRequest.op = "none" /\ changes \in Seq(Change)
      /\ \A m \in DOMAIN changes : Refused(changes[m].by)
  BY Basics, NullIsRequest DEF IInv, TypeOK, ChangesOK, RefusedTokens
<1>1. CASE /\ changes' = changes
           /\ \A q \in Requests : req'[q].op = "reset" =>
                 \/ req[q].op = "reset" /\ req'[q].token = req[q].token
                 \/ req'[q].token \in Issued("reset") /\ ~Refused(req'[q].token)
  BY <1>0, <1>1 DEF OneChangePerToken
<1>2. ASSUME NEW r \in Requests, Next, At(r, "reset", "revoked"), req' = [req EXCEPT ![r] = IdleRequest],
             changes' = Append(changes, [by |-> req[r].token, upto |-> Len(tokens)])
      PROVE  OneChangePerToken'
  <2> DEFINE c == [by |-> req[r].token, upto |-> Len(tokens)]
             last == Len(changes) + 1
  <2>1. c \in Change /\ c.by = req[r].token
    <3>1. req[r].token \in DOMAIN tokens
      BY <1>2, Held DEF At, Issued
    <3> QED
      BY <3>1, Sizes DEF Change, Ids
  <2> HIDE DEF c
  <2>2. /\ DOMAIN changes' = DOMAIN changes \union {last} /\ changes'[last] = c
        /\ \A m \in DOMAIN changes : changes'[m] = changes[m]
    <3>1. /\ DOMAIN changes' = 1..(Len(changes) + 1) /\ changes'[Len(changes) + 1] = c
          /\ \A m \in 1..Len(changes) : changes'[m] = changes[m]
      BY <1>0, <1>2, <2>1, OneAppended DEF c
    <3> QED
      BY <1>0, <3>1
  <2> HIDE DEF last
  <2>3. \A m \in DOMAIN changes : changes[m].by # c.by
    BY <1>2, <2>1 DEF At, OneChangePerToken
  <2>4. \A q \in Requests : req'[q].op = "reset" =>
           req[q].op = "reset" /\ req'[q].token = req[q].token /\ req[q].token # c.by
    BY <1>0, <1>2, <2>1 DEF At, ResetsApart
  <2> QED
    BY <2>2, <2>3, <2>4 DEF OneChangePerToken
<1>3. CASE UNCHANGED vars
  BY <1>3 DEF vars, resetVars, OneChangePerToken
<1>4. CASE Next
  BY <1>1, <1>2, <1>4, ResetsMove
<1> QED
  BY <1>3, <1>4

(* One mail gives at most one change of password, as long as no two requests
   enter the same code or use the same reset token at the same time: the code is
   used up before its token is issued, and the token is refused before the
   change is committed. *)
THEOREM OneChangeForOneCode == Spec /\ []EntriesApart /\ []ResetsApart => []OneChangePerCode
<1>1. Init => OneTokenPerCode /\ OneChangePerToken
  <2> SUFFICES ASSUME Init
               PROVE  OneTokenPerCode /\ OneChangePerToken
    OBVIOUS
  <2> QED
    BY NullIsRequest DEF Init, OneTokenPerCode, OneChangePerToken, Issued
<1>2. /\ IInv /\ EntriesApart /\ OneTokenPerCode /\ [Next]_vars => OneTokenPerCode'
      /\ IInv /\ ResetsApart /\ OneChangePerToken /\ [Next]_vars => OneChangePerToken'
  BY OneTokenPerCodeStays, OneChangePerTokenStays
<1>3. IInv /\ OneTokenPerCode /\ OneChangePerToken => OneChangePerCode
  <2> SUFFICES ASSUME IInv, OneTokenPerCode, OneChangePerToken,
                      NEW m \in DOMAIN changes, NEW n \in DOMAIN changes,
                      tokens[changes[m].by].of = tokens[changes[n].by].of
               PROVE  m = n
    BY DEF OneChangePerCode
  <2>1. changes[m].by \in Issued("reset") /\ changes[n].by \in Issued("reset")
    BY DEF IInv, ChangesOK
  <2>2. changes[m].by = changes[n].by
    BY <2>1 DEF OneTokenPerCode
  <2> QED
    BY <2>2 DEF OneChangePerToken
<1> QED
  BY <1>1, <1>2, <1>3, Invariance, PTL DEF Spec

-----------------------------------------------------------------------------
(* The end of the sessions *)

(* While a reset has ended the sessions and not committed, nobody is in; and no
   change is said to have ended tokens that were not there. *)
SessionsAreEnded ==
    /\ NobodyIsIn
    /\ \A n \in DOMAIN changes : changes[n].upto <= Len(tokens)
    /\ ChangeEndsSessions

LEMMA AccessRefused ==
    ASSUME IInv, Next, tokens' = tokens, \A t \in Issued("access") : Refused(t)
    PROVE  \A t \in Issued("access")' : Refused(t)'
<1>1. Issued("access")' = Issued("access") /\ \A t \in Issued("access") : t \in DOMAIN tokens
  BY DEF Issued
<1> QED
  BY <1>1, Evolution, TokensGrow, RefusedStays

(* The sessions are ended for every access token there is. *)
LEMMA EndSessionsRefuses ==
    ASSUME IInv, EndSessions(RefreshLife), tokens' = tokens, now' = now
    PROVE  \A t \in Issued("access")' : Refused(t)'
<1>1. /\ now \in Nat /\ RefreshLife \in Nat \ {0}
      /\ \A t \in DOMAIN tokens : tokens[t].iat \in Nat /\ tokens[t].iat <= now
  BY Basics DEF IInv, TokensOK
<1>2. ended'.at = now /\ ended'.until = now + RefreshLife /\ now < now + RefreshLife
  BY <1>1 DEF EndSessions
<1> SUFFICES ASSUME NEW t \in Issued("access")'
             PROVE  Refused(t)'
  OBVIOUS
<1>3. t \in DOMAIN tokens /\ tokens'[t].kind = "access"
  BY DEF Issued
<1>4. SessionEnded(t)'
  BY <1>1, <1>2, <1>3 DEF SessionEnded
<1> QED
  BY <1>3, <1>4 DEF Refused

LEMMA RevokedComesFrom ==
    ASSUME IInv, Next, \E r \in Requests : At(r, "reset", "revoked")'
    PROVE  \/ \E r \in Requests : At(r, "reset", "revoked")
           \/ EndSessions(RefreshLife) /\ tokens' = tokens /\ now' = now /\ changes' = changes
<1> DEFINE Goal == \/ \E r \in Requests : At(r, "reset", "revoked")
                   \/ EndSessions(RefreshLife) /\ tokens' = tokens /\ now' = now /\ changes' = changes
<1>0. req \in [Requests -> Request] /\ IdleRequest.op = "none"
  BY Basics, NullIsRequest
<1>1. PICK w \in Requests : req'[w].op = "reset" /\ req'[w].step = "revoked"
  BY DEF At
<1>2. ASSUME req'[w] = req[w]
      PROVE  Goal
  BY <1>1, <1>2 DEF At
<1>3. CASE Tick
  BY <1>2, <1>3 DEF Tick
<1>4. ASSUME NEW r \in Requests, RequestNext(r)
      PROVE  Goal
  <2>1. CASE ResetRevoke(r)
    BY <2>1 DEF ResetRevoke, resetVars
  <2>2. CASE Login(r) \/ Forgot(r) \/ RefreshReused(r) \/ RefreshRotate(r) \/ LogoutRefresh(r)
             \/ Switch(r) \/ VerifyRight(r) \/ VerifyLastWrong(r) \/ VerifyCount(r)
             \/ ResetCommit(r) \/ Abort(r)
    <3>1. req' = req \/ req' = [req EXCEPT ![r] = IdleRequest]
      BY <2>2 DEF Login, Forgot, RefreshReused, RefreshRotate, LogoutRefresh, Switch, VerifyRight,
         VerifyLastWrong, VerifyCount, ResetCommit, Abort, Finish
    <3> QED
      BY <1>0, <1>1, <1>2, <3>1
  <2>3. CASE VerifyTtl(r)
    <3>1. req[r].op = "verify"
      BY <2>3 DEF VerifyTtl, At
    <3>2. \/ req' = [req EXCEPT ![r] = IdleRequest]
          \/ req' = [req EXCEPT ![r] = [req[r] EXCEPT !.step = "timed", !.ttl = code.until - now]]
      BY <2>3 DEF VerifyTtl
    <3>3. req'[r].op # "reset" /\ \A q \in Requests \ {r} : req'[q] = req[q]
      BY <1>0, <3>1, <3>2 DEF Request
    <3> QED
      BY <1>1, <1>2, <3>3
  <2>4. CASE \E entered \in Chances : VerifyRead(r, entered)
    <3>1. req'[r].op = "verify" /\ \A q \in Requests \ {r} : req'[q] = req[q]
      BY <1>0, <2>4 DEF VerifyRead, IdleRequest
    <3> QED
      BY <1>1, <1>2, <3>1
  <2>5. CASE ResetSpend(r)
    <3>1. req'[r].step = "spent" /\ \A q \in Requests \ {r} : req'[q] = req[q]
      BY <1>0, <2>5 DEF ResetSpend, Goto, Request
    <3> QED
      BY <1>1, <1>2, <3>1
  <2>6. CASE \E t \in Ids : \/ RefreshCheck(r, t) \/ LogoutAccess(r, t)
                            \/ SwitchCheck(r, t) \/ ResetCheck(r, t)
    <3>1. PICK t \in Ids : \/ RefreshCheck(r, t) \/ LogoutAccess(r, t)
                           \/ SwitchCheck(r, t) \/ ResetCheck(r, t)
      BY <2>6
    <3>2. \E op, step : Begin(r, op, step, t) /\ step # "revoked"
      BY <3>1 DEF RefreshCheck, LogoutAccess, SwitchCheck, ResetCheck
    <3>3. PICK op, step : Begin(r, op, step, t) /\ step # "revoked"
      BY <3>2
    <3>4. req'[r].step = step /\ \A q \in Requests \ {r} : req'[q] = req[q]
      BY <1>0, <3>3 DEF Begin, IdleRequest
    <3> QED
      BY <1>1, <1>2, <3>3, <3>4
  <2> QED
    BY <1>4, <2>1, <2>2, <2>3, <2>4, <2>5, <2>6 DEF RequestNext
<1> QED
  BY <1>3, <1>4 DEF Next

LEMMA SessionsStayEnded ==
    ASSUME IInv, SessionsAreEnded, [Next]_vars, [NothingIssuedMeanwhile]_vars
    PROVE  SessionsAreEnded'
<1>1. CASE Next
  <2>0. /\ Len(tokens) \in Nat /\ Len(tokens') \in Nat /\ Len(tokens) <= Len(tokens')
        /\ DOMAIN tokens = 1..Len(tokens) /\ DOMAIN tokens' = 1..Len(tokens')
        /\ changes \in Seq(Change)
        /\ \A n \in DOMAIN changes : changes[n].upto \in Nat
    <3>1. changes \in Seq(Change)
      BY DEF IInv, TypeOK
    <3>2. \A n \in DOMAIN changes : changes[n] \in Change
      BY <3>1
    <3>3. \A n \in DOMAIN changes : changes[n].upto \in Nat
      BY <3>2 DEF Change, Ids
    <3> QED
      BY <1>1, <3>1, <3>3, TokensGrow, Sizes
  <2>1. CASE UNCHANGED vars
    BY <2>1 DEF vars, resetVars, SessionsAreEnded, NobodyIsIn, At, ChangeEndsSessions, Issued,
       Refused, Expired, Blacklisted, SessionEnded
  <2>2. CASE NothingIssuedMeanwhile
    <3>1. NobodyIsIn'
      <4> SUFFICES ASSUME \E r \in Requests : At(r, "reset", "revoked")'
                   PROVE  \A t \in Issued("access")' : Refused(t)'
        BY DEF NobodyIsIn
      <4>1. CASE \E r \in Requests : At(r, "reset", "revoked")
        <5>1. tokens' = tokens /\ \A t \in Issued("access") : Refused(t)
          BY <2>2, <4>1 DEF NothingIssuedMeanwhile, SessionsAreEnded, NobodyIsIn
        <5> QED
          BY <1>1, <5>1, AccessRefused
      <4>2. CASE EndSessions(RefreshLife) /\ tokens' = tokens /\ now' = now
        BY <4>2, EndSessionsRefuses
      <4> QED
        BY <1>1, <4>1, <4>2, RevokedComesFrom
    <3>2. ASSUME NEW t \in Issued("access")', NEW u \in Nat, u <= Len(tokens), t <= u,
                 \A s \in Issued("access") : s <= u => Refused(s)
          PROVE  Refused(t)'
      <4>1. t \in DOMAIN tokens /\ t \in Issued("access")
        <5>1. t \in DOMAIN tokens' /\ tokens'[t].kind = "access"
          BY DEF Issued
        <5>2. t \in DOMAIN tokens
          BY <2>0, <3>2, <5>1
        <5>3. tokens'[t] = tokens[t]
          BY <1>1, <5>2, TokensGrow
        <5> QED
          BY <5>1, <5>2, <5>3 DEF Issued
      <4>2. Refused(t)
        BY <3>2, <4>1
      <4> QED
        BY <1>1, <4>1, <4>2, Evolution, TokensGrow, RefusedStays
    <3>3. ASSUME changes' = changes
          PROVE  SessionsAreEnded'
      <4>1. \A n \in DOMAIN changes' : changes'[n].upto <= Len(tokens')
        BY <2>0, <3>3 DEF SessionsAreEnded
      <4>2. ASSUME NEW n \in DOMAIN changes', NEW t \in Issued("access")', t <= changes'[n].upto
            PROVE  Refused(t)'
        <5>1. /\ changes[n].upto \in Nat /\ changes[n].upto <= Len(tokens)
              /\ \A s \in Issued("access") : s <= changes[n].upto => Refused(s)
          BY <2>0, <3>3 DEF SessionsAreEnded, ChangeEndsSessions
        <5> QED
          BY <3>2, <3>3, <4>2, <5>1
      <4> QED
        BY <3>1, <4>1, <4>2 DEF SessionsAreEnded, ChangeEndsSessions
    <3>4. ASSUME NEW r \in Requests, At(r, "reset", "revoked"), tokens' = tokens,
                 changes' = Append(changes, [by |-> req[r].token, upto |-> Len(tokens)])
          PROVE  SessionsAreEnded'
      <4> DEFINE c == [by |-> req[r].token, upto |-> Len(tokens)]
                 last == Len(changes) + 1
      <4>1. c \in Change /\ c.upto = Len(tokens)
        <5>1. req[r].token \in DOMAIN tokens
          BY <3>4, Held DEF At, Issued
        <5> QED
          BY <5>1, Sizes DEF Change, Ids
      <4> HIDE DEF c
      <4>2. /\ DOMAIN changes' = DOMAIN changes \union {last} /\ changes'[last] = c
            /\ \A m \in DOMAIN changes : changes'[m] = changes[m]
        <5>1. /\ DOMAIN changes' = 1..(Len(changes) + 1) /\ changes'[Len(changes) + 1] = c
              /\ \A m \in 1..Len(changes) : changes'[m] = changes[m]
          BY <2>0, <3>4, <4>1, OneAppended DEF c
        <5> QED
          BY <2>0, <5>1
      <4> HIDE DEF last
      <4>3. \A n \in DOMAIN changes' : changes'[n].upto <= Len(tokens')
        BY <2>0, <3>4, <4>1, <4>2 DEF SessionsAreEnded
      <4>4. \A t \in Issued("access")' : Refused(t)'
        <5>1. \A t \in Issued("access") : Refused(t)
          BY <3>4 DEF SessionsAreEnded, NobodyIsIn
        <5> QED
          BY <1>1, <3>4, <5>1, AccessRefused
      <4> QED
        BY <3>1, <4>3, <4>4 DEF SessionsAreEnded, ChangeEndsSessions
    <3> QED
      BY <1>1, <3>3, <3>4, ResetsMove
  <2> QED
    BY <2>1, <2>2
<1>2. CASE UNCHANGED vars
  BY <1>2 DEF vars, resetVars, SessionsAreEnded, NobodyIsIn, At, ChangeEndsSessions, Issued,
     Refused, Expired, Blacklisted, SessionEnded
<1> QED
  BY <1>1, <1>2

(* A committed change of password has ended every access token issued before it,
   as long as nothing is issued between the end of the sessions and the commit. *)
THEOREM ChangeEndsAllSessions ==
    Spec /\ [][NothingIssuedMeanwhile]_vars => []ChangeEndsSessions
<1>1. Init => SessionsAreEnded
  <2> SUFFICES ASSUME Init
               PROVE  SessionsAreEnded
    OBVIOUS
  <2> QED
    BY NullIsRequest DEF Init, SessionsAreEnded, NobodyIsIn, At, ChangeEndsSessions
<1>2. IInv /\ SessionsAreEnded /\ [Next]_vars /\ [NothingIssuedMeanwhile]_vars => SessionsAreEnded'
  BY SessionsStayEnded
<1>3. SessionsAreEnded => ChangeEndsSessions
  BY DEF SessionsAreEnded
<1> QED
  BY <1>1, <1>2, <1>3, Invariance, PTL DEF Spec

-----------------------------------------------------------------------------
(* The renewal of the cookie *)

(* A refresh token is issued for login g, and is the newest of it. *)
IssuedFor(g) ==
    \E t : /\ t \notin DOMAIN tokens /\ Issued("refresh")' = Issued("refresh") \union {t}
           /\ tokens'[t].of = g /\ IsNewest(t, g)'

(* None is issued; who begins to renew shows one that is good. *)
NothingRenewed ==
    /\ Issued("refresh")' = Issued("refresh")
    /\ \A q \in Requests : At(q, "refresh", "valid")' =>
          \/ At(q, "refresh", "valid") /\ req'[q].token = req[q].token
          \/ req'[q].token \in Issued("refresh") /\ ~Refused(req'[q].token)

(* One is issued for a new login g. *)
Opened(g) == g \notin DOMAIN tokens /\ IssuedFor(g) /\ req' = req

(* One is issued in place of the old one of login g: the one that was shown, or
   the newest.  The old one is refused, but for a write that failed. *)
Rotates(r, g, old) ==
    /\ req[r].op \in {"refresh", "switch"} /\ req' = [req EXCEPT ![r] = IdleRequest]
    /\ g = tokens[req[r].token].of /\ IssuedFor(g)
    /\ \/ At(r, "refresh", "valid") /\ old = req[r].token
       \/ IsNewest(old, g)
    /\ Refused(old)' \/ lapses' = lapses + 1

LEMMA GivenUpIsRefused ==
    ASSUME IInv, NEW t \in DOMAIN tokens, gone' = GiveUp(t), now' = now,
           t \in DOMAIN tokens', tokens'[t] = tokens[t]
    PROVE  Refused(t)'
<1>1. CASE Expired(t)
  BY <1>1 DEF Expired, Refused
<1>2. CASE ~Expired(t)
  <2>1. gone'[t] > now
    <3>1. tokens[t].exp \in Nat /\ now \in Nat /\ gone \in [Ids -> Nat] /\ t \in Ids
      BY Basics
    <3>2. gone' = [gone EXCEPT ![t] = now + Remaining(t)] /\ now + Remaining(t) > now
      BY <1>2, <3>1 DEF GiveUp, Remaining, Expired
    <3> QED
      BY <3>1, <3>2
  <2> QED
    BY <2>1, Basics DEF Refused, Blacklisted
<1> QED
  BY <1>1, <1>2

LEMMA OneGives ==
    ASSUME IInv, NEW a \in Token, a.kind # "refresh", tokens' = Append(tokens, a)
    PROVE  Issued("refresh")' = Issued("refresh")
<1>1. /\ DOMAIN tokens' = 1..(Len(tokens) + 1) /\ tokens'[Len(tokens) + 1] = a
      /\ \A t \in 1..Len(tokens) : tokens'[t] = tokens[t]
  BY Basics, OneAppended
<1>2. /\ \A t \in DOMAIN tokens' : t \in DOMAIN tokens \/ tokens'[t] = a
      /\ \A t \in DOMAIN tokens : t \in DOMAIN tokens' /\ tokens'[t] = tokens[t]
  BY <1>1, Sizes
<1> QED
  BY <1>2 DEF Issued

LEMMA PairIsIssuedFor ==
    ASSUME IInv, Len(tokens) + 2 <= MaxTokens, NEW g \in 1..(Len(tokens) + 1),
           tokens' = tokens \o Pair(g)
    PROVE  IssuedFor(g)
<1>1. PICK n \in Nat : n = Len(tokens)
  BY Sizes
<1>2. /\ n + 2 \notin DOMAIN tokens /\ Issued("refresh")' = Issued("refresh") \union {n + 2}
      /\ tokens'[n + 2].of = g /\ IsNewest(n + 2, g)'
  BY <1>1, PairGives
<1> QED
  BY <1>2 DEF IssuedFor

LEMMA RenewalsMove ==
    ASSUME IInv, Next
    PROVE  /\ lapses' = lapses \/ lapses' = lapses + 1
           /\ \/ NothingRenewed
              \/ \E g : Opened(g)
              \/ \E r \in Requests : \E g, old : Rotates(r, g, old)
<1> DEFINE Goal == \/ NothingRenewed
                   \/ \E g : Opened(g)
                   \/ \E r \in Requests : \E g, old : Rotates(r, g, old)
           Begun == \A q \in Requests : At(q, "refresh", "valid")' =>
                       \/ At(q, "refresh", "valid") /\ req'[q].token = req[q].token
                       \/ req'[q].token \in Issued("refresh") /\ ~Refused(req'[q].token)
<1>0. req \in [Requests -> Request] /\ IdleRequest.op = "none"
  BY Basics, NullIsRequest
<1>1. lapses' = lapses \/ lapses' = lapses + 1
  BY DEF Next, Tick, RequestNext, Login, RefreshReused, RefreshRotate, LogoutRefresh, Switch, Forgot,
     VerifyRight, VerifyLastWrong, VerifyTtl, VerifyCount, VerifyRead, ResetSpend, ResetRevoke,
     ResetCommit, Abort, RefreshCheck, LogoutAccess, SwitchCheck, ResetCheck
<1>2. ASSUME tokens' = tokens, Begun
      PROVE  Goal
  <2>1. Issued("refresh")' = Issued("refresh")
    BY <1>2 DEF Issued
  <2> QED
    BY <1>2, <2>1 DEF NothingRenewed
<1>3. ASSUME req' = req
      PROVE  Begun
  BY <1>3 DEF At
<1>4. ASSUME NEW r \in Requests, req' = [req EXCEPT ![r] = IdleRequest]
      PROVE  Begun
  BY <1>0, <1>4 DEF At
<1>5. CASE Tick
  BY <1>2, <1>3, <1>5 DEF Tick
<1>6. ASSUME NEW r \in Requests, RequestNext(r)
      PROVE  Goal
  <2>1. CASE Login(r)
    <3>1. PICK g \in 1..(Len(tokens) + 1) : g = Len(tokens) + 1
      BY Sizes
    <3>2. g \notin DOMAIN tokens /\ Len(tokens) + 2 <= MaxTokens
      <4>1. Len(tokens) + 2 <= MaxTokens
        BY <2>1, RoomOf DEF Login
      <4> QED
        BY <3>1, <4>1, Sizes
    <3>3. tokens' = tokens \o Pair(g) /\ req' = req
      BY <2>1, <3>1 DEF Login
    <3>4. IssuedFor(g)
      BY <3>2, <3>3, PairIsIssuedFor
    <3> QED
      BY <3>2, <3>3, <3>4 DEF Opened
  <2>2. CASE RefreshRotate(r)
    <3>1. /\ req[r].op = "refresh" /\ At(r, "refresh", "valid") /\ req' = [req EXCEPT ![r] = IdleRequest]
          /\ now' = now /\ tokens' = tokens \o Pair(tokens[req[r].token].of)
      BY <2>2 DEF RefreshRotate, At, Finish
    <3>2. PICK old \in Issued("refresh") : old = req[r].token
      BY <3>1, Held
    <3>3. old \in DOMAIN tokens /\ tokens[old].of \in DOMAIN tokens
      BY <3>2 DEF IInv, TokensOK, Issued
    <3>4. PICK g \in 1..(Len(tokens) + 1) : g = tokens[req[r].token].of
      BY <3>2, <3>3, Sizes
    <3>5. Len(tokens) + 2 <= MaxTokens
      BY <3>1, RoomForPair
    <3>6. IssuedFor(g)
      BY <3>1, <3>4, <3>5, PairIsIssuedFor
    <3>7. CASE gone' = GiveUp(old)
      <4>1. Refused(old)'
        BY <1>6, <3>1, <3>3, <3>7, GivenUpIsRefused, TokensGrow
      <4> QED
        BY <3>1, <3>2, <3>4, <3>6, <4>1 DEF Rotates
    <3>8. CASE lapses' = lapses + 1
      BY <3>1, <3>2, <3>4, <3>6, <3>8 DEF Rotates
    <3> QED
      BY <2>2, <3>2, <3>7, <3>8 DEF RefreshRotate, Rotated
  <2>3. CASE Switch(r)
    <3>1. /\ req[r].op = "switch" /\ req' = [req EXCEPT ![r] = IdleRequest] /\ now' = now
      BY <2>3 DEF Switch, At, Finish
    <3>2. PICK t \in Issued("access") : t = req[r].token
      BY <3>1, Held
    <3>3. t \in DOMAIN tokens /\ tokens[t].of \in DOMAIN tokens
      BY <3>2 DEF IInv, TokensOK, Issued
    <3>4. PICK g \in 1..(Len(tokens) + 1) : g = tokens[req[r].token].of
      BY <3>2, <3>3, Sizes
    <3>5. Len(tokens) + 2 <= MaxTokens
      BY <3>1, RoomForPair
    <3>6. PICK old \in DOMAIN tokens : old = Newest(g) /\ IsNewest(old, g)
      BY <3>2, <3>4, NewestIs
    <3>7. CASE tokens' = tokens \o Pair(g) /\ gone' = GiveUp(old)
      <4>1. IssuedFor(g)
        BY <3>4, <3>5, <3>7, PairIsIssuedFor
      <4>2. Refused(old)'
        BY <1>6, <3>1, <3>6, <3>7, GivenUpIsRefused, TokensGrow
      <4> QED
        BY <3>1, <3>4, <3>6, <4>1, <4>2 DEF Rotates
    <3>8. CASE tokens' = Append(tokens, Claim("access", AccessLife, g))
      <4>1. g \in 1..(MaxTokens + MaxCodes) /\ AccessLife \in Nat
        BY <3>3, <3>4, <3>5, Sizes
      <4> DEFINE a == Claim("access", AccessLife, g)
      <4>2. a \in Token /\ a.kind # "refresh"
        <5>1. now \in 0..MaxNow /\ now \in Nat
          BY Basics
        <5> QED
          BY <4>1, <5>1 DEF Claim, Token
      <4>3. Issued("refresh")' = Issued("refresh")
        BY <3>8, <4>2, OneGives
      <4> QED
        BY <1>4, <3>1, <4>3 DEF NothingRenewed
    <3> QED
      BY <2>3, <3>4, <3>6, <3>7, <3>8 DEF Switch, Rotated
  <2>4. CASE VerifyRight(r)
    <3> DEFINE a == Claim("reset", ResetLife, MaxTokens + req[r].saw.nth)
    <3>1. /\ req' = [req EXCEPT ![r] = IdleRequest] /\ tokens' = Append(tokens, a)
          /\ req[r].saw.nth \in 1..mailed
      BY <2>4, Held DEF VerifyRight, At, Finish
    <3>2. /\ MaxTokens + req[r].saw.nth \in 1..(MaxTokens + MaxCodes)
      BY <3>1, Sizes
    <3>3. a \in Token /\ a.kind # "refresh"
      BY <3>2, Basics DEF Claim, Token
    <3> HIDE DEF a
    <3>4. Issued("refresh")' = Issued("refresh")
      BY <3>1, <3>3, OneGives
    <3> QED
      BY <1>4, <3>1, <3>4 DEF NothingRenewed
  <2>5. CASE RefreshReused(r) \/ LogoutRefresh(r) \/ VerifyLastWrong(r) \/ VerifyCount(r)
             \/ ResetCommit(r) \/ Abort(r) \/ Forgot(r)
    <3>1. /\ tokens' = tokens
          /\ req' = req \/ req' = [req EXCEPT ![r] = IdleRequest]
      BY <2>5 DEF RefreshReused, LogoutRefresh, VerifyLastWrong, VerifyCount, ResetCommit, Abort,
         Forgot, Finish
    <3> QED
      BY <1>2, <1>3, <1>4, <3>1
  <2>6. CASE VerifyTtl(r) \/ ResetSpend(r) \/ ResetRevoke(r)
    <3>1. /\ tokens' = tokens /\ req[r].op # "refresh"
          /\ \/ req' = [req EXCEPT ![r] = IdleRequest]
             \/ req' = [req EXCEPT ![r] = [req[r] EXCEPT !.step = "timed", !.ttl = code.until - now]]
             \/ \E step : req' = [req EXCEPT ![r].step = step]
      BY <2>6 DEF VerifyTtl, ResetSpend, ResetRevoke, Goto, At
    <3>2. req'[r].op # "refresh" /\ \A q \in Requests \ {r} : req'[q] = req[q]
      <4>1. req[r] \in Request /\ req'[r].op \in {"none", req[r].op}
        BY <1>0, <3>1 DEF Request
      <4> QED
        BY <1>0, <3>1, <4>1
    <3>3. Begun
      BY <3>2 DEF At
    <3> QED
      BY <1>2, <3>1, <3>3
  <2>7. CASE \E entered \in Chances : VerifyRead(r, entered)
    <3>1. /\ tokens' = tokens /\ req'[r].op = "verify"
          /\ \A q \in Requests \ {r} : req'[q] = req[q]
      BY <1>0, <2>7 DEF VerifyRead, IdleRequest
    <3>2. Begun
      BY <3>1 DEF At
    <3> QED
      BY <1>2, <3>1, <3>2
  <2>8. ASSUME NEW t \in Ids, LogoutAccess(r, t) \/ SwitchCheck(r, t) \/ ResetCheck(r, t)
        PROVE  Goal
    <3>1. tokens' = tokens /\ \E op \in {"logout", "switch", "reset"} : \E step : Begin(r, op, step, t)
      BY <2>8 DEF LogoutAccess, SwitchCheck, ResetCheck
    <3>2. PICK op \in {"logout", "switch", "reset"} : \E step : Begin(r, op, step, t)
      BY <3>1
    <3>3. req'[r].op = op /\ \A q \in Requests \ {r} : req'[q] = req[q]
      BY <1>0, <3>2 DEF Begin, IdleRequest
    <3>4. Begun
      BY <3>3 DEF At
    <3> QED
      BY <1>2, <3>1, <3>4
  <2>9. ASSUME NEW t \in Ids, RefreshCheck(r, t)
        PROVE  Goal
    <3>1. /\ tokens' = tokens /\ t \in Issued("refresh") /\ ~Expired(t)
          /\ Begin(r, "refresh", IF Blacklisted(t) THEN "reused" ELSE "valid", t)
      BY <2>9 DEF RefreshCheck
    <3>2. /\ req'[r].token = t /\ req'[r].step = IF Blacklisted(t) THEN "reused" ELSE "valid"
          /\ \A q \in Requests \ {r} : req'[q] = req[q]
      BY <1>0, <3>1 DEF Begin, IdleRequest
    <3>3. tokens[t].kind = "refresh"
      BY <3>1 DEF Issued
    <3>4. At(r, "refresh", "valid")' => ~Refused(t)
      BY <3>1, <3>2, <3>3 DEF At, Refused
    <3>5. Begun
      BY <3>1, <3>2, <3>4 DEF At
    <3> QED
      BY <1>2, <3>1, <3>5
  <2> QED
    BY <1>6, <2>1, <2>2, <2>3, <2>4, <2>5, <2>6, <2>7, <2>8, <2>9 DEF RequestNext
<1> QED
  BY <1>1, <1>5, <1>6 DEF Next

(* The good refresh tokens of a login become fewer, but for a new one. *)
LEMMA GoodShrinks ==
    ASSUME IInv, Next, NEW g,
           \A t \in Issued("refresh")' : t \in Issued("refresh") \/ tokens'[t].of # g
    PROVE  Good(g)' \subseteq Good(g)
<1> SUFFICES ASSUME NEW t \in Good(g)'
             PROVE  t \in Good(g)
  OBVIOUS
<1>1. t \in Issued("refresh")' /\ tokens'[t].of = g /\ ~Refused(t)'
  BY DEF Good
<1>2. t \in Issued("refresh") /\ t \in DOMAIN tokens
  BY <1>1 DEF Issued
<1>3. tokens'[t] = tokens[t]
  BY <1>2, TokensGrow
<1>4. ~Refused(t)
  BY <1>1, <1>2, Evolution, RefusedStays, TokensGrow
<1> QED
  BY <1>1, <1>2, <1>3, <1>4 DEF Good

LEMMA GoodFinite ==
    ASSUME IInv, NEW g, NEW t
    PROVE  /\ IsFiniteSet(Good(g)) /\ IsFiniteSet(Good(g) \ {t})
           /\ Cardinality(Good(g)) \in Nat /\ Cardinality(Good(g) \ {t}) \in Nat
           /\ Cardinality(Good(g)) <= Cardinality(Good(g) \ {t}) + 1
           /\ t \in Good(g) => Cardinality(Good(g) \ {t}) = Cardinality(Good(g)) - 1
<1>1. Good(g) \subseteq 1..Len(tokens)
  BY Sizes DEF Good, Issued
<1>2. IsFiniteSet(1..Len(tokens))
  BY Sizes, FS_Interval
<1>3. IsFiniteSet(Good(g)) /\ IsFiniteSet(Good(g) \ {t})
  BY <1>1, <1>2, FS_Subset
<1>4. Cardinality(Good(g)) \in Nat /\ Cardinality(Good(g) \ {t}) \in Nat
  BY <1>3, FS_CardinalityType
<1>5. CASE t \in Good(g)
  BY <1>3, <1>4, <1>5, FS_RemoveElement
<1>6. CASE t \notin Good(g)
  <2>1. Good(g) \ {t} = Good(g)
    BY <1>6
  <2> QED
    BY <1>3, <1>4, <1>6, <2>1
<1> QED
  BY <1>3, <1>4, <1>5, <1>6

(* One good token of a login, and one more for each failed write. *)
LEMMA FewGoodInAll ==
    ASSUME IInv, FewGood, NEW t \in Issued("refresh"), NEW g, g = tokens[t].of
    PROVE  Cardinality(Good(g)) <= lapses + 1
<1>1. PICK u \in DOMAIN tokens : IsNewest(u, g)
  BY DEF IInv, TokensOK, Issued
<1>2. Cardinality(Good(g) \ {u}) <= lapses
  BY <1>1 DEF FewGood, IsNewest
<1>3. /\ Cardinality(Good(g)) \in Nat /\ Cardinality(Good(g) \ {u}) \in Nat
      /\ Cardinality(Good(g)) <= Cardinality(Good(g) \ {u}) + 1
  BY GoodFinite
<1>4. lapses \in Nat
  BY Basics
<1> QED
  BY <1>2, <1>3, <1>4

LEMMA FewGoodStays ==
    ASSUME IInv, FewGood, RenewalsFit, Next
    PROVE  FewGood'
<1>0. /\ lapses \in Nat /\ lapses' \in Nat /\ lapses <= lapses'
      /\ \A t \in DOMAIN tokens : t \in DOMAIN tokens' /\ tokens'[t] = tokens[t]
      /\ IInv'
  BY Basics, RenewalsMove, TokensGrow, NextKeepsOK
<1> SUFFICES ASSUME NEW t, NEW g, IsNewest(t, g)'
             PROVE  Cardinality(Good(g) \ {t})' <= lapses'
  BY DEF FewGood
<1>1. ASSUME NEW B, IsFiniteSet(B), Cardinality(B) <= lapses', (Good(g) \ {t})' \subseteq B
      PROVE  Cardinality(Good(g) \ {t})' <= lapses'
  <2>1. /\ Cardinality(Good(g) \ {t})' <= Cardinality(B)
        /\ Cardinality(Good(g) \ {t})' \in Nat /\ Cardinality(B) \in Nat
    BY <1>1, FS_Subset, FS_CardinalityType
  <2> QED
    BY <1>0, <1>1, <2>1
<1>2. CASE \A s \in Issued("refresh")' : s \in Issued("refresh") \/ tokens'[s].of # g
  <2>1. t \in Issued("refresh")' /\ tokens'[t].of = g
    BY DEF IsNewest
  <2>2. t \in Issued("refresh") /\ tokens[t].of = g
    BY <1>0, <1>2, <2>1 DEF Issued
  <2>3. IsNewest(t, g)
    BY <1>0, <2>2 DEF IsNewest, Issued
  <2>4. Cardinality(Good(g) \ {t}) <= lapses
    BY <2>2, <2>3 DEF FewGood
  <2>5. Good(g)' \subseteq Good(g)
    BY <1>2, GoodShrinks
  <2>6. Cardinality(Good(g) \ {t}) \in Nat /\ IsFiniteSet(Good(g) \ {t})
    BY GoodFinite
  <2>7. Cardinality(Good(g) \ {t}) <= lapses'
    BY <1>0, <2>4, <2>6
  <2> QED
    BY <1>1, <2>5, <2>6, <2>7
<1>3. ASSUME IssuedFor(g)
      PROVE  (Good(g) \ {t})' \subseteq {s \in Good(g) : ~Refused(s)'}
  <2>1. PICK u : /\ u \notin DOMAIN tokens /\ Issued("refresh")' = Issued("refresh") \union {u}
                 /\ tokens'[u].of = g /\ IsNewest(u, g)'
    BY <1>3 DEF IssuedFor
  <2>2. u = t
    <3>1. u \in Nat /\ t \in Nat
      BY <2>1, TokensGrow DEF IsNewest, Issued
    <3>2. u <= t /\ t <= u
      BY <2>1 DEF IsNewest
    <3> QED
      BY <3>1, <3>2
  <2> SUFFICES ASSUME NEW s \in Good(g)', s # t
               PROVE  s \in Good(g) /\ ~Refused(s)'
    OBVIOUS
  <2>3. s \in Issued("refresh")' /\ tokens'[s].of = g /\ ~Refused(s)'
    BY DEF Good
  <2>4. s \in Issued("refresh") /\ s \in DOMAIN tokens
    BY <2>1, <2>2, <2>3 DEF Issued
  <2>5. ~Refused(s)
    BY <2>3, <2>4, Evolution, RefusedStays, TokensGrow
  <2> QED
    BY <1>0, <2>3, <2>4, <2>5 DEF Good
<1>4. ASSUME NEW h, IssuedFor(h), h # g
      PROVE  \A s \in Issued("refresh")' : s \in Issued("refresh") \/ tokens'[s].of # g
  BY <1>4 DEF IssuedFor
<1>5. CASE NothingRenewed
  BY <1>2, <1>5 DEF NothingRenewed
<1>6. ASSUME Opened(g)
      PROVE  Cardinality(Good(g) \ {t})' <= lapses'
  <2>1. Good(g) = {}
    BY <1>6 DEF Opened, Good, Issued, IInv, TokensOK
  <2>2. IsFiniteSet({}) /\ Cardinality({}) = 0
    BY FS_EmptySet
  <2>3. (Good(g) \ {t})' \subseteq {}
    BY <1>3, <1>6, <2>1 DEF Opened
  <2> QED
    BY <1>0, <1>1, <2>2, <2>3
<1>7. ASSUME NEW r \in Requests, NEW old, Rotates(r, g, old)
      PROVE  Cardinality(Good(g) \ {t})' <= lapses'
  <2>1. (Good(g) \ {t})' \subseteq {s \in Good(g) : ~Refused(s)'}
    BY <1>3, <1>7 DEF Rotates
  <2>2. \E s \in Issued("refresh") : tokens[s].of = g
    <3>1. CASE At(r, "refresh", "valid")
      BY <1>7, <3>1, Held DEF Rotates, At
    <3>2. CASE IsNewest(old, g)
      BY <3>2 DEF IsNewest
    <3> QED
      BY <1>7, <3>1, <3>2 DEF Rotates
  <2>3. CASE Refused(old)'
    <3>1. Cardinality(Good(g) \ {old}) <= lapses
      <4>1. CASE At(r, "refresh", "valid") /\ old = req[r].token
        BY <1>7, <4>1 DEF RenewalsFit, Rotates
      <4>2. CASE IsNewest(old, g)
        BY <4>2 DEF FewGood, IsNewest
      <4> QED
        BY <1>7, <4>1, <4>2 DEF Rotates
    <3>2. (Good(g) \ {t})' \subseteq Good(g) \ {old}
      BY <2>1, <2>3
    <3>3. Cardinality(Good(g) \ {old}) \in Nat /\ IsFiniteSet(Good(g) \ {old})
      BY GoodFinite
    <3>4. Cardinality(Good(g) \ {old}) <= lapses'
      BY <1>0, <3>1, <3>3
    <3> QED
      BY <1>1, <3>2, <3>3, <3>4
  <2>4. CASE lapses' = lapses + 1
    <3>1. Cardinality(Good(g)) <= lapses'
      BY <2>2, <2>4, FewGoodInAll
    <3>2. (Good(g) \ {t})' \subseteq Good(g)
      BY <2>1
    <3> QED
      BY <1>1, <3>1, <3>2, GoodFinite
  <2> QED
    BY <1>7, <2>3, <2>4 DEF Rotates
<1>8. ASSUME NEW h, Opened(h)
      PROVE  Cardinality(Good(g) \ {t})' <= lapses'
  BY <1>2, <1>4, <1>6, <1>8 DEF Opened
<1>9. ASSUME NEW r \in Requests, NEW h, NEW old, Rotates(r, h, old)
      PROVE  Cardinality(Good(g) \ {t})' <= lapses'
  BY <1>2, <1>4, <1>7, <1>9 DEF Rotates
<1> QED
  BY <1>5, <1>8, <1>9, RenewalsMove

LEMMA RenewalsStayFit ==
    ASSUME IInv, FewGood, RenewalsFit, RenewalsApart, Next
    PROVE  RenewalsFit'
<1>0. /\ lapses \in Nat /\ lapses' \in Nat /\ lapses <= lapses'
      /\ \A t \in DOMAIN tokens : t \in DOMAIN tokens' /\ tokens'[t] = tokens[t]
      /\ req \in [Requests -> Request] /\ IdleRequest.op = "none"
  BY Basics, RenewalsMove, TokensGrow, NullIsRequest
<1> SUFFICES ASSUME NEW q \in Requests, At(q, "refresh", "valid")'
             PROVE  Cardinality(Good(tokens[req[q].token].of) \ {req[q].token})' <= lapses'
  BY DEF RenewalsFit
<1>1. ASSUME NEW t \in Issued("refresh"), NEW g, t = req'[q].token, g = tokens[t].of,
             Cardinality(Good(g) \ {t}) <= lapses,
             \A s \in Issued("refresh")' : s \in Issued("refresh") \/ tokens'[s].of # g
      PROVE  Cardinality(Good(tokens[req[q].token].of) \ {req[q].token})' <= lapses'
  <2>1. Good(g)' \ {t} \subseteq Good(g) \ {t}
    BY <1>1, GoodShrinks
  <2>2. /\ Cardinality(Good(g)' \ {t}) <= Cardinality(Good(g) \ {t})
        /\ Cardinality(Good(g)' \ {t}) \in Nat /\ Cardinality(Good(g) \ {t}) \in Nat
    BY <2>1, GoodFinite, FS_Subset, FS_CardinalityType
  <2>3. tokens'[req'[q].token].of = g
    BY <1>0, <1>1 DEF Issued
  <2>4. Cardinality(Good(g)' \ {t}) <= lapses'
    BY <1>0, <1>1, <2>2
  <2>5. Good(tokens[req[q].token].of)' = Good(g)'
    BY <2>3 DEF Good
  <2> QED
    BY <1>1, <2>4, <2>5
<1>2. ASSUME At(q, "refresh", "valid"), req'[q].token = req[q].token,
             NEW t \in Issued("refresh"), NEW g, t = req'[q].token, g = tokens[t].of
      PROVE  Cardinality(Good(g) \ {t}) <= lapses
  BY <1>2 DEF RenewalsFit
<1>3. ASSUME NEW t \in Issued("refresh"), NEW g, ~Refused(t), g = tokens[t].of
      PROVE  Cardinality(Good(g) \ {t}) <= lapses
  <2>1. t \in Good(g)
    BY <1>3 DEF Good
  <2>2. Cardinality(Good(g)) <= lapses + 1
    BY <1>3, FewGoodInAll
  <2>3. /\ Cardinality(Good(g) \ {t}) = Cardinality(Good(g)) - 1
        /\ Cardinality(Good(g)) \in Nat
    BY <2>1, GoodFinite
  <2> QED
    BY <1>0, <2>2, <2>3
<1>4. CASE NothingRenewed
  <2>1. req'[q].token \in Issued("refresh")
    BY <1>4, Held DEF NothingRenewed, At
  <2>2. PICK t \in Issued("refresh") : t = req'[q].token
    BY <2>1
  <2>3. PICK g : g = tokens[t].of
    OBVIOUS
  <2>4. Cardinality(Good(g) \ {t}) <= lapses
    BY <1>2, <1>3, <1>4, <2>2, <2>3 DEF NothingRenewed
  <2> QED
    BY <1>1, <1>4, <2>2, <2>3, <2>4 DEF NothingRenewed
<1>5. ASSUME NEW h, IssuedFor(h), At(q, "refresh", "valid"), req'[q].token = req[q].token,
             tokens[req[q].token].of # h
      PROVE  Cardinality(Good(tokens[req[q].token].of) \ {req[q].token})' <= lapses'
  <2>1. PICK t \in Issued("refresh") : t = req'[q].token
    BY <1>5, Held DEF At
  <2>2. PICK g : g = tokens[t].of
    OBVIOUS
  <2>3. Cardinality(Good(g) \ {t}) <= lapses
    BY <1>2, <1>5, <2>1, <2>2
  <2>4. \A s \in Issued("refresh")' : s \in Issued("refresh") \/ tokens'[s].of # g
    BY <1>5, <2>1, <2>2 DEF IssuedFor
  <2> QED
    BY <1>1, <2>1, <2>2, <2>3, <2>4
<1>6. ASSUME NEW h, Opened(h)
      PROVE  Cardinality(Good(tokens[req[q].token].of) \ {req[q].token})' <= lapses'
  <2>1. At(q, "refresh", "valid") /\ req'[q].token = req[q].token
    BY <1>6 DEF Opened, At
  <2>2. tokens[req[q].token].of \in DOMAIN tokens
    BY <2>1, Held DEF At, IInv, TokensOK, Issued
  <2> QED
    BY <1>5, <1>6, <2>1, <2>2 DEF Opened
<1>7. ASSUME NEW r \in Requests, NEW h, NEW old, Rotates(r, h, old)
      PROVE  Cardinality(Good(tokens[req[q].token].of) \ {req[q].token})' <= lapses'
  <2>1. q # r
    BY <1>0, <1>7 DEF Rotates, At
  <2>2. req'[q] = req[q]
    BY <1>0, <1>7, <2>1 DEF Rotates
  <2>3. At(q, "refresh", "valid") /\ req'[q].token = req[q].token
    BY <2>2 DEF At
  <2>4. tokens[req[q].token].of # h
    BY <1>7, <2>1, <2>3 DEF RenewalsApart, Renewing, Rotates, At
  <2> QED
    BY <1>5, <1>7, <2>3, <2>4 DEF Rotates
<1> QED
  BY <1>4, <1>6, <1>7, RenewalsMove

(* One login has one good refresh token, and one more for each failed write, as
   long as no two requests renew the cookie of the same login at the same time:
   then the token that is given up is always the last one that was good. *)
THEOREM OneRefreshForOneLogin == Spec /\ []RenewalsApart => []OneRefreshPerLogin
<1>1. Init => FewGood /\ RenewalsFit
  <2> SUFFICES ASSUME Init
               PROVE  FewGood /\ RenewalsFit
    OBVIOUS
  <2> QED
    BY NullIsRequest DEF Init, FewGood, RenewalsFit, At, Issued
<1>2. IInv /\ RenewalsApart /\ (FewGood /\ RenewalsFit) /\ [Next]_vars => (FewGood /\ RenewalsFit)'
  <2> SUFFICES ASSUME IInv, RenewalsApart, FewGood, RenewalsFit, [Next]_vars
               PROVE  FewGood' /\ RenewalsFit'
    OBVIOUS
  <2>1. CASE Next
    BY <2>1, FewGoodStays, RenewalsStayFit
  <2>2. CASE UNCHANGED vars
    BY <2>2 DEF vars, resetVars, FewGood, RenewalsFit, At, Good, IsNewest, Issued, Refused, Expired,
       Blacklisted, SessionEnded
  <2> QED
    BY <2>1, <2>2
<1>3. IInv /\ FewGood => OneRefreshPerLogin
  <2> SUFFICES ASSUME IInv, FewGood, NEW of \in {tokens[t].of : t \in Issued("refresh")}
               PROVE  Cardinality(Good(of)) <= 1 + lapses
    BY DEF OneRefreshPerLogin, Good
  <2>1. PICK t \in Issued("refresh") : of = tokens[t].of
    OBVIOUS
  <2>2. Cardinality(Good(of)) <= lapses + 1
    BY <2>1, FewGoodInAll
  <2> QED
    BY <2>2, Basics
<1> QED
  BY <1>1, <1>2, <1>3, Invariance, PTL DEF Spec

-----------------------------------------------------------------------------
(* One request at a time *)

OneRequest == \A q, r \in Requests : q = r

LEMMA NothingElseHappens ==
    ASSUME OneRequest, Next
    PROVE  NothingIssuedMeanwhile
<1> SUFFICES ASSUME NEW r \in Requests, At(r, "reset", "revoked")
             PROVE  tokens' = tokens
  BY DEF NothingIssuedMeanwhile
<1>1. CASE Tick
  BY <1>1 DEF Tick
<1>2. ASSUME RequestNext(r)
      PROVE  tokens' = tokens
  BY <1>2 DEF RequestNext, Login, RefreshReused, RefreshRotate, LogoutRefresh, Switch, Forgot,
     VerifyRight, VerifyLastWrong, VerifyTtl, VerifyCount, VerifyRead, ResetSpend, ResetRevoke,
     ResetCommit, Abort, RefreshCheck, LogoutAccess, SwitchCheck, ResetCheck, At, Idle
<1> QED
  BY <1>1, <1>2 DEF Next, OneRequest

(* With one request at a time nothing overlaps: all of it holds, for any number
   of tokens and codes, any lives and any failed writes and aborted requests. *)
THEOREM NothingOverlaps ==
    ASSUME OneRequest
    PROVE  Spec => [](/\ OneRefreshPerLogin /\ OneChangePerCode
                      /\ ChangeEndsSessions /\ WrongEntriesEndCode)
<1>1. EntriesApart /\ ResetsApart /\ RenewalsApart
  BY DEF OneRequest, EntriesApart, ResetsApart, RenewalsApart
<1>2. [Next]_vars => [NothingIssuedMeanwhile]_vars
  BY NothingElseHappens
<1> QED
  BY <1>1, <1>2, OneRefreshForOneLogin, OneChangeForOneCode, ChangeEndsAllSessions,
     WrongEntriesDestroyCode, PTL DEF Spec

=============================================================================
