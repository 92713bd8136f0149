----------------------------- MODULE JwtProofs -----------------------------
(***************************************************************************)
(* Proofs about Jwt, for any processes, calls, keys and claims: who gets in *)
(* with which token, whatever clock RefreshToken left behind.               *)
(***************************************************************************)
EXTENDS Jwt, TLAPS

\* What a call holds: it is at a step of its operation, unanswered until it is
\* done, and its token is one that somebody was given.
CallInv ==
    \A c \in Call :
        /\ pc[c] \in {"parse", "sign"} => call[c].op = "Refresh"
        /\ pc[c] # "done" => reply[c] = "none"
        /\ call[c].token \in tokens \cup {Malformed}

\* ParseToken returned no error to c.
Passed(c) == pc[c] = "sign" \/ Accepted(c)
PassedInv ==
    \A c \in Call : Passed(c) =>
        call[c].token \in tokens /\ call[c].token.key = Key[call[c].process]

Identities == \A t \in tokens : <<t.key, t.claims.id>> \in minted

\* The clock of a process is the epoch because of a RefreshToken there.
Refreshed(p) ==
    \E d \in Call : /\ call[d].op = "Refresh" /\ call[d].process = p
                    /\ pc[d] \notin {"idle", "start"}
ClockInv ==
    /\ \A p \in Process : timeFunc[p] = "epoch" => Refreshed(p)
    /\ \A c \in Call :
         (Passed(c) /\ call[c].token.claims.exp # 0
            /\ when[c] > call[c].token.claims.exp)
           => Refreshed(call[c].process)

Inv == TypeOK /\ CallInv /\ PassedInv /\ Identities

-----------------------------------------------------------------------------
\* No error means the right key and a time at which the token has not expired.
LEMMA ParseOk ==
    ASSUME NEW p \in Process, NEW t, ParseToken(p, t) = "ok"
    PROVE  /\ t # Malformed /\ t.key = Key[p]
           /\ ~(t.claims.exp # 0 /\ Clock(p) > t.claims.exp)
  <1>1. Errors(p, t) = {}
    BY DEF ParseToken
  <1>2. t # Malformed
    BY <1>1 DEF Errors
  <1>3. "signature" \notin Errors(p, t) /\ "expired" \notin Errors(p, t)
    BY <1>1
  <1> QED
    BY <1>2, <1>3 DEF Errors

LEMMA ParseReplies ==
    ASSUME NEW p, NEW t PROVE ParseToken(p, t) \in Replies
  BY DEF ParseToken, Replies

LEMMA TypeStep == Inv /\ [Next]_vars => TypeOK'
  <1> SUFFICES ASSUME Inv, [Next]_vars PROVE TypeOK'
    OBVIOUS
  <1> USE JwtAssumption DEF Inv, TypeOK
  <1>1. CASE Tick
    BY <1>1 DEF Tick
  <1>2. ASSUME NEW c \in Call, Start(c) PROVE TypeOK'
    BY <1>2 DEF Start
  <1>3. ASSUME NEW c \in Call, GenerateToken(c) PROVE TypeOK'
    <2>1. PICK claims \in Claims :
            /\ tokens' = tokens \cup {Sign(call[c].process, claims)}
            /\ minted' = minted \cup {<<Key[call[c].process], claims.id>>}
      BY <1>3 DEF GenerateToken
    <2>2. call[c].process \in Process /\ claims \in Claim /\ claims.id \in Nat
      BY DEF Claim
    <2>3. Key[call[c].process] \in Keys
      BY <2>2
    <2>4. Sign(call[c].process, claims) \in Token
      BY <2>2, <2>3 DEF Sign, Token
    <2>5. tokens' \subseteq Token /\ minted' \subseteq Keys \X Nat
      BY <2>1, <2>2, <2>3, <2>4
    <2> QED
      BY <1>3, <2>5 DEF GenerateToken, Answer, Replies
  <1>4. ASSUME NEW c \in Call, CrossDomain(c) PROVE TypeOK'
    BY <1>4 DEF CrossDomain, Answer, Replies
  <1>5. ASSUME NEW c \in Call, JWTAuth(c) PROVE TypeOK'
    BY <1>5, ParseReplies DEF JWTAuth, Answer
  <1>6. ASSUME NEW c \in Call, RefreshClock(c) PROVE TypeOK'
    BY <1>6 DEF RefreshClock
  <1>7. ASSUME NEW c \in Call, RefreshParse(c) PROVE TypeOK'
    BY <1>7 DEF RefreshParse, Answer, Replies
  <1>8. ASSUME NEW c \in Call, RefreshSign(c) PROVE TypeOK'
    <2>1. call[c].token \in Token
      BY <1>8 DEF RefreshSign, At, PassedInv, Passed
    <2>2. now + Day \in Nat
      OBVIOUS
    <2>3. [call[c].token.claims EXCEPT !.exp = now + Day] \in Claim
      BY <2>1, <2>2 DEF Token, Claim
    <2>4. Sign(call[c].process, [call[c].token.claims EXCEPT !.exp = now + Day]) \in Token
      BY <2>3 DEF Sign, Token
    <2> QED
      BY <1>8, <2>4 DEF RefreshSign, Answer, Replies
  <1>9. CASE UNCHANGED vars
    BY <1>9 DEF vars
  <1> QED
    BY <1>1, <1>2, <1>3, <1>4, <1>5, <1>6, <1>7, <1>8, <1>9
       DEF Next, Run, Terminating

\* Every token in circulation carries an identity somebody was asked to sign
\* with its key: a refresh takes it from a token that parsed.
LEMMA IdentityStep == Inv /\ [Next]_vars => CallInv' /\ PassedInv' /\ Identities'
  <1> SUFFICES ASSUME Inv, [Next]_vars PROVE CallInv' /\ PassedInv' /\ Identities'
    OBVIOUS
  <1> USE JwtAssumption DEF Inv, TypeOK, CallInv, PassedInv, Passed, Accepted, Identities
  <1>1. CASE Tick
    BY <1>1 DEF Tick
  <1>2. ASSUME NEW c \in Call, Start(c) PROVE CallInv' /\ PassedInv' /\ Identities'
    BY <1>2 DEF Start
  <1>3. ASSUME NEW c \in Call, GenerateToken(c) PROVE CallInv' /\ PassedInv' /\ Identities'
    <2>1. PICK claims \in Claims :
            /\ tokens' = tokens \cup {Sign(call[c].process, claims)}
            /\ minted' = minted \cup {<<Key[call[c].process], claims.id>>}
      BY <1>3 DEF GenerateToken
    <2> DEFINE new == Sign(call[c].process, claims)
    <2>2. new.key = Key[call[c].process] /\ new.claims = claims
      BY DEF Sign
    <2>3. tokens' = tokens \cup {new}
      BY <2>1
    <2> HIDE DEF new
    <2>4. Identities'
      BY <2>1, <2>2, <2>3
    <2> QED
      BY <1>3, <2>3, <2>4 DEF GenerateToken, At, Answer
  <1>4. ASSUME NEW c \in Call, CrossDomain(c) PROVE CallInv' /\ PassedInv' /\ Identities'
    BY <1>4 DEF CrossDomain, At, Answer
  <1>5. ASSUME NEW c \in Call, JWTAuth(c) PROVE CallInv' /\ PassedInv' /\ Identities'
    <2>1. call[c].process \in Process
      OBVIOUS
    <2> QED
      BY <1>5, <2>1, ParseOk DEF JWTAuth, At, Answer
  <1>6. ASSUME NEW c \in Call, RefreshClock(c) PROVE CallInv' /\ PassedInv' /\ Identities'
    BY <1>6 DEF RefreshClock, At
  <1>7. ASSUME NEW c \in Call, RefreshParse(c) PROVE CallInv' /\ PassedInv' /\ Identities'
    <2>1. call[c].process \in Process
      OBVIOUS
    <2> QED
      BY <1>7, <2>1, ParseOk DEF RefreshParse, At, Answer
  <1>8. ASSUME NEW c \in Call, RefreshSign(c) PROVE CallInv' /\ PassedInv' /\ Identities'
    <2> DEFINE new == Sign(call[c].process,
                           [call[c].token.claims EXCEPT !.exp = now + Day])
    <2>1. call[c].token \in tokens /\ call[c].token.key = Key[call[c].process]
      BY <1>8 DEF RefreshSign, At
    <2>2. call[c].token \in Token
      BY <2>1
    <2>3. new.key = call[c].token.key /\ new.claims.id = call[c].token.claims.id
      BY <2>1, <2>2 DEF Sign, Token, Claim
    <2>4. tokens' = tokens \cup {new} /\ UNCHANGED <<minted, call>>
      BY <1>8 DEF RefreshSign
    <2>5. Identities'
      BY <2>1, <2>3, <2>4
    <2> HIDE DEF new
    <2> QED
      BY <1>8, <2>1, <2>4, <2>5 DEF RefreshSign, At, Answer
  <1>9. CASE UNCHANGED vars
    BY <1>9 DEF vars
  <1> QED
    BY <1>1, <1>2, <1>3, <1>4, <1>5, <1>6, <1>7, <1>8, <1>9
       DEF Next, Run, Terminating

LEMMA InvInductive == Spec => []Inv
  <1>1. Init => Inv
    <2> SUFFICES ASSUME Init PROVE Inv
      OBVIOUS
    <2> DEFINE first == CHOOSE p \in Process : TRUE
    <2>1. first \in Process
      BY JwtAssumption
    <2>2. call = [c \in Call |-> [op |-> "Auth", process |-> first, token |-> Malformed]]
      BY DEF Init
    <2> HIDE DEF first
    <2>3. now = 1 /\ now \in 1..MaxTime
      BY JwtAssumption DEF Init
    <2>4. TypeOK
      <3>1. call \in [Call -> [op: Ops, process: Process, token: Token \cup {Malformed}]]
        BY <2>1, <2>2 DEF Ops
      <3>2. reply \in [Call -> Replies] /\ when \in [Call -> 1..MaxTime]
        BY <2>3 DEF Init, Replies
      <3>3. tokens \subseteq Token /\ minted \subseteq Keys \X Nat
        BY DEF Init
      <3> QED
        BY <2>3, <3>1, <3>2, <3>3 DEF Init, TypeOK
    <2>5. \A c \in Call : pc[c] = "idle" /\ reply[c] = "none" /\ call[c].token = Malformed
      BY <2>2 DEF Init
    <2>6. CallInv
      BY <2>5 DEF CallInv
    <2>7. PassedInv /\ Identities
      BY <2>5 DEF Init, PassedInv, Passed, Accepted, Identities
    <2> QED
      BY <2>4, <2>6, <2>7 DEF Inv
  <1> QED
    BY <1>1, TypeStep, IdentityStep, PTL DEF Spec, Inv

-----------------------------------------------------------------------------
\* A process's clock changes once and for good.
LEMMA ClockStep == Inv /\ ClockInv /\ [Next]_vars => ClockInv'
  <1> SUFFICES ASSUME Inv, ClockInv, [Next]_vars PROVE ClockInv'
    OBVIOUS
  <1> USE JwtAssumption DEF Inv, TypeOK, CallInv
  \* a call only moves on
  <1>1. ASSUME \A d \in Call : pc[d] \notin {"idle", "start"} =>
                  pc'[d] \notin {"idle", "start"} /\ call'[d] = call[d]
        PROVE  \A p \in Process : Refreshed(p) => Refreshed(p)'
    BY <1>1 DEF Refreshed
  <1>2. CASE Tick
    BY <1>2, <1>1 DEF Tick, ClockInv, Passed, Accepted
  <1>3. ASSUME NEW c \in Call, Start(c) PROVE ClockInv'
    <2>1. \A p \in Process : Refreshed(p) => Refreshed(p)'
      BY <1>1, <1>3 DEF Start
    <2>2. \A d \in Call : Passed(d)' => Passed(d) /\ call'[d] = call[d]
      BY <1>3 DEF Start, Passed, Accepted
    <2> QED
      BY <1>3, <2>1, <2>2 DEF Start, ClockInv
  <1>4. ASSUME NEW c \in Call, GenerateToken(c) \/ CrossDomain(c) PROVE ClockInv'
    <2>1. \A p \in Process : Refreshed(p) => Refreshed(p)'
      BY <1>1, <1>4 DEF GenerateToken, CrossDomain, Answer, At
    <2>2. \A d \in Call : Passed(d)' => Passed(d)
      BY <1>4 DEF GenerateToken, CrossDomain, Answer, At, Passed, Accepted
    <2> QED
      BY <1>4, <2>1, <2>2 DEF GenerateToken, CrossDomain, ClockInv
  \* who passes now passes by the clock of its process
  <1>5. ASSUME NEW c \in Call, ParseToken(call[c].process, call[c].token) = "ok",
               call[c].token.claims.exp # 0, now > call[c].token.claims.exp
        PROVE  Refreshed(call[c].process)
    <2>1. call[c].process \in Process
      OBVIOUS
    <2> QED
      BY <1>5, <2>1, ParseOk DEF Clock, ClockInv
  <1>6. ASSUME NEW c \in Call, JWTAuth(c) PROVE ClockInv'
    <2>1. \A p \in Process : Refreshed(p) => Refreshed(p)'
      BY <1>1, <1>6 DEF JWTAuth, Answer, At
    <2>2. \A d \in Call : Passed(d)' =>
            \/ Passed(d) /\ when'[d] = when[d]
            \/ /\ d = c /\ when'[d] = now
               /\ ParseToken(call[c].process, call[c].token) = "ok"
      BY <1>6 DEF JWTAuth, Answer, At, Passed, Accepted
    <2>3. UNCHANGED <<call, timeFunc>>
      BY <1>6 DEF JWTAuth
    <2> QED
      BY <1>5, <2>1, <2>2, <2>3 DEF ClockInv
  <1>7. ASSUME NEW c \in Call, RefreshClock(c) PROVE ClockInv'
    <2>1. \A p \in Process : Refreshed(p) => Refreshed(p)'
      BY <1>1, <1>7 DEF RefreshClock, At
    <2>2. \A d \in Call : Passed(d)' => Passed(d)
      BY <1>7 DEF RefreshClock, At, Passed, Accepted
    <2>3. Refreshed(call[c].process)'
      BY <1>7 DEF RefreshClock, At, Refreshed
    <2> QED
      BY <1>7, <2>1, <2>2, <2>3 DEF RefreshClock, ClockInv
  <1>8. ASSUME NEW c \in Call, RefreshParse(c) PROVE ClockInv'
    <2>1. \A p \in Process : Refreshed(p) => Refreshed(p)'
      BY <1>1, <1>8 DEF RefreshParse, Answer, At
    <2>2. \A d \in Call : Passed(d)' =>
            \/ Passed(d) /\ when'[d] = when[d]
            \/ /\ d = c /\ when'[d] = now
               /\ ParseToken(call[c].process, call[c].token) = "ok"
      BY <1>8 DEF RefreshParse, Answer, At, Passed, Accepted
    <2>3. UNCHANGED <<call, timeFunc>>
      BY <1>8 DEF RefreshParse
    <2> QED
      BY <1>5, <2>1, <2>2, <2>3 DEF ClockInv
  <1>9. ASSUME NEW c \in Call, RefreshSign(c) PROVE ClockInv'
    <2>1. \A p \in Process : Refreshed(p) => Refreshed(p)'
      BY <1>1, <1>9 DEF RefreshSign, Answer, At
    <2>2. \A d \in Call : Passed(d)' => Passed(d)
      BY <1>9 DEF RefreshSign, Answer, At, Passed, Accepted
    <2> QED
      BY <1>9, <2>1, <2>2 DEF RefreshSign, ClockInv
  <1>10. CASE UNCHANGED vars
    BY <1>10, <1>1 DEF vars, ClockInv, Passed, Accepted
  <1> QED
    BY <1>2, <1>3, <1>4, <1>6, <1>7, <1>8, <1>9, <1>10 DEF Next, Run, Terminating

-----------------------------------------------------------------------------
\* Tokens, calls and answers keep their types (jwt.go:17-34).
THEOREM TokensTypeCorrect == Spec => []TypeOK
  BY InvInductive, PTL DEF Inv

\* Nobody gets in with, or is handed by a refresh, an identity that was not
\* signed with the key in question (jwt.go:36-46, 82-112).
THEOREM IdentitiesAreMinted == Spec => []OneIdentity
  <1>1. Inv => OneIdentity
    BY DEF Inv, PassedInv, Passed, Identities, OneIdentity
  <1> QED
    BY <1>1, InvInductive, PTL

\* An expired token passes only where RefreshToken was called (jwt.go:83-87).
THEOREM ExpiredTokensNeedARefresh == Spec => []ExpiredNeedsRefresh
  <1>1. Init => ClockInv
    BY DEF Init, ClockInv, Passed, Accepted
  <1>2. Inv /\ ClockInv => ExpiredNeedsRefresh
    BY DEF ClockInv, Passed, Refreshed, ExpiredNeedsRefresh
  <1> QED
    BY <1>1, <1>2, ClockStep, InvInductive, PTL DEF Spec

-----------------------------------------------------------------------------
\* ParseToken says "expired" of a token with its key, when nothing else is wrong.
LEMMA ParseExpired ==
    ASSUME NEW p \in Process, NEW t, ParseToken(p, t) = "expired"
    PROVE  repaired /\ t # Malformed /\ t.key = Key[p]
  <1>1. repaired /\ Errors(p, t) = {"expired"}
    BY DEF ParseToken
  <1>2. t # Malformed
    BY <1>1 DEF Errors
  <1>3. "signature" \notin Errors(p, t)
    BY <1>1
  <1> QED
    BY <1>1, <1>2, <1>3 DEF Errors

\* Only a token of the process's key is reported as expired (jwt.go:57-59).
THEOREM ExpiredTokensAreAuthentic == Spec => []ExpiredIsAuthentic
  <1>1. Init => ExpiredIsAuthentic
    BY DEF Init, ExpiredIsAuthentic
  <1>2. Inv /\ ExpiredIsAuthentic /\ [Next]_vars => ExpiredIsAuthentic'
    <2> SUFFICES ASSUME Inv, ExpiredIsAuthentic, [Next]_vars PROVE ExpiredIsAuthentic'
      OBVIOUS
    <2> USE DEF Inv, TypeOK, CallInv, ExpiredIsAuthentic
    <2>1. ASSUME NEW c \in Call, Start(c) PROVE ExpiredIsAuthentic'
      BY <2>1 DEF Start
    <2>2. ASSUME NEW c \in Call, JWTAuth(c) PROVE ExpiredIsAuthentic'
      <3>1. call[c].process \in Process
        OBVIOUS
      <3> QED
        BY <2>2, <3>1, ParseExpired DEF JWTAuth, Answer
    <2>3. ASSUME NEW c \in Call, Run(c), ~JWTAuth(c) PROVE ExpiredIsAuthentic'
      BY <2>3 DEF Run, GenerateToken, CrossDomain, RefreshClock, RefreshParse,
                  RefreshSign, Answer
    <2> QED
      BY <2>1, <2>2, <2>3 DEF Next, Tick, Terminating, vars
  <1> QED
    BY <1>1, <1>2, InvInductive, PTL DEF Spec

\* By the clock of a refreshed process only tokens without dates hold
\* (jwt.go:85, and jwt-go's checks of IssuedAt and NotBefore).
THEOREM RefreshesLockOut == Spec => RefreshLocksOut
  <1> DEFINE Undated == \A c \in Call :
               (~Accepted(c) /\ Accepted(c)' /\ timeFunc[call[c].process] = "epoch"
                  /\ call[c].op = "Auth") =>
                 call[c].token.claims.iat = 0 /\ call[c].token.claims.nbf = 0
  <1>1. Inv /\ [Next]_vars => [Undated]_vars
    <2> SUFFICES ASSUME Inv, [Next]_vars, NEW c \in Call, ~Accepted(c), Accepted(c)',
                        timeFunc[call[c].process] = "epoch", call[c].op = "Auth"
                 PROVE  call[c].token.claims.iat = 0 /\ call[c].token.claims.nbf = 0
      OBVIOUS
    <2> USE DEF Inv, TypeOK, CallInv, Accepted
    <2>1. reply[c] # "ok" /\ reply'[c] = "ok"
      <3>1. CASE call'[c] = call[c]
        BY <3>1
      <3>2. CASE call'[c] # call[c]
        <4>1. PICK d \in Call : Start(d)
          BY <3>2 DEF Next, Tick, Run, GenerateToken, CrossDomain, JWTAuth, RefreshClock,
                      RefreshParse, RefreshSign, Terminating, vars
        <4> QED
          BY <3>2, <4>1 DEF Start
      <3> QED
        BY <3>1, <3>2
    <2>2. PICK d \in Call : Run(d)
      BY <2>1 DEF Next, Tick, Start, Terminating, vars
    <2>3. d = c /\ pc[c] = "start" /\ JWTAuth(c)
      BY <2>1, <2>2 DEF Run, GenerateToken, CrossDomain, JWTAuth, RefreshClock,
                        RefreshParse, RefreshSign, Answer, At
    <2>4. ParseToken(call[c].process, call[c].token) = "ok"
      BY <2>1, <2>3 DEF JWTAuth, Answer
    <2>5. Errors(call[c].process, call[c].token) = {}
      BY <2>4 DEF ParseToken
    <2>6. call[c].token # Malformed /\ call[c].token \in Token
      BY <2>5 DEF Errors
    <2>7. /\ "issued" \notin Errors(call[c].process, call[c].token)
          /\ "notyet" \notin Errors(call[c].process, call[c].token)
      BY <2>5
    <2>8. /\ call[c].token.claims.iat \in Nat /\ call[c].token.claims.nbf \in Nat
      BY <2>6 DEF Token, Claim
    <2>9. Clock(call[c].process) = 0
      BY DEF Clock, Epoch
    <2>10. ~(0 < call[c].token.claims.iat) /\ ~(0 < call[c].token.claims.nbf)
      BY <2>6, <2>7, <2>9 DEF Errors
    <2> QED
      BY <2>8, <2>10
  <1> QED
    BY <1>1, InvInductive, PTL DEF Spec, RefreshLocksOut
=============================================================================
