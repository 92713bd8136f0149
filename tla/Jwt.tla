--------------------------------- MODULE Jwt ---------------------------------
(***************************************************************************)
(* Tokens: mic_part4/jwt_op/jwt.go over dgrijalva/jwt-go, called by        *)
(* goroutines of several processes, with the two middlewares that stand in *)
(* front of a protected handler (cross_domain.go, jwt_middleware.go).      *)
(* jwt-go asks its package variable TimeFunc for the time; RefreshToken    *)
(* sets it to the epoch and nobody sets it back.                           *)
(*                                                                         *)
(* `repaired' is chosen once: FALSE is the code as committed, where        *)
(* errors.As never matches what jwt-go returns and every refusal reads     *)
(* TokenInvalid; TRUE takes its target as a pointer, as jwt-go needs.      *)
(***************************************************************************)
EXTENDS Integers

CONSTANTS Process, Call,    \* processes; goroutines that call the package, once each
          Keys, Key,        \* signing keys, and the one a process's AppConf holds
          Claims,           \* what callers of GenerateToken ask for
          Day,              \* the 24 hours of RefreshToken
          MaxTime,          \* bound on the clock
          Malformed         \* a string that is no token

Epoch == 0                  \* time.Unix(0, 0); now is always later

\* ExpiresAt, IssuedAt and NotBefore are 0 when unset.
Claim == [id: Nat, exp: Nat, iat: Nat, nbf: Nat]
Token == [key: Keys, claims: Claim]

ASSUME JwtAssumption ==
  /\ Key \in [Process -> Keys]
  /\ Claims \subseteq Claim
  /\ Day \in Nat \ {0} /\ MaxTime \in Nat \ {0}
  /\ Malformed \notin Token /\ Process # {}

VARIABLES repaired,
          now,              \* time.Now()
          timeFunc,         \* timeFunc[p]: what jwt.TimeFunc of process p answers with
          tokens,           \* tokens anybody can present
          minted,           \* history: <<key, id>> that GenerateToken was asked to sign
          pc, call,         \* a call's position; its operation, process and argument
          reply,            \* what it answered with
          when              \* the real time at which it looked at its token

vars == <<repaired, now, timeFunc, tokens, minted, pc, call, reply, when>>

Ops == {"Generate", "Preflight", "Auth", "Refresh"}
Replies == {"none", "ok", "expired", "notyet", "malformed", "invalid", "preflight"}

-----------------------------------------------------------------------------
MutClock(p) == Epoch        \* RefreshToken's clock from the start

Clock(p) == IF timeFunc[p] = "epoch" THEN Epoch ELSE now

MutErrors(p, t) ==          \* jwt-go without the IssuedAt and NotBefore checks
  IF t = Malformed THEN {"malformed"}
  ELSE {e \in {"expired", "signature"} :
         \/ e = "expired"   /\ t.claims.exp # 0 /\ Clock(p) > t.claims.exp
         \/ e = "signature" /\ t.key # Key[p]}

\* The bits jwt-go sets in ValidationError.Errors.
Errors(p, t) ==
  IF t = Malformed THEN {"malformed"}
  ELSE {e \in {"expired", "issued", "notyet", "signature"} :
         \/ e = "expired"   /\ t.claims.exp # 0 /\ Clock(p) > t.claims.exp
         \/ e = "issued"    /\ Clock(p) < t.claims.iat
         \/ e = "notyet"    /\ Clock(p) < t.claims.nbf
         \/ e = "signature" /\ t.key # Key[p]}

MutParseToken(p, t) ==      \* tests one bit, whatever else is set
  CASE Errors(p, t) = {} -> "ok"
    [] "expired" \in Errors(p, t) -> "expired"
    [] OTHER -> "invalid"

\* The switch compares the whole set of bits with one of them.
ParseToken(p, t) ==
  CASE Errors(p, t) = {} -> "ok"
    [] repaired /\ Errors(p, t) = {"expired"}   -> "expired"
    [] repaired /\ Errors(p, t) = {"notyet"}    -> "notyet"
    [] repaired /\ Errors(p, t) = {"malformed"} -> "malformed"
    [] OTHER -> "invalid"

Sign(p, claims) == [key |-> Key[p], claims |-> claims]

-----------------------------------------------------------------------------
At(c, label, op) == pc[c] = label /\ call[c].op = op

Answer(c, r) == pc' = [pc EXCEPT ![c] = "done"] /\ reply' = [reply EXCEPT ![c] = r]

Tick == now < MaxTime /\ now' = now + 1
        /\ UNCHANGED <<repaired, timeFunc, tokens, minted, pc, call, reply, when>>

Start(c) ==
  /\ pc[c] = "idle"
  /\ \E op \in Ops, p \in Process, t \in tokens \cup {Malformed} :
       call' = [call EXCEPT ![c] = [op |-> op, process |-> p, token |-> t]]
  /\ pc' = [pc EXCEPT ![c] = "start"]
  /\ UNCHANGED <<repaired, now, timeFunc, tokens, minted, reply, when>>

GenerateToken(c) ==
  /\ At(c, "start", "Generate")
  /\ \E claims \in Claims :
       LET p == call[c].process
       IN  /\ tokens' = tokens \cup {Sign(p, claims)}
           /\ minted' = minted \cup {<<Key[p], claims.id>>}
  /\ Answer(c, "ok")
  /\ UNCHANGED <<repaired, now, timeFunc, call, when>>

\* AbortWithStatus: c.Next() then finds no handler to run.
CrossDomain(c) ==
  /\ At(c, "start", "Preflight")
  /\ Answer(c, "preflight")
  /\ UNCHANGED <<repaired, now, timeFunc, tokens, minted, call, when>>

\* A token that parses lets the request through, all else is 401 and Abort.
JWTAuth(c) ==
  /\ At(c, "start", "Auth")
  /\ Answer(c, ParseToken(call[c].process, call[c].token))
  /\ when' = [when EXCEPT ![c] = now]
  /\ UNCHANGED <<repaired, now, timeFunc, tokens, minted, call>>

RefreshClock(c) ==
  /\ At(c, "start", "Refresh")
  /\ timeFunc' = [timeFunc EXCEPT ![call[c].process] = "epoch"]
  /\ pc' = [pc EXCEPT ![c] = "parse"]
  /\ UNCHANGED <<repaired, now, tokens, minted, call, reply, when>>

MutRefreshParse(c) ==       \* does not look at ParseToken's error
  /\ At(c, "parse", "Refresh") /\ call[c].token # Malformed
  /\ pc' = [pc EXCEPT ![c] = "sign"]
  /\ when' = [when EXCEPT ![c] = now]
  /\ UNCHANGED <<repaired, now, timeFunc, tokens, minted, call, reply>>

RefreshParse(c) ==
  /\ At(c, "parse", "Refresh")
  /\ IF ParseToken(call[c].process, call[c].token) = "ok"
       THEN pc' = [pc EXCEPT ![c] = "sign"] /\ UNCHANGED reply
       ELSE Answer(c, "invalid")
  /\ when' = [when EXCEPT ![c] = now]
  /\ UNCHANGED <<repaired, now, timeFunc, tokens, minted, call>>

MutRefreshSign(c) ==        \* subtracts the 24 hours
  /\ At(c, "sign", "Refresh")
  /\ tokens' = tokens \cup {Sign(call[c].process,
                                 [call[c].token.claims EXCEPT !.exp = now - Day])}
  /\ Answer(c, "ok")
  /\ UNCHANGED <<repaired, now, timeFunc, minted, call, when>>

\* time.Now() is the real time again.
RefreshSign(c) ==
  /\ At(c, "sign", "Refresh")
  /\ tokens' = tokens \cup {Sign(call[c].process,
                                 [call[c].token.claims EXCEPT !.exp = now + Day])}
  /\ Answer(c, "ok")
  /\ UNCHANGED <<repaired, now, timeFunc, minted, call, when>>

Run(c) == \/ GenerateToken(c) \/ CrossDomain(c) \/ JWTAuth(c)
          \/ RefreshClock(c) \/ RefreshParse(c) \/ RefreshSign(c)

Terminating == (\A c \in Call : pc[c] = "done") /\ UNCHANGED vars

Init ==
  /\ repaired \in BOOLEAN
  /\ now = 1
  /\ timeFunc = [p \in Process |-> "now"]
  /\ tokens = {} /\ minted = {}
  /\ pc = [c \in Call |-> "idle"]
  /\ call = [c \in Call |-> [op |-> "Auth", process |-> CHOOSE p \in Process : TRUE,
                             token |-> Malformed]]
  /\ reply = [c \in Call |-> "none"]
  /\ when = [c \in Call |-> now]

Next == Tick \/ (\E c \in Call : Start(c) \/ Run(c)) \/ Terminating

Spec == Init /\ [][Next]_vars

-----------------------------------------------------------------------------
(* What is checked *)

\* Tokens are signed with one of the keys and carry claims of their type; a
\* call is at a step of its operation.
TypeOK ==
  /\ repaired \in BOOLEAN
  /\ now \in 1..MaxTime
  /\ timeFunc \in [Process -> {"now", "epoch"}]
  /\ tokens \subseteq Token
  /\ minted \subseteq Keys \X Nat
  /\ pc \in [Call -> {"idle", "start", "parse", "sign", "done"}]
  /\ call \in [Call -> [op: Ops, process: Process, token: Token \cup {Malformed}]]
  /\ reply \in [Call -> Replies]
  /\ when \in [Call -> 1..MaxTime]

Accepted(c) == call[c].op \in {"Auth", "Refresh"} /\ reply[c] = "ok"

\* ParseToken (jwt.go:49-80) lets an expired token pass only in a process where
\* somebody called RefreshToken (jwt.go:85) before; one call changes the clock
\* of all others, but not that of another process.
ExpiredNeedsRefresh ==
  \A c \in Call :
    (Accepted(c) /\ call[c].token.claims.exp # 0 /\ when[c] > call[c].token.claims.exp)
      => \E d \in Call : /\ call[d].op = "Refresh"
                         /\ call[d].process = call[c].process
                         /\ pc[d] \notin {"idle", "start"}

\* No refresh, by any key's process, hands out an identity (the ID of the
\* claims, jwt.go:19) that GenerateToken was not asked to sign with that key,
\* and no request gets in with one.
OneIdentity ==
  /\ \A t \in tokens : <<t.key, t.claims.id>> \in minted
  /\ \A c \in Call : Accepted(c) =>
       <<Key[call[c].process], call[c].token.claims.id>> \in minted

\* Only a token of the right key is called expired (jwt.go:57-59), the answer
\* after which the middleware's comment would refresh it (jwt_middleware.go:28).
ExpiredIsAuthentic ==
  \A c \in Call : reply[c] = "expired" =>
    /\ call[c].token # Malformed
    /\ call[c].token.key = Key[call[c].process]
    /\ repaired

\* While its clock is the epoch a process lets nobody in whose token says when
\* it was issued or from when it holds, the token just refreshed included.
RefreshLocksOut ==
  [][\A c \in Call :
       (~Accepted(c) /\ Accepted(c)' /\ timeFunc[call[c].process] = "epoch"
          /\ call[c].op = "Auth") =>
         call[c].token.claims.iat = 0 /\ call[c].token.claims.nbf = 0]_vars
=============================================================================
