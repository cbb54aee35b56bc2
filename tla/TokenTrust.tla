----------------------------- MODULE TokenTrust ------------------------------
(***************************************************************************)
(* What authentication promises, without its caches: a request is accepted *)
(* only on credentials S21 accepts, or accepted less than Window ago; it   *)
(* is rejected only on credentials S21 does not accept at that moment.     *)
(***************************************************************************)
EXTENDS Integers

CONSTANTS
  Requests, Tokens, Logins,
  LoginOf,            \* the login in front of the colon of each token
  BadTokens,          \* header values that are no login:password pair
  EmptyToken,         \* one of them: what a request not pending carries
  Pending, Rejected, Failed,
  Window,             \* how long credentials outlive their rotation
  Start,              \* the clock's first value
  MaxNow              \* bound: the clock stops here

VARIABLES
  now,
  valid,      \* the tokens S21 accepts now
  goodUntil,  \* when S21 last ceased to accept each token; 0: long ago, or never
  asked,      \* the token each pending request carries
  answer      \* its outcome: a login, Rejected, Failed, or Pending

vars == <<now, valid, goodUntil, asked, answer>>

Trusted(t) == t \in valid \/ now < goodUntil[t] + Window

Init ==
  /\ now = Start
  /\ valid \in SUBSET Tokens
  /\ goodUntil = [t \in Tokens |-> 0]
  /\ asked = [r \in Requests |-> EmptyToken]
  /\ answer = [r \in Requests |-> Failed]

Ask(r, t) ==
  /\ answer[r] # Pending
  /\ asked' = [asked EXCEPT ![r] = t]
  /\ answer' = [answer EXCEPT ![r] = Pending]
  /\ UNCHANGED <<now, valid, goodUntil>>

Answered(r, a) ==
  /\ answer[r] = Pending
  /\ answer' = [answer EXCEPT ![r] = a]
  /\ asked' = [asked EXCEPT ![r] = EmptyToken]
  /\ UNCHANGED <<now, valid, goodUntil>>

Accept(r) ==
  /\ asked[r] \in Tokens
  /\ Trusted(asked[r])
  /\ Answered(r, LoginOf[asked[r]])

Reject(r) == asked[r] \notin valid /\ Answered(r, Rejected)

\* One container may take all its requests down with it.
Fail(S) ==
  /\ \A r \in S : answer[r] = Pending
  /\ answer' = [r \in Requests |-> IF r \in S THEN Failed ELSE answer[r]]
  /\ asked' = [r \in Requests |-> IF r \in S THEN EmptyToken ELSE asked[r]]
  /\ UNCHANGED <<now, valid, goodUntil>>

\* A password changes: S21 ceases to accept a token, or accepts another.
Rotate(t) ==
  /\ IF t \in valid
     THEN valid' = valid \ {t} /\ goodUntil' = [goodUntil EXCEPT ![t] = now]
     ELSE valid' = valid \cup {t} /\ UNCHANGED goodUntil
  /\ UNCHANGED <<now, asked, answer>>

Tick == now < MaxNow /\ now' = now + 1 /\ UNCHANGED <<valid, goodUntil, asked, answer>>

Next ==
  \/ \E r \in Requests :
       Accept(r) \/ Reject(r) \/ \E t \in Tokens \cup BadTokens : Ask(r, t)
  \/ \E S \in SUBSET Requests : Fail(S)
  \/ \E t \in Tokens : Rotate(t)
  \/ Tick

Spec == Init /\ [][Next]_vars
=============================================================================
