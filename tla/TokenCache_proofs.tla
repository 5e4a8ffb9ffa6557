-------------------------- MODULE TokenCache_proofs --------------------------
(***************************************************************************)
(* Theorems about the admin token cache, for any number of goroutines that *)
(* share it and however often Keycloak rejects tokens.                     *)
(***************************************************************************)
EXTENDS TokenCache, TLAPS

TNext == [TokenNext]_tokenVars

(* A caller is on its retry, and Keycloak has rejected no tokens since it  *)
(* began it.                                                               *)
Retrying(c) == attempt[c] = 1 /\ pc[c] # "idle" /\ ~rejectedSince[c]

(* A dead token can be around when the retry begins: in the cache, or in a *)
(* login that is under way.  The caller drops the first, and has to wait   *)
(* for the mutex until the second is in the cache too; from then on there  *)
(* is none.                                                                *)
FreshInv ==
  \A c \in Callers :
    /\ pc[c] = "unauthorized" => attempt[c] = 1
    /\ Retrying(c) =>
         /\ pc[c] # "unauthorized"
         /\ cached # "bad"
         /\ pc[c] = "send" => held[c] = "good"
         /\ \A d \in Callers : pc[d] = "store" => held[d] = "good"

(* What is being stored is not worse than what it replaces.                *)
StoreInv ==
  \A d \in Callers : pc[d] = "store" /\ cached = "good" => held[d] = "good"

(* Type correctness.                                                       *)
LEMMA TokenTypeInit == TokenInit => TokenTypeOK
BY CallersAssumption DEF TokenInit, TokenTypeOK, Tokens, Steps

LEMMA TokenTypeStep == TokenTypeOK /\ TNext => TokenTypeOK'
<1> SUFFICES ASSUME TokenTypeOK, TNext PROVE TokenTypeOK'
  OBVIOUS
<1> USE CallersAssumption DEF TokenTypeOK, Tokens, Steps, Go
<1>1. ASSUME NEW c \in Callers, Begin(c) \/ Return(c) \/ Answered(c) \/ SendFails(c)
      PROVE  TokenTypeOK'
  BY <1>1 DEF Begin, Return, Answered, SendFails
<1>2. ASSUME NEW c \in Callers, UseCached(c) \/ LogIn(c)
      PROVE  TokenTypeOK'
  BY <1>2 DEF UseCached, LogIn
<1>3. ASSUME NEW c \in Callers, LogInFails(c) \/ Issue(c) \/ Store(c)
      PROVE  TokenTypeOK'
  BY <1>3 DEF LogInFails, Issue, Store
<1>4. ASSUME NEW c \in Callers, Reject(c) \/ Invalidate(c)
      PROVE  TokenTypeOK'
  <2>1. CASE Reject(c)
    BY <2>1 DEF Reject
  <2>2. CASE Invalidate(c)
    BY <2>2 DEF Invalidate
  <2> QED
    BY <1>4, <2>1, <2>2
<1>5. CASE RejectAll \/ Age
  BY <1>5 DEF RejectAll, Age, Spoiled
<1>6. CASE UNCHANGED tokenVars
  BY <1>6 DEF tokenVars
<1> QED
  BY <1>1, <1>2, <1>3, <1>4, <1>5, <1>6 DEF TNext, TokenNext, Acquire, Progress

(* At most one login is under way, whoever holds the mutex.                *)
THEOREM TokenTypeCorrect == TokenSpec => []TokenTypeOK
<1> QED
  BY TokenTypeInit, TokenTypeStep, PTL DEF TokenSpec, TNext

----------------------------------------------------------------------------
LEMMA FreshInvStep ==
  ASSUME TokenTypeOK, FreshInv, TNext
  PROVE  FreshInv'
<1> USE DEF TokenTypeOK, FreshInv, Retrying, Go
<1>1. ASSUME NEW c \in Callers, Begin(c) \/ Return(c) \/ Answered(c) \/ SendFails(c)
      PROVE  FreshInv'
  BY <1>1 DEF Begin, Return, Answered, SendFails
<1>2. ASSUME NEW c \in Callers, UseCached(c) \/ LogIn(c) \/ LogInFails(c)
      PROVE  FreshInv'
  BY <1>2 DEF UseCached, LogIn, LogInFails, Tokens
<1>3. ASSUME NEW c \in Callers, Issue(c)
      PROVE  FreshInv'
  BY <1>3 DEF Issue
<1>4. ASSUME NEW c \in Callers, Store(c)
      PROVE  FreshInv'
  BY <1>4 DEF Store
<1>5. ASSUME NEW c \in Callers, Reject(c)
      PROVE  FreshInv'
  BY <1>5 DEF Reject
<1>6. ASSUME NEW c \in Callers, Invalidate(c)
      PROVE  FreshInv'
  <2>1. \A d \in Callers : pc'[d] # "store"
    BY <1>6, CallersAssumption DEF Invalidate
  <2> QED
    BY <1>6, <2>1 DEF Invalidate
<1>7. CASE RejectAll \/ Age
  BY <1>7 DEF RejectAll, Age
<1>8. CASE UNCHANGED tokenVars
  BY <1>8 DEF tokenVars
<1> QED
  BY <1>1, <1>2, <1>3, <1>4, <1>5, <1>6, <1>7, <1>8 DEF TNext, TokenNext, Acquire, Progress

(* No request fails as unauthorized because of a token that was dead when  *)
(* its retry began, however many goroutines drop and cache tokens in the   *)
(* meantime.                                                               *)
THEOREM RetriesAreFresh == TokenSpec => []RetryGetsANewToken
<1> DEFINE Inv == TokenTypeOK /\ FreshInv
<1>1. TokenInit => Inv
  BY TokenTypeInit DEF TokenInit, FreshInv, Retrying
<1>2. Inv /\ TNext => Inv'
  BY TokenTypeStep, FreshInvStep
<1>3. Inv => RetryGetsANewToken
  BY DEF TokenTypeOK, FreshInv, Retrying, RetryGetsANewToken
<1> QED
  BY <1>1, <1>2, <1>3, PTL DEF TokenSpec, TNext

----------------------------------------------------------------------------
LEMMA StoreInvStep ==
  ASSUME TokenTypeOK, StoreInv, TNext
  PROVE  StoreInv'
<1> USE DEF TokenTypeOK, StoreInv, Go
<1>1. ASSUME NEW c \in Callers, Begin(c) \/ Return(c) \/ Answered(c) \/ SendFails(c) \/ Reject(c)
      PROVE  StoreInv'
  BY <1>1 DEF Begin, Return, Answered, SendFails, Reject
<1>2. ASSUME NEW c \in Callers, UseCached(c) \/ LogIn(c) \/ LogInFails(c) \/ Issue(c)
      PROVE  StoreInv'
  BY <1>2 DEF UseCached, LogIn, LogInFails, Issue
<1>3. ASSUME NEW c \in Callers, Store(c) \/ Invalidate(c)
      PROVE  StoreInv'
  BY <1>3 DEF Store, Invalidate
<1>4. CASE RejectAll \/ Age
  BY <1>4 DEF RejectAll, Age, Spoiled, Tokens
<1>5. CASE UNCHANGED tokenVars
  BY <1>5 DEF tokenVars
<1> QED
  BY <1>1, <1>2, <1>3, <1>4, <1>5 DEF TNext, TokenNext, Acquire, Progress

(* A login that ends late never replaces a token that works by one that    *)
(* does not, though Keycloak may have rejected what it issued while its    *)
(* answer was on the way: then it has rejected what is cached as well, and *)
(* nobody else can have logged in since.                                   *)
THEOREM GoodTokensStay == TokenSpec => GoodTokenStays
<1> DEFINE Inv == TokenTypeOK /\ StoreInv
           Stays == \A c \in Callers : pc[c] = "store" /\ pc'[c] = "send" /\ cached = "good" =>
                                        cached' = "good"
<1>1. TokenInit => Inv
  BY TokenTypeInit DEF TokenInit, StoreInv
<1>2. Inv /\ TNext => Inv'
  BY TokenTypeStep, StoreInvStep
<1>3. Inv /\ TNext => [Stays]_tokenVars
  <2> SUFFICES ASSUME Inv, TNext, NEW c \in Callers,
                      pc[c] = "store", pc'[c] = "send", cached = "good"
               PROVE  cached' = "good"
    OBVIOUS
  <2>1. held[c] = "good"
    BY DEF StoreInv
  <2>2. CASE Store(c)
    BY <2>1, <2>2 DEF Store
  <2>3. ASSUME NEW d \in Callers, d # c, Begin(d) \/ Acquire(d) \/ Progress(d)
        PROVE  pc'[c] = pc[c]
    BY <2>3 DEF TokenTypeOK, Acquire, Progress, Begin, UseCached, LogIn, LogInFails, Issue, Store,
      Answered, SendFails, Reject, Invalidate, Return, Go
  <2>4. CASE Begin(c) \/ Acquire(c) \/ (Progress(c) /\ ~Store(c))
    BY <2>4 DEF Acquire, Progress, Begin, UseCached, LogIn, LogInFails, Issue, Answered, SendFails,
      Reject, Invalidate, Return, Go
  <2>5. CASE RejectAll \/ Age \/ UNCHANGED tokenVars
    BY <2>5 DEF RejectAll, Age, tokenVars
  <2> QED
    BY <2>2, <2>3, <2>4, <2>5 DEF TNext, TokenNext
<1> QED
  BY <1>1, <1>2, <1>3, PTL DEF TokenSpec, TNext, GoodTokenStays
=============================================================================
