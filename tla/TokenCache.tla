----------------------------- MODULE TokenCache -----------------------------
(***************************************************************************)
(* The admin token of the Keycloak client (internal/keycloak/client.go),   *)
(* shared by the goroutines of the realm and the client controller: getToken*)
(* holds the mutex while it logs in, do drops the cached token on a 401 and*)
(* tries once more.  Keycloak may reject every token issued so far at any  *)
(* moment (a restart, an expiry, a revoked session).                       *)
(*                                                                         *)
(* A token is "good" while Keycloak accepts it and "bad" from then on: the *)
(* client cannot see which.                                                *)
(***************************************************************************)
CONSTANTS Callers,      \* goroutines that send Admin REST requests
          Nobody        \* the mutex is free

ASSUME CallersAssumption == Nobody \notin Callers

VARIABLES cached,       \* c.token: "none", "good" or "bad"
          aged,         \* the cached token is within ten seconds of its expiry
          mutex,        \* who holds c.mu across a login
          pc,           \* where each caller is in do, doOnce and getToken
          held,         \* the token each caller got from getToken or a login
          attempt,      \* do's loop counter
          rejectedSince \* Keycloak rejected tokens since the caller's first 401

tokenVars == <<cached, aged, mutex, pc, held, attempt, rejectedSince>>

Tokens == {"none", "good", "bad"}
Steps  == {"idle", "getToken", "login", "store", "send", "invalidate", "unauthorized"}

TokenInit ==
  /\ cached = "none" /\ aged = FALSE /\ mutex = Nobody
  /\ pc = [c \in Callers |-> "idle"]
  /\ held = [c \in Callers |-> "none"]
  /\ attempt = [c \in Callers |-> 0]
  /\ rejectedSince = [c \in Callers |-> FALSE]

Go(c, from, to) == pc[c] = from /\ pc' = [pc EXCEPT ![c] = to]

(* A request of one of the controllers begins, lines 279-283.              *)
Begin(c) ==
  /\ Go(c, "idle", "getToken")
  /\ attempt' = [attempt EXCEPT ![c] = 0]
  /\ UNCHANGED <<cached, aged, mutex, held, rejectedSince>>

(* lines 236-240: the cached token is used unless it is about to expire    *)
UseCached(c) ==
  /\ mutex = Nobody /\ cached # "none" /\ ~aged
  /\ Go(c, "getToken", "send")
  /\ held' = [held EXCEPT ![c] = cached]
  /\ UNCHANGED <<cached, aged, mutex, attempt, rejectedSince>>

(* Bug: the mutex is not held across the login                             *)
LogIn_Unlocked(c) ==
  /\ mutex = Nobody /\ (cached = "none" \/ aged)
  /\ Go(c, "getToken", "login")
  /\ UNCHANGED <<cached, aged, mutex, held, attempt, rejectedSince>>

(* lines 241-251: otherwise it logs in, still under the mutex              *)
LogIn(c) ==
  /\ mutex = Nobody /\ (cached = "none" \/ aged)
  /\ Go(c, "getToken", "login")
  /\ mutex' = c
  /\ UNCHANGED <<cached, aged, held, attempt, rejectedSince>>

(* Bug: the mutex is not released on an error                              *)
LogInFails_KeepsMutex(c) ==
  /\ Go(c, "login", "idle")
  /\ UNCHANGED <<cached, aged, mutex, held, attempt, rejectedSince>>

(* lines 252-269: no answer, no token in it: the request fails             *)
LogInFails(c) ==
  /\ Go(c, "login", "idle")
  /\ mutex' = Nobody
  /\ UNCHANGED <<cached, aged, held, attempt, rejectedSince>>

(* Keycloak issues a token; its answer is on the way                       *)
Issue(c) ==
  /\ Go(c, "login", "store")
  /\ held' = [held EXCEPT ![c] = "good"]
  /\ UNCHANGED <<cached, aged, mutex, attempt, rejectedSince>>

(* lines 270-276                                                           *)
Store(c) ==
  /\ Go(c, "store", "send")
  /\ cached' = held[c] /\ aged' = FALSE
  /\ mutex' = Nobody
  /\ UNCHANGED <<held, attempt, rejectedSince>>

(* lines 324-338: Keycloak serves the request, or transport fails          *)
Answered(c) ==
  /\ held[c] = "good" /\ Go(c, "send", "idle")
  /\ UNCHANGED <<cached, aged, mutex, held, attempt, rejectedSince>>

SendFails(c) ==
  /\ Go(c, "send", "idle")
  /\ UNCHANGED <<cached, aged, mutex, held, attempt, rejectedSince>>

(* Bug: tries again for as long as it is rejected                          *)
Reject_Always(c) ==
  /\ held[c] = "bad" /\ Go(c, "send", "invalidate")
  /\ rejectedSince' = [rejectedSince EXCEPT ![c] = FALSE]
  /\ UNCHANGED <<cached, aged, mutex, held, attempt>>

(* lines 287-296: a first 401 is tried again, a second one is returned     *)
Reject(c) ==
  /\ held[c] = "bad"
  /\ \/ /\ attempt[c] = 0 /\ Go(c, "send", "invalidate")
        /\ rejectedSince' = [rejectedSince EXCEPT ![c] = FALSE]
     \/ attempt[c] = 1 /\ Go(c, "send", "unauthorized") /\ UNCHANGED rejectedSince
  /\ UNCHANGED <<cached, aged, mutex, held, attempt>>

(* Bug: drops the token without waiting for the mutex                      *)
Invalidate_Unlocked(c) ==
  /\ Go(c, "invalidate", "getToken")
  /\ cached' = "none" /\ aged' = FALSE
  /\ attempt' = [attempt EXCEPT ![c] = 1]
  /\ UNCHANGED <<mutex, held, rejectedSince>>

(* invalidateToken: whatever is cached by now is dropped                   *)
Invalidate(c) ==
  /\ mutex = Nobody
  /\ Go(c, "invalidate", "getToken")
  /\ cached' = "none" /\ aged' = FALSE
  /\ attempt' = [attempt EXCEPT ![c] = 1]
  /\ UNCHANGED <<mutex, held, rejectedSince>>

(* The caller gets the 401 as an error.                                    *)
Return(c) ==
  /\ Go(c, "unauthorized", "idle")
  /\ UNCHANGED <<cached, aged, mutex, held, attempt, rejectedSince>>

(* The environment: Keycloak stops accepting what it has issued; time goes *)
(* by until the cached token is about to expire.                           *)
Spoiled(token) == IF token = "good" THEN "bad" ELSE token

RejectAll ==
  /\ cached' = Spoiled(cached)
  /\ held' = [c \in Callers |-> Spoiled(held[c])]
  /\ rejectedSince' = [c \in Callers |-> TRUE]
  /\ UNCHANGED <<aged, mutex, pc, attempt>>

Age ==
  /\ cached # "none" /\ ~aged /\ mutex = Nobody /\ aged' = TRUE
  /\ UNCHANGED <<cached, mutex, pc, held, attempt, rejectedSince>>

Acquire(c)  == UseCached(c) \/ LogIn(c) \/ Invalidate(c)
Progress(c) ==
  LogInFails(c) \/ Issue(c) \/ Store(c) \/ Answered(c) \/ SendFails(c) \/ Reject(c) \/ Return(c)

TokenNext ==
  \/ \E c \in Callers : Begin(c) \/ Acquire(c) \/ Progress(c)
  \/ RejectAll \/ Age

(* HTTP calls end within their timeout, and sync.Mutex is fair: a waiting  *)
(* goroutine gets it eventually.                                           *)
TokenFairness ==
  \A c \in Callers : WF_tokenVars(Progress(c)) /\ SF_tokenVars(Acquire(c))

TokenSpec == TokenInit /\ [][TokenNext]_tokenVars /\ TokenFairness

----------------------------------------------------------------------------
(* The mutex is held by exactly the caller that is logging in, so at most  *)
(* one login is under way.                                                 *)
TokenTypeOK ==
  /\ cached \in Tokens /\ aged \in BOOLEAN /\ mutex \in Callers \cup {Nobody}
  /\ pc \in [Callers -> Steps]
  /\ held \in [Callers -> Tokens]
  /\ attempt \in [Callers -> {0, 1}]
  /\ rejectedSince \in [Callers -> BOOLEAN]
  /\ \A c \in Callers : pc[c] \in {"login", "store"} <=> mutex = c

(* A request only fails as unauthorized when Keycloak rejected tokens again*)
(* after the request's first 401: the retry never goes out with a token    *)
(* that was already dead, not even one that another caller cached.         *)
RetryGetsANewToken ==
  \A c \in Callers : pc[c] = "unauthorized" => rejectedSince[c]

(* A login never replaces a token that works by one that does not: the one *)
(* that is stored may have been rejected between its issue and its arrival,*)
(* but then no token that Keycloak issued since is in the cache.           *)
GoodTokenStays ==
  [][\A c \in Callers : pc[c] = "store" /\ pc'[c] = "send" /\ cached = "good" =>
       cached' = "good"]_tokenVars

(* Every request returns, whatever Keycloak rejects and however often.     *)
EveryRequestReturns == \A c \in Callers : pc[c] # "idle" ~> pc[c] = "idle"
=============================================================================
