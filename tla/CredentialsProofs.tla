------------------------- MODULE CredentialsProofs --------------------------
(* Proofs about Credentials, for any calls, clients, logins and bounds.     *)
EXTENDS Credentials, TLAPS

USE DEF loginVars, serverVars, processVars

\* What a call holds is well typed whenever it starts anew.
LEMMA HoldingType ==
  ASSUME NEW x \in CallAt
  PROVE  Holding(x) \in CallState
BY BoundsAssumption DEF Holding, CallState

\* A pair makes a row.
LEMMA PairRowType ==
  ASSUME NEW t \in 0..MaxPairs
  PROVE  PairRow(t) \in [access : 0..MaxPairs, refresh : 0..MaxPairs]
BY DEF PairRow

\* What a login holds is well typed whatever it is set to.
LoginState == [at : LoginAt, nonce : Nonces, pair : 0..MaxPairs]

\* What a login holds stays in its type.
LEMMA LoginType ==
  ASSUME NEW r \in LoginState, NEW a \in LoginAt, NEW p \in 0..MaxPairs
  PROVE  [r EXCEPT !.at = a, !.pair = p] \in LoginState
BY DEF LoginState

\* And so is what a call holds.
LEMMA CallType ==
  ASSUME NEW r \in CallState, NEW a \in CallAt, NEW b \in 0..MaxPairs, NEW p \in 0..MaxPairs,
         NEW f \in 0..MaxPairs
  PROVE  /\ [r EXCEPT !.at = a, !.fresh = f] \in CallState
         /\ [r EXCEPT !.at = a, !.bearer = b, !.posted = p, !.fresh = f] \in CallState
BY DEF CallState

\* Values that the steps write are in the types.
LEMMA Members ==
  /\ 0 \in 0..MaxPairs
  /\ {"connected", "refused", "gone"} \subseteq LoginAt
  /\ "exchange" \in LoginAt
  /\ {"granted", "resent", "denied", "posting", "queued"} \subseteq CallAt
BY BoundsAssumption DEF LoginAt, CallAt

\* The initial state is well typed.
LEMMA TypeInit == Init => TypeOK
<1> SUFFICES ASSUME Init PROVE TypeOK
  OBVIOUS
<1>1. call \in [Calls -> CallState]
  BY HoldingType DEF Init, CallAt
<1>2. row \in [Sites -> [access : 0..MaxPairs, refresh : 0..MaxPairs]] /\ issued \in 0..MaxPairs
  BY BoundsAssumption, PairRowType DEF Init, NoRow
<1>3. login \in [Logins -> [at : LoginAt, nonce : Nonces, pair : 0..MaxPairs]]
  BY BoundsAssumption DEF Init, LoginAt
<1>4. busy \in [Clients -> BOOLEAN] /\ up \in BOOLEAN /\ crashes \in 0..MaxCrashes
  BY BoundsAssumption DEF Init
<1>5. {states, handed, lapsed} \subseteq SUBSET Nonces /\ lost \in BOOLEAN
  BY DEF Init
<1>6. {spent, expired} \subseteq SUBSET (0..MaxPairs)
  BY DEF Init
<1> QED BY <1>1, <1>2, <1>3, <1>4, <1>5, <1>6 DEF TypeOK

\* Every step keeps the types.
LEMMA TypeStep == TypeOK /\ [Next]_vars => TypeOK'
<1> SUFFICES ASSUME TypeOK, [Next]_vars PROVE TypeOK'
  OBVIOUS
<1> USE BoundsAssumption, SiteAssumption, ClientAssumption
<1>1. ASSUME NEW n \in Nonces, StartLogin(n) PROVE TypeOK'
  BY <1>1 DEF TypeOK, StartLogin
<1>2. ASSUME NEW n \in Nonces, Lapse(n) PROVE TypeOK'
  BY <1>2 DEF TypeOK, Lapse
<1>3. ASSUME NEW l \in Logins, Callback(l) PROVE TypeOK'
  <2>0. login[l] \in LoginState
    BY DEF TypeOK, LoginState
  <2>1. ASSUME NEW a \in LoginAt PROVE [login[l] EXCEPT !.at = a] \in LoginState
    BY <2>0 DEF LoginState
  <2>2. PICK a \in LoginAt : login' = [login EXCEPT ![l].at = a]
    BY <1>3, Members DEF Callback
  <2>3. login' = [login EXCEPT ![l] = [login[l] EXCEPT !.at = a]]
    BY <2>2 DEF TypeOK
  <2>4. login' \in [Logins -> [at : LoginAt, nonce : Nonces, pair : 0..MaxPairs]]
    BY <2>1, <2>3 DEF TypeOK, LoginState
  <2>5. states' \in SUBSET Nonces
    BY <1>3 DEF TypeOK, Callback, Consume
  <2> QED BY <1>3, <2>4, <2>5 DEF TypeOK, Callback
<1>4. ASSUME NEW l \in Logins, CallbackDenied(l) PROVE TypeOK'
  BY <1>4 DEF TypeOK, CallbackDenied, LoginAt
<1>5. ASSUME NEW l \in Logins, Exchanged(l) PROVE TypeOK'
  BY <1>5 DEF TypeOK, Exchanged, LoginAt
<1>6. ASSUME NEW l \in Logins, Connected(l) PROVE TypeOK'
  <2> DEFINE x == [login[l] EXCEPT !.at = "connected", !.pair = 0]
  <2>0. login[l] \in LoginState
    BY DEF TypeOK, LoginState
  <2>1. x \in LoginState
    BY <2>0, Members, LoginType
  <2>2. login' = [login EXCEPT ![l] = x]
    BY <1>6 DEF TypeOK, Connected
  <2>3. login' \in [Logins -> [at : LoginAt, nonce : Nonces, pair : 0..MaxPairs]]
    BY <2>1, <2>2 DEF TypeOK, LoginState
  <2>4. row' \in [Sites -> [access : 0..MaxPairs, refresh : 0..MaxPairs]]
    BY <1>6, PairRowType DEF TypeOK, Connected
  <2> QED BY <1>6, <2>3, <2>4 DEF TypeOK, Connected
<1>7. ASSUME NEW l \in Logins, LoginFails(l) PROVE TypeOK'
  <2> DEFINE x == [login[l] EXCEPT !.at = "refused", !.pair = 0]
  <2>0. login[l] \in LoginState
    BY DEF TypeOK, LoginState
  <2>1. x \in LoginState
    BY <2>0, Members, LoginType
  <2>2. login' = [login EXCEPT ![l] = x]
    BY <1>7 DEF TypeOK, LoginFails
  <2>3. login' \in [Logins -> [at : LoginAt, nonce : Nonces, pair : 0..MaxPairs]]
    BY <2>1, <2>2 DEF TypeOK, LoginState
  <2> QED BY <1>7, <2>3 DEF TypeOK, LoginFails
<1>8. ASSUME NEW c \in Calls, Send(c) PROVE TypeOK'
  BY <1>8, HoldingType DEF TypeOK, Send, CallAt, CallState, Site
<1>9. ASSUME NEW c \in Calls, Answered(c) PROVE TypeOK'
  BY <1>9, HoldingType DEF TypeOK, Answered, CallAt
<1>10. ASSUME NEW c \in Calls, CallFails(c) PROVE TypeOK'
  BY <1>10, HoldingType DEF TypeOK, CallFails, CallAt
<1>11. ASSUME NEW c \in Calls, Unauthorized(c) PROVE TypeOK'
  <2> DEFINE x == [call[c] EXCEPT !.at = "posting", !.refused = call[c].bearer,
                                  !.posted = row[Site(c)].refresh]
             y == [call[c] EXCEPT !.at = "queued", !.refused = call[c].bearer]
  <2>0. call[c] \in CallState /\ row[Site(c)].refresh \in 0..MaxPairs
    BY DEF TypeOK, Site
  <2>1. x \in CallState /\ y \in CallState
    <3>1. x \in CallState
      BY <2>0, Members DEF CallState
    <3>2. y \in CallState
      BY <2>0, Members DEF CallState
    <3> QED BY <3>1, <3>2
  <2>2. call' = [call EXCEPT ![c] = x] \/ call' = [call EXCEPT ![c] = y]
    BY <1>11 DEF TypeOK, Unauthorized
  <2>3. call' \in [Calls -> CallState]
    BY <2>1, <2>2 DEF TypeOK
  <2> QED BY <1>11, <2>3 DEF TypeOK, Unauthorized
<1>12. ASSUME NEW c \in Calls, Grant(c) PROVE TypeOK'
  <2> DEFINE x == [call[c] EXCEPT !.at = "granted", !.fresh = issued + 1]
  <2>0. call[c] \in CallState /\ issued + 1 \in 0..MaxPairs
    BY <1>12 DEF TypeOK, Grant
  <2>1. x \in CallState
    BY <2>0, Members, CallType
  <2>2. call' = [call EXCEPT ![c] = x]
    BY <1>12 DEF TypeOK, Grant
  <2>3. call' \in [Calls -> CallState]
    BY <2>1, <2>2 DEF TypeOK
  <2>4. spent' \in SUBSET (0..MaxPairs) /\ issued' \in 0..MaxPairs
    BY <1>12 DEF TypeOK, Grant, CallState
  <2> QED BY <1>12, <2>3, <2>4 DEF TypeOK, Grant
<1>13. ASSUME NEW c \in Calls, Deny(c) PROVE TypeOK'
  <2> DEFINE x == [call[c] EXCEPT !.at = "denied"]
  <2>0. call[c] \in CallState
    BY DEF TypeOK
  <2>1. x \in CallState
    BY <2>0, Members DEF CallState
  <2>2. call' = [call EXCEPT ![c] = x]
    BY <1>13 DEF TypeOK, Deny
  <2>3. call' \in [Calls -> CallState]
    BY <2>1, <2>2 DEF TypeOK
  <2> QED BY <1>13, <2>3 DEF TypeOK, Deny
<1>14. ASSUME NEW c \in Calls, Refreshed(c) PROVE TypeOK'
  <2>1. call[c].fresh \in 0..MaxPairs
    BY DEF TypeOK, CallState
  <2>2. row' \in [Sites -> [access : 0..MaxPairs, refresh : 0..MaxPairs]]
    BY <1>14, <2>1, PairRowType DEF TypeOK, Refreshed, Persist
  <2>3. ASSUME NEW d \in Calls PROVE Resent(c, d) \in CallState
    <3>1. call[d] \in CallState
      BY DEF TypeOK
    <3> QED BY <2>1, <3>1, Members, CallType DEF Resent
  <2>4. call' \in [Calls -> CallState]
    BY <1>14, <2>3 DEF TypeOK, Refreshed
  <2> QED BY <1>14, <2>2, <2>4 DEF TypeOK, Refreshed
<1>15. ASSUME NEW c \in Calls, RefreshFails(c) PROVE TypeOK'
  BY <1>15, HoldingType DEF TypeOK, RefreshFails, CallAt
<1>16. ASSUME NEW t \in Pairs, Expire(t) PROVE TypeOK'
  BY <1>16 DEF TypeOK, Expire, Pairs
<1>17. CASE Crash
  <2>1. call' \in [Calls -> CallState]
    BY <1>17, HoldingType DEF TypeOK, Crash, CallAt
  <2>2. ASSUME NEW l \in Logins
        PROVE  [login[l] EXCEPT !.at = "gone", !.pair = 0] \in LoginState
    <3>1. login[l] \in LoginState
      BY DEF TypeOK, LoginState
    <3> QED BY <3>1, Members, LoginType
  <2>3. login' \in [Logins -> [at : LoginAt, nonce : Nonces, pair : 0..MaxPairs]]
    BY <1>17, <2>2 DEF TypeOK, LoginState, Crash
  <2>4. crashes' \in 0..MaxCrashes
    <3>1. crashes \in 0..MaxCrashes /\ crashes < MaxCrashes /\ crashes' = crashes + 1
      BY <1>17 DEF TypeOK, Crash
    <3> QED BY <3>1
  <2>5. busy' \in [Clients -> BOOLEAN]
    BY <1>17 DEF Crash
  <2>6. states' \in SUBSET Nonces /\ lost' \in BOOLEAN /\ up' \in BOOLEAN
    BY <1>17 DEF TypeOK, Crash
  <2> QED BY <1>17, <2>1, <2>3, <2>4, <2>5, <2>6 DEF TypeOK, Crash
<1>18. CASE Restart
  BY <1>18 DEF TypeOK, Restart
<1>19. CASE UNCHANGED vars
  BY <1>19 DEF TypeOK, vars
<1> QED
  BY <1>1, <1>2, <1>3, <1>4, <1>5, <1>6, <1>7, <1>8, <1>9, <1>10, <1>11, <1>12, <1>13, <1>14,
     <1>15, <1>16, <1>17, <1>18, <1>19 DEF Next, LoginStep, Answer

\* The variables keep their types (TypeOK).
THEOREM CredentialTypes == Spec => []TypeOK
BY TypeInit, TypeStep, PTL DEF Spec
-----------------------------------------------------------------------------
(* The mutex                                                               *)

\* A step that leaves the mutexes and what calls are at alone keeps MutexHeld.
LEMMA MutexFrame ==
  ASSUME MutexHeld, busy' = busy, \A c \in Calls : call'[c].at = call[c].at
  PROVE  MutexHeld'
BY DEF MutexHeld, HeldByOne

\* A call that neither refreshes nor waits may go on to anything of the kind.
LEMMA MutexOutside ==
  ASSUME MutexHeld, busy' = busy, NEW c \in Calls, call[c].at \notin Refreshing \cup {"queued"},
         call'[c].at \notin Refreshing \cup {"queued"}, \A d \in Calls \ {c} : call'[d] = call[d]
  PROVE  MutexHeld'
BY DEF MutexHeld, HeldByOne

\* A refresh that goes on, from one stage to another, holds the mutex as it did.
LEMMA MutexGoesOn ==
  ASSUME MutexHeld, busy' = busy, NEW c \in Calls, call[c].at \in Refreshing,
         call'[c].at \in Refreshing, \A d \in Calls \ {c} : call'[d] = call[d]
  PROVE  MutexHeld'
BY DEF MutexHeld, HeldByOne, Refreshing

\* A refresh that settles releases the mutex and all that wait for it.
LEMMA MutexReleased ==
  ASSUME MutexHeld, busy \in [Clients -> BOOLEAN], NEW c \in Calls, call[c].at \in Refreshing,
         busy' = [busy EXCEPT ![ClientOf[c]] = FALSE],
         \A d \in Released(c) : call'[d].at \notin Refreshing \cup {"queued"},
         \A d \in Calls \ Released(c) : call'[d] = call[d]
  PROVE  MutexHeld'
<1> SUFFICES ASSUME NEW k \in Clients PROVE HeldByOne(k)'
  BY DEF MutexHeld
<1>1. CASE k = ClientOf[c]
  <2>1. busy'[k] = FALSE
    BY <1>1
  <2>2. ASSUME NEW d \in Calls, ClientOf[d] = k
        PROVE  call'[d].at \notin Refreshing \cup {"queued"}
    BY <1>1, <2>2 DEF Released, MutexHeld, HeldByOne
  <2>3. {d \in Calls : ClientOf[d] = k /\ call'[d].at \in Refreshing} = {}
    BY <2>2
  <2> QED BY <2>1, <2>2, <2>3 DEF HeldByOne
<1>2. CASE k # ClientOf[c]
  <2>1. busy'[k] = busy[k]
    BY <1>2
  <2>2. ASSUME NEW d \in Calls, ClientOf[d] = k PROVE call'[d] = call[d]
    BY <1>2, <2>2 DEF Released
  <2>3. {d \in Calls : ClientOf[d] = k /\ call'[d].at \in Refreshing}
          = {d \in Calls : ClientOf[d] = k /\ call[d].at \in Refreshing}
    BY <2>2
  <2>4. HeldByOne(k)
    BY DEF MutexHeld
  <2> QED BY <2>1, <2>2, <2>3, <2>4 DEF HeldByOne
<1> QED BY <1>1, <1>2

\* A call whose client has a refresh under way waits for it.
LEMMA MutexWaits ==
  ASSUME MutexHeld, busy' = busy, NEW c \in Calls, ClientOf[c] \in Clients, busy[ClientOf[c]],
         call[c].at = "sent", call'[c].at = "queued", \A d \in Calls \ {c} : call'[d] = call[d]
  PROVE  MutexHeld'
BY DEF MutexHeld, HeldByOne, Refreshing

\* A call whose client has none takes the mutex.
LEMMA MutexTaken ==
  ASSUME MutexHeld, busy \in [Clients -> BOOLEAN], NEW c \in Calls, ~busy[ClientOf[c]],
         ClientOf[c] \in Clients, busy' = [busy EXCEPT ![ClientOf[c]] = TRUE],
         call[c].at = "sent", call'[c].at = "posting", \A d \in Calls \ {c} : call'[d] = call[d]
  PROVE  MutexHeld'
<1> SUFFICES ASSUME NEW k \in Clients PROVE HeldByOne(k)'
  BY DEF MutexHeld
<1>1. CASE k = ClientOf[c]
  <2>1. busy'[k]
    BY <1>1
  <2>2. {d \in Calls : ClientOf[d] = k /\ call[d].at \in Refreshing} = {}
    BY <1>1 DEF MutexHeld, HeldByOne
  <2>3. {d \in Calls : ClientOf[d] = k /\ call'[d].at \in Refreshing} = {c}
    BY <1>1, <2>2 DEF Refreshing
  <2> QED BY <2>1, <2>3 DEF HeldByOne
<1>2. CASE k # ClientOf[c]
  <2>1. busy'[k] = busy[k]
    BY <1>2
  <2>2. ASSUME NEW d \in Calls, ClientOf[d] = k PROVE call'[d] = call[d]
    BY <1>2, <2>2
  <2> QED BY <2>1, <2>2 DEF MutexHeld, HeldByOne
<1> QED BY <1>1, <1>2

\* Every step keeps the mutex of a client.
LEMMA MutexStep == TypeOK /\ MutexHeld /\ [Next]_vars => MutexHeld'
<1> SUFFICES ASSUME TypeOK, MutexHeld, [Next]_vars PROVE MutexHeld'
  OBVIOUS
<1> USE ClientAssumption
<1>1. ASSUME NEW n \in Nonces, StartLogin(n) \/ Lapse(n) PROVE MutexHeld'
  BY <1>1, MutexFrame DEF StartLogin, Lapse
<1>2. ASSUME NEW l \in Logins, LoginStep(l) PROVE MutexHeld'
  BY <1>2, MutexFrame
  DEF LoginStep, Callback, CallbackDenied, Exchanged, Connected, LoginFails
<1>3. ASSUME NEW c \in Calls, Send(c) \/ Answered(c) \/ CallFails(c) PROVE MutexHeld'
  <2>1. /\ call[c].at \notin Refreshing \cup {"queued"}
        /\ call'[c].at \notin Refreshing \cup {"queued"}
    BY <1>3 DEF TypeOK, Send, Answered, CallFails, Holding, Refreshing
  <2>2. busy' = busy /\ \A d \in Calls \ {c} : call'[d] = call[d]
    BY <1>3 DEF TypeOK, Send, Answered, CallFails
  <2> QED BY <2>1, <2>2, MutexOutside
<1>4. ASSUME NEW c \in Calls, Unauthorized(c) PROVE MutexHeld'
  <2>1. call[c].at = "sent" /\ \A d \in Calls \ {c} : call'[d] = call[d]
    BY <1>4 DEF TypeOK, Unauthorized
  <2>2. CASE MayRefresh(ClientOf[c])
    <3>1. call'[c].at = "posting" /\ busy' = [busy EXCEPT ![ClientOf[c]] = TRUE]
      BY <1>4, <2>2 DEF TypeOK, Unauthorized, CallState
    <3> QED BY <2>1, <2>2, <3>1, MutexTaken DEF TypeOK, MayRefresh
  <2>3. CASE ~MayRefresh(ClientOf[c])
    <3>1. call'[c].at = "queued" /\ busy' = busy
      BY <1>4, <2>3 DEF TypeOK, Unauthorized, CallState
    <3> QED BY <2>1, <2>3, <3>1, MutexWaits DEF TypeOK, MayRefresh
  <2> QED BY <2>2, <2>3
<1>5. ASSUME NEW c \in Calls, Grant(c) \/ Deny(c) PROVE MutexHeld'
  <2>1. call[c].at \in Refreshing /\ call'[c].at \in Refreshing
    BY <1>5 DEF TypeOK, CallState, Grant, Deny, Refreshing
  <2>2. busy' = busy /\ \A d \in Calls \ {c} : call'[d] = call[d]
    BY <1>5 DEF TypeOK, Grant, Deny
  <2> QED BY <2>1, <2>2, MutexGoesOn
<1>6. ASSUME NEW c \in Calls, Refreshed(c) \/ RefreshFails(c) PROVE MutexHeld'
  <2>1. call[c].at \in Refreshing
    BY <1>6 DEF Refreshed, RefreshFails, Refreshing
  <2>2. busy' = [busy EXCEPT ![ClientOf[c]] = FALSE]
    BY <1>6 DEF Refreshed, RefreshFails
  <2>3. \A d \in Released(c) : call'[d].at \notin Refreshing \cup {"queued"}
    <3>1. ASSUME NEW d \in Released(c) PROVE call'[d].at \in {"resent", "failed"}
      <4>1. d \in Calls /\ call[d] \in CallState
        BY DEF Released, TypeOK
      <4>2. Resent(c, d).at = "resent" /\ Holding("failed").at = "failed"
        BY <4>1 DEF Resent, Holding, CallState
      <4> QED BY <1>6, <4>1, <4>2 DEF Refreshed, RefreshFails
    <3> QED BY <3>1 DEF Refreshing
  <2>4. \A d \in Calls \ Released(c) : call'[d] = call[d]
    BY <1>6 DEF Refreshed, RefreshFails
  <2> QED BY <2>1, <2>2, <2>3, <2>4, MutexReleased DEF TypeOK
<1>7. ASSUME NEW t \in Pairs, Expire(t) PROVE MutexHeld'
  BY <1>7, MutexFrame DEF Expire
<1>8. CASE Crash
  <2>1. \A c \in Calls : call'[c].at \notin Refreshing \cup {"queued"}
    BY <1>8 DEF TypeOK, Crash, Holding, Over, Refreshing
  <2>2. busy' = [k \in Clients |-> FALSE]
    BY <1>8 DEF Crash
  <2> QED BY <2>1, <2>2 DEF MutexHeld, HeldByOne
<1>9. CASE Restart
  BY <1>9, MutexFrame DEF Restart
<1>10. CASE UNCHANGED vars
  BY <1>10, MutexFrame DEF vars
<1> QED
  BY <1>1, <1>2, <1>3, <1>4, <1>5, <1>6, <1>7, <1>8, <1>9, <1>10 DEF Next, Answer

\* The mutex of a client is held by exactly one refresh, and whoever waits, waits for
\* one that is under way (ensureTokenRefreshed).
THEOREM MutexProved == Spec => []MutexHeld
<1>1. Init => MutexHeld
  BY DEF Init, MutexHeld, HeldByOne, Holding, Refreshing
<1> QED BY <1>1, MutexStep, CredentialTypes, PTL DEF Spec

-----------------------------------------------------------------------------
(* States                                                                  *)

\* The state of a login that was let in was generated and is consumed.
Consumed == \A l \in Logins : login[l].at \in Accepted => login[l].nonce \in handed \ states

\* A state that was used stays used.
LEMMA ConsumedStep ==
  TypeOK /\ Consumed /\ StateIsSingleUse /\ [Next]_vars => Consumed' /\ StateIsSingleUse'
<1> SUFFICES ASSUME TypeOK, Consumed, StateIsSingleUse, [Next]_vars
             PROVE  Consumed' /\ StateIsSingleUse'
  OBVIOUS
<1> USE DEF Consumed, StateIsSingleUse
<1>1. ASSUME NEW n \in Nonces, StartLogin(n) \/ Lapse(n) PROVE Consumed' /\ StateIsSingleUse'
  BY <1>1 DEF StartLogin, Lapse
<1>2. ASSUME NEW l \in Logins, Callback(l) PROVE Consumed' /\ StateIsSingleUse'
  <2>1. states' = states \ {login[l].nonce} /\ handed' = handed /\ login[l].nonce \in handed
    BY <1>2 DEF Callback, Consume
  <2>2. \A m \in Logins \ {l} : login'[m] = login[m]
    BY <1>2 DEF TypeOK, Callback
  <2>3. login'[l].nonce = login[l].nonce
    BY <1>2 DEF TypeOK, Callback
  <2>4. login'[l].at \in Accepted => login[l].nonce \in states
    BY <1>2 DEF TypeOK, Callback, Accepted
  <2> QED BY <2>1, <2>2, <2>3, <2>4
<1>3. ASSUME NEW l \in Logins, CallbackDenied(l) \/ Exchanged(l) \/ Connected(l) \/ LoginFails(l)
      PROVE  Consumed' /\ StateIsSingleUse'
  <2>1. UNCHANGED <<states, handed>> /\ \A m \in Logins \ {l} : login'[m] = login[m]
    BY <1>3 DEF TypeOK, CallbackDenied, Exchanged, Connected, LoginFails
  <2>2. login'[l].nonce = login[l].nonce
    BY <1>3 DEF TypeOK, CallbackDenied, Exchanged, Connected, LoginFails
  <2>3. login'[l].at \in Accepted => login[l].at \in Accepted
    BY <1>3 DEF TypeOK, CallbackDenied, Exchanged, Connected, LoginFails, Accepted
  <2> QED BY <2>1, <2>2, <2>3
<1>4. ASSUME NEW c \in Calls, Send(c) \/ Answer(c) PROVE Consumed' /\ StateIsSingleUse'
  BY <1>4
  DEF Send, Answer, Answered, CallFails, Unauthorized, Grant, Deny, Refreshed, RefreshFails
<1>5. ASSUME NEW t \in Pairs, Expire(t) PROVE Consumed' /\ StateIsSingleUse'
  BY <1>5 DEF Expire
<1>6. CASE Crash
  <2>1. states' = {} /\ handed' = handed
    BY <1>6 DEF Crash
  <2>2. ASSUME NEW l \in Logins
        PROVE  /\ login'[l].nonce = login[l].nonce
               /\ login'[l].at \in Accepted => login[l].at \in Accepted
    BY <1>6 DEF TypeOK, Crash, Accepted
  <2>3. Consumed'
    BY <2>1, <2>2
  <2>4. StateIsSingleUse'
    BY <2>2
  <2> QED BY <2>3, <2>4
<1>7. CASE Restart
  BY <1>7 DEF Restart
<1>8. CASE UNCHANGED vars
  BY <1>8 DEF vars
<1> QED BY <1>1, <1>2, <1>3, <1>4, <1>5, <1>6, <1>7, <1>8 DEF Next, LoginStep

\* A state opens the door to one login only, however often its callback arrives,
\* whenever it lapses and whenever the process is started again
\* (OAuthStateStore.consume).
THEOREM SingleUseProved == Spec => []StateIsSingleUse
<1>1. Init => Consumed /\ StateIsSingleUse
  BY DEF Init, Consumed, StateIsSingleUse, Accepted
<1> QED BY <1>1, ConsumedStep, CredentialTypes, PTL DEF Spec
-----------------------------------------------------------------------------
(* Fresh pairs                                                             *)

\* Pair t has been seen by more than the answer that brings it.
Used(t) ==
  /\ t # 0
  /\ \/ \E s \in Sites : t \in {row[s].access, row[s].refresh}
     \/ \E c \in Calls : t \in {call[c].bearer, call[c].refused, call[c].posted}
     \/ t \in spent

\* The answers that bring a pair: to the refresh of a call, and to a login.
CallBrings(c, t) == call[c].at = "granted" /\ call[c].fresh = t
LoginBrings(l, t) == login[l].at = "verify" /\ login[l].pair = t

\* A pair that is used or on its way was issued; one on its way is new: nobody has
\* seen it, and no other answer brings it.
PrivateAt(t) ==
  /\ Used(t) => t <= issued
  /\ \A c \in Calls : CallBrings(c, t) => t \in 1..issued /\ ~Used(t)
  /\ \A l \in Logins : LoginBrings(l, t) => t \in 1..issued /\ ~Used(t)
  /\ \A c, d \in Calls : CallBrings(c, t) /\ CallBrings(d, t) => c = d
  /\ \A l, m \in Logins : LoginBrings(l, t) /\ LoginBrings(m, t) => l = m
  /\ \A c \in Calls, l \in Logins : ~(CallBrings(c, t) /\ LoginBrings(l, t))
Private == \A t \in Nat : PrivateAt(t)

\* A step that uses only what was used, or the pair of an answer that has arrived,
\* and brings nothing new, keeps a pair private.
LEMMA PrivateKept ==
  ASSUME NEW t \in Nat, PrivateAt(t), issued \in Nat, issued' \in {issued, issued + 1},
         \A c \in Calls : CallBrings(c, t)' => CallBrings(c, t),
         \A l \in Logins : LoginBrings(l, t)' => LoginBrings(l, t),
         Used(t)' =>
           \/ Used(t)
           \/ \E c \in Calls : CallBrings(c, t) /\ ~CallBrings(c, t)'
           \/ \E l \in Logins : LoginBrings(l, t) /\ ~LoginBrings(l, t)'
  PROVE  PrivateAt(t)'
<1>1. (t <= issued => t <= issued') /\ (t \in 1..issued => t \in 1..issued')
  OBVIOUS
<1>2. Used(t)' => t <= issued'
  BY <1>1 DEF PrivateAt
<1>3. \A c \in Calls : CallBrings(c, t)' => t \in 1..issued' /\ ~Used(t)'
  BY <1>1 DEF PrivateAt
<1>4. \A l \in Logins : LoginBrings(l, t)' => t \in 1..issued' /\ ~Used(t)'
  BY <1>1 DEF PrivateAt
<1>5. /\ \A c, d \in Calls : CallBrings(c, t)' /\ CallBrings(d, t)' => c = d
      /\ \A l, m \in Logins : LoginBrings(l, t)' /\ LoginBrings(m, t)' => l = m
      /\ \A c \in Calls, l \in Logins : ~(CallBrings(c, t)' /\ LoginBrings(l, t)')
  BY DEF PrivateAt
<1> QED BY <1>2, <1>3, <1>4, <1>5 DEF PrivateAt

\* A call that moves on to something that neither brings a pair nor carries one that
\* it did not hold, or that the table did not hold.
LEMMA PrivateCall ==
  ASSUME TypeOK, Private, NEW c \in Calls, call'[c].at # "granted",
         UNCHANGED <<row, spent, issued, login>>, \A d \in Calls \ {c} : call'[d] = call[d],
         \A t \in Nat : t \in {call'[c].bearer, call'[c].refused, call'[c].posted} => t = 0 \/ Used(t)
  PROVE  Private'
<1> SUFFICES ASSUME NEW t \in Nat PROVE PrivateAt(t)'
  BY DEF Private
<1>1. PrivateAt(t) /\ issued \in Nat /\ issued' = issued
  BY DEF Private, TypeOK
<1>2. \A d \in Calls : CallBrings(d, t)' => CallBrings(d, t)
  BY DEF CallBrings
<1>3. \A l \in Logins : LoginBrings(l, t)' => LoginBrings(l, t)
  BY DEF LoginBrings
<1>4. Used(t)' => Used(t)
  <2>1. ASSUME NEW d \in Calls, t \in {call'[d].bearer, call'[d].refused, call'[d].posted}
        PROVE  t = 0 \/ Used(t)
    <3>1. CASE d = c
      BY <2>1, <3>1
    <3>2. CASE d # c
      BY <2>1, <3>2 DEF Used
    <3> QED BY <3>1, <3>2
  <2>2. (\E s \in Sites : t \in {row'[s].access, row'[s].refresh}) \/ t \in spent'
          => t = 0 \/ Used(t)
    BY DEF Used
  <2> QED BY <2>1, <2>2 DEF Used
<1> QED BY <1>1, <1>2, <1>3, <1>4, PrivateKept

\* A step that leaves the pairs, the table and the calls alone.
LEMMA PrivateFrame ==
  ASSUME Private, TypeOK, UNCHANGED <<row, call, spent, issued>>,
         \A l \in Logins : login'[l].at = "verify" => login'[l] = login[l]
  PROVE  Private'
<1> SUFFICES ASSUME NEW t \in Nat PROVE PrivateAt(t)'
  BY DEF Private
<1>1. PrivateAt(t) /\ issued \in Nat /\ issued' = issued
  BY DEF Private, TypeOK
<1>2. \A c \in Calls : CallBrings(c, t)' => CallBrings(c, t)
  BY DEF CallBrings
<1>3. \A l \in Logins : LoginBrings(l, t)' => LoginBrings(l, t)
  BY DEF LoginBrings
<1>4. Used(t)' => Used(t)
  BY DEF Used
<1> QED BY <1>1, <1>2, <1>3, <1>4, PrivateKept

\* A refresh is granted: the pair is new, and so is the answer that brings it.
LEMMA PrivateGranted ==
  ASSUME TypeOK, Private, NEW c \in Calls, Grant(c)
  PROVE  Private'
<1> SUFFICES ASSUME NEW t \in Nat PROVE PrivateAt(t)'
  BY DEF Private
<1>1. PrivateAt(t) /\ issued \in Nat /\ issued' = issued + 1 /\ login' = login /\ row' = row
  BY DEF Private, TypeOK, Grant
<1>2. call[c] \in CallState /\ call' = [call EXCEPT ![c].at = "granted", ![c].fresh = issued + 1]
  BY DEF Grant, TypeOK
<1>3. /\ call'[c].at = "granted" /\ call'[c].fresh = issued + 1
      /\ call'[c].bearer = call[c].bearer /\ call'[c].refused = call[c].refused
      /\ call'[c].posted = call[c].posted
      /\ \A d \in Calls \ {c} : call'[d] = call[d]
  BY <1>2 DEF TypeOK, CallState
<1>4. Used(t)' => Used(t)
  <2>1. \A d \in Calls : t \in {call'[d].bearer, call'[d].refused, call'[d].posted}
                           => t \in {call[d].bearer, call[d].refused, call[d].posted}
    BY <1>3
  <2>2. t \in spent' => t \in spent \/ t = call[c].posted
    BY DEF Grant
  <2> QED BY <1>1, <2>1, <2>2 DEF Used
<1>5. \A l \in Logins : LoginBrings(l, t)' <=> LoginBrings(l, t)
  BY <1>1 DEF LoginBrings
<1>6. CASE t # issued + 1
  <2>1. \A d \in Calls : CallBrings(d, t)' => CallBrings(d, t)
    BY <1>3, <1>6 DEF CallBrings
  <2> QED BY <1>1, <1>4, <1>5, <2>1, PrivateKept
<1>7. CASE t = issued + 1
  <2>1. ~(t <= issued) /\ t \in 1..issued'
    BY <1>1, <1>7
  <2>2. ~Used(t) /\ \A l \in Logins : ~LoginBrings(l, t)
    BY <1>1, <2>1 DEF PrivateAt
  <2>3. \A d \in Calls : CallBrings(d, t)' => d = c
    BY <1>1, <1>3, <2>1 DEF PrivateAt, CallBrings
  <2> QED BY <1>4, <1>5, <2>1, <2>2, <2>3 DEF PrivateAt
<1> QED BY <1>6, <1>7

\* A code is exchanged: likewise.
LEMMA PrivateExchanged ==
  ASSUME TypeOK, Private, NEW l \in Logins, Exchanged(l)
  PROVE  Private'
<1> SUFFICES ASSUME NEW t \in Nat PROVE PrivateAt(t)'
  BY DEF Private
<1>1. /\ PrivateAt(t) /\ issued \in Nat /\ issued' = issued + 1
      /\ UNCHANGED <<row, call, spent>>
  BY DEF Private, TypeOK, Exchanged
<1>2. /\ login'[l].at = "verify" /\ login'[l].pair = issued + 1
      /\ \A m \in Logins \ {l} : login'[m] = login[m]
  BY DEF TypeOK, Exchanged
<1>3. Used(t)' <=> Used(t)
  BY <1>1 DEF Used
<1>4. \A c \in Calls : CallBrings(c, t)' <=> CallBrings(c, t)
  BY <1>1 DEF CallBrings
<1>5. CASE t # issued + 1
  <2>1. \A m \in Logins : LoginBrings(m, t)' => LoginBrings(m, t)
    BY <1>2, <1>5 DEF LoginBrings
  <2> QED BY <1>1, <1>3, <1>4, <2>1, PrivateKept
<1>6. CASE t = issued + 1
  <2>1. ~(t <= issued) /\ t \in 1..issued'
    BY <1>1, <1>6
  <2>2. ~Used(t) /\ \A c \in Calls : ~CallBrings(c, t)
    BY <1>1, <2>1 DEF PrivateAt
  <2>3. \A m \in Logins : LoginBrings(m, t)' => m = l
    BY <1>1, <1>2, <2>1 DEF PrivateAt, LoginBrings
  <2> QED BY <1>3, <1>4, <2>1, <2>2, <2>3 DEF PrivateAt
<1> QED BY <1>5, <1>6

\* The pair that a login brings is stored.
LEMMA PrivateConnected ==
  ASSUME TypeOK, Private, NEW l \in Logins, Connected(l)
  PROVE  Private'
<1> SUFFICES ASSUME NEW t \in Nat PROVE PrivateAt(t)'
  BY DEF Private
<1>1. /\ PrivateAt(t) /\ issued \in Nat /\ issued' = issued /\ UNCHANGED <<call, spent>>
      /\ row' = [s \in Sites |-> PairRow(login[l].pair)] /\ login[l].at = "verify"
  BY DEF Private, TypeOK, Connected
<1>2. login'[l].at = "connected" /\ \A m \in Logins \ {l} : login'[m] = login[m]
  BY DEF TypeOK, Connected
<1>3. \A c \in Calls : CallBrings(c, t)' => CallBrings(c, t)
  BY <1>1 DEF CallBrings
<1>4. \A m \in Logins : LoginBrings(m, t)' => LoginBrings(m, t)
  BY <1>2 DEF LoginBrings
<1>5. Used(t)' => Used(t) \/ (LoginBrings(l, t) /\ ~LoginBrings(l, t)')
  <2>1. \A s \in Sites : t \in {row'[s].access, row'[s].refresh} => t = login[l].pair
    BY <1>1 DEF PairRow
  <2> QED BY <1>1, <1>2, <2>1 DEF Used, LoginBrings
<1> QED BY <1>1, <1>3, <1>4, <1>5, PrivateKept

\* The pair that a refresh brings is stored, and carried by the calls that go on.
LEMMA PrivateRefreshed ==
  ASSUME TypeOK, Private, NEW c \in Calls, Refreshed(c)
  PROVE  Private'
<1> SUFFICES ASSUME NEW t \in Nat PROVE PrivateAt(t)'
  BY DEF Private
<1>1. /\ PrivateAt(t) /\ issued \in Nat /\ issued' = issued /\ UNCHANGED <<login, spent>>
      /\ row' = [row EXCEPT ![Site(c)] = PairRow(call[c].fresh)] /\ call[c].at = "granted"
      /\ row \in [Sites -> [access : 0..MaxPairs, refresh : 0..MaxPairs]]
  BY DEF Private, TypeOK, Refreshed, Persist
<1>2. \A d \in Calls : call'[d] = IF d \in Released(c) THEN Resent(c, d) ELSE call[d]
  BY DEF Refreshed
<1>3. ASSUME NEW d \in Calls, d \in Released(c)
      PROVE  /\ call'[d].at = "resent" /\ call'[d].bearer = call[c].fresh
             /\ call'[d].refused = call[d].refused /\ call'[d].posted = 0
  BY <1>2, <1>3 DEF Resent, TypeOK, CallState
<1>4. c \in Released(c) /\ call'[c].at = "resent"
  BY <1>3 DEF Released
<1>5. \A d \in Calls : CallBrings(d, t)' => CallBrings(d, t)
  BY <1>2, <1>3 DEF CallBrings
<1>6. \A l \in Logins : LoginBrings(l, t)' => LoginBrings(l, t)
  BY <1>1 DEF LoginBrings
<1>7. Used(t)' => Used(t) \/ t = call[c].fresh
  <2>1. \A s \in Sites : t \in {row'[s].access, row'[s].refresh}
                           => t \in {row[s].access, row[s].refresh, call[c].fresh}
    BY <1>1 DEF PairRow
  <2>2. \A d \in Calls : t # 0 /\ t \in {call'[d].bearer, call'[d].refused, call'[d].posted}
                           => \/ t \in {call[d].bearer, call[d].refused, call[d].posted}
                              \/ t = call[c].fresh
    BY <1>2, <1>3
  <2> QED BY <1>1, <2>1, <2>2 DEF Used
<1> QED BY <1>1, <1>4, <1>5, <1>6, <1>7, PrivateKept DEF CallBrings

\* Calls and logins that end let go of what they hold.
LEMMA PrivateEnded ==
  ASSUME TypeOK, Private, UNCHANGED <<row, spent, issued>>,
         \A c \in Calls : call'[c] \in {call[c], Holding("failed"), Holding("gone")},
         \A l \in Logins : login'[l].at = "verify" => login'[l] = login[l]
  PROVE  Private'
<1> SUFFICES ASSUME NEW t \in Nat PROVE PrivateAt(t)'
  BY DEF Private
<1>1. PrivateAt(t) /\ issued \in Nat /\ issued' = issued
  BY DEF Private, TypeOK
<1>2. \A c \in Calls : CallBrings(c, t)' => CallBrings(c, t)
  BY DEF CallBrings, Holding
<1>3. \A l \in Logins : LoginBrings(l, t)' => LoginBrings(l, t)
  BY DEF LoginBrings
<1>4. Used(t)' => Used(t)
  BY DEF Used, Holding
<1> QED BY <1>1, <1>2, <1>3, <1>4, PrivateKept

\* No step puts a fresh pair in two places.
LEMMA PrivateStep == TypeOK /\ Private /\ [Next]_vars => Private'
<1> SUFFICES ASSUME TypeOK, Private, [Next]_vars PROVE Private'
  OBVIOUS
<1>1. ASSUME NEW n \in Nonces, StartLogin(n) \/ Lapse(n) PROVE Private'
  BY <1>1, PrivateFrame DEF StartLogin, Lapse
<1>2. ASSUME NEW l \in Logins, Callback(l) \/ CallbackDenied(l) \/ LoginFails(l) PROVE Private'
  <2>1. \A m \in Logins : login'[m].at = "verify" => login'[m] = login[m]
    BY <1>2 DEF TypeOK, Callback, CallbackDenied, LoginFails
  <2>2. UNCHANGED <<row, call, spent, issued>>
    BY <1>2 DEF Callback, CallbackDenied, LoginFails
  <2> QED BY <2>1, <2>2, PrivateFrame
<1>3. ASSUME NEW l \in Logins, Exchanged(l) \/ Connected(l) PROVE Private'
  BY <1>3, PrivateExchanged, PrivateConnected
<1>4. ASSUME NEW c \in Calls, Send(c) PROVE Private'
  <2>1. UNCHANGED <<row, spent, issued, login>> /\ \A d \in Calls \ {c} : call'[d] = call[d]
    BY <1>4 DEF TypeOK, Send
  <2>2. Site(c) \in Sites
    BY SiteAssumption, ClientAssumption DEF Site
  <2>3. call'[c] \in {Holding("failed"), [Holding("sent") EXCEPT !.bearer = row[Site(c)].access]}
    BY <1>4 DEF TypeOK, Send
  <2>4. \A t \in Nat : t \in {call'[c].bearer, call'[c].refused, call'[c].posted}
                         => t = 0 \/ t = row[Site(c)].access
    BY <2>3 DEF Holding
  <2>5. call'[c].at # "granted"
    BY <2>3 DEF Holding
  <2> QED BY <2>1, <2>2, <2>4, <2>5, PrivateCall DEF Used
<1>5. ASSUME NEW c \in Calls, Answered(c) \/ CallFails(c) \/ Deny(c) PROVE Private'
  <2>1. UNCHANGED <<row, spent, issued, login>> /\ \A d \in Calls \ {c} : call'[d] = call[d]
    BY <1>5 DEF TypeOK, Answered, CallFails, Deny
  <2>2. call'[c].at \in {"ok", "failed", "denied"}
    BY <1>5 DEF TypeOK, CallState, Answered, CallFails, Deny, Holding
  <2>3. \A t \in Nat : t \in {call'[c].bearer, call'[c].refused, call'[c].posted}
                         => t = 0 \/ t \in {call[c].bearer, call[c].refused, call[c].posted}
    BY <1>5 DEF TypeOK, CallState, Answered, CallFails, Deny, Holding
  <2> QED BY <2>1, <2>2, <2>3, PrivateCall DEF Used
<1>6. ASSUME NEW c \in Calls, Unauthorized(c) PROVE Private'
  <2>1. UNCHANGED <<row, spent, issued, login>> /\ \A d \in Calls \ {c} : call'[d] = call[d]
    BY <1>6 DEF TypeOK, Unauthorized
  <2>2. Site(c) \in Sites
    BY SiteAssumption, ClientAssumption DEF Site
  <2>3. /\ call'[c].at \in {"posting", "queued"}
        /\ call'[c].bearer = call[c].bearer /\ call'[c].refused = call[c].bearer
        /\ call'[c].posted \in {call[c].posted, row[Site(c)].refresh}
    BY <1>6 DEF TypeOK, CallState, Unauthorized
  <2>4. \A t \in Nat : t \in {call'[c].bearer, call'[c].refused, call'[c].posted} => t = 0 \/ Used(t)
    BY <2>2, <2>3 DEF Used
  <2> QED BY <2>1, <2>3, <2>4, PrivateCall
<1>7. ASSUME NEW c \in Calls, Grant(c) \/ Refreshed(c) PROVE Private'
  BY <1>7, PrivateGranted, PrivateRefreshed
<1>8. ASSUME NEW c \in Calls, RefreshFails(c) PROVE Private'
  <2>1. UNCHANGED <<row, spent, issued, login>>
    BY <1>8 DEF RefreshFails
  <2>2. \A d \in Calls : call'[d] \in {call[d], Holding("failed")}
    BY <1>8 DEF RefreshFails
  <2> QED BY <2>1, <2>2, PrivateEnded
<1>9. ASSUME NEW t \in Pairs, Expire(t) PROVE Private'
  BY <1>9, PrivateFrame DEF Expire
<1>10. CASE Crash
  <2>1. UNCHANGED <<row, spent, issued>>
    BY <1>10 DEF Crash
  <2>2. \A d \in Calls : call'[d] \in {call[d], Holding("gone")}
    BY <1>10 DEF Crash
  <2>3. \A l \in Logins : login'[l].at = "verify" => login'[l] = login[l]
    BY <1>10 DEF TypeOK, Crash
  <2> QED BY <2>1, <2>2, <2>3, PrivateEnded
<1>11. CASE Restart
  BY <1>11, PrivateFrame DEF Restart
<1>12. CASE UNCHANGED vars
  BY <1>12, PrivateFrame DEF vars
<1> QED
  BY <1>1, <1>2, <1>3, <1>4, <1>5, <1>6, <1>7, <1>8, <1>9, <1>10, <1>11, <1>12
  DEF Next, LoginStep, Answer

\* At first no pair is anywhere.
LEMMA PrivateInit == Init => Private
<1> SUFFICES ASSUME Init, NEW t \in Nat PROVE PrivateAt(t)
  BY DEF Private
<1>1. \A c \in Calls : ~CallBrings(c, t)
  BY DEF Init, CallBrings, Holding
<1>2. \A l \in Logins : ~LoginBrings(l, t)
  BY DEF Init, LoginBrings
<1>3. Used(t) => t <= issued
  BY DEF Init, Used, Holding, PairRow, NoRow
<1> QED BY <1>1, <1>2, <1>3 DEF PrivateAt

\* The pair on its way to a call is none that a call was refused.
LEMMA FreshIsNew ==
  ASSUME TypeOK, Private, NEW c \in Calls, NEW d \in Calls, call[c].at = "granted"
  PROVE  call[d].refused # call[c].fresh
<1>1. PICK t \in Nat : t = call[c].fresh
  BY DEF TypeOK, CallState
<1>2. CallBrings(c, t) /\ PrivateAt(t)
  BY <1>1 DEF CallBrings, Private
<1> QED BY <1>1, <1>2 DEF PrivateAt, Used

-----------------------------------------------------------------------------
(* The retry                                                               *)

\* A call that is not sent again now carries what it carried, if it is a retry.
LEMMA RetryFrame ==
  ASSUME RetryIsFresh, \A c \in Calls : call'[c].at = "resent" => call'[c] = call[c]
  PROVE  RetryIsFresh'
BY DEF RetryIsFresh

\* No step makes the retry of a call stale.
LEMMA RetryStep == TypeOK /\ Private /\ RetryIsFresh /\ [Next]_vars => RetryIsFresh'
<1> SUFFICES ASSUME TypeOK, Private, RetryIsFresh, [Next]_vars PROVE RetryIsFresh'
  OBVIOUS
<1>1. ASSUME NEW n \in Nonces, StartLogin(n) \/ Lapse(n) PROVE RetryIsFresh'
  BY <1>1, RetryFrame DEF StartLogin, Lapse
<1>2. ASSUME NEW l \in Logins, LoginStep(l) PROVE RetryIsFresh'
  BY <1>2, RetryFrame
  DEF LoginStep, Callback, CallbackDenied, Exchanged, Connected, LoginFails
<1>3. ASSUME NEW c \in Calls, Send(c) \/ Answered(c) \/ CallFails(c) PROVE RetryIsFresh'
  <2>1. \A d \in Calls \ {c} : call'[d] = call[d]
    BY <1>3 DEF TypeOK, Send, Answered, CallFails
  <2>2. call'[c].at # "resent"
    BY <1>3 DEF TypeOK, Send, Answered, CallFails, Holding
  <2> QED BY <2>1, <2>2, RetryFrame
<1>4. ASSUME NEW c \in Calls, Unauthorized(c) \/ Grant(c) \/ Deny(c) PROVE RetryIsFresh'
  <2>1. \A d \in Calls \ {c} : call'[d] = call[d]
    BY <1>4 DEF TypeOK, Unauthorized, Grant, Deny
  <2>2. call'[c].at \in {"posting", "queued", "granted", "denied"}
    BY <1>4 DEF TypeOK, CallState, Unauthorized, Grant, Deny
  <2> QED BY <2>1, <2>2, RetryFrame
<1>5. ASSUME NEW c \in Calls, Refreshed(c) PROVE RetryIsFresh'
  <2>1. ASSUME NEW d \in Released(c)
        PROVE  call'[d].bearer = call[c].fresh /\ call'[d].refused = call[d].refused
    <3>1. d \in Calls /\ call[d] \in CallState
      BY DEF Released, TypeOK
    <3>2. call'[d] = Resent(c, d)
      BY <1>5, <3>1 DEF Refreshed
    <3> QED BY <3>1, <3>2 DEF Resent, CallState
  <2>2. \A d \in Calls \ Released(c) : call'[d] = call[d]
    BY <1>5 DEF Refreshed
  <2>3. \A d \in Calls : call[d].refused # call[c].fresh
    BY <1>5, FreshIsNew DEF Refreshed
  <2>4. Released(c) \subseteq Calls
    BY DEF Released
  <2> QED BY <2>1, <2>2, <2>3, <2>4 DEF RetryIsFresh
<1>6. ASSUME NEW c \in Calls, RefreshFails(c) PROVE RetryIsFresh'
  BY <1>6, RetryFrame DEF RefreshFails, Holding
<1>7. ASSUME NEW t \in Pairs, Expire(t) PROVE RetryIsFresh'
  BY <1>7, RetryFrame DEF Expire
<1>8. CASE Crash
  BY <1>8, RetryFrame DEF Crash, Holding
<1>9. CASE Restart
  BY <1>9, RetryFrame DEF Restart
<1>10. CASE UNCHANGED vars
  BY <1>10, RetryFrame DEF vars
<1> QED
  BY <1>1, <1>2, <1>3, <1>4, <1>5, <1>6, <1>7, <1>8, <1>9, <1>10 DEF Next, Answer

\* A retry never carries the token that was just refused, whichever call did the
\* refresh, whatever other clients and logins stored meanwhile and whenever the
\* process was started again (JiraHttpClient.execute).
THEOREM RetryProved == Spec => []RetryIsFresh
<1>1. Init => RetryIsFresh
  BY DEF Init, RetryIsFresh, Holding
<1> QED BY <1>1, PrivateInit, PrivateStep, RetryStep, CredentialTypes, PTL DEF Spec

-----------------------------------------------------------------------------
(* The row                                                                 *)

OneSite == \A s, t \in Sites : s = t

\* A step that changes neither the table nor what was spent, and settles no granted
\* refresh that was not lost, leaves the row as usable as it was.
LEMMA UsableFrame ==
  ASSUME RowIsUsable, UNCHANGED <<row, spent>>, lost => lost',
         lost' \/ \A c \in Calls : call[c].at = "granted"
                                     => call'[c].at = "granted" /\ call'[c].posted = call[c].posted
  PROVE  RowIsUsable'
BY DEF RowIsUsable, Site

\* With one site, a spent pair in the row means a rotation under way or a lost answer:
\* every step keeps that.
LEMMA UsableStep ==
  OneSite /\ TypeOK /\ Private /\ RowIsUsable /\ [Next]_vars => RowIsUsable'
<1> SUFFICES ASSUME OneSite, TypeOK, Private, RowIsUsable, [Next]_vars PROVE RowIsUsable'
  OBVIOUS
<1>1. ASSUME NEW n \in Nonces, StartLogin(n) \/ Lapse(n) PROVE RowIsUsable'
  BY <1>1, UsableFrame DEF StartLogin, Lapse
<1>2. ASSUME NEW l \in Logins, Callback(l) \/ CallbackDenied(l) \/ Exchanged(l) \/ LoginFails(l)
      PROVE  RowIsUsable'
  BY <1>2, UsableFrame DEF Callback, CallbackDenied, Exchanged, LoginFails
<1>3. ASSUME NEW l \in Logins, Connected(l) PROVE RowIsUsable'
  <2>1. PICK t \in Nat : t = login[l].pair
    BY DEF TypeOK
  <2>2. LoginBrings(l, t) /\ PrivateAt(t)
    BY <1>3, <2>1 DEF Connected, LoginBrings, Private
  <2>3. t \notin spent
    BY <2>2 DEF PrivateAt, Used
  <2>4. row' = [s \in Sites |-> PairRow(t)] /\ spent' = spent
    BY <1>3, <2>1 DEF Connected
  <2> QED BY <2>3, <2>4 DEF RowIsUsable, PairRow
<1>4. ASSUME NEW c \in Calls, Send(c) \/ Answered(c) \/ CallFails(c) \/ Unauthorized(c) \/ Deny(c)
      PROVE  RowIsUsable'
  <2>1. UNCHANGED <<row, spent, lost>> /\ \A d \in Calls \ {c} : call'[d] = call[d]
    BY <1>4 DEF TypeOK, Send, Answered, CallFails, Unauthorized, Deny
  <2>2. call[c].at # "granted"
    BY <1>4 DEF Send, Answered, CallFails, Unauthorized, Deny
  <2> QED BY <2>1, <2>2, UsableFrame
<1>5. ASSUME NEW c \in Calls, Grant(c) PROVE RowIsUsable'
  <2>1. UNCHANGED <<row, lost>> /\ spent' = spent \cup {call[c].posted}
    BY <1>5 DEF Grant
  <2>2. /\ call'[c].at = "granted" /\ call'[c].posted = call[c].posted
        /\ \A d \in Calls \ {c} : call'[d] = call[d]
    BY <1>5 DEF TypeOK, CallState, Grant
  <2>3. Site(c) \in Sites /\ Site(c)' = Site(c)
    BY SiteAssumption, ClientAssumption DEF Site
  <2>4. call[c].at # "granted"
    BY <1>5 DEF Grant
  <2>5. ASSUME NEW s \in Sites, row'[s] # NoRow
        PROVE  /\ row'[s].access = row'[s].refresh
               /\ \/ row'[s].refresh \notin spent'
                  \/ lost'
                  \/ \E d \in Calls : /\ call'[d].at = "granted" /\ Site(d) = s
                                      /\ call'[d].posted = row'[s].refresh
    <3>1. CASE row[s].refresh = call[c].posted
      BY <2>1, <2>2, <2>3, <2>5, <3>1 DEF OneSite, RowIsUsable
    <3>2. CASE row[s].refresh # call[c].posted
      BY <2>1, <2>2, <2>4, <2>5, <3>2 DEF RowIsUsable
    <3> QED BY <3>1, <3>2
  <2> QED BY <2>5 DEF RowIsUsable, Site
<1>6. ASSUME NEW c \in Calls, Refreshed(c) PROVE RowIsUsable'
  <2>1. PICK t \in Nat : t = call[c].fresh
    BY DEF TypeOK, CallState
  <2>2. CallBrings(c, t) /\ PrivateAt(t)
    BY <1>6, <2>1 DEF Refreshed, CallBrings, Private
  <2>3. t \notin spent
    BY <2>2 DEF PrivateAt, Used
  <2>4. Site(c) \in Sites
    BY SiteAssumption, ClientAssumption DEF Site
  <2>5. \A s \in Sites : row'[s] = PairRow(t)
    BY <1>6, <2>1, <2>4 DEF Refreshed, Persist, OneSite, TypeOK
  <2>6. spent' = spent
    BY <1>6 DEF Refreshed
  <2> QED BY <2>3, <2>5, <2>6 DEF RowIsUsable, PairRow
<1>7. ASSUME NEW c \in Calls, RefreshFails(c) PROVE RowIsUsable'
  <2>1. UNCHANGED <<row, spent>> /\ lost' = (lost \/ call[c].at = "granted")
    BY <1>7 DEF RefreshFails
  <2>2. lost' \/ \A d \in Calls : call[d].at = "granted"
                                    => call'[d].at = "granted" /\ call'[d].posted = call[d].posted
    BY <1>7, <2>1 DEF RefreshFails, Released
  <2> QED BY <2>1, <2>2, UsableFrame
<1>8. ASSUME NEW t \in Pairs, Expire(t) PROVE RowIsUsable'
  BY <1>8, UsableFrame DEF Expire
<1>9. CASE Crash
  <2>1. UNCHANGED <<row, spent>> /\ lost' = (lost \/ \E c \in Calls : call[c].at = "granted")
    BY <1>9 DEF Crash
  <2> QED BY <2>1, UsableFrame
<1>10. CASE Restart
  BY <1>10, UsableFrame DEF Restart
<1>11. CASE UNCHANGED vars
  BY <1>11, UsableFrame DEF vars
<1> QED
  BY <1>1, <1>2, <1>3, <1>4, <1>5, <1>6, <1>7, <1>8, <1>9, <1>10, <1>11
  DEF Next, LoginStep, Answer

\* With one site the table never locks the connector out: its two tokens are of one
\* pair, and the refresh token is unused, unless the pair that replaces it is on its
\* way to the table or was lost on that way (JiraCredentialRepository.rotateTokens;
\* JiraOAuthHandler stores one pair for all sites, hence the assumption).
THEOREM UsableProved ==
  ASSUME OneSite
  PROVE  Spec => []RowIsUsable
<1>1. Init => RowIsUsable
  BY DEF Init, RowIsUsable, PairRow
<1>2. TypeOK /\ Private /\ RowIsUsable /\ [Next]_vars => RowIsUsable'
  BY UsableStep
<1> QED BY <1>1, <1>2, PrivateInit, PrivateStep, CredentialTypes, PTL DEF Spec
=============================================================================
