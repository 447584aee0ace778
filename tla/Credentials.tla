----------------------------- MODULE Credentials -----------------------------
(***************************************************************************)
(* The OAuth credentials of the connected Jira sites: the rows kept by     *)
(* JiraCredentialRepository, the login flow of JiraOAuthHandler with its   *)
(* OAuthStateStore, and the calls of JiraHttpClient, which answers a 401   *)
(* with one refresh of the rotating token pair and one retry.              *)
(*                                                                         *)
(* A pair of tokens is the number under which the authorization server     *)
(* issued it. An action is one turn of the event loop: the answer that     *)
(* settles a refresh persists the pair, releases the mutex and lets every  *)
(* call that waited go on before anything else runs.                       *)
(***************************************************************************)
EXTENDS Naturals, FiniteSets

CONSTANTS
  Sites,      \* cloud ids the accounts can reach
  Clients,    \* instances of JiraHttpClient in connector mode jira
  SiteOf,     \* [Clients -> Sites]
  Calls,      \* calls made through the clients
  ClientOf,   \* [Calls -> Clients]
  Logins,     \* callbacks that may arrive
  Nonces,     \* states the store may generate
  MaxPairs,   \* bound: pairs the authorization server issues
  MaxCrashes  \* bound: times the process dies and is started again

ASSUME SiteAssumption == SiteOf \in [Clients -> Sites]
ASSUME ClientAssumption == ClientOf \in [Calls -> Clients]
ASSUME BoundsAssumption == MaxPairs \in Nat \ {0} /\ MaxCrashes \in Nat

VARIABLES
  \* the table jira_credentials: it survives a crash
  row,      \* [Sites -> [access, refresh]]
  \* the process: lost in a crash
  up,       \* the process runs
  crashes,  \* how often it died
  busy,     \* [Clients -> BOOLEAN]: refreshInFlight is not null
  call,     \* [Calls -> CallState]
  states,   \* SUBSET Nonces: the map of the state store
  login,    \* [Logins -> [at, nonce, pair]]
  \* the environment
  issued,   \* number of pairs issued
  spent,    \* SUBSET Nat: pairs whose refresh token was used
  expired,  \* SUBSET Nat: pairs whose access token is no longer accepted
  handed,   \* SUBSET Nonces: states that went out in an authorize URL
  lapsed,   \* SUBSET Nonces: states past their TTL
  \* history
  lost      \* an issued pair never reached the table

loginVars == <<states, login, handed, lapsed>>
serverVars == <<issued, spent, expired>>
processVars == <<up, crashes>>
vars == <<row, processVars, busy, call, loginVars, serverVars, lost>>

Pairs == 1..MaxPairs
NoRow == [access |-> 0, refresh |-> 0]
PairRow(t) == [access |-> t, refresh |-> t]

\* posting: the refresh is on its way to the authorization server; granted and
\* denied: its answer is on its way back; resent: the one retry
CallAt == {"idle", "sent", "queued", "posting", "granted", "denied", "resent",
           "ok", "failed", "gone"}
Refreshing == {"posting", "granted", "denied"}
Over == {"idle", "ok", "failed", "gone"}

\* What a call holds: the pair whose access token it carries, the pair that was
\* refused with 401, the pair whose refresh token it posted, the pair it got.
CallState == [at : CallAt, bearer : 0..MaxPairs, refused : 0..MaxPairs,
              posted : 0..MaxPairs, fresh : 0..MaxPairs]
Holding(x) == [at |-> x, bearer |-> 0, refused |-> 0, posted |-> 0, fresh |-> 0]

LoginAt == {"idle", "exchange", "verify", "connected", "refused", "gone"}
Accepted == {"exchange", "verify", "connected"}

Site(c) == SiteOf[ClientOf[c]]

TypeOK ==
  /\ row \in [Sites -> [access : 0..MaxPairs, refresh : 0..MaxPairs]]
  /\ up \in BOOLEAN
  /\ crashes \in 0..MaxCrashes
  /\ busy \in [Clients -> BOOLEAN]
  /\ call \in [Calls -> CallState]
  /\ states \in SUBSET Nonces
  /\ login \in [Logins -> [at : LoginAt, nonce : Nonces, pair : 0..MaxPairs]]
  /\ issued \in 0..MaxPairs
  /\ spent \in SUBSET (0..MaxPairs)
  /\ expired \in SUBSET (0..MaxPairs)
  /\ handed \in SUBSET Nonces
  /\ lapsed \in SUBSET Nonces
  /\ lost \in BOOLEAN

\* A site without credentials, or one connected before the process was started.
Init ==
  /\ \/ issued = 0 /\ row = [s \in Sites |-> NoRow]
     \/ issued = 1 /\ row = [s \in Sites |-> PairRow(1)]
  /\ up = TRUE
  /\ crashes = 0
  /\ busy = [k \in Clients |-> FALSE]
  /\ call = [c \in Calls |-> Holding("idle")]
  /\ states = {}
  /\ login \in [Logins -> [at : {"idle"}, nonce : Nonces, pair : {0}]]
  /\ spent = {}
  /\ expired = {}
  /\ handed = {}
  /\ lapsed = {}
  /\ lost = FALSE

-----------------------------------------------------------------------------
(* JiraOAuthHandler and OAuthStateStore                                    *)

\* GET /start: generate() prunes what has lapsed and stores a new state.
StartLogin(n) ==
  /\ up /\ n \notin handed
  /\ states' = (states \ lapsed) \cup {n}
  /\ handed' = handed \cup {n}
  /\ UNCHANGED <<row, processVars, busy, call, login, lapsed, serverVars, lost>>

\* consume() deletes the entry, whatever it answers.
Consume(n) ==
  states' = states \ {n}

\* GET /callback with a state that is stored and fresh goes on to exchange its code;
\* it is refused when the state is neither, or when the code is missing.
Callback(l) ==
  /\ up /\ login[l].at = "idle" /\ login[l].nonce \in handed
  /\ Consume(login[l].nonce)
  /\ \/ /\ login[l].nonce \in states \ lapsed
        /\ login' = [login EXCEPT ![l].at = "exchange"]
     \/ login' = [login EXCEPT ![l].at = "refused"]
  /\ UNCHANGED <<row, processVars, busy, call, handed, lapsed, serverVars, lost>>

\* The callback that brings an error from the consent page consumes nothing.
CallbackDenied(l) ==
  /\ up /\ login[l].at = "idle" /\ login[l].nonce \in handed
  /\ login' = [login EXCEPT ![l].at = "refused"]
  /\ UNCHANGED <<row, processVars, busy, call, states, handed, lapsed, serverVars, lost>>

\* The code is exchanged for a pair.
Exchanged(l) ==
  /\ login[l].at = "exchange" /\ issued < MaxPairs
  /\ issued' = issued + 1
  /\ login' = [login EXCEPT ![l].pair = issued + 1, ![l].at = "verify"]
  /\ UNCHANGED <<row, processVars, busy, call, states, handed, lapsed, spent, expired, lost>>

\* The sites of the account are listed and the account is verified, in two reads
\* that change nothing: then every site gets a row with the pair.
Connected(l) ==
  /\ login[l].at = "verify"
  /\ row' = [s \in Sites |-> PairRow(login[l].pair)]
  /\ login' = [login EXCEPT ![l].at = "connected", ![l].pair = 0]
  /\ UNCHANGED <<processVars, busy, call, states, handed, lapsed, serverVars, lost>>

\* One of the three answers is an error: nothing is stored.
LoginFails(l) ==
  /\ login[l].at \in {"exchange", "verify"}
  /\ login' = [login EXCEPT ![l].at = "refused", ![l].pair = 0]
  /\ UNCHANGED <<row, processVars, busy, call, states, handed, lapsed, serverVars, lost>>

-----------------------------------------------------------------------------
(* JiraHttpClient.execute                                                  *)

\* The header is read from the table as the request goes out; without a row the
\* call fails.
Send(c) ==
  /\ up /\ call[c].at = "idle"
  /\ call' = [call EXCEPT ![c] =
                IF row[Site(c)] = NoRow THEN Holding("failed")
                ELSE [Holding("sent") EXCEPT !.bearer = row[Site(c)].access]]
  /\ UNCHANGED <<row, processVars, busy, loginVars, serverVars, lost>>

Answered(c) ==
  /\ call[c].at \in {"sent", "resent"} /\ call[c].bearer \notin expired
  /\ call' = [call EXCEPT ![c] = Holding("ok")]
  /\ UNCHANGED <<row, processVars, busy, loginVars, serverVars, lost>>

\* The network or Jira fails the call, or the retry is answered with 401.
CallFails(c) ==
  /\ call[c].at \in {"sent", "resent"}
  /\ call' = [call EXCEPT ![c] = Holding("failed")]
  /\ UNCHANGED <<row, processVars, busy, loginVars, serverVars, lost>>

\* ensureTokenRefreshed: is it for this call to refresh?
MayRefresh(k) ==
  ~busy[k]

\* The first attempt is answered with 401: the call posts the refresh token that the
\* table holds now, or waits for the refresh in flight.
Unauthorized(c) ==
  /\ call[c].at = "sent" /\ call[c].bearer \in expired
  /\ \/ /\ MayRefresh(ClientOf[c])
        /\ busy' = [busy EXCEPT ![ClientOf[c]] = TRUE]
        /\ call' = [call EXCEPT ![c].at = "posting", ![c].refused = call[c].bearer,
                                ![c].posted = row[Site(c)].refresh]
     \/ /\ ~MayRefresh(ClientOf[c])
        /\ call' = [call EXCEPT ![c].at = "queued", ![c].refused = call[c].bearer]
        /\ UNCHANGED busy
  /\ UNCHANGED <<row, processVars, loginVars, serverVars, lost>>

ReleasedNone(c) ==  \* mutant: the promise of those that wait is not settled
  {c}

\* The calls that go on when the refresh of call c settles.
Released(c) ==
  {c} \cup {d \in Calls : ClientOf[d] = ClientOf[c] /\ call[d].at = "queued"}

PersistAccess(c) ==  \* mutant: only the access token is written
  row' = [row EXCEPT ![Site(c)].access = call[c].fresh]

PersistHalfRow(c) ==  \* mutant: the row is replaced by one without a refresh token
  row' = [row EXCEPT ![Site(c)] = [access |-> call[c].fresh]]

\* rotateTokens writes both tokens of the new pair.
Persist(c) ==
  row' = [row EXCEPT ![Site(c)] = PairRow(call[c].fresh)]

ResentTooSoon(c, d) ==  \* mutant: the token is read before the pair is persisted
  [call[d] EXCEPT !.at = "resent", !.bearer = row[Site(c)].access]

\* The retry reads its token from the table after the pair was persisted.
Resent(c, d) ==
  [call[d] EXCEPT !.at = "resent", !.bearer = call[c].fresh, !.posted = 0, !.fresh = 0]

\* The refresh is answered with a pair: it is persisted, the mutex is released, and
\* every call that waited is sent again.
Refreshed(c) ==
  /\ call[c].at = "granted"
  /\ Persist(c)
  /\ busy' = [busy EXCEPT ![ClientOf[c]] = FALSE]
  /\ call' = [d \in Calls |-> IF d \in Released(c) THEN Resent(c, d) ELSE call[d]]
  /\ UNCHANGED <<processVars, loginVars, serverVars, lost>>

\* The refresh is refused or its answer does not arrive: every call that waited
\* fails with it.
RefreshFails(c) ==
  /\ call[c].at \in Refreshing
  /\ lost' = (lost \/ call[c].at = "granted")
  /\ busy' = [busy EXCEPT ![ClientOf[c]] = FALSE]
  /\ call' = [d \in Calls |-> IF d \in Released(c) THEN Holding("failed") ELSE call[d]]
  /\ UNCHANGED <<row, processVars, loginVars, serverVars>>

-----------------------------------------------------------------------------
(* The authorization server, the clock and the process                     *)

\* A refresh token is good for one new pair.
Grant(c) ==
  /\ call[c].at = "posting" /\ call[c].posted \notin spent /\ issued < MaxPairs
  /\ spent' = spent \cup {call[c].posted}
  /\ issued' = issued + 1
  /\ call' = [call EXCEPT ![c].at = "granted", ![c].fresh = issued + 1]
  /\ UNCHANGED <<row, processVars, busy, loginVars, expired, lost>>

\* A token that was used is refused; so may any be when the server is in trouble.
Deny(c) ==
  /\ call[c].at = "posting"
  /\ call' = [call EXCEPT ![c].at = "denied"]
  /\ UNCHANGED <<row, processVars, busy, loginVars, serverVars, lost>>

Expire(t) ==
  /\ t \in 1..issued /\ t \notin expired
  /\ expired' = expired \cup {t}
  /\ UNCHANGED <<row, processVars, busy, call, loginVars, issued, spent, lost>>

Lapse(n) ==
  /\ n \in handed \ lapsed
  /\ lapsed' = lapsed \cup {n}
  /\ UNCHANGED <<row, processVars, busy, call, states, login, handed, serverVars, lost>>

Crash ==
  /\ up /\ crashes < MaxCrashes
  /\ up' = FALSE
  /\ crashes' = crashes + 1
  /\ lost' = (lost \/ \E c \in Calls : call[c].at = "granted")
  /\ busy' = [k \in Clients |-> FALSE]
  /\ call' = [c \in Calls |-> IF call[c].at \in Over THEN call[c] ELSE Holding("gone")]
  /\ states' = {}
  /\ login' = [l \in Logins |-> IF login[l].at \in {"exchange", "verify"}
                                THEN [login[l] EXCEPT !.at = "gone", !.pair = 0] ELSE login[l]]
  /\ UNCHANGED <<row, handed, lapsed, serverVars>>

Restart ==
  /\ ~up
  /\ up' = TRUE
  /\ UNCHANGED <<row, crashes, busy, call, loginVars, serverVars, lost>>

-----------------------------------------------------------------------------
\* What the servers and the network owe a call.
Answer(c) ==
  \/ Answered(c) \/ CallFails(c) \/ Unauthorized(c)
  \/ Grant(c) \/ Deny(c)
  \/ Refreshed(c) \/ RefreshFails(c)

LoginStep(l) ==
  \/ Callback(l) \/ CallbackDenied(l)
  \/ Exchanged(l) \/ Connected(l) \/ LoginFails(l)

Next ==
  \/ \E n \in Nonces : StartLogin(n) \/ Lapse(n)
  \/ \E l \in Logins : LoginStep(l)
  \/ \E c \in Calls : Send(c) \/ Answer(c)
  \/ \E t \in Pairs : Expire(t)
  \/ Crash \/ Restart

Spec == Init /\ [][Next]_vars

-----------------------------------------------------------------------------
(* Properties.                                                             *)

\* The mutex of a client is held by exactly one refresh, and whoever waits, waits
\* for one that is under way: no call is queued behind nothing, no mutex is left
\* held (ensureTokenRefreshed; ARCHITECTURE.md:341).
HeldByOne(k) ==
  LET refreshing == {c \in Calls : ClientOf[c] = k /\ call[c].at \in Refreshing}
  IN  /\ busy[k] <=> refreshing # {}
      /\ \A c, d \in refreshing : c = d
      /\ \A c \in Calls : ClientOf[c] = k /\ call[c].at = "queued" => busy[k]
MutexHeld == \A k \in Clients : HeldByOne(k)

\* The table never locks the connector out: its two tokens are of one pair, and the
\* refresh token is unused, unless the pair that replaces it is on its way to the
\* table or was lost on that way. Logins and the refreshes of several clients may
\* overlap. With several sites a login stores one pair for all of them, and this
\* does not hold.
RowIsUsable ==
  \A s \in Sites :
    row[s] # NoRow =>
      /\ row[s].access = row[s].refresh
      /\ \/ row[s].refresh \notin spent
         \/ lost
         \/ \E c \in Calls : /\ call[c].at = "granted" /\ Site(c) = s
                             /\ call[c].posted = row[s].refresh

\* A retry never carries the token that was just refused, whoever did the refresh
\* and whatever was stored meanwhile.
RetryIsFresh ==
  \A c \in Calls : call[c].at = "resent" => call[c].bearer # call[c].refused

\* A state opens the door to one login only, however often its callback arrives and
\* whenever the state lapses (OAuthStateStore.consume).
StateIsSingleUse ==
  \A l, m \in Logins :
    login[l].at \in Accepted /\ login[m].at \in Accepted /\ login[l].nonce = login[m].nonce
      => l = m
=============================================================================
