---------------------------- MODULE OAuthSession ----------------------------
(***************************************************************************)
(* helper/hdhive/open: the HDHive authorization of the plugin, kept as one *)
(* bundle in the plugin's data, and the broker in front of HDHive          *)
(* (services/hdhive-auth-broker).  Requests, refreshes, a new              *)
(* authorization and its revocation run in threads of their own.  Nothing  *)
(* locks the bundle: it is loaded in one step and saved in a later one.    *)
(*                                                                         *)
(* The n-th pair of tokens is the number n, 0 is none.  HDHive is          *)
(* external: it takes a refresh token once if Rotates, else any number of  *)
(* times.  Left out: scopes, redirect URIs, the expiry of a refresh token, *)
(* quota errors.                                                           *)
(***************************************************************************)
EXTENDS Naturals, FiniteSets

CONSTANTS Call,         \* threads; each makes one call
          Kind,         \* Kind[c]: "request", "start", "complete" or "revoke"
          State,        \* OAuth states
          StateOf,      \* StateOf[c]: state a start makes or a complete submits
          NoState,      \* StateOf[c] of the other calls
          Rotates,      \* HDHive invalidates a refresh token that was used
          MaxExpiries,  \* bound: expiries of access tokens
          MaxLosses     \* bound: lost requests and answers, broker restarts

ASSUME OAuthAssumption ==
    /\ Kind \in [Call -> {"request", "start", "complete", "revoke"}]
    /\ StateOf \in [Call -> State \cup {NoState}]
    /\ NoState \notin State
    /\ \A c \in Call : Kind[c] \in {"start", "complete"} => StateOf[c] # NoState
    /\ Rotates \in BOOLEAN
    /\ {MaxExpiries, MaxLosses} \subseteq Nat

VARIABLES
    bundle,     \* plugin data: instance key, tokens, whether access is in time
    states,     \* broker: states[s], the instance key it was made for, or 0
    live,       \* HDHive: refresh tokens that are accepted
    good,       \* HDHive: access tokens that are accepted
    pairs,      \* pairs issued so far
    keys,       \* instance keys made so far
    place,      \* place[c]: what the call does next, or how it ended
    back,       \* back[c]: where a successful refresh leads
    tok,        \* tok[c]: token it holds
    ik,         \* ik[c]: instance key it holds
    retried,    \* calls that have refreshed after a refusal
    underway,   \* calls with a token request under way when the bundle was
                \* cleared, and authorizations saved since (history)
    lost,       \* an answer with new tokens was lost (history)
    expiries, losses

local == <<place, back, tok, ik, retried>>
hdhive == <<live, good, pairs>>
authVars == <<bundle, states, hdhive, keys, local, underway, lost, expiries, losses>>

Empty == [key |-> 0, pair |-> 0, fresh |-> FALSE]

(* The plugin was authorized earlier; the access token may have run out.   *)
AuthInit ==
    /\ bundle \in {[key |-> 1, pair |-> 1, fresh |-> b] : b \in BOOLEAN}
    /\ states = [s \in State |-> 0]
    /\ live = {1} /\ good = {1}
    /\ pairs = 1 /\ keys = 1
    /\ place = [c \in Call |-> "idle"]
    /\ back = [c \in Call |-> "none"]
    /\ tok = [c \in Call |-> 0] /\ ik = [c \in Call |-> 0]
    /\ retried = {}
    /\ underway = {} /\ lost = FALSE
    /\ expiries = 0 /\ losses = 0

To(c, l) == place' = [place EXCEPT ![c] = l]
Hold(c, t) == tok' = [tok EXCEPT ![c] = t]
Begins(c, k, l) == place[c] = "idle" /\ Kind[c] = k /\ To(c, l)

(***************************************************************************)
(* _request: the mode is resolved, a token obtained, the request sent.     *)
(***************************************************************************)
Valid == bundle.fresh /\ bundle.pair # 0
Refreshable == bundle.pair # 0
Revoking == \E c \in Call : Kind[c] = "revoke" /\ place[c] # "idle"
IsCleared == \E c \in Call : place[c] = "cleared"

Resolve(c) ==
    /\ \/ place[c] = "idle" /\ Kind[c] = "request"
       \/ place[c] = "resolve"
    /\ To(c, IF Refreshable THEN "ensure" ELSE "none")
    /\ UNCHANGED <<bundle, states, hdhive, keys, back, tok, ik, retried, underway,
                   lost, expiries, losses>>

Ensure(c) ==
    /\ place[c] = "ensure"
    /\ IF Valid THEN To(c, "send") /\ Hold(c, bundle.pair) /\ UNCHANGED back
       ELSE IF Refreshable
            THEN To(c, "load") /\ back' = [back EXCEPT ![c] = "reload"] /\ UNCHANGED tok
            ELSE To(c, "reauth") /\ UNCHANGED <<tok, back>>
    /\ UNCHANGED <<bundle, states, hdhive, keys, ik, retried, underway, lost,
                   expiries, losses>>

Reload(c) ==
    /\ place[c] = "reload"
    /\ IF Valid THEN To(c, "send") /\ Hold(c, bundle.pair)
                ELSE To(c, "reauth") /\ UNCHANGED tok
    /\ UNCHANGED <<bundle, states, hdhive, keys, back, ik, retried, underway, lost,
                   expiries, losses>>

(* The proxy passes HDHive's answer on.  A token that has run out is       *)
(* refreshed and the request made again, once; that of an authorization    *)
(* revoked may be refused for good.                                        *)
Send(c) ==
    /\ place[c] = "send"
    /\ \/ tok[c] \in good /\ To(c, "ok") /\ UNCHANGED <<back, retried>>
       \/ /\ tok[c] \notin good /\ Revoking
          /\ To(c, "refused") /\ UNCHANGED <<back, retried>>
       \/ /\ tok[c] \notin good /\ c \in retried
          /\ To(c, "failed") /\ UNCHANGED <<back, retried>>
       \/ /\ tok[c] \notin good /\ c \notin retried
          /\ To(c, "load")
          /\ back' = [back EXCEPT ![c] = "resolve"]
          /\ retried' = retried \cup {c}
    /\ UNCHANGED <<bundle, states, hdhive, keys, tok, ik, underway, lost, expiries,
                   losses>>

(***************************************************************************)
(* broker_refresh: the bundle is loaded again.  If it has no instance key  *)
(* get_or_create_instance_key loads it once more, and makes and saves a    *)
(* key, whatever else was saved meanwhile.  A bundle without a key has no  *)
(* tokens either: nothing is refreshed then, whatever the second look      *)
(* finds.  Any failure counts as "not refreshed".                          *)
(***************************************************************************)
NotRefreshed(c) == To(c, IF back[c] = "reload" THEN "reauth" ELSE "failed")

Load(c) ==
    /\ place[c] = "load"
    /\ Hold(c, bundle.pair)
    /\ ik' = [ik EXCEPT ![c] = bundle.key]
    /\ IF bundle.key = 0 THEN To(c, "lookup")
       ELSE IF bundle.pair = 0 THEN NotRefreshed(c) ELSE To(c, "refresh")
    /\ UNCHANGED <<bundle, states, hdhive, keys, back, retried, underway, lost,
                   expiries, losses>>

LoadAgain(c) ==
    /\ place[c] = "lookup"
    /\ ik' = [ik EXCEPT ![c] = bundle.key]
    /\ IF bundle.key = 0 THEN To(c, "newkey") ELSE NotRefreshed(c)
    /\ UNCHANGED <<bundle, states, hdhive, keys, back, tok, retried, underway, lost,
                   expiries, losses>>

NewKey(c) ==
    /\ place[c] = "newkey"
    /\ keys' = keys + 1
    /\ ik' = [ik EXCEPT ![c] = keys + 1]
    /\ bundle' = [Empty EXCEPT !.key = keys + 1]
    /\ CASE Kind[c] = "request" -> NotRefreshed(c)
         [] Kind[c] = "start" -> To(c, "start")
         [] OTHER -> To(c, "submit")
    /\ UNCHANGED <<states, hdhive, back, tok, retried, underway, lost, expiries,
                   losses>>

(* HDHive issues a pair in answer to c; the answer may get lost.           *)
Issue(c, spent) ==
    /\ pairs' = pairs + 1
    /\ live' = (live \ spent) \cup {pairs + 1}
    /\ good' = good \cup {pairs + 1}
    /\ \/ Hold(c, pairs + 1) /\ To(c, "save") /\ UNCHANGED <<lost, losses>>
       \/ /\ losses < MaxLosses
          /\ losses' = losses + 1 /\ lost' = TRUE
          /\ IF place[c] = "refresh" THEN NotRefreshed(c) ELSE To(c, "failed")
          /\ UNCHANGED tok

Refresh(c) ==
    /\ place[c] = "refresh"
    /\ IF tok[c] \in live
       THEN Issue(c, IF Rotates THEN {tok[c]} ELSE {})
       ELSE NotRefreshed(c) /\ UNCHANGED <<hdhive, tok, lost, losses>>
    /\ UNCHANGED <<bundle, states, keys, back, ik, retried, underway, expiries>>

(* The request does not reach the broker, or the broker HDHive.            *)
RefreshLost(c) ==
    /\ place[c] = "refresh" /\ losses < MaxLosses
    /\ losses' = losses + 1
    /\ NotRefreshed(c)
    /\ UNCHANGED <<bundle, states, hdhive, keys, back, tok, ik, retried, underway,
                   lost, expiries>>

(* Mutant: apply_token_response keeps the refresh token it had; the access *)
(* token is told from it no longer, so the pair is the old one.            *)
AppliedAccess(c) == [bundle EXCEPT !.fresh = TRUE]

(* Mutant: the bundle is saved without the instance key.                   *)
AppliedKeyless(c) == [pair |-> tok[c], fresh |-> TRUE]

Applied(c) == [key |-> ik[c], pair |-> tok[c], fresh |-> TRUE]

Save(c) ==
    /\ place[c] = "save"
    /\ bundle' = Applied(c)
    /\ To(c, IF Kind[c] = "request" THEN back[c] ELSE "authorized")
    /\ underway' = IF IsCleared /\ Kind[c] = "complete" THEN underway \cup {c} ELSE underway
    /\ UNCHANGED <<states, hdhive, keys, back, tok, ik, retried, lost, expiries,
                   losses>>

(***************************************************************************)
(* A new authorization: start has the broker make a state; the user sends  *)
(* the code back with it, perhaps twice.                                   *)
(***************************************************************************)
WithKey(c) ==
    /\ \/ Begins(c, "start", IF bundle.key = 0 THEN "newkey" ELSE "start")
       \/ Begins(c, "complete", IF bundle.key = 0 THEN "newkey" ELSE "submit")
    /\ ik' = [ik EXCEPT ![c] = bundle.key]
    /\ UNCHANGED <<bundle, states, hdhive, keys, back, tok, retried, underway, lost,
                   expiries, losses>>

OAuthStart(c) ==
    /\ place[c] = "start"
    /\ states' = [states EXCEPT ![StateOf[c]] = ik[c]]
    /\ To(c, "started")
    /\ UNCHANGED <<bundle, hdhive, keys, back, tok, ik, retried, underway, lost,
                   expiries, losses>>

Submit(c) ==
    /\ place[c] = "submit"
    /\ LET s == StateOf[c]
       IN /\ states' = [states EXCEPT ![s] = 0]
          /\ To(c, IF states[s] # 0 /\ states[s] = ik[c] THEN "exchange" ELSE "invalid")
    /\ UNCHANGED <<bundle, hdhive, keys, back, tok, ik, retried, underway, lost,
                   expiries, losses>>

Exchange(c) ==
    /\ place[c] = "exchange"
    /\ Issue(c, {})
    /\ UNCHANGED <<bundle, states, keys, back, ik, retried, underway, expiries>>

(* The janitor, the TTL, or a restart of the broker: it keeps states in    *)
(* memory only.                                                            *)
Forget ==
    /\ losses < MaxLosses
    /\ \E s \in State :
         /\ states[s] # 0
         /\ \/ states' = [states EXCEPT ![s] = 0]
            \/ states' = [t \in State |-> 0]
    /\ losses' = losses + 1
    /\ UNCHANGED <<bundle, hdhive, keys, local, underway, lost, expiries>>

(***************************************************************************)
(* broker_revoke: HDHive is told if it can be, the bundle cleared anyway.  *)
(***************************************************************************)
Revoke(c) ==
    /\ Begins(c, "revoke", IF bundle.pair # 0 THEN "revoke" ELSE "clear")
    /\ Hold(c, bundle.pair)
    /\ UNCHANGED <<bundle, states, hdhive, keys, back, ik, retried, underway, lost,
                   expiries, losses>>

Revoked(c) ==
    /\ place[c] = "revoke"
    /\ To(c, "clear")
    /\ \/ live' = live \ {tok[c]} /\ good' = good \ {tok[c]} /\ UNCHANGED losses
       \/ losses < MaxLosses /\ losses' = losses + 1 /\ UNCHANGED <<live, good>>
    /\ UNCHANGED <<bundle, states, pairs, keys, back, tok, ik, retried, underway,
                   lost, expiries>>

Underway == {c \in Call : place[c] \in {"refresh", "save", "submit", "exchange"}}

(* Mutant: the tokens stay, marked as run out.                             *)
ClearedToStale == [bundle EXCEPT !.fresh = FALSE]

Cleared == Empty

Clear(c) ==
    /\ place[c] = "clear"
    /\ bundle' = Cleared
    /\ underway' = underway \cup Underway
    /\ To(c, "cleared")
    /\ UNCHANGED <<states, hdhive, keys, back, tok, ik, retried, lost,
                   expiries, losses>>

(* expires_at passes, 60 seconds before HDHive refuses the token; or it    *)
(* refuses it at once.                                                     *)
Expire ==
    /\ expiries < MaxExpiries
    /\ expiries' = expiries + 1
    /\ \/ bundle.fresh /\ bundle' = [bundle EXCEPT !.fresh = FALSE] /\ UNCHANGED good
       \/ good # {} /\ good' = {} /\ UNCHANGED bundle
    /\ UNCHANGED <<states, live, pairs, keys, local, underway, lost, losses>>

CallStep(c) ==
    \/ Resolve(c) \/ Ensure(c) \/ Reload(c) \/ Send(c) \/ Load(c) \/ LoadAgain(c)
    \/ NewKey(c) \/ Refresh(c) \/ RefreshLost(c) \/ Save(c) \/ WithKey(c) \/ OAuthStart(c)
    \/ Submit(c) \/ Exchange(c) \/ Revoke(c) \/ Revoked(c) \/ Clear(c)
AuthNext == (\E c \in Call : CallStep(c)) \/ Forget \/ Expire
AuthSpec == AuthInit /\ [][AuthNext]_authVars

(***************************************************************************)
(* Properties.                                                             *)
(***************************************************************************)
Ends == {"ok", "none", "reauth", "refused", "failed", "started", "authorized",
         "invalid", "cleared"}

AuthTypeOK ==
    /\ bundle \in [key: 0..keys, pair: 0..pairs, fresh: BOOLEAN]
    /\ states \in [State -> 0..keys]
    /\ live \subseteq 1..pairs /\ good \subseteq 1..pairs
    /\ place \in [Call -> Ends \cup {"idle", "resolve", "ensure", "reload", "send", "load",
                 "lookup", "newkey", "refresh", "save", "start", "submit", "exchange", "revoke",
                 "clear"}]
    /\ back \in [Call -> {"none", "reload", "resolve"}]
    /\ tok \in [Call -> 0..pairs] /\ ik \in [Call -> 0..keys]
    /\ retried \subseteq Call
    /\ underway \subseteq Call /\ lost \in BOOLEAN
    /\ expiries \in 0..MaxExpiries /\ losses \in 0..MaxLosses

(* Requests that refresh side by side do not lose the authorization, even  *)
(* when each refresh token works once only: unless an answer was lost, the *)
(* bundle's refresh token is accepted, or a thread is about to save one    *)
(* that is.                                                                *)
AuthorizationKept ==
    ~lost /\ ~Revoking =>
        bundle.pair \in live \/ \E c \in Call : place[c] = "save" /\ tok[c] \in live

(* What the code grants of "revoking clears the local data" (oauth.py:114): *)
(* until a new authorization is saved, only a call whose token request was *)
(* under way when the data were cleared can bring them back; no request    *)
(* that begins, loads or retries later does.                               *)
BackOnlyFromUnderway == IsCleared /\ underway = {} => bundle.pair = 0
=============================================================================
