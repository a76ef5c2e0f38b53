------------------------------- MODULE Access -------------------------------
(***************************************************************************)
(* The authority in front of every tool call (oauth.py): dynamic client    *)
(* registration, the operator's authorization of a client, the exchange    *)
(* of an authorization code for a signed access token, and the check of    *)
(* that token on each call.  The server handles requests on threads, so    *)
(* an exchange is three steps: the checks made before the code is touched, *)
(* the transaction that takes the code out of the store, and the checks    *)
(* of what was taken.  The store and the signing secret survive a restart; *)
(* an exchange in progress does not.                                       *)
(*                                                                         *)
(* When no server URL is configured the base URL comes from the request,   *)
(* so two requests of one client may arrive under different bases.  A      *)
(* signature cannot be made without the secret: the tokens that can be     *)
(* presented are the ones issued.  A PKCE challenge is written as the      *)
(* verifier it is the digest of.                                           *)
(***************************************************************************)
EXTENDS Integers, Sequences, FiniteSets

CONSTANTS ClientLimit,      \* MAX_CLIENTS
          Bases,            \* origins requests arrive under
          Redirects, Verifiers,
          AuthMethods,      \* token endpoint authentication methods
          SentResources,    \* resource parameters clients send: <<base, form>>
          Exchangers,       \* threads handling POST /oauth/token
          CodeLife,         \* AUTH_CODE_TTL_SECONDS
          TokenLife,        \* ACCESS_TOKEN_TTL_SECONDS
          MaxGrants,        \* bound: authorizations in one behaviour
          MaxNow            \* bound: the clock

ASSUME AccessAssumption ==
    /\ ClientLimit \in Nat /\ CodeLife \in Nat /\ TokenLife \in Nat
    /\ MaxGrants \in Nat /\ MaxNow \in Nat

VARIABLES acClients,   \* oauth_clients, in order of registration
          acGrants,    \* history: every authorization the operator gave
          acCodes,     \* oauth_codes: the grants whose code is in the store
          acWork,      \* per exchanging thread, what it holds
          acTokens,    \* history: the tokens issued
          acCalls,     \* history: the last call let through, if any
          acNow

accessVars == <<acClients, acGrants, acCodes, acWork, acTokens, acCalls, acNow>>

NoWork == [stage |-> "idle"]

(***************************************************************************)
(* _normalize_resource and _resource_matches.                              *)
(***************************************************************************)
Normalized(resource, base) ==
    IF resource \in {<<base, "origin">>, <<base, "slash">>}
    THEN <<base, "origin">> ELSE resource

Matches(base, resource) == resource \in {<<base, "origin">>, <<base, "mcp">>}

AccessInit ==
    /\ acClients = << >> /\ acGrants = << >> /\ acCodes = {}
    /\ acWork = [t \in Exchangers |-> NoWork]
    /\ acTokens = {} /\ acCalls = {} /\ acNow = 0

(***************************************************************************)
(* register and register_client: count and insert under one lock.          *)
(***************************************************************************)
RegisterClient(client) ==
    /\ Len(acClients) < ClientLimit
    /\ acClients' = Append(acClients, client)

Register(method, redirects) ==
    /\ redirects # {} /\ method \in AuthMethods
    /\ RegisterClient([method |-> method, redirects |-> redirects])
    /\ UNCHANGED <<acGrants, acCodes, acWork, acTokens, acCalls, acNow>>

(***************************************************************************)
(* authorize, validate_authorization_request and save_code.  A refused     *)
(* request, a wrong password among them, changes nothing.  Saving a code   *)
(* first deletes the codes past their time.                                *)
(***************************************************************************)
Requestable(client, redirect, resource, base) ==
    /\ client \in DOMAIN acClients
    /\ redirect \in acClients[client].redirects
    /\ Matches(base, resource)

SaveCode(granted) ==
    /\ acGrants' = Append(acGrants, granted)
    /\ acCodes' = {c \in acCodes : acGrants[c].expires >= acNow} \cup {Len(acGrants) + 1}

Authorize(client, redirect, verifier, sent, base) ==
    LET resource == Normalized(sent, base)
        granted  == [client |-> client, redirect |-> redirect, verifier |-> verifier,
                     resource |-> resource, expires |-> acNow + CodeLife, base |-> base]
    IN  /\ Len(acGrants) < MaxGrants
        /\ Requestable(client, redirect, resource, base)
        /\ SaveCode(granted)
        /\ UNCHANGED <<acClients, acWork, acTokens, acCalls, acNow>>

(***************************************************************************)
(* exchange_code, first part: the client authenticates by the method it    *)
(* registered, before the code is looked at.  A refusal changes nothing.   *)
(***************************************************************************)
Authenticated(client, presented, secret) ==
    /\ client \in DOMAIN acClients
    /\ acClients[client].method = presented
    /\ secret = IF presented = "none" THEN "absent" ELSE "right"

Present(t, code, client, presented, redirect, verifier, sent, base) ==
    /\ acWork[t].stage = "idle"
    /\ \E secret \in {"absent", "right", "wrong"} : Authenticated(client, presented, secret)
    /\ acWork' = [acWork EXCEPT ![t] =
           [stage |-> "consume", code |-> code, client |-> client, redirect |-> redirect,
            verifier |-> verifier, resource |-> Normalized(sent, base), base |-> base]]
    /\ UNCHANGED <<acClients, acGrants, acCodes, acTokens, acCalls, acNow>>

(***************************************************************************)
(* consume_code: the row is read and deleted in one transaction.  The code *)
(* is spent whatever the checks that follow decide.                        *)
(***************************************************************************)
TakesCode(code) == acCodes' = acCodes \ {code}

\* (A wrong variant of TakeCode: the row is only read.)
KeepsCode(code) == acCodes' = acCodes

TakeCode(code) == TakesCode(code)

Consume(t) ==
    /\ acWork[t].stage = "consume"
    /\ IF acWork[t].code \in acCodes
       THEN acWork' = [acWork EXCEPT ![t].stage = "check"]
       ELSE acWork' = [acWork EXCEPT ![t] = NoWork]
    /\ TakeCode(acWork[t].code)
    /\ UNCHANGED <<acClients, acGrants, acTokens, acCalls, acNow>>

(***************************************************************************)
(* exchange_code, last part: expiry, bindings and PKCE, then the token.    *)
(***************************************************************************)
\* (A wrong variant of BoundTo: any resource of the base will do.)
BoundAnywhere(w, grant) ==
    /\ grant.client = w.client
    /\ grant.redirect = w.redirect
    /\ Matches(w.base, w.resource)
    /\ w.verifier = grant.verifier

BoundTo(w, grant) ==
    /\ grant.client = w.client
    /\ grant.redirect = w.redirect
    /\ grant.resource = w.resource
    /\ Matches(w.base, w.resource)
    /\ w.verifier = grant.verifier

NewToken(w) ==
    [code |-> w.code, client |-> w.client, iss |-> w.base, aud |-> w.resource,
     exp |-> acNow + TokenLife, n |-> Cardinality({k \in acTokens : k.code = w.code})]

Issue(t) ==
    LET w     == acWork[t]
        grant == acGrants[w.code]
    IN  /\ w.stage = "check"
        /\ acTokens' = IF grant.expires >= acNow /\ BoundTo(w, grant)
                       THEN acTokens \cup {NewToken(w)}
                       ELSE acTokens
        /\ acWork' = [acWork EXCEPT ![t] = NoWork]
        /\ UNCHANGED <<acClients, acGrants, acCodes, acCalls, acNow>>

(***************************************************************************)
(* validate_authorization_header: the call is let through as the token's   *)
(* client.  Clients are never deleted, so a known client stays known.      *)
(***************************************************************************)
Accept(token, base) ==
    /\ token.iss = base /\ Matches(base, token.aud)
    /\ token.exp >= acNow
    /\ token.client \in DOMAIN acClients
    /\ acCalls' = {[code |-> token.code, client |-> token.client, base |-> base, at |-> acNow]}
    /\ UNCHANGED <<acClients, acGrants, acCodes, acWork, acTokens, acNow>>

Tick ==
    /\ acNow < MaxNow
    /\ acNow' = acNow + 1
    /\ UNCHANGED <<acClients, acGrants, acCodes, acWork, acTokens, acCalls>>

RestartServer ==
    /\ \E t \in Exchangers : acWork[t] # NoWork
    /\ acWork' = [t \in Exchangers |-> NoWork]
    /\ UNCHANGED <<acClients, acGrants, acCodes, acTokens, acCalls, acNow>>

AccessNext ==
    \/ \E method \in AuthMethods, redirects \in SUBSET Redirects : Register(method, redirects)
    \/ \E client \in 1 .. ClientLimit, redirect \in Redirects, verifier \in Verifiers,
          resource \in SentResources, base \in Bases :
              Authorize(client, redirect, verifier, resource, base)
    \/ \E t \in Exchangers, code \in DOMAIN acGrants, client \in DOMAIN acClients,
          method \in AuthMethods, redirect \in Redirects, verifier \in Verifiers,
          resource \in SentResources, base \in Bases :
              Present(t, code, client, method, redirect, verifier, resource, base)
    \/ \E t \in Exchangers : Consume(t) \/ Issue(t)
    \/ \E token \in acTokens, base \in Bases : Accept(token, base)
    \/ Tick
    \/ RestartServer

AccessSpec == AccessInit /\ [][AccessNext]_accessVars

-----------------------------------------------------------------------------
AccessTypeOK ==
    /\ \A c \in DOMAIN acClients :
           acClients[c] \in [method : AuthMethods, redirects : SUBSET Redirects]
    /\ Len(acClients) <= ClientLimit
    /\ acCodes \subseteq DOMAIN acGrants
    /\ \A t \in Exchangers : acWork[t].stage \in {"idle", "consume", "check"}
    /\ acNow \in 0 .. MaxNow

(***************************************************************************)
(* However its exchanges interleave, are repeated or are cut off by a      *)
(* restart, one authorization code yields at most one access token, and a  *)
(* code in an exchange past its transaction is no longer in the store      *)
(* (consume_code reads and deletes in one transaction).                    *)
(***************************************************************************)
CodeSpentOnce ==
    /\ \A a, b \in acTokens : a.code = b.code => a = b
    /\ \A t, u \in Exchangers :
           (t # u /\ acWork[t].stage = "check" /\ acWork[u].stage = "check")
               => acWork[t].code # acWork[u].code

(***************************************************************************)
(* A call is let through only for the client the operator authorized,      *)
(* under the base URL that authorization was given for, and not after the  *)
(* code's time and the token's have both run out - although the code, the  *)
(* token and the call each carry a resource of their own and the base may  *)
(* differ from request to request.                                         *)
(***************************************************************************)
AcceptedUnderGrant ==
    \A call \in acCalls :
        LET grant == acGrants[call.code]
        IN  /\ call.client = grant.client
            /\ call.base = grant.base
            /\ call.at <= grant.expires + TokenLife
=============================================================================
