-------------------------------- MODULE Callers --------------------------------
(***************************************************************************)
(* Who a request is taken to come from: get_principal of auth.py, and      *)
(* get_effective_principal of app_auth.py for the endpoints that a trusted *)
(* app may call on behalf of a user.  Whether a bearer token is good is    *)
(* found out elsewhere (a row of personal_access_tokens, or the keys of    *)
(* the token's issuer); here it names a user.                              *)
(***************************************************************************)
EXTENDS AccessRules

CONSTANTS
    JwtEnabled,     \* jwt_enabled
    DefaultOrg,     \* the organisation that requests are served for
    Apps            \* client_apps: the organisation of each app, whether it may
                    \* delegate, and the users of its allowed domain

ASSUME AppAssumption ==
    /\ JwtEnabled \in BOOLEAN
    /\ Nobody \notin DOMAIN Apps
    /\ \A a \in DOMAIN Apps : Apps[a].delegates \in BOOLEAN

\* What a request presents: the user that its bearer token names, the X-User
\* headers, the app whose key it has and the user this app speaks for; Nobody
\* stands for a header that is missing.
Presented(bearer, app, behalf) ==
    [bearer |-> bearer, user |-> Nobody, roles |-> Nobody, groups |-> {},
     app |-> app, behalf |-> behalf]

\* A token is looked at only with jwt_enabled; it is then good, or the request ends.
HasToken(c) == JwtEnabled /\ c.bearer # Nobody

\* The headers are believed; a development environment fills in a reviewer.
HeaderPrincipal(c) ==
    LET id == IF c.user # Nobody THEN c.user ELSE IF Dev THEN DevUser ELSE Nobody
        roles == IF c.roles # Nobody THEN c.roles ELSE IF Dev THEN {"reviewer"} ELSE {}
    IN  [Principal("user", id, c.groups) EXCEPT !.roles = roles]

GetPrincipal(c) ==
    IF HasToken(c) THEN Principal("user", c.bearer, {})
    ELSE IF JwtEnabled /\ ~ Dev THEN Anonymous
    ELSE HeaderPrincipal(c)

\* An app that may delegate speaks for a user; of any other caller the header is
\* ignored.
Delegates(c) == c.app \in DOMAIN Apps /\ c.behalf # Nobody /\ Apps[c.app].delegates

\* ... one of its domain, and within the organisation served.
MayAssert(c) == c.behalf \in Apps[c.app].domain /\ Apps[c.app].org = DefaultOrg

EffectivePrincipal(c) ==
    IF Delegates(c) THEN Principal("user", c.behalf, {}) ELSE GetPrincipal(c)
=============================================================================
