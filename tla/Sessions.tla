------------------------------ MODULE Sessions ------------------------------
(***************************************************************************)
(* Accounts and sessions of the central API: logging in, renewing tokens,  *)
(* changing the password, editing a user, suspending a tenant and acting   *)
(* in a tenant's name.  A token carries the rights its issuer read, and no *)
(* request looks them up again: an access token is good until it expires.  *)
(*                                                                         *)
(* A request reads the account and answers or commits later; other         *)
(* requests run in between.  Refresh tokens do not expire here: theirs is  *)
(* the longest time in the system, and each renewal brings a new one.      *)
(***************************************************************************)
EXTENDS Naturals

CONSTANTS
    Users,        \* the users of one tenant
    Roles, Manager,
    SessionRequests,
    AccessTtl,    \* access_token_expire_minutes, in ticks
    PlaybackTtl,  \* the hour of a playback token
    MaxWait       \* bound: ticks from a request's read to its answer

ASSUME SessionsAssumption ==
    /\ AccessTtl \in Nat \ {0} /\ PlaybackTtl \in Nat \ {0} /\ MaxWait \in Nat
    /\ Manager \in Roles

VARIABLES
    account,      \* users: role, is_active, the version of the password hash
    tenantUp,     \* tenants.is_active
    asked,        \* the requests in progress
    access,       \* the access tokens issued and not expired
    renewable,    \* the users that hold a refresh token
    video,        \* tokens for live or recorded video, with whom they were given to
    lastHeld      \* history: ticks since a user was active in a role

sessionVars == <<account, tenantUp, asked, access, renewable, video, lastHeld>>

Accounts == [role : Roles, active : BOOLEAN, hash : 0..1]
Longer == IF PlaybackTtl > AccessTtl THEN PlaybackTtl ELSE AccessTtl
HeldBound == AccessTtl + Longer + MaxWait + 1

AtRest == [op |-> "none"]
RequestRecords == [op : {"login", "refresh", "password", "impersonate"}, user : Users,
             read : Accounts, age : 0..MaxWait]

\* Type invariant.
SessionsTypeOK ==
    /\ account \in [Users -> Accounts] /\ tenantUp \in BOOLEAN
    /\ asked \in [SessionRequests -> RequestRecords \cup {AtRest}]
    /\ access \subseteq [user : Users, role : Roles, age : 0..AccessTtl]
    /\ renewable \subseteq Users
    /\ video \subseteq [user : Users, type : {"viewer", "playback"}, age : 0..Longer]
    /\ lastHeld \in [Users -> [Roles -> 0..HeldBound]]

SessionsInit ==
    /\ account \in [Users -> {a \in Accounts : a.active /\ a.hash = 0}]
    /\ tenantUp = TRUE
    /\ asked = [r \in SessionRequests |-> AtRest]
    /\ access = {} /\ renewable = {} /\ video = {}
    /\ lastHeld = [u \in Users |-> [role \in Roles |->
                     IF role = account[u].role THEN 0 ELSE HeldBound]]

Holds(a, role) == a.active /\ a.role = role

\* The rights a commit grants count from now on.
Committed(new) ==
    /\ account' = new
    /\ lastHeld' = [u \in Users |-> [role \in Roles |->
                      IF Holds(new[u], role) THEN 0 ELSE lastHeld[u][role]]]

-----------------------------------------------------------------------------
\* A request has read the user it is about.
Reads(r, op, u) ==
    /\ asked[r] = AtRest
    /\ asked' = [asked EXCEPT ![r] = [op |-> op, user |-> u, read |-> account[u],
                                      age |-> 0]]
    /\ UNCHANGED <<account, tenantUp, access, renewable, video, lastHeld>>

\* login: the active user of that e-mail, whose password matches.
LogIn(r, u) == account[u].active /\ Reads(r, "login", u)

\* Mutant of Refresh: a renewal does not look whether the user is active.
RefreshAnyone(r, u) == u \in renewable /\ Reads(r, "refresh", u)

\* refresh_access_token: the user must still be active.
Refresh(r, u) == u \in renewable /\ account[u].active /\ Reads(r, "refresh", u)

\* change_password, with a token that names the user; the old one must match.
AskPassword(r, u) ==
    (\E t \in access : t.user = u) /\ Reads(r, "password", u)

\* impersonate_tenant: an active manager of a tenant that is not suspended.
Impersonate(r, u) ==
    tenantUp /\ Holds(account[u], Manager) /\ Reads(r, "impersonate", u)

EndsRequest(r) == asked' = [asked EXCEPT ![r] = AtRest]

\* create_access_token for what was read.
Issues(r) ==
    /\ asked[r].op \in {"login", "refresh", "impersonate"}
    /\ access' = access \cup {[user |-> asked[r].user, role |-> asked[r].read.role,
                               age |-> 0]}
    /\ renewable' = IF asked[r].op = "impersonate" THEN renewable
                    ELSE renewable \cup {asked[r].user}
    /\ EndsRequest(r)
    /\ UNCHANGED <<account, tenantUp, video, lastHeld>>

\* The patch writes the hash and nothing else; or the request fails.
ChangesPassword(r) ==
    /\ asked[r].op = "password"
    /\ \/ Committed([account EXCEPT ![asked[r].user].hash = 1 - @])
       \/ UNCHANGED <<account, lastHeld>>
    /\ EndsRequest(r)
    /\ UNCHANGED <<tenantUp, access, renewable, video>>

\* update_user: role, activity or password, in one UPDATE.
UpdateUser(u, role, active) ==
    /\ Committed([account EXCEPT ![u].role = role, ![u].active = active])
    /\ UNCHANGED <<tenantUp, asked, access, renewable, video>>

\* suspend_tenant and reactivate_tenant.
TurnTenant ==
    /\ tenantUp' = ~ tenantUp
    /\ UNCHANGED <<account, asked, access, renewable, video, lastHeld>>

-----------------------------------------------------------------------------
(***************************************************************************)
(* Video.  Whoever has an access token gets a token for a camera, which    *)
(* names no user and is not renewed.  Bound: one is followed at a time.    *)
(***************************************************************************)
\* create_viewer_token and create_playback_token.
ViewerToken(u) == [user |-> u, type |-> "viewer", age |-> 0]
PlaybackToken(u) == [user |-> u, type |-> "playback", age |-> 0]

Watches(u, token) ==
    /\ video = {} /\ \E t \in access : t.user = u
    /\ video' = {token}
    /\ UNCHANGED <<account, tenantUp, asked, access, renewable, lastHeld>>

\* get_stream_urls; a camera that is gone or an error gives none.
GetStreamUrls(u) == Watches(u, ViewerToken(u))

\* get_playback_url, which looks up neither the camera nor its windows.
GetPlaybackUrl(u) == Watches(u, PlaybackToken(u))

\* verify_playback_token, which nginx asks for every request of recorded video.
VerifyPlaybackToken(w) == w.type = "playback" /\ w.age <= PlaybackTtl
\* Nothing refuses a viewer token before it ends.
ViewerTokenLives(w) == w.type = "viewer" /\ w.age <= AccessTtl

-----------------------------------------------------------------------------
\* Time passes; a token ends when it is older than AccessTtl.
SessionTick ==
    /\ \A r \in SessionRequests : asked[r] # AtRest => asked[r].age < MaxWait
    /\ asked' = [r \in SessionRequests |->
                   IF asked[r] = AtRest THEN AtRest
                   ELSE [asked[r] EXCEPT !.age = @ + 1]]
    /\ access' = {[t EXCEPT !.age = @ + 1] : t \in {s \in access : s.age < AccessTtl}}
    /\ video' = {w \in {[v EXCEPT !.age = @ + 1] : v \in video} :
                   VerifyPlaybackToken(w) \/ ViewerTokenLives(w)}
    /\ lastHeld' = [u \in Users |-> [role \in Roles |->
                      IF Holds(account[u], role) THEN 0
                      ELSE IF lastHeld[u][role] < HeldBound
                           THEN lastHeld[u][role] + 1 ELSE HeldBound]]
    /\ UNCHANGED <<account, tenantUp, renewable>>

SessionsNext ==
    \/ \E r \in SessionRequests :
          \/ \E u \in Users :
                LogIn(r, u) \/ Refresh(r, u) \/ AskPassword(r, u) \/ Impersonate(r, u)
          \/ Issues(r) \/ ChangesPassword(r)
    \/ \E u \in Users, role \in Roles, active \in BOOLEAN : UpdateUser(u, role, active)
    \/ \E u \in Users : GetStreamUrls(u) \/ GetPlaybackUrl(u)
    \/ TurnTenant \/ SessionTick

SessionsSpec == SessionsInit /\ [][SessionsNext]_sessionVars

-----------------------------------------------------------------------------
(* Properties. *)

\* An access token that is still accepted names a role its user held, active,
\* no longer ago than a token and the request that issued it last; and a token
\* for video that is still good was given to somebody who was active no longer
\* ago than that and the token's own age.
AccessIsRecent ==
    /\ \A t \in access : lastHeld[t.user][t.role] <= t.age + MaxWait
    /\ \A w \in video : \E role \in Roles :
          lastHeld[w.user][role] <= w.age + AccessTtl + MaxWait
=============================================================================
