--------------------------- MODULE AccountsProofs ---------------------------
(***************************************************************************)
(* What users and their administrators are promised: rights that are       *)
(* recent, a true audit trail, biometric data with consent, reports within *)
(* their limit and messages with their logs.                               *)
(***************************************************************************)
EXTENDS Sessions, Accounts, FaceConsent, Reports, Notifications, FiniteSetTheorems,
        TLAPS

(***************************************************************************)
(* Sessions: how old the rights of a token may be, for any users, any      *)
(* lifetimes and any number of requests in progress.                       *)
(***************************************************************************)
\* A role that a user has counts as held now.
HeldNow == \A u \in Users, role \in Roles : Holds(account[u], role) => lastHeld[u][role] = 0

\* A request that will issue a token has read a role that was held when it did.
AskedRecent(r) ==
  asked[r].op \in {"login", "refresh", "impersonate"} =>
    lastHeld[asked[r].user][asked[r].read.role] <= asked[r].age

\* The inductive invariant of accounts and tokens.
SessionsInv ==
  /\ SessionsTypeOK /\ HeldNow /\ AccessIsRecent
  /\ \A r \in SessionRequests : AskedRecent(r)

\* What the type invariant says of the numbers and the records.
LEMMA SessionsTypes ==
  ASSUME SessionsTypeOK
  PROVE  /\ AccessTtl \in Nat /\ MaxWait \in Nat /\ Longer \in Nat /\ HeldBound \in Nat
         /\ AccessTtl <= Longer
         /\ \A u \in Users, role \in Roles : lastHeld[u][role] \in 0..HeldBound
         /\ \A t \in access : t.user \in Users /\ t.role \in Roles /\ t.age \in 0..AccessTtl
         /\ \A w \in video : w.user \in Users /\ w.age \in 0..Longer
         /\ \A r \in SessionRequests : asked[r] # AtRest => asked[r] \in RequestRecords
         /\ \A u \in Users : account[u] \in Accounts
<1>1. AccessTtl \in Nat /\ MaxWait \in Nat /\ Longer \in Nat /\ AccessTtl <= Longer
  BY SessionsAssumption DEF Longer
<1>2. HeldBound \in Nat
  BY <1>1 DEF HeldBound
<1> QED
  BY <1>1, <1>2 DEF SessionsTypeOK

LEMMA SessionsInitHolds == SessionsInit => SessionsInv
<1> HAVE SessionsInit
<1>1. HeldBound \in Nat
  BY SessionsAssumption DEF HeldBound, Longer
<1>2. account \in [Users -> Accounts]
  BY DEF SessionsInit
<1>3. lastHeld \in [Users -> [Roles -> 0..HeldBound]]
  BY <1>1 DEF SessionsInit
<1>4. asked \in [SessionRequests -> RequestRecords \cup {AtRest}]
      /\ \A r \in SessionRequests : asked[r] = AtRest
  BY DEF SessionsInit
<1>5. SessionsTypeOK
  <2>1. tenantUp \in BOOLEAN
    BY ZenonT(10) DEF SessionsInit
  <2> QED
    BY <1>2, <1>3, <1>4, <2>1 DEF SessionsInit, SessionsTypeOK
<1>6. HeldNow
  BY DEF SessionsInit, HeldNow, Holds
<1>7. AccessIsRecent
  BY DEF SessionsInit, AccessIsRecent
<1>8. \A r \in SessionRequests : AskedRecent(r)
  BY <1>4 DEF AskedRecent, AtRest
<1> QED
  BY <1>5, <1>6, <1>7, <1>8 DEF SessionsInv

\* A request that reads an active user reads a role that is held now.
LEMMA ReadsKeeps ==
  ASSUME SessionsInv, NEW r \in SessionRequests, NEW u \in Users,
         NEW op \in {"login", "refresh", "password", "impersonate"}, Reads(r, op, u),
         op # "password" => account[u].active
  PROVE  SessionsInv'
<1> USE DEF SessionsInv
<1>1. /\ asked' = [asked EXCEPT ![r] = [op |-> op, user |-> u, read |-> account[u], age |-> 0]]
      /\ UNCHANGED <<account, tenantUp, access, renewable, video, lastHeld>>
  BY DEF Reads
<1>2. [op |-> op, user |-> u, read |-> account[u], age |-> 0] \in RequestRecords
  BY SessionsTypes DEF RequestRecords
<1>3. asked' \in [SessionRequests -> RequestRecords \cup {AtRest}]
      /\ asked'[r] = [op |-> op, user |-> u, read |-> account[u], age |-> 0]
      /\ \A q \in SessionRequests : q # r => asked'[q] = asked[q]
  BY <1>1, <1>2 DEF SessionsTypeOK
<1>4. SessionsTypeOK'
  BY <1>1, <1>3 DEF SessionsTypeOK
<1>5. HeldNow' /\ AccessIsRecent'
  BY <1>1 DEF HeldNow, Holds, AccessIsRecent
<1>6. ASSUME NEW q \in SessionRequests PROVE AskedRecent(q)'
  <2>1. CASE q = r
    <3>1. op # "password" => lastHeld[u][account[u].role] = 0
      BY SessionsTypes DEF HeldNow, Holds, Accounts
    <3> QED
      BY <2>1, <3>1, <1>1, <1>3 DEF AskedRecent
  <2>2. CASE q # r
    BY <2>2, <1>1, <1>3 DEF AskedRecent
  <2> QED
    BY <2>1, <2>2
<1> QED
  BY <1>4, <1>5, <1>6

\* The token names the role that was read, at most MaxWait ago.
LEMMA IssuesKeeps ==
  ASSUME SessionsInv, NEW r \in SessionRequests, Issues(r)
  PROVE  SessionsInv'
<1> USE DEF SessionsInv
<1> DEFINE new == [user |-> asked[r].user, role |-> asked[r].read.role, age |-> 0]
<1>1. /\ asked[r].op \in {"login", "refresh", "impersonate"}
      /\ access' = access \cup {new}
      /\ renewable' = IF asked[r].op = "impersonate" THEN renewable
                      ELSE renewable \cup {asked[r].user}
      /\ asked' = [asked EXCEPT ![r] = AtRest]
      /\ UNCHANGED <<account, tenantUp, video, lastHeld>>
  BY DEF Issues, EndsRequest
<1>2. asked[r] \in RequestRecords
  BY <1>1, SessionsTypes DEF AtRest
<1>3. /\ asked[r].user \in Users /\ asked[r].read.role \in Roles /\ asked[r].age \in 0..MaxWait
      /\ new \in [user : Users, role : Roles, age : 0..AccessTtl]
  BY <1>2, SessionsAssumption DEF RequestRecords, Accounts
<1>4. /\ asked' \in [SessionRequests -> RequestRecords \cup {AtRest}]
      /\ asked'[r] = AtRest
      /\ \A q \in SessionRequests : q # r => asked'[q] = asked[q]
  BY <1>1 DEF SessionsTypeOK
<1>5. SessionsTypeOK'
  BY <1>1, <1>3, <1>4 DEF SessionsTypeOK
<1>6. HeldNow'
  BY <1>1 DEF HeldNow, Holds
<1>7. lastHeld[new.user][new.role] <= new.age + MaxWait
  BY <1>1, <1>3, SessionsTypes DEF AskedRecent
<1>8. AccessIsRecent'
  BY <1>1, <1>7 DEF AccessIsRecent
<1>9. ASSUME NEW q \in SessionRequests PROVE AskedRecent(q)'
  BY <1>1, <1>4 DEF AskedRecent, AtRest
<1> QED
  BY <1>5, <1>6, <1>8, <1>9

\* A commit makes the rights it grants count from now on, and no right older.
LEMMA CommittedKeeps ==
  ASSUME SessionsInv, NEW new \in [Users -> Accounts], Committed(new),
         asked' \in [SessionRequests -> RequestRecords \cup {AtRest}],
         \A q \in SessionRequests : asked'[q] = asked[q] \/ asked'[q] = AtRest,
         UNCHANGED <<tenantUp, access, renewable, video>>
  PROVE  SessionsInv'
<1> USE DEF SessionsInv
<1>1. /\ account' = new
      /\ \A u \in Users, role \in Roles :
           lastHeld'[u][role] = IF Holds(new[u], role) THEN 0 ELSE lastHeld[u][role]
      /\ lastHeld' \in [Users -> [Roles -> 0..HeldBound]]
  BY SessionsTypes DEF Committed
<1>2. \A u \in Users, role \in Roles : lastHeld'[u][role] <= lastHeld[u][role]
  BY <1>1, SessionsTypes
<1>3. SessionsTypeOK'
  BY <1>1 DEF SessionsTypeOK
<1>4. HeldNow'
  BY <1>1 DEF HeldNow
<1>5. AccessIsRecent'
  <2>1. \A t \in access : lastHeld'[t.user][t.role] <= t.age + MaxWait
    <3> TAKE t \in access
    <3>1. t.user \in Users /\ t.role \in Roles /\ t.age \in Nat /\ MaxWait \in Nat
          /\ lastHeld[t.user][t.role] \in Nat /\ lastHeld'[t.user][t.role] \in Nat
      BY <1>1, SessionsTypes
    <3> QED
      BY <1>2, <3>1 DEF AccessIsRecent
  <2>2. \A w \in video : \E role \in Roles :
          lastHeld'[w.user][role] <= w.age + AccessTtl + MaxWait
    <3> TAKE w \in video
    <3>1. PICK role \in Roles : lastHeld[w.user][role] <= w.age + AccessTtl + MaxWait
      BY DEF AccessIsRecent
    <3>2. w.user \in Users /\ w.age \in Nat /\ MaxWait \in Nat /\ AccessTtl \in Nat
          /\ lastHeld[w.user][role] \in Nat /\ lastHeld'[w.user][role] \in Nat
      BY <1>1, SessionsTypes
    <3> QED
      BY <1>2, <3>1, <3>2
  <2> QED
    BY <2>1, <2>2 DEF AccessIsRecent
<1>6. ASSUME NEW q \in SessionRequests PROVE AskedRecent(q)'
  <2>1. CASE asked'[q] = AtRest
    BY <2>1 DEF AskedRecent, AtRest
  <2>2. CASE asked'[q] = asked[q] /\ asked[q] # AtRest
    <3>1. asked[q].user \in Users /\ asked[q].read.role \in Roles /\ asked[q].age \in Nat
      BY <2>2, SessionsTypes, SessionsAssumption DEF RequestRecords, Accounts
    <3>2. /\ lastHeld[asked[q].user][asked[q].read.role] \in Nat
          /\ lastHeld'[asked[q].user][asked[q].read.role] \in Nat
          /\ lastHeld'[asked[q].user][asked[q].read.role]
               <= lastHeld[asked[q].user][asked[q].read.role]
      BY <1>1, <1>2, <3>1, SessionsTypes
    <3> QED
      BY <2>2, <3>1, <3>2 DEF AskedRecent
  <2> QED
    BY <2>1, <2>2
<1> QED
  BY <1>3, <1>4, <1>5, <1>6

\* Whoever opens a video has an access token, whose rights are that recent.
LEMMA WatchesKeeps ==
  ASSUME SessionsInv, NEW u \in Users, NEW type \in {"viewer", "playback"},
         Watches(u, [user |-> u, type |-> type, age |-> 0])
  PROVE  SessionsInv'
<1> USE DEF SessionsInv
<1> DEFINE new == [user |-> u, type |-> type, age |-> 0]
<1>1. /\ video' = {new}
      /\ UNCHANGED <<account, tenantUp, asked, access, renewable, lastHeld>>
  BY DEF Watches
<1>2. PICK t \in access : t.user = u
  BY DEF Watches
<1>3. /\ t.role \in Roles /\ t.age \in 0..AccessTtl /\ AccessTtl \in Nat /\ MaxWait \in Nat
      /\ lastHeld[u][t.role] \in Nat
  BY <1>2, SessionsTypes
<1>4. lastHeld[u][t.role] <= 0 + AccessTtl + MaxWait
  BY <1>2, <1>3 DEF AccessIsRecent
<1>5. SessionsTypeOK'
  <2>1. new \in [user : Users, type : {"viewer", "playback"}, age : 0..Longer]
    BY SessionsTypes
  <2> QED
    BY <2>1, <1>1 DEF SessionsTypeOK
<1>6. HeldNow' /\ \A q \in SessionRequests : AskedRecent(q)'
  BY <1>1 DEF HeldNow, Holds, AskedRecent
<1>7. AccessIsRecent'
  BY <1>1, <1>3, <1>4 DEF AccessIsRecent
<1> QED
  BY <1>5, <1>6, <1>7

\* Time makes a token and the last time its rights were held equally older.
LEMMA SessionTickKeeps ==
  ASSUME SessionsInv, SessionTick
  PROVE  SessionsInv'
<1> USE DEF SessionsInv
<1> DEFINE Older(t) == [t EXCEPT !.age = @ + 1]
<1>1. /\ \A r \in SessionRequests : asked[r] # AtRest => asked[r].age < MaxWait
      /\ asked' = [r \in SessionRequests |-> IF asked[r] = AtRest THEN AtRest ELSE Older(asked[r])]
      /\ access' = {Older(t) : t \in {s \in access : s.age < AccessTtl}}
      /\ video' = {w \in {Older(v) : v \in video} : VerifyPlaybackToken(w) \/ ViewerTokenLives(w)}
      /\ lastHeld' = [u \in Users |-> [role \in Roles |->
                      IF Holds(account[u], role) THEN 0
                      ELSE IF lastHeld[u][role] < HeldBound
                           THEN lastHeld[u][role] + 1 ELSE HeldBound]]
      /\ UNCHANGED <<account, tenantUp, renewable>>
  BY DEF SessionTick
<1>2. ASSUME NEW u \in Users, NEW role \in Roles
      PROVE  /\ lastHeld[u][role] \in Nat /\ lastHeld'[u][role] \in 0..HeldBound
             /\ lastHeld'[u][role] <= lastHeld[u][role] + 1
  <2>1. lastHeld'[u][role] = IF Holds(account[u], role) THEN 0
                             ELSE IF lastHeld[u][role] < HeldBound
                                  THEN lastHeld[u][role] + 1 ELSE HeldBound
    BY <1>1
  <2>2. lastHeld[u][role] \in 0..HeldBound /\ HeldBound \in Nat
    BY SessionsTypes
  <2> QED
    BY <2>1, <2>2
<1>3. ASSUME NEW t \in access, t.age < AccessTtl
      PROVE  /\ Older(t) \in [user : Users, role : Roles, age : 0..AccessTtl]
             /\ Older(t).user = t.user /\ Older(t).role = t.role /\ Older(t).age = t.age + 1
  <2>1. t \in [user : Users, role : Roles, age : 0..AccessTtl] /\ AccessTtl \in Nat
    BY SessionsTypes DEF SessionsTypeOK
  <2> QED
    BY <1>3, <2>1
<1>4. ASSUME NEW v \in video
      PROVE  /\ Older(v).user = v.user /\ Older(v).type = v.type /\ Older(v).age = v.age + 1
             /\ VerifyPlaybackToken(Older(v)) \/ ViewerTokenLives(Older(v)) =>
                  Older(v) \in [user : Users, type : {"viewer", "playback"}, age : 0..Longer]
  <2>1. v \in [user : Users, type : {"viewer", "playback"}, age : 0..Longer]
    BY DEF SessionsTypeOK
  <2>2. Older(v).user = v.user /\ Older(v).type = v.type /\ Older(v).age = v.age + 1
    BY <2>1
  <2>3. PlaybackTtl \in Nat /\ AccessTtl \in Nat /\ Longer \in Nat
        /\ PlaybackTtl <= Longer /\ AccessTtl <= Longer
    BY SessionsAssumption DEF Longer
  <2>4. VerifyPlaybackToken(Older(v)) \/ ViewerTokenLives(Older(v)) => v.age + 1 <= Longer
    BY <2>1, <2>2, <2>3 DEF VerifyPlaybackToken, ViewerTokenLives
  <2> QED
    BY <2>1, <2>2, <2>3, <2>4
<1>5. ASSUME NEW r \in SessionRequests, asked[r] # AtRest
      PROVE  /\ Older(asked[r]) \in RequestRecords
             /\ Older(asked[r]).op = asked[r].op /\ Older(asked[r]).user = asked[r].user
             /\ Older(asked[r]).read = asked[r].read
             /\ Older(asked[r]).age = asked[r].age + 1
  <2>1. asked[r] \in RequestRecords /\ asked[r].age < MaxWait /\ MaxWait \in Nat
    BY <1>1, <1>5, SessionsTypes
  <2> QED
    BY <2>1 DEF RequestRecords
<1> HIDE DEF Older
<1>6. SessionsTypeOK'
  <2>1. access' \subseteq [user : Users, role : Roles, age : 0..AccessTtl]
    BY <1>1, <1>3
  <2>2. video' \subseteq [user : Users, type : {"viewer", "playback"}, age : 0..Longer]
    BY <1>1, <1>4
  <2>3. asked' \in [SessionRequests -> RequestRecords \cup {AtRest}]
    BY <1>1, <1>5
  <2>4. lastHeld' \in [Users -> [Roles -> 0..HeldBound]]
    BY <1>1, <1>2
  <2> QED
    BY <2>1, <2>2, <2>3, <2>4, <1>1 DEF SessionsTypeOK
<1>7. HeldNow'
  BY <1>1 DEF HeldNow
<1>8. AccessIsRecent'
  <2>1. ASSUME NEW t \in access' PROVE lastHeld'[t.user][t.role] <= t.age + MaxWait
    <3>1. PICK s \in access : s.age < AccessTtl /\ t = Older(s)
      BY <1>1, <2>1
    <3>2. s.user \in Users /\ s.role \in Roles /\ s.age \in Nat /\ MaxWait \in Nat
          /\ lastHeld[s.user][s.role] <= s.age + MaxWait
      BY SessionsTypes DEF AccessIsRecent
    <3>3. t.user = s.user /\ t.role = s.role /\ t.age = s.age + 1
      BY <1>3, <3>1
    <3>4. lastHeld[s.user][s.role] \in Nat /\ lastHeld'[s.user][s.role] \in Nat
          /\ lastHeld'[s.user][s.role] <= lastHeld[s.user][s.role] + 1
      BY <1>2, <3>2, SessionsTypes
    <3> QED
      BY <3>2, <3>3, <3>4
  <2>2. ASSUME NEW w \in video'
        PROVE  \E role \in Roles : lastHeld'[w.user][role] <= w.age + AccessTtl + MaxWait
    <3>1. PICK v \in video : w = Older(v)
      BY <1>1, <2>2
    <3>2. PICK role \in Roles : lastHeld[v.user][role] <= v.age + AccessTtl + MaxWait
      BY DEF AccessIsRecent
    <3>3. v.user \in Users /\ v.age \in Nat /\ MaxWait \in Nat /\ AccessTtl \in Nat
      BY SessionsTypes
    <3>4. w.user = v.user /\ w.age = v.age + 1
      BY <1>4, <3>1
    <3>5. lastHeld[v.user][role] \in Nat /\ lastHeld'[v.user][role] \in Nat
          /\ lastHeld'[v.user][role] <= lastHeld[v.user][role] + 1
      BY <1>2, <3>3, SessionsTypes
    <3> QED
      BY <3>2, <3>3, <3>4, <3>5
  <2> QED
    BY <2>1, <2>2 DEF AccessIsRecent
<1>9. ASSUME NEW r \in SessionRequests PROVE AskedRecent(r)'
  <2>1. CASE asked[r] = AtRest
    BY <1>1, <2>1 DEF AskedRecent, AtRest
  <2>2. CASE asked[r] # AtRest
    <3>1. asked'[r] = Older(asked[r])
      BY <1>1, <2>2
    <3>2. asked[r].user \in Users /\ asked[r].read.role \in Roles /\ asked[r].age \in Nat
      BY <2>2, SessionsTypes, SessionsAssumption DEF RequestRecords, Accounts
    <3>3. /\ lastHeld[asked[r].user][asked[r].read.role] \in Nat
          /\ lastHeld'[asked[r].user][asked[r].read.role] \in Nat
          /\ lastHeld'[asked[r].user][asked[r].read.role]
               <= lastHeld[asked[r].user][asked[r].read.role] + 1
      BY <1>2, <3>2, SessionsTypes
    <3> QED
      BY <2>2, <1>5, <3>1, <3>2, <3>3 DEF AskedRecent
  <2> QED
    BY <2>1, <2>2
<1> QED
  BY <1>6, <1>7, <1>8, <1>9

\* Every step keeps the invariant.
LEMMA SessionsStep == SessionsInv /\ [SessionsNext]_sessionVars => SessionsInv'
<1> SUFFICES ASSUME SessionsInv, [SessionsNext]_sessionVars PROVE SessionsInv'
  OBVIOUS
<1>1. ASSUME NEW r \in SessionRequests, NEW u \in Users, LogIn(r, u) PROVE SessionsInv'
  BY <1>1, ReadsKeeps DEF LogIn
<1>2. ASSUME NEW r \in SessionRequests, NEW u \in Users, Refresh(r, u) PROVE SessionsInv'
  BY <1>2, ReadsKeeps DEF Refresh
<1>3. ASSUME NEW r \in SessionRequests, NEW u \in Users, AskPassword(r, u) PROVE SessionsInv'
  BY <1>3, ReadsKeeps DEF AskPassword
<1>4. ASSUME NEW r \in SessionRequests, NEW u \in Users, Impersonate(r, u) PROVE SessionsInv'
  BY <1>4, ReadsKeeps DEF Impersonate, Holds
<1>5. ASSUME NEW r \in SessionRequests, Issues(r) PROVE SessionsInv'
  BY <1>5, IssuesKeeps
<1>6. ASSUME NEW r \in SessionRequests, ChangesPassword(r) PROVE SessionsInv'
  <2>1. /\ asked' \in [SessionRequests -> RequestRecords \cup {AtRest}]
        /\ \A q \in SessionRequests : asked'[q] = asked[q] \/ asked'[q] = AtRest
        /\ UNCHANGED <<tenantUp, access, renewable, video>>
    BY <1>6 DEF ChangesPassword, EndsRequest, SessionsInv, SessionsTypeOK
  <2>2. CASE Committed([account EXCEPT ![asked[r].user].hash = 1 - @])
    <3>1. asked[r].user \in Users /\ account \in [Users -> Accounts]
      BY <1>6, SessionsTypes DEF ChangesPassword, AtRest, RequestRecords, SessionsInv,
                                 SessionsTypeOK
    <3>2. ASSUME NEW a \in Accounts PROVE [a EXCEPT !.hash = 1 - @] \in Accounts
      BY DEF Accounts
    <3>3. [account EXCEPT ![asked[r].user].hash = 1 - @] \in [Users -> Accounts]
      BY <3>1, <3>2
    <3> QED
      BY <2>1, <2>2, <3>3, CommittedKeeps
  <2>3. CASE UNCHANGED <<account, lastHeld>>
    <3>1. SessionsTypeOK' /\ HeldNow' /\ AccessIsRecent'
      BY <2>1, <2>3 DEF SessionsInv, SessionsTypeOK, HeldNow, Holds, AccessIsRecent
    <3>2. ASSUME NEW q \in SessionRequests PROVE AskedRecent(q)'
      BY <2>1, <2>3 DEF SessionsInv, AskedRecent, AtRest
    <3> QED
      BY <3>1, <3>2 DEF SessionsInv
  <2> QED
    BY <1>6, <2>2, <2>3 DEF ChangesPassword
<1>7. ASSUME NEW u \in Users, NEW role \in Roles, NEW active \in BOOLEAN,
             UpdateUser(u, role, active)
      PROVE  SessionsInv'
  <2> DEFINE new == [account EXCEPT ![u].role = role, ![u].active = active]
  <2>1. account \in [Users -> Accounts]
        /\ asked \in [SessionRequests -> RequestRecords \cup {AtRest}]
    BY DEF SessionsInv, SessionsTypeOK
  <2>2. ASSUME NEW a \in Accounts
        PROVE  [a EXCEPT !.role = role, !.active = active] \in Accounts
    BY DEF Accounts
  <2>3. new = [account EXCEPT ![u] = [@ EXCEPT !.role = role, !.active = active]]
    BY <2>1
  <2>4. new \in [Users -> Accounts]
    BY <2>1, <2>2, <2>3
  <2>5. Committed(new) /\ UNCHANGED <<tenantUp, asked, access, renewable, video>>
    BY <1>7 DEF UpdateUser
  <2> HIDE DEF new
  <2> QED
    BY <2>1, <2>4, <2>5, CommittedKeeps
<1>8. ASSUME NEW u \in Users, GetStreamUrls(u) \/ GetPlaybackUrl(u) PROVE SessionsInv'
  BY <1>8, WatchesKeeps DEF GetStreamUrls, GetPlaybackUrl, ViewerToken, PlaybackToken
<1>9. ASSUME TurnTenant PROVE SessionsInv'
  <2>1. tenantUp' \in BOOLEAN
    BY <1>9, ZenonT(10) DEF TurnTenant
  <2> QED
    BY <1>9, <2>1 DEF TurnTenant, SessionsInv, SessionsTypeOK, HeldNow, Holds, AccessIsRecent,
                      AskedRecent
<1>10. ASSUME UNCHANGED sessionVars PROVE SessionsInv'
  BY <1>10 DEF sessionVars, SessionsInv, SessionsTypeOK, HeldNow, Holds, AccessIsRecent,
               AskedRecent
<1>11. CASE SessionTick
  BY <1>11, SessionTickKeeps
<1> QED
  BY <1>1, <1>2, <1>3, <1>4, <1>5, <1>6, <1>7, <1>8, <1>9, <1>10, <1>11 DEF SessionsNext

\* The invariant holds in every reachable state.
LEMMA SessionsAlways == SessionsSpec => []SessionsInv
<1> QED
  BY SessionsInitHolds, SessionsStep, PTL DEF SessionsSpec

\* Accounts, requests and tokens keep their types.
THEOREM SessionsTypeAlwaysOK == SessionsSpec => []SessionsTypeOK
<1>1. SessionsInv => SessionsTypeOK
  BY DEF SessionsInv
<1> QED
  BY <1>1, SessionsAlways, PTL

\* The rights of a token, and of a video opened with it, were held no longer ago
\* than the lifetimes that the API signs, whatever is changed or suspended.
THEOREM AccessAlwaysRecent == SessionsSpec => []AccessIsRecent
<1>1. SessionsInv => AccessIsRecent
  BY DEF SessionsInv
<1> QED
  BY <1>1, SessionsAlways, PTL

(***************************************************************************)
(* Accounts: the audit trail is true. The inductive invariant gives every  *)
(* request that has committed its row of the trail, and every name the one *)
(* request that claims it.                                                 *)
(***************************************************************************)
Keeps(r) == Holding(draft[r].step)

\* The row a request brings to its commit is its own; it is there from the moment it
\* is logged, unless it could not be built.
RowsAreOwn ==
  \A r \in AdminRequests :
    /\ draft[r].row \subseteq {Success(r)}
    /\ draft[r].step = "logged" /\ r \notin unlogged => Success(r) \in draft[r].row

\* What is committed is over, and is in the tables.
DeedsDone ==
  \A r \in deeds :
    /\ draft[r].step = "ended"
    /\ draft[r].op \in MakesTenant => draft[r].slug \in slugs
    /\ draft[r].op \in MakesUser => UserOf(draft[r]) \in people

\* A key that an open transaction has inserted is in no table and in no other transaction.
KeysHeld ==
  \A r \in AdminRequests : Keeps(r) =>
    /\ draft[r].op \in MakesTenant => draft[r].slug \notin slugs
    /\ draft[r].op \in MakesUser => UserOf(draft[r]) \notin people
    /\ \A q \in AdminRequests \ {r} : Keeps(q) =>
         ~SameTenant(draft[r], draft[q]) /\ ~SameUser(draft[r], draft[q])

AccountsInv == AccountsTypeOK /\ TrailIsTrue /\ RowsAreOwn /\ DeedsDone /\ KeysHeld

LEMMA AccountsStart == AccountsInit => AccountsInv
<1> SUFFICES ASSUME AccountsInit PROVE AccountsInv
  OBVIOUS
<1>1. /\ draft = [r \in AdminRequests |-> NoDraft] /\ deeds = {} /\ trail = {}
      /\ people = {} /\ disabled = {} /\ hubPeers = {} /\ unlogged = {}
      /\ slugs \subseteq Slugs
  BY DEF AccountsInit
<1>2. AccountsTypeOK
  BY <1>1 DEF AccountsTypeOK
<1>3. \A r \in AdminRequests : draft[r].step = "new" /\ draft[r].row = {}
  BY <1>1 DEF NoDraft
<1>4. TrailIsTrue /\ DeedsDone
  BY <1>1 DEF TrailIsTrue, DeedsDone
<1>5. RowsAreOwn /\ KeysHeld
  BY <1>3 DEF RowsAreOwn, KeysHeld, Keeps, Holding
<1> QED
  BY <1>2, <1>4, <1>5 DEF AccountsInv

\* A step of one request before its commit, to a draft x, that touches no table: the
\* keys it starts to hold must be free.
LEMMA DraftKeeps ==
  ASSUME AccountsInv, NEW r \in AdminRequests, NEW x \in Drafts,
         draft' = [draft EXCEPT ![r] = x],
         UNCHANGED <<slugs, people, disabled, trail, deeds>>,
         hubPeers' \subseteq AdminRequests, unlogged' \subseteq AdminRequests,
         unlogged \subseteq unlogged', unlogged' \subseteq unlogged \cup {r},
         draft[r].step # "ended",
         x.row \subseteq {Success(r)},
         x.step = "logged" => Success(r) \in x.row \/ r \in unlogged',
         Holding(x.step) =>
           /\ x.op \in MakesTenant => x.slug \notin slugs
           /\ x.op \in MakesUser => UserOf(x) \notin people
           /\ \A q \in AdminRequests \ {r} : Keeps(q) =>
                ~SameTenant(x, draft[q]) /\ ~SameUser(x, draft[q])
  PROVE  AccountsInv'
<1>1. draft \in [AdminRequests -> Drafts \cup {NoDraft}]
  BY DEF AccountsInv, AccountsTypeOK
<1>2. draft'[r] = x /\ \A q \in AdminRequests : q # r => draft'[q] = draft[q]
  BY <1>1
<1>3. AccountsTypeOK'
  BY <1>1 DEF AccountsInv, AccountsTypeOK
<1>4. r \notin deeds /\ deeds \subseteq AdminRequests
  BY DEF AccountsInv, DeedsDone, AccountsTypeOK
<1>5. \A q \in deeds : draft'[q] = draft[q]
  BY <1>2, <1>4
<1>6. TrailIsTrue'
  BY <1>5 DEF AccountsInv, TrailIsTrue
<1>7. RowsAreOwn'
  BY <1>2 DEF AccountsInv, RowsAreOwn, Success
<1>8. DeedsDone'
  BY <1>5 DEF AccountsInv, DeedsDone
<1>9. \A q \in AdminRequests : q # r => (Keeps(q)' <=> Keeps(q))
  BY <1>2 DEF Keeps
<1>10. Keeps(r)' <=> Holding(x.step)
  BY <1>2 DEF Keeps
<1>11. KeysHeld'
  <2>1. ASSUME NEW p \in AdminRequests, Keeps(p)'
        PROVE  /\ draft'[p].op \in MakesTenant => draft'[p].slug \notin slugs'
               /\ draft'[p].op \in MakesUser => UserOf(draft'[p]) \notin people'
    BY <1>2, <1>9, <1>10, <2>1 DEF AccountsInv, KeysHeld
  <2>2. ASSUME NEW p \in AdminRequests, NEW q \in AdminRequests \ {p}, Keeps(p)', Keeps(q)'
        PROVE  ~SameTenant(draft'[p], draft'[q]) /\ ~SameUser(draft'[p], draft'[q])
    <3>1. CASE p # r /\ q # r
      BY <1>2, <1>9, <2>2, <3>1 DEF AccountsInv, KeysHeld
    <3>2. CASE p = r
      BY <1>2, <1>9, <1>10, <2>2, <3>2
    <3>3. CASE q = r
      <4>1. ~SameTenant(x, draft[p]) /\ ~SameUser(x, draft[p])
        BY <1>9, <1>10, <2>2, <3>3
      <4> QED
        BY <1>2, <2>2, <3>3, <4>1 DEF SameTenant, SameUser
    <3> QED
      BY <3>1, <3>2, <3>3
  <2> QED
    BY <2>1, <2>2 DEF KeysHeld, SameTenant, SameUser, UserOf
<1> QED
  BY <1>3, <1>6, <1>7, <1>8, <1>11 DEF AccountsInv

\* A draft that has begun is a draft, and moves to another.
LEMMA MovesOn ==
  ASSUME AccountsInv, NEW r \in AdminRequests, NEW step \in Steps, draft[r].step # "new"
  PROVE  LET x == [draft[r] EXCEPT !.step = step]
         IN  /\ draft[r] \in Drafts /\ x \in Drafts /\ x.step = step /\ x.op = draft[r].op
             /\ x.slug = draft[r].slug /\ x.row = draft[r].row
             /\ UserOf(x) = UserOf(draft[r])
<1> DEFINE x == [draft[r] EXCEPT !.step = step]
<1>1. draft[r] \in Drafts
  BY DEF AccountsInv, AccountsTypeOK, NoDraft
<1>2. x \in Drafts
  BY <1>1 DEF Drafts
<1>3. x.step = step /\ x.op = draft[r].op /\ x.slug = draft[r].slug /\ x.row = draft[r].row
      /\ x.email = draft[r].email
  BY <1>1 DEF Drafts
<1>4. x.capitals <=> draft[r].capitals
  BY <1>1 DEF Drafts
<1>5. UserOf(x) = UserOf(draft[r])
  BY <1>3, <1>4 DEF UserOf
<1> QED
  BY <1>1, <1>2, <1>3, <1>5

LEMMA CheckKeeps ==
  ASSUME AccountsInv, NEW r \in AdminRequests, Check(r)
  PROVE  AccountsInv'
<1>1. PICK op \in Ops, s \in Slugs, e \in Emails, c \in BOOLEAN :
        draft' = [draft EXCEPT ![r] = [op |-> op, step |-> "checked", slug |-> s, email |-> e,
                                       capitals |-> c, row |-> {}]]
  BY DEF Check, CreateTenant, CreateUser, EditUser
<1> DEFINE x == [op |-> op, step |-> "checked", slug |-> s, email |-> e,
                 capitals |-> c, row |-> {}]
<1>2. x \in Drafts
  BY DEF Drafts, Steps
<1>3. x.step = "checked" /\ x.row = {} /\ draft' = [draft EXCEPT ![r] = x]
  BY <1>1
<1> HIDE DEF x
<1>4. /\ draft[r].step = "new" /\ UNCHANGED <<slugs, people, disabled, trail, deeds>>
      /\ hubPeers' = hubPeers /\ unlogged' = unlogged
  BY DEF Check, NoDraft
<1>5. hubPeers \subseteq AdminRequests /\ unlogged \subseteq AdminRequests
  BY DEF AccountsInv, AccountsTypeOK
<1>6. ~Holding(x.step)
  BY <1>3 DEF Holding
<1> QED
  BY <1>2, <1>3, <1>4, <1>5, <1>6, DraftKeeps

LEMMA FlushKeeps ==
  ASSUME AccountsInv, NEW r \in AdminRequests, Flush(r)
  PROVE  AccountsInv'
<1> DEFINE x == [draft[r] EXCEPT !.step = "inserted"]
<1>1. /\ draft[r] \in Drafts /\ x \in Drafts /\ x.step = "inserted" /\ x.op = draft[r].op
      /\ x.slug = draft[r].slug /\ x.row = draft[r].row /\ UserOf(x) = UserOf(draft[r])
  BY MovesOn DEF Flush, DraftAt, Steps
<1>2. draft' = [draft EXCEPT ![r] = x] /\ draft[r].step = "checked"
  BY DEF Flush, Moves, DraftAt
<1> HIDE DEF x
<1>3. /\ UNCHANGED <<slugs, people, disabled, trail, deeds>>
      /\ hubPeers' = hubPeers /\ unlogged' = unlogged
      /\ hubPeers \subseteq AdminRequests /\ unlogged \subseteq AdminRequests
  BY DEF Flush, AccountsInv, AccountsTypeOK
<1>4. /\ x.op \in MakesTenant => x.slug \notin slugs /\ x.slug \notin PendingTenants(r)
      /\ x.op \in MakesUser => UserOf(x) \notin people /\ UserOf(x) \notin PendingUsers(r)
  BY <1>1 DEF Flush
<1>5. ASSUME NEW q \in AdminRequests \ {r}, Keeps(q)
      PROVE  ~SameTenant(x, draft[q]) /\ ~SameUser(x, draft[q])
  BY <1>4, <1>5 DEF SameTenant, SameUser, PendingTenants, PendingUsers, Keeps
<1>6. x.row \subseteq {Success(r)}
  BY <1>1 DEF AccountsInv, RowsAreOwn
<1> QED
  BY <1>1, <1>2, <1>3, <1>4, <1>5, <1>6, DraftKeeps

\* A request that holds its keys goes on to hold them.
LEMMA HoldingKeeps ==
  ASSUME AccountsInv, NEW r \in AdminRequests, NEW x \in Drafts, Keeps(r),
         draft' = [draft EXCEPT ![r] = x],
         UNCHANGED <<slugs, people, disabled, trail, deeds>>,
         hubPeers' \subseteq hubPeers \cup {r}, unlogged \subseteq unlogged',
         unlogged' \subseteq unlogged \cup {r},
         x.op = draft[r].op, x.slug = draft[r].slug, UserOf(x) = UserOf(draft[r]),
         x.row \subseteq {Success(r)},
         x.step = "logged" => Success(r) \in x.row \/ r \in unlogged'
  PROVE  AccountsInv'
<1>1. hubPeers' \subseteq AdminRequests /\ unlogged' \subseteq AdminRequests
      /\ draft[r].step # "ended"
  BY DEF AccountsInv, AccountsTypeOK, Keeps, Holding
<1>2. /\ x.op \in MakesTenant => x.slug \notin slugs
      /\ x.op \in MakesUser => UserOf(x) \notin people
      /\ \A q \in AdminRequests \ {r} : Keeps(q) =>
           ~SameTenant(x, draft[q]) /\ ~SameUser(x, draft[q])
  BY DEF AccountsInv, KeysHeld, SameTenant, SameUser
<1> QED
  BY <1>1, <1>2, DraftKeeps

LEMMA WorkKeeps ==
  ASSUME AccountsInv, NEW r \in AdminRequests, Provision(r) \/ LogRaises(r) \/ LogPoisons(r)
  PROVE  AccountsInv'
<1>1. PICK step \in {"provisioned", "logged", "poisoned"} :
        /\ draft' = [draft EXCEPT ![r].step = step]
        /\ step = "logged" => r \in unlogged'
  BY DEF Provision, LogRaises, LogPoisons, Moves
<1>2. /\ draft[r].step = "inserted"
      /\ UNCHANGED <<slugs, people, disabled, trail, deeds>>
      /\ hubPeers' \subseteq hubPeers \cup {r} /\ unlogged \subseteq unlogged'
      /\ unlogged' \subseteq unlogged \cup {r}
  BY DEF Provision, LogRaises, LogPoisons, DraftAt
<1>a. step \in Steps /\ draft[r].step # "new"
  BY <1>2 DEF Steps
<1> DEFINE x == [draft[r] EXCEPT !.step = step]
<1>3. /\ draft[r] \in Drafts /\ x \in Drafts /\ x.step = step /\ x.op = draft[r].op
      /\ x.slug = draft[r].slug /\ x.row = draft[r].row /\ UserOf(x) = UserOf(draft[r])
  BY <1>a, MovesOn
<1>4. draft' = [draft EXCEPT ![r] = x]
  BY <1>1
<1> HIDE DEF x
<1>5. Keeps(r) /\ x.row \subseteq {Success(r)}
  BY <1>2, <1>3 DEF Keeps, Holding, AccountsInv, RowsAreOwn
<1> QED
  BY <1>1, <1>2, <1>3, <1>4, <1>5, HoldingKeeps

LEMMA LogKeeps ==
  ASSUME AccountsInv, NEW r \in AdminRequests, LogAction(r)
  PROVE  AccountsInv'
<1> DEFINE x == [draft[r] EXCEPT !.row = @ \cup {Success(r)}, !.step = "logged"]
<1>1. /\ draft' = [draft EXCEPT ![r] = x] /\ Keeps(r)
      /\ UNCHANGED <<slugs, people, disabled, trail, deeds, hubPeers, unlogged>>
      /\ draft[r].step # "new"
  BY DEF LogAction, Insert, Audited, Keeps, Holding, DraftAt
<1>2. draft[r] \in Drafts
  BY <1>1 DEF AccountsInv, AccountsTypeOK, NoDraft
<1>3. Success(r) \in AuditRow
  BY DEF Success, AuditRow
<1>4. x \in Drafts
  BY <1>2, <1>3 DEF Drafts, Steps
<1>5. /\ x.op = draft[r].op /\ x.slug = draft[r].slug /\ x.email = draft[r].email
      /\ x.step = "logged" /\ x.row = draft[r].row \cup {Success(r)}
  BY <1>2 DEF Drafts
<1>6. x.capitals <=> draft[r].capitals
  BY <1>2 DEF Drafts
<1>7. UserOf(x) = UserOf(draft[r])
  BY <1>5, <1>6 DEF UserOf
<1> HIDE DEF x
<1>8. x.row \subseteq {Success(r)} /\ Success(r) \in x.row
  BY <1>5 DEF AccountsInv, RowsAreOwn
<1> QED
  BY <1>1, <1>4, <1>5, <1>7, <1>8, HoldingKeeps

LEMMA FailKeeps ==
  ASSUME AccountsInv, NEW r \in AdminRequests, Fail(r)
  PROVE  AccountsInv'
<1> DEFINE x == [draft[r] EXCEPT !.step = "ended"]
<1>1. /\ draft' = [draft EXCEPT ![r] = x] /\ draft[r].step \notin {"new", "ended"}
      /\ UNCHANGED <<slugs, people, disabled, trail, deeds>>
      /\ hubPeers' = hubPeers /\ unlogged' = unlogged
      /\ hubPeers \subseteq AdminRequests /\ unlogged \subseteq AdminRequests
  BY DEF Fail, RollBack, Moves, AccountsInv, AccountsTypeOK
<1>2. x \in Drafts /\ x.step = "ended" /\ x.row = draft[r].row
  BY <1>1, MovesOn DEF Steps
<1> HIDE DEF x
<1>3. ~Holding(x.step) /\ x.row \subseteq {Success(r)}
  BY <1>2 DEF Holding, AccountsInv, RowsAreOwn
<1> QED
  BY <1>1, <1>2, <1>3, DraftKeeps

LEMMA CommitKeeps ==
  ASSUME AccountsInv, NEW r \in AdminRequests, Commit(r)
  PROVE  AccountsInv'
<1> DEFINE d == draft[r]
<1> DEFINE x == [d EXCEPT !.step = "ended"]
<1>1. draft' = [draft EXCEPT ![r] = x] /\ Keeps(r) /\ d.step # "new"
  BY DEF Commit, Ready, DraftAt, Moves, Keeps, Holding
<1>2. /\ d \in Drafts /\ x \in Drafts /\ x.step = "ended" /\ x.op = d.op /\ x.slug = d.slug
      /\ x.row = d.row /\ UserOf(x) = UserOf(d)
  BY <1>1, MovesOn DEF Steps
<1>3. /\ slugs' = (IF d.op \in MakesTenant THEN slugs \cup {d.slug} ELSE slugs)
      /\ people' = (IF d.op \in MakesUser THEN people \cup {UserOf(d)} ELSE people)
      /\ trail' = trail \cup d.row /\ deeds' = deeds \cup {r}
      /\ hubPeers' = hubPeers /\ unlogged' = unlogged
  BY DEF Commit, RowsOf
<1>4. draft \in [AdminRequests -> Drafts \cup {NoDraft}]
  BY DEF AccountsInv, AccountsTypeOK
<1> HIDE DEF x
<1>5. draft'[r] = x /\ \A q \in AdminRequests : q # r => draft'[q] = draft[q]
  BY <1>1, <1>4
<1>6. AccountsTypeOK'
  <2>1. d.slug \in Slugs /\ UserOf(d) \in Person
    BY <1>2 DEF Drafts, UserOf, Person
  <2>2. slugs' \subseteq Slugs /\ people' \subseteq Person /\ people \subseteq people'
    BY <1>3, <2>1 DEF AccountsInv, AccountsTypeOK
  <2>3. disabled' \subseteq people'
    BY <2>2 DEF AccountsInv, AccountsTypeOK, Commit
  <2>4. d.row \subseteq AuditRow
    BY <1>2 DEF Drafts
  <2> QED
    BY <1>1, <1>2, <1>3, <1>4, <2>2, <2>3, <2>4 DEF AccountsInv, AccountsTypeOK
<1>7. /\ r \notin deeds /\ deeds \subseteq AdminRequests
      /\ \A q \in deeds : draft'[q] = draft[q]
  <2>1. r \notin deeds /\ deeds \subseteq AdminRequests
    BY <1>1 DEF AccountsInv, DeedsDone, AccountsTypeOK, Keeps, Holding
  <2> QED
    BY <1>5, <2>1
<1>8. d.row \subseteq {Success(r)}
  BY DEF AccountsInv, RowsAreOwn
<1>9. ASSUME NEW q \in deeds
      PROVE  /\ ~SameTenant(x, draft[q]) /\ ~SameUser(x, draft[q])
             /\ ~SameTenant(draft[q], x) /\ ~SameUser(draft[q], x)
  BY <1>1, <1>2 DEF AccountsInv, KeysHeld, DeedsDone, SameTenant, SameUser
<1>10. TrailIsTrue'
  <2>1. \A row \in trail' : row.result = "success" => row.by \in deeds'
    BY <1>3, <1>8 DEF AccountsInv, TrailIsTrue, Success
  <2>2. ASSUME NEW q \in deeds' \ unlogged', draft'[q].op # "create_tenant"
        PROVE  Success(q) \in trail'
    <3>1. CASE q \in deeds
      BY <1>3, <1>7, <2>2, <3>1 DEF AccountsInv, TrailIsTrue
    <3>2. CASE q = r
      <4>1. d.step = "logged"
        BY <1>2, <1>5, <2>2, <3>2 DEF Commit, Ready, DraftAt
      <4> QED
        BY <1>3, <2>2, <3>2, <4>1 DEF AccountsInv, RowsAreOwn
    <3> QED
      BY <1>3, <3>1, <3>2
  <2>3. ASSUME NEW p \in deeds', NEW q \in deeds', p # q
        PROVE  ~SameTenant(draft'[p], draft'[q]) /\ ~SameUser(draft'[p], draft'[q])
    <3>1. CASE p \in deeds /\ q \in deeds
      BY <1>7, <2>3, <3>1 DEF AccountsInv, TrailIsTrue
    <3>2. CASE p = r /\ q \in deeds
      BY <1>5, <1>7, <1>9, <3>2
    <3>3. CASE p \in deeds /\ q = r
      BY <1>5, <1>7, <1>9, <3>3
    <3> QED
      BY <1>3, <2>3, <3>1, <3>2, <3>3
  <2> QED
    BY <2>1, <2>2, <2>3 DEF TrailIsTrue, Success, SameTenant, SameUser, UserOf
<1>11. RowsAreOwn'
  BY <1>2, <1>3, <1>5 DEF AccountsInv, RowsAreOwn, Success
<1>12. DeedsDone'
  <2>1. ASSUME NEW q \in deeds'
        PROVE  /\ draft'[q].step = "ended"
               /\ draft'[q].op \in MakesTenant => draft'[q].slug \in slugs'
               /\ draft'[q].op \in MakesUser => UserOf(draft'[q]) \in people'
    <3>1. CASE q \in deeds
      BY <1>3, <1>7, <3>1 DEF AccountsInv, DeedsDone
    <3>2. CASE q = r
      BY <1>2, <1>3, <1>5, <3>2
    <3> QED
      BY <1>3, <3>1, <3>2
  <2> QED
    BY <2>1 DEF DeedsDone, UserOf
<1>13. KeysHeld'
  <2>1. ~Keeps(r)' /\ \A q \in AdminRequests : q # r => (Keeps(q)' <=> Keeps(q))
    BY <1>2, <1>5 DEF Keeps, Holding
  <2>2. ASSUME NEW q \in AdminRequests, Keeps(q)'
        PROVE  /\ draft'[q].op \in MakesTenant => draft'[q].slug \notin slugs'
               /\ draft'[q].op \in MakesUser => UserOf(draft'[q]) \notin people'
    <3>1. q # r /\ Keeps(q) /\ draft'[q] = draft[q]
      BY <1>5, <2>1, <2>2
    <3>2. ~SameTenant(draft[r], draft[q]) /\ ~SameUser(draft[r], draft[q])
      BY <1>1, <3>1 DEF AccountsInv, KeysHeld
    <3>3. /\ draft[q].op \in MakesTenant => draft[q].slug \notin slugs
          /\ draft[q].op \in MakesUser => UserOf(draft[q]) \notin people
      BY <3>1 DEF AccountsInv, KeysHeld
    <3> QED
      BY <1>3, <3>1, <3>2, <3>3 DEF SameTenant, SameUser
  <2>3. ASSUME NEW p \in AdminRequests, NEW q \in AdminRequests \ {p}, Keeps(p)', Keeps(q)'
        PROVE  ~SameTenant(draft'[p], draft'[q]) /\ ~SameUser(draft'[p], draft'[q])
    BY <1>5, <2>1, <2>3 DEF AccountsInv, KeysHeld
  <2> QED
    BY <2>2, <2>3 DEF KeysHeld, SameTenant, SameUser, UserOf
<1> QED
  BY <1>6, <1>10, <1>11, <1>12, <1>13 DEF AccountsInv

\* Every step of a request keeps the invariant.
LEMMA AccountsStep == AccountsInv /\ [AccountsNext]_accountVars => AccountsInv'
<1>1. ASSUME AccountsInv, AccountsNext PROVE AccountsInv'
  BY <1>1, CheckKeeps, FlushKeeps, WorkKeeps, LogKeeps, CommitKeeps, FailKeeps
     DEF AccountsNext
<1>2. ASSUME AccountsInv, UNCHANGED accountVars PROVE AccountsInv'
  BY <1>2 DEF accountVars, AccountsInv, AccountsTypeOK, TrailIsTrue, RowsAreOwn, DeedsDone,
     KeysHeld, Keeps, Success, SameTenant, SameUser, UserOf
<1> QED
  BY <1>1, <1>2

LEMMA AccountsAlwaysInv == AccountsSpec => []AccountsInv
  BY AccountsStart, AccountsStep, PTL DEF AccountsSpec

\* Tables, drafts and the trail keep their types.
THEOREM AccountsTypeAlwaysOK == AccountsSpec => []AccountsTypeOK
<1>1. AccountsInv => AccountsTypeOK
  BY DEF AccountsInv
<1> QED
  BY <1>1, AccountsAlwaysInv, PTL

\* A row of the trail that says success stands for a committed change, an audited
\* change has its row unless that could not be built, and of the requests that found
\* the same slug or e-mail free one at most has made it, however they interleave.
THEOREM TrailIsAlwaysTrue == AccountsSpec => []TrailIsTrue
<1>1. AccountsInv => TrailIsTrue
  BY DEF AccountsInv
<1> QED
  BY <1>1, AccountsAlwaysInv, PTL

(***************************************************************************)
(* FaceConsent: biometric data is kept as consent and watchlist say. The   *)
(* inductive invariant gives an open gate a grant that no withdrawal       *)
(* answers.                                                                *)
(***************************************************************************)
\* A withdrawal that counts against a grant: it is committed, or will leave the gate
\* as it is because it found it closed.
Refuses(w) == /\ ~ consent[w].opens
              /\ \/ consent[w].step = "committed"
                 \/ consent[w].step = "begun" /\ ~ consent[w].saw

\* A request knows grants that are committed, and an open gate stands on one that no
\* such withdrawal knew.
GrantsKnown == \A w \in Consents : consent[w].after \subseteq Granted
GateStands ==
    gate => \E g \in Granted : \A w \in Consents : Refuses(w) => g \notin consent[w].after

\* Withdrawals stay committed, and a creation that was let through stands on a grant that
\* none of those before it knew.
Entitled(p) ==
    /\ before[p] \subseteq Withdrawn
    /\ creation[p] \notin {"new", "refused"} =>
         \E g \in Granted : \A w \in before[p] : g \notin consent[w].after

\* A row is there once its creation has committed, and a deletion that has committed has
\* taken it off.
RowsSound(p) ==
    /\ creation[p] = "done" <=> profileRow[p] # "none"
    /\ \A d \in DeletionsOf(p) :
         /\ profileRow[p] = "none" => deletion[d].step \in {"new", "missing"}
         /\ deletion[d].step = "done" => profileRow[p] = "deleted"

\* Where the photo of a profile is.
PhotoFollows(p) ==
    /\ creation[p] \in {"new", "refused", "allowed"} => p \notin photos
    /\ creation[p] \in {"uploaded", "inserted"} => p \in photos
    /\ creation[p] = "done" => (p \in photos <=> \A d \in DeletionsOf(p) : ~ deletion[d].erased)
    /\ \A d \in DeletionsOf(p) :
         deletion[d].erased => deletion[d].step \in {"cleaned", "done", "undone"}

FaceInv ==
    /\ FaceTypeOK /\ GrantsKnown /\ GateStands
    /\ \A p \in Profiles : Entitled(p) /\ RowsSound(p) /\ PhotoFollows(p)

LEMMA FaceStarts == FaceInit => FaceInv
<1> SUFFICES ASSUME FaceInit PROVE FaceInv
  OBVIOUS
<1>1. FaceTypeOK
  BY DEF FaceInit, FaceTypeOK, ConsentRequests, DeletionRequests
<1>2. GrantsKnown /\ GateStands
  BY DEF FaceInit, GrantsKnown, GateStands
<1>3. \A d \in Deletions : deletion[d].step = "new" /\ deletion[d].erased = FALSE
  BY DEF FaceInit
<1>4. ASSUME NEW p \in Profiles PROVE Entitled(p) /\ RowsSound(p) /\ PhotoFollows(p)
  BY <1>3 DEF FaceInit, Entitled, RowsSound, PhotoFollows, DeletionsOf
<1> QED
  BY <1>1, <1>2, <1>4 DEF FaceInv

\* A consent request begins.
LEMMA BeginConsentKeeps ==
  ASSUME FaceTypeOK, GrantsKnown, GateStands, NEW c \in Consents, BeginConsent(c)
  PROVE  consent' \in [Consents -> ConsentRequests] /\ GrantsKnown' /\ GateStands'
<1> DEFINE x == [consent[c] EXCEPT !.step = "begun", !.saw = gate, !.after = Granted]
<1>1. consent \in [Consents -> ConsentRequests] /\ consent[c] \in ConsentRequests
  BY DEF FaceTypeOK
<1>2. consent' = [consent EXCEPT ![c] = x] /\ gate' = gate /\ consent[c].step = "new"
  BY <1>1 DEF BeginConsent
<1>3. Granted \subseteq Consents /\ gate \in BOOLEAN
  BY DEF Granted, Answered, FaceTypeOK
<1>4. x \in ConsentRequests
  BY <1>1, <1>3 DEF ConsentRequests
<1>5. x.step = "begun" /\ x.after = Granted
  BY <1>1 DEF ConsentRequests
<1>6. (x.saw <=> gate) /\ (x.opens <=> consent[c].opens)
  BY <1>1 DEF ConsentRequests
<1> HIDE DEF x
<1>7. consent'[c] = x /\ \A w \in Consents : w # c => consent'[w] = consent[w]
  BY <1>1, <1>2
<1>8. Granted' = Granted
  BY <1>2, <1>5, <1>7 DEF Granted, Answered
<1>9. GrantsKnown'
  BY <1>5, <1>7, <1>8 DEF GrantsKnown
<1>10. \A w \in Consents : gate /\ Refuses(w)' => w # c /\ Refuses(w)
  BY <1>5, <1>6, <1>7 DEF Refuses
<1>11. GateStands'
  BY <1>2, <1>7, <1>8, <1>10 DEF GateStands
<1> QED
  BY <1>1, <1>2, <1>4, <1>9, <1>11

\* A consent request commits or fails.
LEMMA EndConsentKeeps ==
  ASSUME FaceTypeOK, GrantsKnown, GateStands, NEW c \in Consents, EndConsent(c)
  PROVE  /\ consent' \in [Consents -> ConsentRequests] /\ gate' \in BOOLEAN
         /\ GrantsKnown' /\ GateStands'
<1>1. consent \in [Consents -> ConsentRequests] /\ consent[c] \in ConsentRequests
      /\ gate \in BOOLEAN
  BY DEF FaceTypeOK
<1>2. PICK step \in {"committed", "failed"} :
        /\ consent' = [consent EXCEPT ![c].step = step]
        /\ step = "committed" => gate' = GateAfter(c)
        /\ step = "failed" => gate' = gate
  BY DEF EndConsent
<1> DEFINE x == [consent[c] EXCEPT !.step = step]
<1>3. consent' = [consent EXCEPT ![c] = x] /\ consent[c].step = "begun"
  BY <1>2 DEF EndConsent
<1>4. x \in ConsentRequests
  BY <1>1 DEF ConsentRequests
<1>5. x.step = step /\ x.after = consent[c].after
  BY <1>1 DEF ConsentRequests
<1>6. (x.saw <=> consent[c].saw) /\ (x.opens <=> consent[c].opens)
  BY <1>1 DEF ConsentRequests
<1> HIDE DEF x
<1>7. consent'[c] = x /\ \A w \in Consents : w # c => consent'[w] = consent[w]
  BY <1>1, <1>3
<1>8. gate' \in BOOLEAN
  BY <1>1, <1>2 DEF GateAfter, ConsentRequests
<1>9. /\ Granted \subseteq Granted' /\ c \notin Granted
      /\ c \in Granted' <=> consent[c].opens /\ step = "committed"
      /\ Granted' \subseteq Granted \cup {c}
  BY <1>3, <1>5, <1>6, <1>7 DEF Granted, Answered
<1>10. \A w \in Consents : consent'[w].after = consent[w].after
  BY <1>5, <1>7
<1>11. GrantsKnown'
  BY <1>9, <1>10 DEF GrantsKnown
<1>12. \A w \in Consents : w # c => (Refuses(w)' <=> Refuses(w))
  BY <1>7 DEF Refuses
<1>13. GateStands'
  <2>1. CASE step = "failed"
    <3>1. ~ Refuses(c)'
      BY <1>5, <1>7, <2>1 DEF Refuses
    <3>2. gate' = gate
      BY <1>2, <2>1
    <3> QED
      BY <1>9, <1>10, <1>12, <3>1, <3>2 DEF GateStands
  <2>2. CASE step = "committed" /\ consent[c].opens
    <3>1. ~ Refuses(c)'
      BY <1>6, <1>7, <2>2 DEF Refuses
    <3>2. CASE consent[c].saw
      <4>1. gate' = gate
        BY <1>1, <1>2, <2>2, <3>2 DEF GateAfter, ConsentRequests
      <4> QED
        BY <1>9, <1>10, <1>12, <3>1, <4>1 DEF GateStands
    <3>3. CASE ~ consent[c].saw
      <4>1. c \in Granted' /\ \A w \in Consents : c \notin consent'[w].after
        BY <1>9, <1>10, <2>2 DEF GrantsKnown
      <4> QED
        BY <4>1 DEF GateStands
    <3> QED
      BY <3>2, <3>3
  <2>3. CASE step = "committed" /\ ~ consent[c].opens
    <3>1. CASE consent[c].saw
      <4>1. gate' = FALSE
        BY <1>1, <1>2, <2>3, <3>1 DEF GateAfter, ConsentRequests
      <4> QED
        BY <4>1 DEF GateStands
    <3>2. CASE ~ consent[c].saw
      <4>1. gate' = gate
        BY <1>1, <1>2, <2>3, <3>2 DEF GateAfter, ConsentRequests
      <4>2. Refuses(c)
        BY <1>3, <2>3, <3>2 DEF Refuses
      <4> QED
        BY <1>9, <1>10, <1>12, <4>1, <4>2 DEF GateStands
    <3> QED
      BY <3>1, <3>2
  <2> QED
    BY <2>1, <2>2, <2>3
<1> QED
  BY <1>1, <1>3, <1>4, <1>8, <1>11, <1>13

\* A request that creates a profile goes on.
LEMMA CreationKeeps ==
  ASSUME FaceInv, NEW p \in Profiles, UNCHANGED <<consent, deletion, gate>>,
         CheckGate(p) \/ UploadPhoto(p) \/ InsertProfile(p) \/ CommitProfile(p)
           \/ CreationFails(p)
  PROVE  FaceInv'
<1> DEFINE CreationSteps == {"new", "refused", "allowed", "uploaded", "inserted", "done", "failed"}
<1>1. /\ creation \in [Profiles -> CreationSteps]
      /\ profileRow \in [Profiles -> {"none", "live", "deleted"}]
      /\ photos \subseteq Profiles /\ before \in [Profiles -> SUBSET Consents]
      /\ Withdrawn \subseteq Consents
  BY DEF FaceInv, FaceTypeOK, Withdrawn, Answered
<1>2. /\ creation' \in [Profiles -> CreationSteps]
      /\ profileRow' \in [Profiles -> {"none", "live", "deleted"}]
      /\ photos' \subseteq Profiles /\ before' \in [Profiles -> SUBSET Consents]
      /\ \A q \in Profiles : q # p => /\ creation'[q] = creation[q]
                                      /\ profileRow'[q] = profileRow[q]
                                      /\ q \in photos' <=> q \in photos
                                      /\ before'[q] = before[q]
  BY <1>1 DEF CheckGate, UploadPhoto, InsertProfile, CommitProfile, CreationFails,
              CreationGoes
<1>3. FaceTypeOK' /\ GrantsKnown' /\ GateStands'
  BY <1>2 DEF FaceInv, FaceTypeOK, GrantsKnown, GateStands, Granted, Answered, Refuses
<1>4. Granted' = Granted /\ Withdrawn' = Withdrawn /\ \A q \in Profiles : DeletionsOf(q)' = DeletionsOf(q)
  BY DEF Granted, Withdrawn, Answered, DeletionsOf
<1>5. ASSUME NEW q \in Profiles, q # p PROVE (Entitled(q) /\ RowsSound(q) /\ PhotoFollows(q))'
  BY <1>2, <1>4, <1>5 DEF FaceInv, Entitled, RowsSound, PhotoFollows
<1>6. Entitled(p) /\ RowsSound(p) /\ PhotoFollows(p)
  BY DEF FaceInv
<1>7. /\ creation[p] \in {"new", "allowed", "uploaded", "inserted"}
      /\ profileRow[p] = "none"
      /\ \A d \in DeletionsOf(p) : deletion[d].step \in {"new", "missing"} /\ ~ deletion[d].erased
  BY <1>1, <1>6 DEF CheckGate, UploadPhoto, InsertProfile, CommitProfile, CreationFails,
                    RowsSound, PhotoFollows
<1>8. Entitled(p)'
  <2>1. CASE CheckGate(p)
    <3>1. /\ before'[p] = Withdrawn
          /\ creation'[p] = IF gate THEN "allowed" ELSE "refused"
      BY <1>1, <2>1 DEF CheckGate, CreationGoes
    <3>2. \A w \in Withdrawn : w \in Consents /\ Refuses(w)
      BY DEF Withdrawn, Answered, Refuses
    <3>3. gate => \E g \in Granted : \A w \in Withdrawn : g \notin consent[w].after
      BY <3>2 DEF FaceInv, GateStands
    <3> QED
      BY <1>4, <3>1, <3>3 DEF Entitled
  <2>2. CASE ~ CheckGate(p)
    <3>1. before' = before /\ creation[p] \notin {"new", "refused"}
      BY <2>2 DEF UploadPhoto, InsertProfile, CommitProfile, CreationFails
    <3> QED
      BY <1>4, <1>6, <3>1 DEF Entitled
  <2> QED
    BY <2>1, <2>2
<1>9. RowsSound(p)' /\ PhotoFollows(p)'
  <2>1. CASE CheckGate(p)
    BY <1>1, <1>4, <1>6, <1>7, <2>1 DEF CheckGate, CreationGoes, RowsSound, PhotoFollows
  <2>2. CASE UploadPhoto(p)
    BY <1>1, <1>4, <1>6, <1>7, <2>2 DEF UploadPhoto, CreationGoes, RowsSound, PhotoFollows
  <2>3. CASE InsertProfile(p)
    BY <1>1, <1>4, <1>6, <1>7, <2>3 DEF InsertProfile, CreationGoes, RowsSound, PhotoFollows
  <2>4. CASE CommitProfile(p)
    BY <1>1, <1>4, <1>6, <1>7, <2>4 DEF CommitProfile, CreationGoes, RowsSound, PhotoFollows
  <2>5. CASE CreationFails(p)
    BY <1>1, <1>4, <1>6, <1>7, <2>5 DEF CreationFails, CreationGoes, RowsSound, PhotoFollows
  <2> QED
    BY <2>1, <2>2, <2>3, <2>4, <2>5
<1> QED
  BY <1>3, <1>5, <1>8, <1>9 DEF FaceInv

\* A request that deletes a profile goes on: from one step to the next, and what it does
\* to its row and to its photo.
LEMMA DeletionKeeps ==
  ASSUME FaceInv, NEW d \in Deletions, UNCHANGED <<consent, creation, gate, before>>,
         FindProfile(d) \/ MarkDeleted(d) \/ DeletePhoto(d) \/ CommitDeletion(d)
           \/ DeletionFails(d)
  PROVE  FaceInv'
<1>1. /\ deletion \in [Deletions -> DeletionRequests] /\ deletion[d].of \in Profiles
      /\ profileRow \in [Profiles -> {"none", "live", "deleted"}]
      /\ photos \subseteq Profiles
      /\ deletion[d] \in DeletionRequests
  BY DEF FaceInv, FaceTypeOK, DeletionRequests
<1>p. PICK p \in Profiles : p = deletion[d].of
  BY <1>1
<1>2. PICK step \in {"missing", "found", "marked", "cleaned", "done", "undone"},
           erased \in BOOLEAN :
        /\ deletion' = [deletion EXCEPT ![d].step = step, ![d].erased = erased]
        /\ step \in {"missing", "found"} =>
             deletion[d].step = "new" /\ (step = "found" => profileRow[p] = "live")
        /\ step \in {"marked", "cleaned"} => deletion[d].step \in {"found", "marked"}
        /\ step \in {"done", "undone"} => deletion[d].step \in {"marked", "cleaned"}
        /\ step = "cleaned" => photos' = IF erased THEN photos \ {p} ELSE photos
        /\ step # "cleaned" => photos' = photos /\ erased = deletion[d].erased
        /\ profileRow' = IF step = "done" THEN [profileRow EXCEPT ![p] = "deleted"]
                                         ELSE profileRow
  <2>1. deletion[d].erased \in BOOLEAN
        /\ \A step : [deletion EXCEPT ![d].step = step]
                      = [deletion EXCEPT ![d].step = step, ![d].erased = deletion[d].erased]
    BY <1>1 DEF DeletionRequests
  <2>2. CASE FindProfile(d)
    BY <1>p, <2>1, <2>2 DEF FindProfile, DeletionGoes
  <2>3. CASE MarkDeleted(d)
    BY <1>p, <2>1, <2>3 DEF MarkDeleted, DeletionGoes
  <2>4. CASE DeletePhoto(d)
    BY <1>p, <2>4 DEF DeletePhoto
  <2>5. CASE CommitDeletion(d)
    BY <1>p, <2>1, <2>5 DEF CommitDeletion, DeletionGoes
  <2>6. CASE DeletionFails(d)
    BY <1>p, <2>1, <2>6 DEF DeletionFails, DeletionGoes
  <2> QED
    BY <2>2, <2>3, <2>4, <2>5, <2>6
<1>3. /\ deletion' \in [Deletions -> DeletionRequests]
      /\ deletion'[d].step = step /\ deletion'[d].of = p
      /\ \A e \in Deletions : e # d => deletion'[e] = deletion[e]
  BY <1>1, <1>2, <1>p DEF DeletionRequests
<1>4. deletion'[d].erased <=> erased
  BY <1>1, <1>2, <1>p DEF DeletionRequests
<1>5. /\ profileRow' \in [Profiles -> {"none", "live", "deleted"}]
      /\ photos' \subseteq Profiles
      /\ \A q \in Profiles : q # p => /\ profileRow'[q] = profileRow[q]
                                      /\ q \in photos' <=> q \in photos
      /\ profileRow'[p] = IF step = "done" THEN "deleted" ELSE profileRow[p]
  BY <1>1, <1>2
<1>6. FaceTypeOK' /\ GrantsKnown' /\ GateStands'
  BY <1>3, <1>5 DEF FaceInv, FaceTypeOK, GrantsKnown, GateStands, Granted, Answered, Refuses
<1>7. Granted' = Granted /\ Withdrawn' = Withdrawn /\ \A q \in Profiles : Entitled(q)'
  BY DEF FaceInv, Entitled, Granted, Withdrawn, Answered
<1>8. \A q \in Profiles : /\ DeletionsOf(q)' = DeletionsOf(q)
                          /\ d \in DeletionsOf(q) <=> q = p
                          /\ DeletionsOf(q) \subseteq Deletions
  BY <1>3, <1>p DEF DeletionsOf
<1>9. ASSUME NEW q \in Profiles, q # p PROVE RowsSound(q)' /\ PhotoFollows(q)'
  <2>1. \A e \in DeletionsOf(q) : deletion'[e] = deletion[e]
    BY <1>3, <1>8, <1>9
  <2> QED
    BY <1>5, <1>8, <1>9, <2>1 DEF FaceInv, RowsSound, PhotoFollows
<1>10. RowsSound(p) /\ PhotoFollows(p)
  BY DEF FaceInv
<1>11. \A e \in DeletionsOf(p) : e # d => deletion'[e] = deletion[e]
  BY <1>3, <1>8
<1>12. profileRow[p] = "none" => deletion[d].step \in {"new", "missing"} /\ step = "missing"
  <2>1. profileRow[p] = "none" => deletion[d].step \in {"new", "missing"}
    BY <1>8, <1>10 DEF RowsSound
  <2> QED
    BY <1>2, <2>1
<1>13. RowsSound(p)'
  BY <1>3, <1>5, <1>8, <1>10, <1>11, <1>12 DEF RowsSound
<1>14. deletion[d].step \in {"new", "found", "marked"} => ~ deletion[d].erased
  BY <1>8, <1>10 DEF PhotoFollows
<1>15. ASSUME creation[p] = "done"
       PROVE  p \in photos' <=> \A e \in DeletionsOf(p) : ~ deletion'[e].erased
  <2>1. p \in photos <=> \A e \in DeletionsOf(p) : ~ deletion[e].erased
    BY <1>10, <1>15 DEF PhotoFollows
  <2>2. CASE step = "cleaned" /\ erased
    BY <1>2, <1>4, <1>8, <2>2
  <2>3. CASE ~ (step = "cleaned" /\ erased)
    <3>1. photos' = photos /\ (erased <=> deletion[d].erased)
      BY <1>2, <1>14, <2>3
    <3>2. \A e \in DeletionsOf(p) : deletion'[e].erased <=> deletion[e].erased
      BY <1>4, <1>11, <3>1
    <3> QED
      BY <2>1, <3>1, <3>2
  <2> QED
    BY <2>2, <2>3
<1>16. PhotoFollows(p)'
  <2>1. creation[p] # "done" => photos' = photos
    BY <1>2, <1>10, <1>12, <1>5, <1>1 DEF RowsSound
  <2>2. erased => step \in {"cleaned", "done", "undone"}
    BY <1>2, <1>14
  <2>3. \A e \in DeletionsOf(p) :
          deletion'[e].erased => deletion'[e].step \in {"cleaned", "done", "undone"}
    BY <1>3, <1>4, <1>10, <1>11, <2>2 DEF PhotoFollows
  <2> QED
    BY <1>8, <1>10, <1>15, <2>1, <2>3 DEF PhotoFollows
<1> QED
  BY <1>6, <1>7, <1>9, <1>13, <1>16 DEF FaceInv

\* Every request keeps the invariant.
LEMMA FaceStep == FaceInv /\ [FaceNext]_faceVars => FaceInv'
<1> SUFFICES ASSUME FaceInv, [FaceNext]_faceVars PROVE FaceInv'
  OBVIOUS
<1>1. ASSUME NEW c \in Consents, BeginConsent(c) \/ EndConsent(c) PROVE FaceInv'
  <2>1. /\ consent' \in [Consents -> ConsentRequests] /\ gate' \in BOOLEAN
        /\ GrantsKnown' /\ GateStands'
    BY <1>1, BeginConsentKeeps, EndConsentKeeps DEF FaceInv, FaceTypeOK, BeginConsent
  <2>2. UNCHANGED photoVars
    BY <1>1 DEF BeginConsent, EndConsent
  <2>3. \A w \in Answered : w \in Consents /\ consent'[w] = consent[w] /\ w \in Answered'
    BY <1>1 DEF FaceInv, FaceTypeOK, BeginConsent, EndConsent, Answered
  <2>4. /\ Granted \subseteq Granted' /\ Withdrawn \subseteq Withdrawn'
        /\ \A w \in Withdrawn : consent'[w] = consent[w]
    BY <2>3 DEF Granted, Withdrawn
  <2>5. \A p \in Profiles : Entitled(p)'
    BY <2>2, <2>4 DEF FaceInv, Entitled, photoVars
  <2>6. \A p \in Profiles : RowsSound(p)' /\ PhotoFollows(p)'
    BY <2>2 DEF FaceInv, photoVars, RowsSound, PhotoFollows, DeletionsOf
  <2> QED
    BY <2>1, <2>2, <2>5, <2>6 DEF FaceInv, FaceTypeOK, photoVars
<1>2. ASSUME NEW p \in Profiles,
             CheckGate(p) \/ UploadPhoto(p) \/ InsertProfile(p) \/ CommitProfile(p)
               \/ CreationFails(p)
      PROVE  FaceInv'
  <2>1. UNCHANGED <<consent, deletion, gate>>
    BY <1>2 DEF CheckGate, UploadPhoto, InsertProfile, CommitProfile, CreationFails
  <2> QED
    BY <1>2, <2>1, CreationKeeps
<1>3. ASSUME NEW d \in Deletions,
             FindProfile(d) \/ MarkDeleted(d) \/ DeletePhoto(d) \/ CommitDeletion(d)
               \/ DeletionFails(d)
      PROVE  FaceInv'
  <2>1. UNCHANGED <<consent, creation, gate, before>>
    BY <1>3 DEF FindProfile, MarkDeleted, DeletePhoto, CommitDeletion, DeletionFails
  <2> QED
    BY <1>3, <2>1, DeletionKeeps
<1>4. CASE UNCHANGED faceVars
  <2>1. FaceTypeOK' /\ GrantsKnown' /\ GateStands'
    BY <1>4 DEF faceVars, FaceInv, FaceTypeOK, GrantsKnown, GateStands, Granted, Answered,
       Refuses
  <2>2. \A p \in Profiles : (Entitled(p) /\ RowsSound(p) /\ PhotoFollows(p))'
    BY <1>4 DEF faceVars, FaceInv, Entitled, Granted, Withdrawn, Answered, RowsSound,
       PhotoFollows, DeletionsOf
  <2> QED
    BY <2>1, <2>2 DEF FaceInv
<1> QED
  BY <1>1, <1>2, <1>3, <1>4 DEF FaceNext

LEMMA FaceAlwaysInv == FaceSpec => []FaceInv
  BY FaceStarts, FaceStep, PTL DEF FaceSpec

\* Gate, requests, rows and photos keep their types.
THEOREM FaceTypeAlwaysOK == FaceSpec => []FaceTypeOK
<1>1. FaceInv => FaceTypeOK
  BY DEF FaceInv
<1> QED
  BY <1>1, FaceAlwaysInv, PTL

\* An open gate stands on a grant that no later withdrawal has answered, photos are
\* stored by requests that such a grant let through, and a photo and its profile part
\* only by the failures that the property names: however grants, withdrawals, creations
\* and deletions overlap.
THEOREM FaceDataAlwaysKept == FaceSpec => []FaceDataKept
<1>1. FaceInv => FaceDataKept
  <2> SUFFICES ASSUME FaceInv
               PROVE  WithdrawalHolds /\ GatheredOnConsent /\ PhotosGoWithProfiles
    BY DEF FaceDataKept
  <2>1. WithdrawalHolds
    BY DEF FaceInv, GateStands, WithdrawalHolds, Refuses, Withdrawn, Answered
  <2>2. ASSUME NEW p \in Profiles
        PROVE  /\ Entitled(p) /\ RowsSound(p) /\ PhotoFollows(p)
               /\ creation[p] \in {"new", "refused", "allowed", "uploaded", "inserted", "done",
                                  "failed"}
               /\ profileRow[p] \in {"none", "live", "deleted"}
    BY DEF FaceInv, FaceTypeOK
  <2>3. GatheredOnConsent
    BY <2>2 DEF GatheredOnConsent, Entitled, RowsSound, PhotoFollows
  <2>4. PhotosGoWithProfiles
    BY <2>2 DEF PhotosGoWithProfiles, RowsSound, PhotoFollows
  <2> QED
    BY <2>1, <2>3, <2>4
<1> QED
  BY <1>1, FaceAlwaysInv, PTL

(***************************************************************************)
(* Reports: the inductive invariant counts the slots of the semaphore by   *)
(* the jobs that hold one and the slots that dead workers leaked, and the  *)
(* keys that expired under a job.                                          *)
(***************************************************************************)
RenderJobs == [step : {"idle", "incr", "expire", "return", "inside", "release"},
               for : SUBSET ReportIds, got : Int, age : 0..JobTimeout]

\* A job that has got a slot, and works in it or is about to.
HasSlot(x) == x.step = "inside" \/ (x.step = "expire" /\ x.got <= PdfSemLimit)
CountedStep(step) == step \in {"expire", "return", "inside", "release"}
Holders == {j \in Jobs : HasSlot(render[j])}

\* The counter is the jobs that are counted and those that are lost; what an expiry
\* took from it comes back at most as often as jobs were cut off.
SlotsCounted ==
  /\ IsFiniteSet(Counted) /\ slots = Cardinality(Counted) + leaked
  /\ leaked + cut >= 0
  /\ Cardinality(Holders) <= PdfSemLimit + cut

ReportsInv == ReportsTypeOK /\ SlotsCounted

LEMMA HoldersCount ==
  IsFiniteSet(Counted) =>
    /\ Holders \subseteq Counted /\ IsFiniteSet(Holders)
    /\ Cardinality(Holders) <= Cardinality(Counted)
    /\ Cardinality(Holders) \in Nat /\ Cardinality(Counted) \in Nat
<1>1. Holders \subseteq Counted
  BY DEF Holders, Counted, HasSlot
<1> QED
  BY <1>1, FS_Subset, FS_CardinalityType

LEMMA ReportsStart == ReportsInit => ReportsInv
<1> SUFFICES ASSUME ReportsInit PROVE ReportsInv
  OBVIOUS
<1>1. NoJob \in RenderJobs /\ NoJob.step = "idle"
  BY ReportsAssumption DEF NoJob, RenderJobs
<1>2. render \in [Jobs -> RenderJobs] /\ \A j \in Jobs : render[j].step = "idle"
  BY <1>1 DEF ReportsInit
<1>3. ReportsTypeOK
  BY <1>2, ReportsAssumption DEF ReportsInit, ReportsTypeOK, RenderJobs, Forever
<1>4. Counted = {} /\ Holders = {}
  BY <1>2 DEF Counted, Holders, HasSlot
<1>5. SlotsCounted
  BY <1>4, FS_EmptySet, ReportsAssumption DEF ReportsInit, SlotsCounted
<1> QED
  BY <1>3, <1>5 DEF ReportsInv

\* Arithmetic of the counter.
LEMMA LeakBound ==
  ASSUME {leaked, leaked', cut, cut', slots', PdfSemLimit} \subseteq Int, leaked' >= leaked, cut' = cut,
         leaked + cut >= 0
  PROVE  leaked' + cut' >= 0
<1>1. \A k, l, c, d \in Int : (d = c /\ k >= l /\ l + c >= 0) => k + d >= 0
  OBVIOUS
<1> QED
  BY <1>1

LEMMA HoldersBound ==
  ASSUME NEW n \in Int, NEW h \in Int,
         {leaked, leaked', cut, cut', slots', PdfSemLimit} \subseteq Int,
         slots' = n + leaked', slots' <= PdfSemLimit, leaked' + cut' >= 0, h <= n
  PROVE  h <= PdfSemLimit + cut'
<1>1. \A s, l, c, m \in Int :
        (s = n + l /\ s <= m /\ l + c >= 0 /\ h <= n) => h <= m + c
  OBVIOUS
<1> QED
  BY <1>1

\* A step of one job, from one state of it to another, with what it does to the counter.
LEMMA ReportJobKeeps ==
  ASSUME ReportsInv, NEW j \in Jobs, NEW x \in RenderJobs,
         render' = [render EXCEPT ![j] = x],
         report' = report, queued' \subseteq ReportIds, refused' = refused,
         keyLife' \in 0..Forever, cut' = cut, deaths' \in 0..MaxDeaths,
         HasSlot(x) => HasSlot(render[j]) \/ slots' <= PdfSemLimit,
         \/ /\ CountedStep(x.step) <=> CountedStep(render[j].step)
            /\ slots' = slots /\ leaked' = leaked
         \/ /\ CountedStep(x.step) /\ ~CountedStep(render[j].step)
            /\ slots' = slots + 1 /\ leaked' = leaked
         \/ /\ ~CountedStep(x.step) /\ CountedStep(render[j].step)
            /\ \/ slots' = slots - 1 /\ leaked' = leaked
               \/ slots' = slots /\ leaked' = leaked + 1
  PROVE  ReportsInv'
<1>1. render \in [Jobs -> RenderJobs] /\ SlotsCounted
  BY DEF ReportsInv, ReportsTypeOK, RenderJobs
<1>2. /\ slots \in Int /\ leaked \in Int /\ cut \in Nat /\ cut <= MaxCuts
      /\ PdfSemLimit \in Nat /\ MaxCuts \in Nat
  BY ReportsAssumption DEF ReportsInv, ReportsTypeOK
<1>3. render' \in [Jobs -> RenderJobs] /\ render'[j] = x
      /\ \A k \in Jobs : k # j => render'[k] = render[k]
  BY <1>1
<1>4. slots' \in Int /\ leaked' \in Int /\ leaked' >= leaked
  BY <1>2
<1>5. ReportsTypeOK'
  BY <1>3, <1>4 DEF ReportsInv, ReportsTypeOK, RenderJobs, Forever
<1>6. Counted' = IF CountedStep(x.step) THEN Counted \cup {j} ELSE Counted \ {j}
  BY <1>3 DEF Counted, CountedStep
<1>7. j \in Counted <=> CountedStep(render[j].step)
  BY DEF Counted, CountedStep
<1>8. IsFiniteSet(Counted) /\ Cardinality(Counted) \in Nat /\ IsFiniteSet(Holders)
      /\ Cardinality(Holders) \in Nat
  BY <1>1, HoldersCount DEF SlotsCounted
<1>9. IsFiniteSet(Counted') /\ slots' = Cardinality(Counted') + leaked'
      /\ Cardinality(Counted') \in Nat
  <2>1. slots = Cardinality(Counted) + leaked
    BY <1>1 DEF SlotsCounted
  <2>2. CASE CountedStep(x.step)
    <3>1. IsFiniteSet(Counted') /\ Cardinality(Counted') =
            IF j \in Counted THEN Cardinality(Counted) ELSE Cardinality(Counted) + 1
      BY <1>6, <1>8, <2>2, FS_AddElement
    <3> QED
      BY <1>2, <1>7, <1>8, <2>1, <2>2, <3>1
  <2>3. CASE ~CountedStep(x.step)
    <3>1. IsFiniteSet(Counted') /\ Cardinality(Counted') =
            IF j \in Counted THEN Cardinality(Counted) - 1 ELSE Cardinality(Counted)
      BY <1>6, <1>8, <2>3, FS_RemoveElement
    <3>2. Cardinality(Counted') \in Nat
      BY <3>1, FS_CardinalityType
    <3> QED
      BY <1>2, <1>7, <1>8, <2>1, <2>3, <3>1, <3>2
  <2> QED
    BY <2>2, <2>3
<1>a. {leaked, leaked', cut, cut', slots', PdfSemLimit} \subseteq Int
  BY <1>2, <1>4
<1>10. leaked' + cut' >= 0
  <2>1. leaked + cut >= 0 /\ cut' = cut
    BY <1>1 DEF SlotsCounted
  <2> QED
    BY <1>4, <1>a, <2>1, LeakBound
<1>11. Cardinality(Holders') <= PdfSemLimit + cut'
  <2>1. CASE HasSlot(x) /\ ~HasSlot(render[j])
    <3>1. slots' <= PdfSemLimit
      BY <2>1
    <3>2. Cardinality(Holders') <= Cardinality(Counted')
      <4>1. Holders' \subseteq Counted'
        BY DEF Holders, Counted, HasSlot
      <4> QED
        BY <1>9, <4>1, FS_Subset
    <3>3. Cardinality(Holders') \in Nat
      <4>1. Holders' \subseteq Counted'
        BY DEF Holders, Counted, HasSlot
      <4> QED
        BY <1>9, <4>1, FS_Subset, FS_CardinalityType
    <3> QED
      <4>1. Cardinality(Counted') \in Int /\ Cardinality(Holders') \in Int
        BY <1>9, <3>3
      <4> QED
        BY <1>9, <1>10, <1>a, <3>1, <3>2, <4>1, HoldersBound
  <2>2. CASE ~HasSlot(x) \/ HasSlot(render[j])
    <3>1. Holders' \subseteq Holders
      BY <1>3, <2>2 DEF Holders, HasSlot
    <3>2. Cardinality(Holders') <= Cardinality(Holders) /\ Cardinality(Holders') \in Nat
      BY <1>8, <3>1, FS_Subset, FS_CardinalityType
    <3> QED
      BY <1>1, <1>2, <1>8, <3>2 DEF SlotsCounted
  <2> QED
    BY <2>1, <2>2
<1> QED
  BY <1>5, <1>9, <1>10, <1>11 DEF ReportsInv, SlotsCounted

\* What a job is after a step, and when it has ended.
LEMMA JobForms ==
  ASSUME ReportsInv, NEW j \in Jobs,
         NEW step \in {"idle", "incr", "expire", "return", "inside", "release"}
  PROVE  LET x == [render[j] EXCEPT !.step = step]
         IN  /\ x \in RenderJobs /\ x.step = step /\ x.got = render[j].got
             /\ NoJob \in RenderJobs /\ NoJob.step = "idle"
<1>1. render[j] \in RenderJobs
  BY DEF ReportsInv, ReportsTypeOK, RenderJobs
<1>2. [render[j] EXCEPT !.step = step] \in RenderJobs
  BY <1>1 DEF RenderJobs
<1>3. NoJob \in RenderJobs /\ NoJob.step = "idle"
  BY ReportsAssumption DEF NoJob, RenderJobs
<1> QED
  BY <1>1, <1>2, <1>3 DEF RenderJobs

LEMMA TakeReportKeeps ==
  ASSUME ReportsInv, NEW j \in Jobs, NEW i \in ReportIds, TakeReport(j, i)
  PROVE  ReportsInv'
<1> DEFINE x == [NoJob EXCEPT !.step = "incr", !.for = {i}]
<1>a. NoJob \in RenderJobs
  BY ReportsAssumption DEF NoJob, RenderJobs
<1>1. x \in RenderJobs
  BY <1>a DEF RenderJobs
<1>2. x.step = "incr"
  BY DEF NoJob
<1>3. /\ render' = [render EXCEPT ![j] = x] /\ render[j].step = "idle"
      /\ UNCHANGED <<report, slots, keyLife, leaked, cut, refused, deaths>>
      /\ queued' \subseteq queued
  BY DEF TakeReport, semVars, NoJob
<1> HIDE DEF x
<1>4. /\ queued' \subseteq ReportIds /\ keyLife' \in 0..Forever /\ deaths' \in 0..MaxDeaths
  BY <1>3 DEF ReportsInv, ReportsTypeOK
<1> QED
  BY <1>1, <1>2, <1>3, <1>4, ReportJobKeeps DEF HasSlot, CountedStep

LEMMA IncrKeeps ==
  ASSUME ReportsInv, NEW j \in Jobs, Incr(j)
  PROVE  ReportsInv'
<1> DEFINE x == [render[j] EXCEPT !.step = "expire", !.got = slots + 1]
<1>1. render[j] \in RenderJobs /\ slots \in Int /\ render[j].step = "incr"
  BY DEF ReportsInv, ReportsTypeOK, RenderJobs, Incr, JobAt
<1>a. slots + 1 \in Int
  BY <1>1
<1>2. x \in RenderJobs
  BY <1>1, <1>a DEF RenderJobs
<1>3. x.step = "expire" /\ x.got = slots + 1
  BY <1>1 DEF RenderJobs
<1>4. /\ render' = [render EXCEPT ![j] = x] /\ slots' = slots + 1
      /\ UNCHANGED <<report, queued, refused, leaked, cut, deaths>>
  BY DEF Incr
<1> HIDE DEF x
<1>5. /\ queued' \subseteq ReportIds /\ keyLife' \in 0..Forever /\ deaths' \in 0..MaxDeaths
  BY <1>4, ReportsAssumption DEF ReportsInv, ReportsTypeOK, Incr, Forever
<1>6. CountedStep(x.step) /\ ~CountedStep(render[j].step)
  BY <1>1, <1>3 DEF CountedStep
<1>7. HasSlot(x) => slots' <= PdfSemLimit
  BY <1>3, <1>4 DEF HasSlot
<1> QED
  BY <1>2, <1>4, <1>5, <1>6, <1>7, ReportJobKeeps

\* A job that is counted goes on, counted: what it has got decides where.
LEMMA CountedKeeps ==
  ASSUME ReportsInv, NEW j \in Jobs, Expire(j) \/ Generate(j)
  PROVE  ReportsInv'
<1>1. PICK step \in {"inside", "return", "release"} :
        /\ render' = [render EXCEPT ![j].step = step]
        /\ step = "inside" => HasSlot(render[j])
  BY DEF Expire, Generate, JobGoes, JobAt, HasSlot
<1> DEFINE x == [render[j] EXCEPT !.step = step]
<1>2. step \in {"idle", "incr", "expire", "return", "inside", "release"}
  OBVIOUS
<1>3. x \in RenderJobs /\ x.step = step
  BY <1>2, JobForms
<1>4. render' = [render EXCEPT ![j] = x]
  BY <1>1
<1> HIDE DEF x
<1>5. /\ UNCHANGED <<report, queued, slots, refused, leaked, cut, deaths>>
      /\ render[j].step \in {"expire", "inside"}
      /\ keyLife' \in {keyLife, 0, PdfSemTtl}
  BY DEF Expire, Generate, JobAt, semVars, Renewed
<1>6. /\ queued' \subseteq ReportIds /\ keyLife' \in 0..Forever /\ deaths' \in 0..MaxDeaths
  BY <1>5, ReportsAssumption DEF ReportsInv, ReportsTypeOK, Forever
<1>7. HasSlot(x) => HasSlot(render[j])
  BY <1>1, <1>3 DEF HasSlot
<1>8. CountedStep(x.step) /\ CountedStep(render[j].step)
  BY <1>3, <1>5 DEF CountedStep
<1>9. report' = report /\ refused' = refused /\ cut' = cut /\ slots' = slots
      /\ leaked' = leaked
  BY <1>5
<1> QED
  BY <1>3, <1>4, <1>6, <1>7, <1>8, <1>9, ReportJobKeeps

LEMMA DecrKeeps ==
  ASSUME ReportsInv, NEW j \in Jobs, GiveBack(j) \/ Release(j)
  PROVE  ReportsInv'
<1> DEFINE y == [render[j] EXCEPT !.step = "incr"]
<1>1. /\ y \in RenderJobs /\ y.step = "incr" /\ NoJob \in RenderJobs /\ NoJob.step = "idle"
  BY JobForms
<1>2. render' = [render EXCEPT ![j] = y] \/ render' = [render EXCEPT ![j] = NoJob]
  BY DEF GiveBack, Release, RenderEnds, JobGoes
<1> HIDE DEF y
<1>3. PICK x \in RenderJobs :
        x.step \in {"idle", "incr"} /\ render' = [render EXCEPT ![j] = x]
  BY <1>1, <1>2
<1>4. /\ UNCHANGED <<report, queued, refused, leaked, cut, deaths>>
      /\ render[j].step \in {"return", "release"} /\ slots' = slots - 1
      /\ keyLife' \in {keyLife, Forever}
  BY DEF GiveBack, Release, JobAt, Decr
<1>5. /\ queued' \subseteq ReportIds /\ keyLife' \in 0..Forever /\ deaths' \in 0..MaxDeaths
  BY <1>4, ReportsAssumption DEF ReportsInv, ReportsTypeOK, Forever
<1>6. ~HasSlot(x) /\ ~CountedStep(x.step) /\ CountedStep(render[j].step)
  BY <1>3, <1>4 DEF HasSlot, CountedStep
<1> QED
  BY <1>3, <1>4, <1>5, <1>6, ReportJobKeeps

LEMMA DieKeeps ==
  ASSUME ReportsInv, NEW j \in Jobs, Die(j)
  PROVE  ReportsInv'
<1>1. NoJob \in RenderJobs /\ NoJob.step = "idle"
  BY ReportsAssumption DEF NoJob, RenderJobs
<1>2. /\ render' = [render EXCEPT ![j] = NoJob]
      /\ UNCHANGED <<report, slots, keyLife, refused, cut>>
      /\ leaked' = IF j \in Counted THEN leaked + 1 ELSE leaked
      /\ queued' \in {queued, queued \cup render[j].for}
      /\ deaths < MaxDeaths /\ deaths' = deaths + 1
  BY DEF Die, RenderEnds
<1>3. render[j].for \subseteq ReportIds
  BY DEF ReportsInv, ReportsTypeOK
<1>4. /\ queued' \subseteq ReportIds /\ keyLife' \in 0..Forever /\ deaths' \in 0..MaxDeaths
  BY <1>2, <1>3, ReportsAssumption DEF ReportsInv, ReportsTypeOK
<1>5. ~HasSlot(NoJob) /\ ~CountedStep(NoJob.step)
  BY <1>1 DEF HasSlot, CountedStep
<1>6. j \in Counted <=> CountedStep(render[j].step)
  BY DEF Counted, CountedStep
<1> QED
  BY <1>1, <1>2, <1>4, <1>5, <1>6, ReportJobKeeps

\* Time ages the jobs, and takes the counter away with the key.
LEMMA ReportsTickKeeps ==
  ASSUME ReportsInv, ReportsTick
  PROVE  ReportsInv'
<1>1. render \in [Jobs -> RenderJobs] /\ SlotsCounted
  BY DEF ReportsInv, ReportsTypeOK, RenderJobs
<1>2. /\ slots \in Int /\ leaked \in Int /\ cut \in Nat /\ cut <= MaxCuts
      /\ PdfSemLimit \in Nat /\ MaxCuts \in Nat /\ keyLife \in 0..Forever
      /\ Forever \in Nat /\ PdfSemTtl \in Nat /\ JobTimeout \in Nat
  BY ReportsAssumption DEF ReportsInv, ReportsTypeOK, Forever
<1>3. ASSUME NEW j \in Jobs
      PROVE  /\ render'[j] \in RenderJobs /\ render'[j].step = render[j].step
             /\ render'[j].got = render[j].got
  <2>1. render'[j] = IF render[j] = NoJob THEN NoJob
                     ELSE [render[j] EXCEPT !.age = render[j].age + 1]
    BY DEF ReportsTick
  <2>2. render[j] \in RenderJobs /\ render[j].age < JobTimeout
    BY <1>1 DEF ReportsTick
  <2>3. render[j].age + 1 \in 0..JobTimeout
    BY <1>2, <2>2 DEF RenderJobs
  <2> DEFINE x == [render[j] EXCEPT !.age = render[j].age + 1]
  <2>4. x \in RenderJobs
    BY <2>2, <2>3 DEF RenderJobs
  <2>5. x.step = render[j].step /\ x.got = render[j].got
    BY <2>2 DEF RenderJobs
  <2> HIDE DEF x
  <2> QED
    BY <2>1, <2>2, <2>4, <2>5 DEF x
<1>4. render' \in [Jobs -> RenderJobs]
  <2>1. render' = [j \in Jobs |-> render'[j]]
    BY DEF ReportsTick
  <2> QED
    BY <1>3, <2>1
<1>5. Counted' = Counted /\ Holders' = Holders
  BY <1>3 DEF Counted, Holders, HasSlot
<1>6. IsFiniteSet(Counted) /\ Cardinality(Counted) \in Nat /\ Cardinality(Holders) \in Nat
  BY <1>1, HoldersCount DEF SlotsCounted
<1>7. /\ keyLife' \in 0..Forever
      /\ UNCHANGED <<report, queued, refused, deaths>>
  BY <1>2 DEF ReportsTick
<1>8. \/ UNCHANGED <<slots, leaked, cut>>
      \/ /\ cut + Cardinality(Counted) <= MaxCuts /\ slots' = 0
         /\ leaked' = -Cardinality(Counted) /\ cut' = cut + Cardinality(Counted)
  BY DEF ReportsTick
<1>9. slots' \in Int /\ leaked' \in Int /\ cut' \in 0..MaxCuts /\ cut' >= cut
      /\ slots' = Cardinality(Counted) + leaked' /\ leaked' + cut' >= 0
  BY <1>1, <1>2, <1>6, <1>8 DEF SlotsCounted
<1>10. ReportsTypeOK'
  BY <1>4, <1>7, <1>9 DEF ReportsInv, ReportsTypeOK, RenderJobs
<1>11. SlotsCounted'
  <2>1. IsFiniteSet(Counted') /\ slots' = Cardinality(Counted') + leaked'
    BY <1>5, <1>6, <1>9
  <2>2. Cardinality(Holders') <= PdfSemLimit + cut'
    <3>1. Cardinality(Holders) <= PdfSemLimit + cut /\ cut' \in Nat
      BY <1>1, <1>2, <1>9 DEF SlotsCounted
    <3> QED
      BY <1>2, <1>5, <1>6, <1>9, <3>1
  <2> QED
    BY <1>9, <2>1, <2>2 DEF SlotsCounted
<1> QED
  BY <1>10, <1>11 DEF ReportsInv

\* Every step of requests, jobs and time keeps the invariant.
LEMMA ReportsStep == ReportsInv /\ [ReportsNext]_reportVars => ReportsInv'
<1> SUFFICES ASSUME ReportsInv, [ReportsNext]_reportVars PROVE ReportsInv'
  OBVIOUS
<1>1. ASSUME UNCHANGED <<render, slots, keyLife, leaked, cut, deaths>>,
             report' \in [ReportIds -> ReportRows \cup {NoReport}],
             queued' \subseteq ReportIds, refused' \subseteq ReportIds
      PROVE  ReportsInv'
  <2>1. Counted' = Counted /\ Holders' = Holders
    BY <1>1 DEF Counted, Holders
  <2> QED
    BY <1>1, <2>1 DEF ReportsInv, ReportsTypeOK, SlotsCounted
<1>2. /\ report \in [ReportIds -> ReportRows \cup {NoReport}]
      /\ queued \subseteq ReportIds /\ refused \subseteq ReportIds
  BY DEF ReportsInv, ReportsTypeOK
<1>3. ASSUME NEW i \in ReportIds, RequestReport(i) PROVE ReportsInv'
  <2>1. PICK t \in ReportTenants :
          report' = [report EXCEPT ![i] = [tenant |-> t, status |-> "pending"]]
    BY <1>3 DEF RequestReport
  <2>2. [tenant |-> t, status |-> "pending"] \in ReportRows
    BY DEF ReportRows
  <2>3. /\ UNCHANGED <<render, slots, keyLife, leaked, cut, deaths, refused>>
        /\ queued' \subseteq ReportIds
    BY <1>2, <1>3 DEF RequestReport, semVars
  <2> QED
    BY <1>1, <1>2, <2>1, <2>2, <2>3
<1>4. ASSUME NEW i \in ReportIds, MonthlyReport(i) PROVE ReportsInv'
  BY <1>1, <1>2, <1>4 DEF MonthlyReport, semVars
<1>5. ASSUME NEW i \in ReportIds, NEW t \in ReportTenants, GenerateNow(i, t)
      PROVE  ReportsInv'
  BY <1>1, <1>2, <1>5 DEF GenerateNow, semVars
<1>6. CASE UNCHANGED reportVars
  BY <1>1, <1>2, <1>6 DEF reportVars
<1> QED
  BY <1>3, <1>4, <1>5, <1>6, TakeReportKeeps, IncrKeeps, CountedKeeps, DecrKeeps, DieKeeps,
     ReportsTickKeeps DEF ReportsNext

LEMMA ReportsAlwaysInv == ReportsSpec => []ReportsInv
  BY ReportsStart, ReportsStep, PTL DEF ReportsSpec

\* Rows, jobs and the counter keep their types.
THEOREM ReportsTypeAlwaysOK == ReportsSpec => []ReportsTypeOK
<1>1. ReportsInv => ReportsTypeOK
  BY DEF ReportsInv
<1> QED
  BY <1>1, ReportsAlwaysInv, PTL

\* However many jobs there are, and whichever die, the PDFs that are rendered at once
\* exceed the limit at most by the jobs whose increment expired under them.
THEOREM AlwaysFewPdfs == ReportsSpec => []FewPdfs
<1>1. ReportsInv => FewPdfs
  <2> SUFFICES ASSUME ReportsInv PROVE FewPdfs
    OBVIOUS
  <2>1. IsFiniteSet(Counted) /\ SlotsCounted
    BY DEF ReportsInv, SlotsCounted
  <2>2. Inside \subseteq Holders
    BY DEF Inside, Holders, HasSlot, JobAt
  <2>3. Cardinality(Inside) <= Cardinality(Holders) /\ Cardinality(Inside) \in Nat
    BY <2>1, <2>2, HoldersCount, FS_Subset, FS_CardinalityType
  <2>4. Cardinality(Holders) \in Nat /\ PdfSemLimit \in Nat /\ cut \in Nat
    BY <2>1, HoldersCount, ReportsAssumption DEF ReportsInv, ReportsTypeOK
  <2> QED
    BY <2>1, <2>3, <2>4 DEF FewPdfs, SlotsCounted
<1> QED
  BY <1>1, ReportsAlwaysInv, PTL

(***************************************************************************)
(* Notifications: the inductive invariant follows each message from its    *)
(* run to its receiver and to its log, and says what a run that nothing    *)
(* has cut short has still to log.                                         *)
(***************************************************************************)
\* What is sent and what the gateway may still try to send is a message that was taken,
\* and no more than the tries it has.
SendsCounted(r) ==
  \A n \in Attempts :
    /\ gateway[r][n] + sent[r][n] <= IF r \in ContactRules THEN GatewayTries ELSE 1
    /\ gateway[r][n] + sent[r][n] > 0 => n \in taken[r]
    /\ n \in taken[r] /\ r \in Webhooks => sent[r][n] = 1

\* A message is in a call of this run, or taken, and successes are among the taken.
CallsCounted(r) ==
  /\ \A n \in taken[r] : n <= runs
  /\ successes[r] \subseteq taken[r]
  /\ stage = "resolving" \/ call[r] = "calling" => runs \notin taken[r]
  /\ call[r] = "success" => runs \in taken[r]
  /\ call[r] # "none" => r \in matching

\* A run that nothing has cut short sends for rules that are there, and keeps a call in
\* hand until it is logged.
Undisturbed ==
  runs \notin severed =>
    /\ JobRuns => \A r \in matching : rule[r] = "there"
    /\ \A r \in Rules : call[r] # "none" => JobRuns
    /\ \A r \in Rules : runs \in taken[r] /\ rule[r] # "deleted" =>
                          runs \in logs[r] \/ call[r] # "none"

\* Messages go out once all contacts are looked up, in a run that has a number, and are
\* logged once all of them have ended.
StagesFollow ==
  /\ stage = "resolving" => \A r \in Rules : call[r] = "none"
  /\ stage = "logging" => \A r \in Rules : call[r] # "calling"
  /\ JobRuns \/ (\E r \in Rules : call[r] # "none") => runs >= 1
  /\ reached \subseteq matching

NotifyInv ==
  /\ NotifyTypeOK /\ StagesFollow
  /\ \A r \in Rules : SendsCounted(r) /\ CallsCounted(r)
  /\ Undisturbed

LEMMA NotifyStarts == NotifyInit => NotifyInv
<1> SUFFICES ASSUME NotifyInit PROVE NotifyInv
  OBVIOUS
<1>1. /\ stage = "queued" /\ runs = 0 /\ matching = {} /\ resolved = {} /\ reached = {}
      /\ severed = {} /\ rule \in [Rules -> {"new", "there"}] /\ unsigned \subseteq Webhooks
      /\ contact = [c \in ContactRules |-> "active"]
      /\ call = NoCalls /\ taken = NoRuns /\ logs = NoRuns /\ successes = NoRuns
      /\ gateway = NoTries /\ sent = NoTries
  BY DEF NotifyInit
<1>2. \A r \in Rules : /\ call[r] = "none" /\ taken[r] = {} /\ logs[r] = {}
                       /\ successes[r] = {}
                       /\ \A n \in Attempts : gateway[r][n] = 0 /\ sent[r][n] = 0
  BY <1>1 DEF NoCalls, NoRuns, NoTries
<1>3. NotifyTypeOK
  <2>1. /\ call \in [Rules -> {"none", "calling", "success", "failed"}]
        /\ taken \in [Rules -> SUBSET Attempts] /\ logs \in [Rules -> SUBSET Attempts]
        /\ successes \in [Rules -> SUBSET Attempts]
    BY <1>1 DEF NoCalls, NoRuns
  <2>2. GatewayTries \in Nat /\ 0 \in 0..GatewayTries
    BY NotificationsAssumption
  <2>3. /\ gateway \in [Rules -> [Attempts -> 0..GatewayTries]]
        /\ sent \in [Rules -> [Attempts -> 0..GatewayTries]]
    BY <1>1, <2>2 DEF NoTries
  <2>4. /\ rule \in [Rules -> {"new", "there", "deleted"}]
        /\ contact \in [ContactRules -> {"active", "inactive", "deleted"}]
    BY <1>1
  <2>5. runs \in 0..MaxRuns
    BY <1>1, NotificationsAssumption
  <2> QED
    BY <1>1, <2>1, <2>3, <2>4, <2>5 DEF NotifyTypeOK
<1>4. StagesFollow /\ Undisturbed
  BY <1>1, <1>2 DEF StagesFollow, Undisturbed, JobRuns
<1>5. ASSUME NEW r \in Rules PROVE SendsCounted(r) /\ CallsCounted(r)
  <2>1. SendsCounted(r)
    BY <1>2, NotificationsAssumption DEF SendsCounted, Webhooks
  <2>2. CallsCounted(r)
    BY <1>1, <1>2 DEF CallsCounted
  <2> QED
    BY <2>1, <2>2
<1> QED
  BY <1>3, <1>4, <1>5 DEF NotifyInv

\* Rules and contacts change under the job.
LEMMA CreateRuleKeeps ==
  ASSUME NotifyInv, NEW r \in Rules, CreateRule(r)
  PROVE  NotifyInv'
<1>1. /\ rule[r] = "new" /\ rule' = [rule EXCEPT ![r] = "there"]
      /\ UNCHANGED <<unsigned, contact, stage, runs, matching, resolved, reached, call, taken,
                     gateway, sent, logs, successes, severed>>
  BY DEF CreateRule, jobVars, messageVars, logVars
<1>2. \A q \in Rules : rule'[q] = IF q = r THEN "there" ELSE rule[q]
  BY <1>1 DEF NotifyInv, NotifyTypeOK
<1>3. NotifyTypeOK'
  BY <1>1 DEF NotifyInv, NotifyTypeOK
<1>4. \A q \in Rules : SendsCounted(q)' /\ CallsCounted(q)'
  BY <1>1 DEF NotifyInv, SendsCounted, CallsCounted
<1>5. Undisturbed'
  BY <1>1, <1>2 DEF NotifyInv, Undisturbed, JobRuns, NotifyTypeOK
<1> QED
  BY <1>1, <1>3, <1>4, <1>5 DEF NotifyInv, StagesFollow, JobRuns

LEMMA DeleteRuleKeeps ==
  ASSUME NotifyInv, NEW r \in Rules, DeleteRule(r)
  PROVE  NotifyInv'
<1>1. /\ rule[r] = "there" /\ rule' = [rule EXCEPT ![r] = "deleted"]
      /\ logs' = [logs EXCEPT ![r] = {}] /\ successes' = [successes EXCEPT ![r] = {}]
      /\ severed' = IF JobRuns /\ r \in matching THEN severed \union {runs} ELSE severed
      /\ UNCHANGED <<unsigned, contact, stage, runs, matching, resolved, reached, call, taken,
                     gateway, sent>>
  BY DEF DeleteRule, jobVars, messageVars
<1>2. JobRuns => runs \in Attempts
  BY DEF NotifyInv, NotifyTypeOK, StagesFollow, Attempts
<1>3. NotifyTypeOK'
  <2>1. severed' \subseteq Attempts
    BY <1>1, <1>2 DEF NotifyInv, NotifyTypeOK
  <2> QED
    BY <1>1, <2>1 DEF NotifyInv, NotifyTypeOK
<1>4. /\ rule'[r] = "deleted" /\ successes'[r] = {}
      /\ \A q \in Rules : q # r => /\ rule'[q] = rule[q] /\ logs'[q] = logs[q]
                                   /\ successes'[q] = successes[q]
  BY <1>1 DEF NotifyInv, NotifyTypeOK
<1>5. ASSUME NEW q \in Rules PROVE SendsCounted(q)' /\ CallsCounted(q)'
  <2>1. SendsCounted(q) /\ CallsCounted(q)
    BY DEF NotifyInv
  <2>2. SendsCounted(q)'
    BY <1>1, <2>1 DEF SendsCounted
  <2>3. CallsCounted(q)'
    BY <1>1, <1>4, <2>1 DEF CallsCounted
  <2> QED
    BY <2>2, <2>3
<1>6. Undisturbed'
  <2> SUFFICES ASSUME runs \notin severed' PROVE Undisturbed'
    BY <1>1 DEF Undisturbed
  <2>1. runs \notin severed /\ (JobRuns => r \notin matching)
    BY <1>1
  <2>2. JobRuns' = JobRuns
    BY <1>1 DEF JobRuns
  <2>3. /\ JobRuns => \A q \in matching : rule[q] = "there"
        /\ \A q \in Rules : call[q] # "none" => JobRuns
        /\ \A q \in Rules : runs \in taken[q] /\ rule[q] # "deleted" =>
                              runs \in logs[q] \/ call[q] # "none"
    BY <2>1 DEF NotifyInv, Undisturbed
  <2>4. JobRuns => \A q \in matching : rule'[q] = "there"
    BY <1>4, <2>1, <2>3 DEF NotifyInv, NotifyTypeOK
  <2>5. \A q \in Rules : runs \in taken[q] /\ rule'[q] # "deleted" =>
                           runs \in logs'[q] \/ call[q] # "none"
    BY <1>4, <2>3
  <2>6. \A q \in Rules : call[q] # "none" => JobRuns'
    BY <2>2, <2>3
  <2> QED
    BY <1>1, <2>2, <2>4, <2>5, <2>6 DEF Undisturbed
<1> QED
  BY <1>1, <1>3, <1>5, <1>6 DEF NotifyInv, StagesFollow, JobRuns

LEMMA UpdateContactKeeps ==
  ASSUME NotifyInv, NEW c \in ContactRules, UpdateContact(c)
  PROVE  NotifyInv'
<1>1. PICK s \in {"active", "inactive", "deleted"} : contact' = [contact EXCEPT ![c] = s]
  BY DEF UpdateContact
<1>2. UNCHANGED <<rule, unsigned, stage, runs, matching, resolved, reached, call, taken,
                  gateway, sent, logs, successes, severed>>
  BY DEF UpdateContact, jobVars, messageVars, logVars
<1>3. NotifyTypeOK'
  BY <1>1, <1>2 DEF NotifyInv, NotifyTypeOK
<1>4. \A q \in Rules : SendsCounted(q)' /\ CallsCounted(q)'
  BY <1>2 DEF NotifyInv, SendsCounted, CallsCounted
<1>5. Undisturbed'
  BY <1>2 DEF NotifyInv, Undisturbed, JobRuns
<1> QED
  BY <1>2, <1>3, <1>4, <1>5 DEF NotifyInv, StagesFollow, JobRuns

\* The job takes another stage, with its messages, its calls and its logs as they are.
LEMMA StageKeeps ==
  ASSUME NotifyInv,
         UNCHANGED <<rule, unsigned, contact, runs, matching, call, taken, gateway, sent, logs,
                     successes, severed>>,
         stage' \in {"resolving", "sending", "logging", "done"},
         resolved' \subseteq Rules, reached' \subseteq matching,
         \/ stage' = stage
         \/ stage' = "done" /\ \A r \in Rules : call[r] = "none"
         \/ stage' = "logging" /\ stage = "sending" /\ \A r \in Rules : call[r] # "calling"
  PROVE  NotifyInv'
<1>1. NotifyTypeOK'
  BY DEF NotifyInv, NotifyTypeOK
<1>2. StagesFollow'
  BY DEF NotifyInv, StagesFollow, JobRuns
<1>3. \A r \in Rules : SendsCounted(r)' /\ CallsCounted(r)'
  BY DEF NotifyInv, SendsCounted, CallsCounted
<1>4. Undisturbed'
  BY DEF NotifyInv, Undisturbed, JobRuns
<1> QED
  BY <1>1, <1>2, <1>3, <1>4 DEF NotifyInv

LEMMA StagesKeep ==
  ASSUME NotifyInv,
         \/ WithoutSnapshot \/ EvaluateFails \/ StartLogging \/ JobEnds
         \/ \E r \in Rules : ResolveContact(r)
  PROVE  NotifyInv'
<1> USE DEF ruleVars, messageVars, logVars
<1>1. resolved \subseteq Rules /\ reached \subseteq matching
      /\ call \in [Rules -> {"none", "calling", "success", "failed"}]
  BY DEF NotifyInv, NotifyTypeOK, StagesFollow
<1>2. CASE WithoutSnapshot
  <2>1. \A r \in Rules : call[r] = "none"
    BY <1>2 DEF WithoutSnapshot, NotifyInv, StagesFollow
  <2> QED
    BY <1>1, <1>2, <2>1, StageKeeps DEF WithoutSnapshot
<1>3. CASE EvaluateFails
  <2>1. \A r \in Rules : call[r] = "none"
    BY <1>3 DEF EvaluateFails, NotifyInv, StagesFollow
  <2> QED
    BY <1>1, <1>3, <2>1, StageKeeps DEF EvaluateFails
<1>4. CASE StartLogging
  <2>1. \A r \in Rules : call[r] # "calling"
    BY <1>4 DEF StartLogging, Calling
  <2> QED
    BY <1>1, <1>4, <2>1, StageKeeps DEF StartLogging
<1>5. CASE JobEnds
  <2>1. \A r \in Rules : call[r] = "none"
    BY <1>1, <1>5 DEF JobEnds, ToLog, NotifyInv, StagesFollow
  <2> QED
    BY <1>1, <1>5, <2>1, StageKeeps DEF JobEnds
<1>6. ASSUME NEW r \in Rules, ResolveContact(r) PROVE NotifyInv'
  <2>1. /\ resolved' \subseteq Rules /\ reached' \subseteq matching
        /\ stage' = stage /\ stage' = "resolving"
    BY <1>1, <1>6 DEF ResolveContact
  <2> QED
    BY <1>6, <2>1, StageKeeps DEF ResolveContact
<1> QED
  BY <1>2, <1>3, <1>4, <1>5, <1>6

LEMMA EvaluateKeeps ==
  ASSUME NotifyInv, Evaluate
  PROVE  NotifyInv'
<1>1. /\ stage = "queued" /\ runs < MaxRuns /\ runs' = runs + 1 /\ stage' = "resolving"
      /\ matching' = {r \in Rules : rule[r] = "there"}
      /\ resolved' = {} /\ reached' = {} /\ call' = NoCalls
      /\ UNCHANGED <<rule, unsigned, contact, taken, gateway, sent, logs, successes, severed>>
  BY DEF Evaluate, ruleVars, messageVars, logVars
<1>2. runs \in Nat /\ runs' \in 0..MaxRuns /\ runs' >= 1
  <2>1. runs \in 0..MaxRuns /\ MaxRuns \in Nat
    BY NotificationsAssumption DEF NotifyInv, NotifyTypeOK
  <2> QED
    BY <1>1, <2>1
<1>3. \A q \in Rules : call'[q] = "none"
  BY <1>1 DEF NoCalls
<1>4. NotifyTypeOK'
  <2>1. call' \in [Rules -> {"none", "calling", "success", "failed"}]
    BY <1>1 DEF NoCalls
  <2> QED
    BY <1>1, <1>2, <2>1 DEF NotifyInv, NotifyTypeOK
<1>5. \A q \in Rules : \A n \in taken[q] : n \in Int /\ n <= runs
  BY DEF NotifyInv, NotifyTypeOK, CallsCounted, Attempts
<1>6. \A q \in Rules : runs' \notin taken'[q] /\ \A n \in taken'[q] : n <= runs'
  BY <1>1, <1>2, <1>5
<1>7. ASSUME NEW q \in Rules PROVE SendsCounted(q)' /\ CallsCounted(q)'
  <2>1. SendsCounted(q) /\ CallsCounted(q)
    BY DEF NotifyInv
  <2>2. SendsCounted(q)'
    BY <1>1, <2>1 DEF SendsCounted
  <2>3. CallsCounted(q)'
    BY <1>1, <1>3, <1>6, <2>1 DEF CallsCounted
  <2> QED
    BY <2>2, <2>3
<1>8. StagesFollow'
  BY <1>1, <1>2, <1>3 DEF StagesFollow
<1>9. Undisturbed'
  BY <1>1, <1>3, <1>6 DEF Undisturbed
<1> QED
  BY <1>4, <1>7, <1>8, <1>9 DEF NotifyInv

LEMMA GatherKeeps ==
  ASSUME NotifyInv, Gather
  PROVE  NotifyInv'
<1>1. /\ stage = "resolving" /\ stage' = IF Raises THEN "done" ELSE "sending"
      /\ severed' = IF Raises THEN severed \union {runs} ELSE severed
      /\ call' = [r \in Rules |-> IF Dispatches(r) THEN "calling" ELSE "none"]
      /\ UNCHANGED <<rule, unsigned, contact, runs, matching, resolved, reached, taken, gateway,
                     sent, logs, successes>>
  BY DEF Gather, ruleVars, messageVars, logVars
<1>2. \A q \in Rules : /\ call'[q] \in {"calling", "none"}
                       /\ call'[q] # "none" => q \in matching
  BY <1>1 DEF Dispatches, NotifyInv, StagesFollow
<1>3. runs \in Attempts /\ runs >= 1 /\ JobRuns
  BY <1>1 DEF NotifyInv, NotifyTypeOK, StagesFollow, JobRuns, Attempts
<1>4. NotifyTypeOK'
  <2>1. call' \in [Rules -> {"none", "calling", "success", "failed"}]
    BY <1>1
  <2>2. stage' \in {"sending", "done"} /\ severed' \subseteq Attempts
    BY <1>1, <1>3 DEF NotifyInv, NotifyTypeOK
  <2> QED
    BY <1>1, <2>1, <2>2 DEF NotifyInv, NotifyTypeOK
<1>5. ASSUME NEW q \in Rules PROVE SendsCounted(q)' /\ CallsCounted(q)'
  <2>1. SendsCounted(q) /\ CallsCounted(q)
    BY DEF NotifyInv
  <2>2. SendsCounted(q)'
    BY <1>1, <2>1 DEF SendsCounted
  <2>3. CallsCounted(q)'
    BY <1>1, <1>2, <2>1 DEF CallsCounted
  <2> QED
    BY <2>2, <2>3
<1>6. StagesFollow'
  BY <1>1, <1>3 DEF StagesFollow, NotifyInv
<1>7. Undisturbed'
  <2> SUFFICES ASSUME runs \notin severed' PROVE Undisturbed'
    BY <1>1 DEF Undisturbed
  <2>1. ~Raises /\ runs \notin severed /\ stage' = "sending"
    BY <1>1
  <2>2. JobRuns'
    BY <2>1 DEF JobRuns
  <2>3. \A q \in matching : rule[q] = "there"
    BY <1>3, <2>1 DEF NotifyInv, Undisturbed
  <2>4. \A q \in Rules : runs \notin taken[q]
    BY <1>1 DEF NotifyInv, CallsCounted
  <2> QED
    BY <1>1, <2>2, <2>3, <2>4 DEF Undisturbed
<1> QED
  BY <1>4, <1>5, <1>6, <1>7 DEF NotifyInv

\* What a receiver takes is a message of this run that was in a call.
LEMMA TakenByCounts ==
  ASSUME NotifyInv, NEW takers \in SUBSET Calling, NEW texts \in {{}, ContactRules},
         TakenBy(takers, texts)
  PROVE  /\ taken' \in [Rules -> SUBSET Attempts]
         /\ gateway' \in [Rules -> [Attempts -> 0..GatewayTries]]
         /\ sent' \in [Rules -> [Attempts -> 0..GatewayTries]]
         /\ \A r \in Rules : SendsCounted(r)'
         /\ \A r \in takers : taken'[r] = taken[r] \union {runs}
         /\ \A r \in Rules \ takers : taken'[r] = taken[r]
<1>1. /\ taken' = [r \in Rules |-> IF r \in takers THEN taken[r] \union {runs} ELSE taken[r]]
      /\ gateway' = [r \in Rules |-> IF r \in takers \intersect texts
                                     THEN [gateway[r] EXCEPT ![runs] = GatewayTries]
                                     ELSE gateway[r]]
      /\ sent' = [r \in Rules |-> IF r \in takers \ texts
                                  THEN [sent[r] EXCEPT ![runs] = 1] ELSE sent[r]]
  BY DEF TakenBy
<1>2. /\ takers \subseteq Rules /\ texts \subseteq ContactRules
      /\ \A r \in takers : call[r] = "calling"
  BY DEF Calling
<1>3. GatewayTries \in Nat /\ GatewayTries >= 1 /\ ContactRules \subseteq Rules
  BY NotificationsAssumption
<1>4. /\ taken \in [Rules -> SUBSET Attempts]
      /\ gateway \in [Rules -> [Attempts -> 0..GatewayTries]]
      /\ sent \in [Rules -> [Attempts -> 0..GatewayTries]]
  BY DEF NotifyInv, NotifyTypeOK
<1>5. takers # {} => runs \in Attempts
  BY <1>2 DEF NotifyInv, NotifyTypeOK, StagesFollow, Attempts
<1>6. \A r \in Rules : taken'[r] \in SUBSET Attempts
  BY <1>1, <1>4, <1>5
<1>7. \A r \in Rules : gateway'[r] \in [Attempts -> 0..GatewayTries]
  <2>1. GatewayTries \in 0..GatewayTries
    BY <1>3
  <2> QED
    BY <1>1, <1>4, <2>1
<1>8. \A r \in Rules : sent'[r] \in [Attempts -> 0..GatewayTries]
  <2>1. 1 \in 0..GatewayTries
    BY <1>3
  <2> QED
    BY <1>1, <1>4, <2>1
<1>9. ASSUME NEW r \in Rules PROVE SendsCounted(r)'
  <2> SUFFICES ASSUME NEW n \in Attempts
               PROVE  /\ gateway'[r][n] + sent'[r][n]
                           <= IF r \in ContactRules THEN GatewayTries ELSE 1
                      /\ gateway'[r][n] + sent'[r][n] > 0 => n \in taken'[r]
                      /\ n \in taken'[r] /\ r \in Webhooks => sent'[r][n] = 1
    BY DEF SendsCounted
  <2>1. /\ gateway[r][n] \in Nat /\ sent[r][n] \in Nat
        /\ gateway[r][n] + sent[r][n] <= IF r \in ContactRules THEN GatewayTries ELSE 1
        /\ gateway[r][n] + sent[r][n] > 0 => n \in taken[r]
        /\ n \in taken[r] /\ r \in Webhooks => sent[r][n] = 1
    BY <1>3, <1>4 DEF NotifyInv, SendsCounted
  <2>2. CASE r \notin takers \/ n # runs
    <3>1. /\ gateway'[r][n] = gateway[r][n] /\ sent'[r][n] = sent[r][n]
          /\ n \in taken'[r] <=> n \in taken[r]
      BY <1>1, <1>4, <2>2
    <3> QED
      BY <2>1, <3>1
  <2>3. CASE r \in takers /\ n = runs
    <3>1. n \notin taken[r]
      BY <1>2, <2>3 DEF NotifyInv, CallsCounted
    <3>2. gateway[r][n] = 0 /\ sent[r][n] = 0
      BY <2>1, <3>1
    <3>3. n \in taken'[r]
      BY <1>1, <2>3
    <3>4. CASE r \in texts
      <4>1. gateway'[r][n] = GatewayTries /\ sent'[r][n] = 0
        BY <1>1, <1>4, <2>3, <3>2, <3>4
      <4>2. r \in ContactRules /\ r \notin Webhooks
        BY <1>2, <3>4 DEF Webhooks
      <4> QED
        BY <1>3, <3>3, <4>1, <4>2
    <3>5. CASE r \notin texts
      <4>1. gateway'[r][n] = 0 /\ sent'[r][n] = 1
        BY <1>1, <1>4, <2>3, <3>2, <3>5
      <4> QED
        BY <1>3, <3>3, <4>1
    <3> QED
      BY <3>4, <3>5
  <2> QED
    BY <2>2, <2>3
<1> QED
  BY <1>1, <1>2, <1>6, <1>7, <1>8, <1>9

LEMMA SendEndsKeeps ==
  ASSUME NotifyInv, NEW r \in Rules, NEW result \in {"success", "failed"},
         SendEnds(r, result)
  PROVE  NotifyInv'
<1>1. /\ call[r] = "calling" /\ call' = [call EXCEPT ![r] = result]
      /\ UNCHANGED <<rule, unsigned, contact, stage, runs, matching, resolved, reached, logs,
                     successes, severed>>
  BY DEF SendEnds, ruleVars, logVars
<1>2. PICK takers \in {{}, {r}}, texts \in {{}, ContactRules} :
        TakenBy(takers, texts) /\ (result = "success" => takers = {r})
  BY DEF SendEnds
<1>3. takers \in SUBSET Calling
  BY <1>1, <1>2 DEF Calling
<1>4. /\ taken' \in [Rules -> SUBSET Attempts]
      /\ gateway' \in [Rules -> [Attempts -> 0..GatewayTries]]
      /\ sent' \in [Rules -> [Attempts -> 0..GatewayTries]]
      /\ \A q \in Rules : SendsCounted(q)'
      /\ \A q \in takers : taken'[q] = taken[q] \union {runs}
      /\ \A q \in Rules \ takers : taken'[q] = taken[q]
  BY <1>2, <1>3, TakenByCounts
<1>5. \A q \in Rules : call'[q] = IF q = r THEN result ELSE call[q]
  BY <1>1 DEF NotifyInv, NotifyTypeOK
<1>6. NotifyTypeOK'
  <2>1. call' \in [Rules -> {"none", "calling", "success", "failed"}]
    BY <1>1 DEF NotifyInv, NotifyTypeOK
  <2> QED
    BY <1>1, <1>4, <2>1 DEF NotifyInv, NotifyTypeOK
<1>7. runs \in 0..MaxRuns /\ runs <= runs
  BY DEF NotifyInv, NotifyTypeOK
<1>8. ASSUME NEW q \in Rules PROVE CallsCounted(q)'
  <2>1. CallsCounted(q) /\ taken[q] \subseteq taken'[q] /\ taken'[q] \subseteq taken[q] \union {runs}
    BY <1>4 DEF NotifyInv
  <2>2. CASE q = r
    <3>1. call'[q] = result /\ stage # "resolving" /\ q \in matching
      BY <1>1, <1>5, <2>1, <2>2 DEF NotifyInv, StagesFollow, CallsCounted
    <3>2. result = "success" => runs \in taken'[q]
      BY <1>2, <1>4, <2>2
    <3> QED
      BY <1>1, <1>7, <2>1, <3>1, <3>2 DEF CallsCounted
  <2>3. CASE q # r
    <3>1. call'[q] = call[q] /\ taken'[q] = taken[q]
      BY <1>2, <1>4, <1>5, <2>3
    <3> QED
      BY <1>1, <2>1, <3>1 DEF CallsCounted
  <2> QED
    BY <2>2, <2>3
<1>9. StagesFollow'
  BY <1>1, <1>5 DEF NotifyInv, StagesFollow, JobRuns
<1>10. Undisturbed'
  <2>1. \A q \in Rules : /\ call'[q] = "none" <=> call[q] = "none"
                         /\ q # r => taken'[q] = taken[q]
    BY <1>1, <1>2, <1>4, <1>5
  <2>2. call'[r] # "none"
    BY <1>5
  <2> QED
    BY <1>1, <2>1, <2>2 DEF NotifyInv, Undisturbed, JobRuns
<1> QED
  BY <1>4, <1>6, <1>8, <1>9, <1>10 DEF NotifyInv

\* The gateway only has fewer tries left for what it has taken.
LEMMA GatewayKeeps ==
  ASSUME NotifyInv, GatewayRestarts \/ \E r \in Rules, n \in Attempts : GatewaySends(r, n)
  PROVE  NotifyInv'
<1>1. UNCHANGED <<rule, unsigned, contact, stage, runs, matching, resolved, reached, call, taken,
                  logs, successes, severed>>
  BY DEF GatewayRestarts, GatewaySends, ruleVars, jobVars, logVars
<1>2. /\ gateway \in [Rules -> [Attempts -> 0..GatewayTries]]
      /\ sent \in [Rules -> [Attempts -> 0..GatewayTries]]
      /\ GatewayTries \in Nat
      /\ \A q \in Rules : SendsCounted(q)
  BY NotificationsAssumption DEF NotifyInv, NotifyTypeOK
<1>3. /\ gateway' \in [Rules -> [Attempts -> 0..GatewayTries]]
      /\ sent' \in [Rules -> [Attempts -> 0..GatewayTries]]
      /\ \A q \in Rules : SendsCounted(q)'
  <2>1. CASE GatewayRestarts
    <3>1. gateway' = NoTries /\ sent' = sent
      BY <2>1 DEF GatewayRestarts
    <3>2. gateway' \in [Rules -> [Attempts -> 0..GatewayTries]]
      BY <1>2, <3>1 DEF NoTries
    <3>3. \A q \in Rules, n \in Attempts : gateway'[q][n] = 0
      BY <3>1 DEF NoTries
    <3>4. ASSUME NEW q \in Rules PROVE SendsCounted(q)'
      BY <1>1, <1>2, <3>1, <3>3 DEF SendsCounted
    <3> QED
      BY <1>2, <3>1, <3>2, <3>4
  <2>2. ASSUME NEW r \in Rules, NEW n \in Attempts, GatewaySends(r, n)
        PROVE  /\ gateway' \in [Rules -> [Attempts -> 0..GatewayTries]]
               /\ sent' \in [Rules -> [Attempts -> 0..GatewayTries]]
               /\ \A q \in Rules : SendsCounted(q)'
    <3>1. /\ gateway[r][n] \in Nat /\ sent[r][n] \in Nat /\ gateway[r][n] > 0
          /\ gateway[r][n] <= GatewayTries
      BY <1>2, <2>2 DEF GatewaySends
    <3>2. /\ n \in taken[r] /\ r \notin Webhooks
          /\ gateway[r][n] + sent[r][n] <= GatewayTries
      BY <1>2, <3>1 DEF SendsCounted, Webhooks
    <3>3. \E left, extra \in 0..GatewayTries :
            /\ gateway' = [gateway EXCEPT ![r] = [gateway[r] EXCEPT ![n] = left]]
            /\ sent' = [sent EXCEPT ![r] = [sent[r] EXCEPT ![n] = sent[r][n] + extra]]
            /\ left + extra <= gateway[r][n]
      <4>1. /\ 0 \in 0..GatewayTries /\ 1 \in 0..GatewayTries
            /\ gateway[r][n] - 1 \in 0..GatewayTries
            /\ 0 + 1 <= gateway[r][n] /\ (gateway[r][n] - 1) + 1 <= gateway[r][n]
            /\ (gateway[r][n] - 1) + 0 <= gateway[r][n] /\ sent[r][n] + 0 = sent[r][n]
        BY <1>2, <3>1
      <4>2. \/ /\ sent' = [sent EXCEPT ![r][n] = sent[r][n] + 1]
               /\ \/ gateway' = [gateway EXCEPT ![r][n] = 0]
                  \/ gateway' = [gateway EXCEPT ![r][n] = gateway[r][n] - 1]
            \/ /\ sent' = sent
               /\ gateway' = [gateway EXCEPT ![r][n] = gateway[r][n] - 1]
        BY <2>2 DEF GatewaySends
      <4>3. sent = [sent EXCEPT ![r] = [sent[r] EXCEPT ![n] = sent[r][n] + 0]]
        BY <1>2, <4>1
      <4> QED
        BY <4>1, <4>2, <4>3
    <3>4. PICK left, extra \in 0..GatewayTries :
            /\ gateway' = [gateway EXCEPT ![r] = [gateway[r] EXCEPT ![n] = left]]
            /\ sent' = [sent EXCEPT ![r] = [sent[r] EXCEPT ![n] = sent[r][n] + extra]]
            /\ left + extra <= gateway[r][n]
      BY <3>3
    <3>5. sent[r][n] + extra \in 0..GatewayTries
      BY <1>2, <3>1, <3>2, <3>4
    <3>6. /\ gateway' \in [Rules -> [Attempts -> 0..GatewayTries]]
          /\ sent' \in [Rules -> [Attempts -> 0..GatewayTries]]
      BY <1>2, <3>5, <3>4
    <3>7. ASSUME NEW q \in Rules PROVE SendsCounted(q)'
      <4> SUFFICES ASSUME NEW m \in Attempts
                   PROVE  /\ gateway'[q][m] + sent'[q][m]
                               <= IF q \in ContactRules THEN GatewayTries ELSE 1
                          /\ gateway'[q][m] + sent'[q][m] > 0 => m \in taken'[q]
                          /\ m \in taken'[q] /\ q \in Webhooks => sent'[q][m] = 1
        BY DEF SendsCounted
      <4>1. CASE q = r /\ m = n
        <5>1. gateway'[q][m] = left /\ sent'[q][m] = sent[r][n] + extra
          BY <1>2, <3>4, <4>1
        <5>2. r \in ContactRules
          BY <3>2 DEF Webhooks
        <5>3. left \in Nat /\ extra \in Nat /\ left + extra <= gateway[r][n]
          BY <1>2, <3>4
        <5>4. left + (sent[r][n] + extra) <= GatewayTries
          BY <1>2, <3>1, <3>2, <5>3
        <5> QED
          BY <1>1, <3>2, <4>1, <5>1, <5>2, <5>4
      <4>2. CASE q # r \/ m # n
        <5>1. gateway'[q][m] = gateway[q][m] /\ sent'[q][m] = sent[q][m]
          BY <1>2, <3>4, <4>2
        <5> QED
          BY <1>1, <1>2, <5>1 DEF SendsCounted
      <4> QED
        BY <4>1, <4>2
    <3> QED
      BY <3>6, <3>7
  <2> QED
    BY <2>1, <2>2
<1>4. NotifyTypeOK'
  BY <1>1, <1>3 DEF NotifyInv, NotifyTypeOK
<1>5. /\ \A q \in Rules : CallsCounted(q)'
      /\ StagesFollow'
  BY <1>1 DEF NotifyInv, CallsCounted, StagesFollow, JobRuns
<1>6. Undisturbed'
  BY <1>1 DEF NotifyInv, Undisturbed, JobRuns
<1> QED
  BY <1>3, <1>4, <1>5, <1>6 DEF NotifyInv

\* The row of a log says success of what was taken only.
LEMMA LogRowKeeps ==
  ASSUME NotifyInv, NEW r \in Rules, stage = "logging", LogRow(r)
  PROVE  /\ logs' \in [Rules -> SUBSET Attempts] /\ successes' \in [Rules -> SUBSET Attempts]
         /\ \A q \in Rules : successes'[q] \subseteq taken[q]
         /\ runs \in logs'[r]
         /\ \A q \in Rules : q # r => logs'[q] = logs[q]
<1>1. runs \in Attempts
  BY DEF NotifyInv, NotifyTypeOK, StagesFollow, JobRuns, Attempts
<1>2. /\ logs \in [Rules -> SUBSET Attempts] /\ successes \in [Rules -> SUBSET Attempts]
      /\ \A q \in Rules : successes[q] \subseteq taken[q]
      /\ call[r] = "success" => runs \in taken[r]
  BY DEF NotifyInv, NotifyTypeOK, CallsCounted
<1>3. /\ logs' = [logs EXCEPT ![r] = logs[r] \union {runs}]
      /\ successes' = [successes EXCEPT ![r] = IF call[r] = "success"
                         THEN successes[r] \union {runs} ELSE successes[r]]
  BY DEF LogRow
<1> QED
  BY <1>1, <1>2, <1>3

LEMMA WriteLogKeeps ==
  ASSUME NotifyInv, NEW r \in Rules, WriteLog(r)
  PROVE  NotifyInv'
<1>1. /\ stage = "logging" /\ LogRow(r) /\ call' = [call EXCEPT ![r] = "none"]
      /\ UNCHANGED <<rule, unsigned, contact, stage, runs, matching, resolved, reached, taken,
                     gateway, sent, severed>>
  BY DEF WriteLog, ruleVars, messageVars
<1>2. /\ logs' \in [Rules -> SUBSET Attempts] /\ successes' \in [Rules -> SUBSET Attempts]
      /\ \A q \in Rules : successes'[q] \subseteq taken[q]
      /\ runs \in logs'[r]
      /\ \A q \in Rules : q # r => logs'[q] = logs[q]
  BY <1>1, LogRowKeeps
<1>3. \A q \in Rules : call'[q] = IF q = r THEN "none" ELSE call[q]
  BY <1>1 DEF NotifyInv, NotifyTypeOK
<1>4. NotifyTypeOK'
  <2>1. call' \in [Rules -> {"none", "calling", "success", "failed"}]
    BY <1>1 DEF NotifyInv, NotifyTypeOK
  <2> QED
    BY <1>1, <1>2, <2>1 DEF NotifyInv, NotifyTypeOK
<1>5. ASSUME NEW q \in Rules PROVE SendsCounted(q)' /\ CallsCounted(q)'
  <2>1. SendsCounted(q) /\ CallsCounted(q)
    BY DEF NotifyInv
  <2>2. SendsCounted(q)'
    BY <1>1, <2>1 DEF SendsCounted
  <2>3. CallsCounted(q)'
    BY <1>1, <1>2, <1>3, <2>1 DEF CallsCounted
  <2> QED
    BY <2>2, <2>3
<1>6. StagesFollow'
  BY <1>1, <1>3 DEF NotifyInv, StagesFollow, JobRuns
<1>7. Undisturbed'
  BY <1>1, <1>2, <1>3 DEF NotifyInv, Undisturbed, JobRuns
<1> QED
  BY <1>4, <1>5, <1>6, <1>7 DEF NotifyInv

LEMMA LogFailsKeeps ==
  ASSUME NotifyInv, NEW r \in Rules, LogFails(r)
  PROVE  NotifyInv'
<1>1. /\ stage = "logging" /\ stage' = "done" /\ r \in ToLog
      /\ \/ rule[r] = "deleted" /\ UNCHANGED <<logs, successes, severed>>
         \/ /\ severed' = severed \union {runs}
            /\ LogRow(r) \/ UNCHANGED <<logs, successes>>
      /\ UNCHANGED <<rule, unsigned, contact, runs, matching, resolved, reached, call, taken,
                     gateway, sent>>
  BY DEF LogFails, ruleVars, messageVars, logVars
<1>2. /\ logs' \in [Rules -> SUBSET Attempts] /\ successes' \in [Rules -> SUBSET Attempts]
      /\ \A q \in Rules : successes'[q] \subseteq taken[q]
  <2>1. CASE LogRow(r)
    BY <1>1, <2>1, LogRowKeeps
  <2>2. CASE UNCHANGED <<logs, successes>>
    BY <2>2 DEF NotifyInv, NotifyTypeOK, CallsCounted
  <2> QED
    BY <1>1, <2>1, <2>2
<1>3. runs \in severed'
  <2>1. call[r] # "none"
    BY <1>1 DEF ToLog
  <2>2. r \in matching /\ JobRuns
    BY <1>1, <2>1 DEF NotifyInv, CallsCounted, JobRuns
  <2>3. rule[r] = "deleted" => runs \in severed
    BY <2>2 DEF NotifyInv, Undisturbed
  <2> QED
    BY <1>1, <2>3
<1>4. NotifyTypeOK'
  <2>1. runs \in Attempts
    BY <1>1 DEF NotifyInv, NotifyTypeOK, StagesFollow, JobRuns, Attempts
  <2>2. severed' \subseteq Attempts
    BY <1>1, <2>1 DEF NotifyInv, NotifyTypeOK
  <2> QED
    BY <1>1, <1>2, <2>2 DEF NotifyInv, NotifyTypeOK
<1>5. ASSUME NEW q \in Rules PROVE SendsCounted(q)' /\ CallsCounted(q)'
  <2>1. SendsCounted(q) /\ CallsCounted(q)
    BY DEF NotifyInv
  <2>2. SendsCounted(q)'
    BY <1>1, <2>1 DEF SendsCounted
  <2>3. CallsCounted(q)'
    BY <1>1, <1>2, <2>1 DEF CallsCounted
  <2> QED
    BY <2>2, <2>3
<1>6. StagesFollow'
  BY <1>1 DEF NotifyInv, StagesFollow, JobRuns
<1>7. Undisturbed'
  BY <1>1, <1>3 DEF Undisturbed
<1> QED
  BY <1>4, <1>5, <1>6, <1>7 DEF NotifyInv

\* A run that is cut short leaves no call, and is on record.
LEMMA CutShortKeeps ==
  ASSUME NotifyInv, CutShort, stage' \in {"queued", "done"}
  PROVE  NotifyInv'
<1>1. /\ JobRuns /\ call' = NoCalls /\ severed' = severed \union {runs}
      /\ UNCHANGED <<rule, unsigned, contact, runs, matching, resolved, reached, logs, successes>>
  BY DEF CutShort, ruleVars, logVars
<1>2. PICK arrived \in SUBSET Calling, texts \in {{}, ContactRules} : TakenBy(arrived, texts)
  BY DEF CutShort
<1>3. /\ taken' \in [Rules -> SUBSET Attempts]
      /\ gateway' \in [Rules -> [Attempts -> 0..GatewayTries]]
      /\ sent' \in [Rules -> [Attempts -> 0..GatewayTries]]
      /\ \A q \in Rules : SendsCounted(q)'
      /\ \A q \in arrived : taken'[q] = taken[q] \union {runs}
      /\ \A q \in Rules \ arrived : taken'[q] = taken[q]
  BY <1>2, TakenByCounts
<1>4. \A q \in Rules : call'[q] = "none"
  BY <1>1 DEF NoCalls
<1>5. runs \in Attempts /\ runs <= runs
  BY <1>1 DEF NotifyInv, NotifyTypeOK, StagesFollow, Attempts
<1>6. NotifyTypeOK'
  <2>1. call' \in [Rules -> {"none", "calling", "success", "failed"}]
    BY <1>1 DEF NoCalls
  <2>2. severed' \subseteq Attempts
    BY <1>1, <1>5 DEF NotifyInv, NotifyTypeOK
  <2> QED
    BY <1>1, <1>3, <2>1, <2>2 DEF NotifyInv, NotifyTypeOK
<1>7. ASSUME NEW q \in Rules PROVE CallsCounted(q)'
  <2>1. CallsCounted(q) /\ taken[q] \subseteq taken'[q] /\ taken'[q] \subseteq taken[q] \union {runs}
    BY <1>3 DEF NotifyInv
  <2> QED
    BY <1>1, <1>4, <1>5, <2>1 DEF CallsCounted
<1>8. StagesFollow'
  BY <1>1, <1>4, <1>5 DEF NotifyInv, StagesFollow, JobRuns
<1>9. Undisturbed'
  BY <1>1 DEF Undisturbed
<1> QED
  BY <1>3, <1>6, <1>7, <1>8, <1>9 DEF NotifyInv

LEMMA NotifyStep == NotifyInv /\ [NotifyNext]_notifyVars => NotifyInv'
<1> SUFFICES ASSUME NotifyInv, [NotifyNext]_notifyVars PROVE NotifyInv'
  OBVIOUS
<1>1. ASSUME NEW r \in Rules, CreateRule(r) \/ DeleteRule(r) PROVE NotifyInv'
  BY <1>1, CreateRuleKeeps, DeleteRuleKeeps
<1>2. ASSUME NEW c \in ContactRules, UpdateContact(c) PROVE NotifyInv'
  BY <1>2, UpdateContactKeeps
<1>3. CASE WithoutSnapshot \/ EvaluateFails \/ StartLogging \/ JobEnds
  BY <1>3, StagesKeep
<1>4. ASSUME NEW r \in Rules, ResolveContact(r) PROVE NotifyInv'
  BY <1>4, StagesKeep
<1>5. CASE Evaluate \/ Gather
  BY <1>5, EvaluateKeeps, GatherKeeps
<1>6. ASSUME NEW r \in Rules, WriteLog(r) \/ LogFails(r) PROVE NotifyInv'
  BY <1>6, WriteLogKeeps, LogFailsKeeps
<1>7. ASSUME NEW r \in Rules, NEW result \in {"success", "failed"}, SendEnds(r, result)
      PROVE  NotifyInv'
  BY <1>7, SendEndsKeeps
<1>8. CASE GatewayRestarts \/ \E r \in Rules, n \in Attempts : GatewaySends(r, n)
  BY <1>8, GatewayKeeps
<1>9. CASE Interrupted \/ JobTimesOut
  <2>1. CutShort /\ stage' \in {"queued", "done"}
    BY <1>9 DEF Interrupted, JobTimesOut
  <2> QED
    BY <2>1, CutShortKeeps
<1>10. CASE UNCHANGED notifyVars
  <2>1. UNCHANGED <<rule, unsigned, contact, stage, runs, matching, resolved, reached, call,
                    taken, gateway, sent, logs, successes, severed>>
    BY <1>10 DEF notifyVars
  <2>2. NotifyTypeOK' /\ StagesFollow'
    BY <2>1 DEF NotifyInv, NotifyTypeOK, StagesFollow, JobRuns
  <2>3. \A r \in Rules : SendsCounted(r)' /\ CallsCounted(r)'
    BY <2>1 DEF NotifyInv, SendsCounted, CallsCounted
  <2>4. Undisturbed'
    BY <2>1 DEF NotifyInv, Undisturbed, JobRuns
  <2> QED
    BY <2>2, <2>3, <2>4 DEF NotifyInv
<1> QED
  BY <1>1, <1>2, <1>3, <1>4, <1>5, <1>6, <1>7, <1>8, <1>9, <1>10 DEF NotifyNext

\* What rules, contacts, messages and the job may hold, always.
THEOREM NotifyTypeAlwaysOK == NotifySpec => []NotifyTypeOK
<1>1. NotifyInv => NotifyTypeOK
  BY DEF NotifyInv
<1> QED
  BY NotifyStarts, NotifyStep, <1>1, PTL DEF NotifySpec

\* What is delivered was taken, a message goes out once in each run (a text as often as
\* the gateway tries), a log that says success is true, and a run that nothing cut short
\* logs every message that was taken.
THEOREM MessagesAreAlwaysLogged == NotifySpec => []MessagesAreLogged
<1>1. ASSUME NotifyInv PROVE MessagesAreLogged
  <2>1. ASSUME NEW r \in Rules, NEW n \in Attempts
        PROVE  /\ sent[r][n] > 0 => n \in taken[r]
               /\ sent[r][n] <= IF r \in ContactRules THEN GatewayTries ELSE 1
               /\ n \in successes[r] => n \in taken[r]
               /\ n \in successes[r] /\ r \in Webhooks => sent[r][n] = 1
    <3>1. /\ gateway[r][n] \in Nat /\ sent[r][n] \in Nat /\ GatewayTries \in Nat
          /\ SendsCounted(r) /\ CallsCounted(r)
      BY <1>1, NotificationsAssumption DEF NotifyInv, NotifyTypeOK
    <3> QED
      BY <3>1 DEF SendsCounted, CallsCounted
  <2>2. ASSUME NEW r \in Rules, stage = "done", runs \notin severed, runs \in taken[r],
               rule[r] = "there"
        PROVE  runs \in logs[r]
    BY <1>1, <2>2 DEF NotifyInv, Undisturbed, JobRuns
  <2> QED
    BY <2>1, <2>2 DEF MessagesAreLogged
<1> QED
  BY NotifyStarts, NotifyStep, <1>1, PTL DEF NotifySpec
=============================================================================
