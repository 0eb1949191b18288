------------------------------- MODULE Accounts -------------------------------
(***************************************************************************)
(* The requests that create and edit tenants and users, the transaction    *)
(* each runs in and the row of the audit trail it leaves.  A request has   *)
(* one session: what it inserts is seen by nobody, and holds its keys of   *)
(* the unique indexes, until get_db or the handler commits.                *)
(***************************************************************************)
EXTENDS FiniteSets

CONSTANTS Slugs,         \* a tenant is known by its slug
          Emails,        \* addresses, without regard to capitals
          AdminRequests, \* requests, each made at most once
          NoSlug, NoEmail

VARIABLES slugs,  \* slugs of tenants
          people,   \* users
          disabled, \* users whose is_active is false
          trail,    \* rows of audit_log
          hubPeers, \* requests whose agent is a peer of the WireGuard hub
          draft,    \* request -> what it has done so far
          deeds,    \* history: requests whose change is committed
          unlogged  \* history: requests whose audit row could not be built

accountVars == <<slugs, people, disabled, trail, hubPeers, draft, deeds, unlogged>>

Person == [slug : Slugs, email : Emails, capitals : BOOLEAN]
AuditRow == [by : AdminRequests, result : {"success", "error"}]
Ops == {"create_tenant", "admin_tenant", "onboard_client", "create_user", "update_user"}
Steps == {"new", "checked", "inserted", "provisioned", "logged", "poisoned", "ended"}
NoDraft == [op |-> "none", step |-> "new", slug |-> NoSlug, email |-> NoEmail,
            capitals |-> FALSE, row |-> {}]
Drafts == [op : Ops, step : Steps, slug : Slugs, email : Emails, capitals : BOOLEAN,
           row : SUBSET AuditRow]

MakesTenant == {"create_tenant", "admin_tenant", "onboard_client"}
MakesUser == {"admin_tenant", "onboard_client", "create_user"}
\* The handlers under @audit_action; two others add their row themselves.
Decorated == {"create_user", "update_user"}

AccountsInit ==
  /\ \E s \in Slugs : slugs = {s}
  /\ people = {} /\ disabled = {} /\ trail = {} /\ hubPeers = {}
  /\ draft = [r \in AdminRequests |-> NoDraft]
  /\ deeds = {} /\ unlogged = {}

DraftAt(r, step) == draft[r].step = step
Moves(r, step) == draft' = [draft EXCEPT ![r].step = step]
\* UserRepository writes e-mails in small letters; POST /admin/tenants as typed.
UserOf(d) == [slug |-> d.slug, email |-> d.email,
              capitals |-> d.capitals /\ d.op = "admin_tenant"]
Holding(step) == step \in {"inserted", "provisioned", "logged"}
\* Keys other transactions have inserted and not committed.
PendingTenants(r) == {draft[q].slug : q \in {p \in AdminRequests \ {r} :
                         Holding(draft[p].step) /\ draft[p].op \in MakesTenant}}
PendingUsers(r) == {UserOf(draft[q]) : q \in {p \in AdminRequests \ {r} :
                         Holding(draft[p].step) /\ draft[p].op \in MakesUser}}
Success(r) == [by |-> r, result |-> "success"]
RowsOf(d) == d.row

-----------------------------------------------------------------------------
(***************************************************************************)
(* Checks are SELECTs; nothing holds what they found until the INSERT.     *)
(***************************************************************************)
SlugFree(d) == d.slug \notin slugs
EmailFree(d) == [UserOf(d) EXCEPT !.capitals = FALSE] \notin people

CreateTenant(r, d) ==
  /\ d.op \in MakesTenant /\ SlugFree(d)
  /\ draft' = [draft EXCEPT ![r] = d]

CreateUser(r, d) ==
  /\ d.op = "create_user" /\ d.slug \in slugs /\ EmailFree(d)
  /\ draft' = [draft EXCEPT ![r] = d]

\* patch looks the user up in the caller's tenant.
EditUser(r, d) ==
  /\ d.op = "update_user" /\ [UserOf(d) EXCEPT !.capitals = d.capitals] \in people
  /\ draft' = [draft EXCEPT ![r] = d]

Check(r) ==
  /\ draft[r] = NoDraft
  /\ \E op \in Ops, s \in Slugs, e \in Emails, c \in BOOLEAN :
       LET d == [op |-> op, step |-> "checked", slug |-> s, email |-> e,
                 capitals |-> c, row |-> {}]
       IN CreateTenant(r, d) \/ CreateUser(r, d) \/ EditUser(r, d)
  /\ UNCHANGED <<slugs, people, disabled, trail, hubPeers, deeds, unlogged>>

\* INSERT waits for a transaction that holds the same key.
Flush(r) ==
  /\ DraftAt(r, "checked")
  /\ draft[r].op \in MakesTenant => draft[r].slug \notin slugs \cup PendingTenants(r)
  /\ draft[r].op \in MakesUser => UserOf(draft[r]) \notin people \cup PendingUsers(r)
  /\ Moves(r, "inserted")
  /\ UNCHANGED <<slugs, people, disabled, trail, hubPeers, deeds, unlogged>>

\* create_agent_with_tunnel tells the hub in the middle of the transaction.
Provision(r) ==
  /\ DraftAt(r, "inserted") /\ draft[r].op = "onboard_client"
  /\ hubPeers' = hubPeers \cup {r}
  /\ Moves(r, "provisioned")
  /\ UNCHANGED <<slugs, people, disabled, trail, deeds, unlogged>>

-----------------------------------------------------------------------------
(***************************************************************************)
(* The audit row.                                                          *)
(***************************************************************************)
Audited(r) ==
  \/ DraftAt(r, "inserted") /\ draft[r].op \in Decorated \cup {"admin_tenant"}
  \/ DraftAt(r, "provisioned")

\* Mutant of Insert: the row is committed in a session of its own.
InsertApart(r, row) == /\ trail' = trail \cup {row}
                       /\ draft' = [draft EXCEPT ![r].step = "logged"]

\* AuditRepository.create: an INSERT in the session of the request.
Insert(r, row) == /\ draft' = [draft EXCEPT ![r].row = @ \cup {row}, ![r].step = "logged"]
                  /\ UNCHANGED trail

LogAction(r) ==
  /\ Audited(r)
  /\ Insert(r, Success(r))
  /\ UNCHANGED <<slugs, people, disabled, hubPeers, deeds, unlogged>>

\* The decorator swallows what AuditService raises before it reaches the database.
LogRaises(r) ==
  /\ DraftAt(r, "inserted") /\ draft[r].op \in Decorated
  /\ Moves(r, "logged")
  /\ unlogged' = unlogged \cup {r}
  /\ UNCHANGED <<slugs, people, disabled, trail, hubPeers, deeds>>

\* A failed flush rolls the session back; the decorator swallows it and the commit raises.
LogPoisons(r) ==
  /\ DraftAt(r, "inserted") /\ draft[r].op \in Decorated
  /\ Moves(r, "poisoned")
  /\ UNCHANGED <<slugs, people, disabled, trail, hubPeers, deeds, unlogged>>

-----------------------------------------------------------------------------
Ready(r) ==
  \/ DraftAt(r, "logged")
  \/ DraftAt(r, "inserted") /\ draft[r].op = "create_tenant"

Commit(r) ==
  LET d == draft[r]
  IN /\ Ready(r)
     /\ slugs' = IF d.op \in MakesTenant THEN slugs \cup {d.slug} ELSE slugs
     /\ people' = IF d.op \in MakesUser THEN people \cup {UserOf(d)} ELSE people
     /\ \/ d.op # "update_user" /\ UNCHANGED disabled
        \/ /\ d.op = "update_user"
           /\ \E u \in people : /\ u.slug = d.slug /\ u.email = d.email
                                /\ u.capitals = d.capitals
                                /\ disabled' \in {disabled \cup {u}, disabled \ {u}}
     /\ trail' = trail \cup RowsOf(d)
     /\ deeds' = deeds \cup {r}
     /\ Moves(r, "ended")
     /\ UNCHANGED <<hubPeers, unlogged>>

\* The row of the error goes with the rollback that get_db makes of it.
RollBack(r) == trail' = trail

\* An IntegrityError, a hub that is down, a lost connection, a commit that raises,
\* the death of the process.
Fail(r) ==
  /\ draft[r].step \notin {"new", "ended"}
  /\ RollBack(r)
  /\ Moves(r, "ended")
  /\ UNCHANGED <<slugs, people, disabled, hubPeers, deeds, unlogged>>

AccountsNext ==
  \E r \in AdminRequests :
     \/ Check(r) \/ Flush(r) \/ Provision(r)
     \/ LogAction(r) \/ LogRaises(r) \/ LogPoisons(r) \/ Commit(r) \/ Fail(r)

AccountsSpec == AccountsInit /\ [][AccountsNext]_accountVars

-----------------------------------------------------------------------------
\* Type invariant.
AccountsTypeOK ==
  /\ slugs \subseteq Slugs /\ people \subseteq Person /\ disabled \subseteq people
  /\ trail \subseteq AuditRow /\ hubPeers \subseteq AdminRequests
  /\ draft \in [AdminRequests -> Drafts \cup {NoDraft}]
  /\ deeds \subseteq AdminRequests /\ unlogged \subseteq AdminRequests

SameTenant(d, e) == d.op \in MakesTenant /\ e.op \in MakesTenant /\ d.slug = e.slug
SameUser(d, e) == d.op \in MakesUser /\ e.op \in MakesUser /\ UserOf(d) = UserOf(e)

\* The trail tells what was done: a row that says success stands for a change that was
\* committed, an audited change has its row unless the row could not be built, and of
\* requests that found the same slug or e-mail free only one has made it.
TrailIsTrue ==
  /\ \A row \in trail : row.result = "success" => row.by \in deeds
  /\ \A r \in deeds \ unlogged :
       draft[r].op # "create_tenant" => Success(r) \in trail
  /\ \A r, q \in deeds :
       r # q => ~SameTenant(draft[r], draft[q]) /\ ~SameUser(draft[r], draft[q])
=============================================================================
