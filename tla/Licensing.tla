----------------------------- MODULE Licensing -----------------------------
(***************************************************************************)
(* One licence of the VPS: the customer account it is sold to, the machine *)
(* it is bound to, the agent of that installation and the API keys issued  *)
(* for it.  POST /edge/activate, unbinding, removal of an agent and        *)
(* POST /billing/activate are database transactions that read first and    *)
(* write later; they run under READ COMMITTED and take no lock on what     *)
(* they read.  The replies go to machines that keep the key in agent.json  *)
(* and may give up waiting.                                                *)
(***************************************************************************)
EXTENDS Integers, FiniteSets

CONSTANTS Txns,     \* bound: requests ever sent; they also name what they create
          Machines, \* hardware fingerprints
          Tenants,
          Nobody    \* no machine, agent, key, request or tenant

ASSUME LicensingAssumption == Nobody \notin Txns \union Machines \union Tenants

\* LicenseKeyModel and TenantModel, the columns the protocol reads or writes.
LicenceRow == [tenant : Tenants \union {Nobody}, machine : Machines \union {Nobody},
               agent : Txns \union {Nobody}, expired : BOOLEAN]
TenantRow == [state : {"active", "suspended", "deleted"}, licensed : BOOLEAN]

Kinds == {"activate", "unbind", "remove", "claim"}
\* A request as its transaction sees it: the columns it has read.
Request == [kind : Kinds \union {"none"}, by : Machines \union Tenants \union {Nobody},
            stage : {"unsent", "sent", "read", "issued", "over"},
            machine : Machines \union {Nobody}, agent : Txns \union {Nobody},
            tenant : Tenants \union {Nobody}]
NoRequest == [kind |-> "none", by |-> Nobody, stage |-> "unsent",
              machine |-> Nobody, agent |-> Nobody, tenant |-> Nobody]

VARIABLES licence,  \* the committed row of the licence
          tenants,  \* tenant -> row
          agents,   \* committed agents; an agent is named by its activation
          ownerOf,  \* committed API key (named by its activation) -> its agent
          active,   \* keys with is_active
          req,      \* request -> what it is, its stage and what it read
          revokes,  \* request -> keys its UPDATE marked, uncommitted
          behind,   \* request -> requests whose row locks it must wait for
          store,    \* machine -> key in agent.json
          waiting,  \* machine -> request whose reply it waits for
          overlapped \* history: two transactions were open at once

licVars == <<licence, tenants, agents, ownerOf, active, req, revokes, behind,
             store, waiting, overlapped>>

Open == {t \in Txns : req[t].stage \in {"read", "issued"}}
KeysOf(a) == {k \in Txns : ownerOf[k] = a /\ a # Nobody}
MachineOf(k) == req[k].by

LicensingInit ==
  /\ licence \in [tenant : Tenants \union {Nobody}, machine : {Nobody}, agent : {Nobody},
                  expired : {FALSE}]
  /\ tenants = [c \in Tenants |-> [state |-> "active", licensed |-> FALSE]]
  /\ agents = {} /\ active = {} /\ overlapped = FALSE
  /\ ownerOf = [k \in Txns |-> Nobody]
  /\ req = [t \in Txns |-> NoRequest]
  /\ revokes = [t \in Txns |-> {}] /\ behind = [t \in Txns |-> {}]
  /\ store = [m \in Machines |-> Nobody]
  /\ waiting = [m \in Machines |-> Nobody]

(***************************************************************************)
(* Sending a request                                                       *)
(***************************************************************************)
Unsent == {t \in Txns : req[t].stage = "unsent"}

Send(kind, who) ==
  LET t == CHOOSE u \in Unsent : TRUE
  IN  /\ Unsent # {}
      /\ req' = [req EXCEPT ![t].kind = kind, ![t].by = who, ![t].stage = "sent"]

\* A request is over: what it read is forgotten.
Finish(t) == req' = [req EXCEPT ![t] = [@ EXCEPT !.stage = "over", !.machine = Nobody,
                                                 !.agent = Nobody, !.tenant = Nobody]]
Commits(t) == /\ Finish(t)
              /\ revokes' = [revokes EXCEPT ![t] = {}]
              /\ behind' = [behind EXCEPT ![t] = {}]

\* ensure_activated: only a machine without stored credentials asks, and the
\* installer runs one activation at a time.
EnsureActivated(m) ==
  /\ store[m] = Nobody /\ waiting[m] = Nobody
  /\ Send("activate", m)
  /\ waiting' = [waiting EXCEPT ![m] = CHOOSE u \in Unsent : TRUE]
  /\ UNCHANGED <<licence, tenants, agents, ownerOf, active, revokes, behind,
                 store, overlapped>>

\* The httpx timeout, or a lost connection: the request may still arrive.
GivesUpWaiting(m) ==
  /\ waiting[m] # Nobody
  /\ waiting' = [waiting EXCEPT ![m] = Nobody]
  /\ UNCHANGED <<licence, tenants, agents, ownerOf, active, req, revokes, behind,
                 store, overlapped>>

\* agent.json is lost: the machine is reinstalled, or the file is unreadable.
LosesCredentials(m) ==
  /\ store[m] # Nobody
  /\ store' = [store EXCEPT ![m] = Nobody]
  /\ UNCHANGED <<licence, tenants, agents, ownerOf, active, req, revokes, behind,
                 waiting, overlapped>>

AdminAsks ==
  /\ \/ Send("unbind", Nobody)
     \/ Send("remove", Nobody)
     \/ \E c \in Tenants : Send("claim", c)
  /\ UNCHANGED <<licence, tenants, agents, ownerOf, active, revokes, behind,
                 store, waiting, overlapped>>

(***************************************************************************)
(* The transactions: read, issue, commit                                   *)
(***************************************************************************)
\* _assert_usable and _load_active_tenant.
Usable == /\ ~licence.expired /\ licence.tenant # Nobody
LoadActiveTenant == \E c \in Tenants : c = licence.tenant /\ tenants[c].state = "active"

\* Mutant of Refused: a licence that is bound is given to any machine.
RefusedAnyMachine(t) ==
  CASE req[t].kind = "activate" -> ~Usable \/ ~LoadActiveTenant
    [] req[t].kind = "remove" -> licence.agent \notin agents
    [] req[t].kind = "claim" -> licence.expired \/ licence.tenant \notin {Nobody, req[t].by}
    [] OTHER -> FALSE

\* What each kind of request finds wrong with what it reads, and answers at once.
Refused(t) ==
  CASE req[t].kind = "activate" ->
         \/ ~Usable \/ ~LoadActiveTenant
         \/ licence.machine \notin {Nobody, req[t].by}
    [] req[t].kind = "remove" -> licence.agent \notin agents
    [] req[t].kind = "claim" -> licence.expired \/ licence.tenant \notin {Nobody, req[t].by}
    [] OTHER -> FALSE

Read(t) ==
  /\ req[t].stage = "sent" /\ ~Refused(t)
  /\ req' = [req EXCEPT ![t] = [@ EXCEPT !.stage = "read", !.machine = licence.machine,
                                         !.agent = licence.agent, !.tenant = licence.tenant]]
  /\ overlapped' = (overlapped \/ Open # {})
  /\ UNCHANGED <<licence, tenants, agents, ownerOf, active, revokes, behind,
                 store, waiting>>

Reject(t) ==
  /\ req[t].stage = "sent" /\ Refused(t)
  /\ Finish(t)
  /\ waiting' = [m \in Machines |-> IF waiting[m] = t THEN Nobody ELSE waiting[m]]
  /\ UNCHANGED <<licence, tenants, agents, ownerOf, active, revokes, behind,
                 store, overlapped>>

\* Reactivation uses the agent it finds; the first activation creates one.
Reuses(t) == req[t].machine # Nobody /\ req[t].agent # Nobody
AgentOf(t) == IF Reuses(t) THEN req[t].agent ELSE t

\* Mutant of RevokeByOwner: the old keys stay valid.
RevokeByOwnerNothing(t, a) ==
  /\ revokes' = [revokes EXCEPT ![t] = {}]
  /\ behind' = [behind EXCEPT ![t] = {}]

\* revoke_by_owner: an UPDATE of the owner's rows that are committed by now.
\* It holds their locks until its transaction ends.
RevokeByOwner(t, a) ==
  /\ revokes' = [revokes EXCEPT ![t] = KeysOf(a)]
  /\ behind' = [behind EXCEPT ![t] = {u \in Open : revokes[u] \intersect KeysOf(a) # {}}]

\* _issue_agent_credentials with AgentService.get_agent or create_agent, the
\* revocation of unbind and of delete_agent.  The new rows are uncommitted.
IssueAgentCredentials(t) ==
  /\ req[t].stage = "read" /\ req[t].kind # "claim"
  /\ req[t].kind = "activate" /\ Reuses(t) => req[t].agent \in agents
  /\ req' = [req EXCEPT ![t].stage = "issued"]
  /\ RevokeByOwner(t, IF req[t].kind = "activate" /\ ~Reuses(t) THEN Nobody
                                                                ELSE req[t].agent)
  /\ UNCHANGED <<licence, tenants, agents, ownerOf, active, store, waiting, overlapped>>

\* get_agent answers 404: the agent of the licence was removed.
AgentNotFound(t) ==
  /\ req[t].stage = "read" /\ req[t].kind = "activate"
  /\ Reuses(t) /\ req[t].agent \notin agents
  /\ Finish(t)
  /\ waiting' = [m \in Machines |-> IF waiting[m] = t THEN Nobody ELSE waiting[m]]
  /\ UNCHANGED <<licence, tenants, agents, ownerOf, active, revokes, behind,
                 store, overlapped>>

\* The unit of work writes the attributes that differ from what was read.
Write(t, m, a) ==
  [licence EXCEPT !.machine = IF m # req[t].machine THEN m ELSE @,
                  !.agent   = IF a # req[t].agent THEN a ELSE @]

Unlocked(t) == behind[t] \intersect Open = {}

CommitActivation(t) ==
  /\ req[t].stage = "issued" /\ req[t].kind = "activate" /\ Unlocked(t)
  /\ Commits(t)
  /\ licence' = Write(t, req[t].by, AgentOf(t))
  /\ tenants' = [tenants EXCEPT ![req[t].tenant].licensed = TRUE]
  /\ agents' = agents \union (IF Reuses(t) THEN {} ELSE {t})
  /\ ownerOf' = [ownerOf EXCEPT ![t] = AgentOf(t)]
  /\ active' = (active \ revokes[t]) \union {t}
  /\ store' = [m \in Machines |-> IF waiting[m] = t THEN t ELSE store[m]]
  /\ waiting' = [m \in Machines |-> IF waiting[m] = t THEN Nobody ELSE waiting[m]]
  /\ UNCHANGED overlapped

CommitUnbind(t) ==
  /\ req[t].stage = "issued" /\ req[t].kind = "unbind" /\ Unlocked(t)
  /\ Commits(t)
  /\ licence' = Write(t, Nobody, Nobody)
  /\ active' = active \ revokes[t]
  /\ UNCHANGED <<tenants, agents, ownerOf, store, waiting, overlapped>>

\* delete_agent: the licence goes on naming the agent.
CommitRemove(t) ==
  /\ req[t].stage = "issued" /\ req[t].kind = "remove" /\ Unlocked(t)
  /\ Commits(t)
  /\ agents' = agents \ {req[t].agent}
  /\ active' = active \ revokes[t]
  /\ UNCHANGED <<licence, tenants, ownerOf, store, waiting, overlapped>>

\* BillingService.activate: the customer's own activation of a licence.
CommitClaim(t) ==
  /\ req[t].stage = "read" /\ req[t].kind = "claim"
  /\ Finish(t)
  /\ licence' = [licence EXCEPT !.tenant = IF req[t].by # req[t].tenant THEN req[t].by ELSE @]
  /\ tenants' = [tenants EXCEPT ![req[t].by].licensed = TRUE]
  /\ UNCHANGED <<agents, ownerOf, active, revokes, behind, store, waiting, overlapped>>

(***************************************************************************)
(* The customer's account and the licence's term.  Only the state of the   *)
(* customer that has the licence is ever read; bound: the others keep      *)
(* theirs.                                                                 *)
(***************************************************************************)
MoveTenant(from, to) ==
  \E c \in Tenants :
    /\ licence.tenant = c /\ tenants[c].state \in from
    /\ tenants' = [tenants EXCEPT ![c].state = to]
    /\ UNCHANGED <<licence, agents, ownerOf, active, req, revokes, behind, store,
                   waiting, overlapped>>

SuspendTenant    == MoveTenant({"active"}, "suspended")
ReactivateTenant == MoveTenant({"suspended"}, "active")
DeleteTenant     == MoveTenant({"active", "suspended"}, "deleted")

Expires ==
  /\ ~licence.expired
  /\ licence' = [licence EXCEPT !.expired = TRUE]
  /\ UNCHANGED <<tenants, agents, ownerOf, active, req, revokes, behind, store,
                 waiting, overlapped>>

LicensingNext ==
  \/ \E m \in Machines : EnsureActivated(m) \/ GivesUpWaiting(m) \/ LosesCredentials(m)
  \/ AdminAsks
  \/ \E t \in Txns : \/ Read(t) \/ Reject(t) \/ IssueAgentCredentials(t)
                     \/ AgentNotFound(t) \/ CommitActivation(t) \/ CommitUnbind(t)
                     \/ CommitRemove(t) \/ CommitClaim(t)
  \/ SuspendTenant \/ ReactivateTenant \/ DeleteTenant \/ Expires

LicensingSpec == LicensingInit /\ [][LicensingNext]_licVars

(***************************************************************************)
(* Properties                                                              *)
(***************************************************************************)
\* What every variable may hold.
LicensingTypeOK ==
  /\ licence \in LicenceRow
  /\ tenants \in [Tenants -> TenantRow]
  /\ agents \subseteq Txns /\ active \subseteq Txns
  /\ ownerOf \in [Txns -> Txns \union {Nobody}]
  /\ req \in [Txns -> Request]
  /\ revokes \in [Txns -> SUBSET Txns] /\ behind \in [Txns -> SUBSET Txns]
  /\ store \in [Machines -> Txns \union {Nobody}]
  /\ waiting \in [Machines -> Txns \union {Nobody}]
  /\ overlapped \in BOOLEAN

\* However the transactions interleave, the machine and the agent a licence
\* names come from the same installation, although each transaction writes only
\* the columns that differ from what it read.  As long as no two of them overlap,
\* a key that authenticates belongs to that agent and that machine, there is one
\* such key, and one customer at most holds the licence.
OneInstallation ==
  /\ licence.machine = Nobody <=> licence.agent = Nobody
  /\ licence.agent # Nobody => MachineOf(licence.agent) = licence.machine
  /\ ~overlapped =>
       /\ \A k \in active : ownerOf[k] = licence.agent /\ MachineOf(k) = licence.machine
       /\ Cardinality(active) <= 1
       /\ \A c \in Tenants : tenants[c].licensed => licence.tenant = c

\* No machine's activation ever revokes the key of another machine, not even
\* when activations race: only an admin takes a key from the machine that has it.
OnlyOwnerOrAdminRevokes ==
  [][\A k \in active \ active' :
       \E t \in Txns : /\ req[t].stage = "issued" /\ req'[t].stage = "over"
                       /\ req[t].kind \in {"unbind", "remove"} \/ req[t].by = MachineOf(k)]_licVars
=============================================================================
