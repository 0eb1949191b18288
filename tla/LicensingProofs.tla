--------------------------- MODULE LicensingProofs --------------------------
(***************************************************************************)
(* What the server knows of an installation, and what the installation     *)
(* holds: licences and credentials, for any number of machines, customers, *)
(* requests and keys, however their transactions and crashes interleave.   *)
(***************************************************************************)
EXTENDS Licensing, EdgeCredentials, FiniteSetTheorems, TLAPS

(***************************************************************************)
(* Licensing: a licence names one installation. The inductive invariant    *)
(* says what every activation under way has read and may still commit.     *)
(***************************************************************************)
\* Activations that are over: only they name agents and keys that are committed.
Past == {a \in Txns : req[a].kind = "activate" /\ req[a].stage = "over"}

\* Who sent a request, and whose names it has read or will mark.
RequestNamed(t) ==
  /\ req[t].kind = "activate" => req[t].by \in Machines
  /\ req[t].kind = "claim" => req[t].by \in Tenants
  /\ req[t].stage \in {"sent", "read", "issued"} => req[t].kind \in Kinds
  /\ req[t].agent \in Past \union {Nobody}
  /\ t \in Open /\ req[t].kind = "activate" => req[t].tenant \in Tenants
  /\ t \in Open /\ req[t].kind = "claim" => req[t].tenant \in {Nobody, req[t].by}
  /\ req[t].stage = "issued" => req[t].kind # "claim"
  /\ req[t].stage # "issued" => revokes[t] = {}
  /\ \A k \in revokes[t] : ownerOf[k] # Nobody

\* A committed name is that of a past activation.
CommittedNamed ==
  /\ licence.agent \in Past \union {Nobody}
  /\ \A k \in Txns : ownerOf[k] # Nobody => k \in Past /\ ownerOf[k] \in Past
  /\ \A k \in active : ownerOf[k] # Nobody

Named == CommittedNamed /\ \A t \in Txns : RequestNamed(t)

\* A machine and an agent that come from one installation.
Paired(m, a) == /\ m = Nobody <=> a = Nobody
                /\ a # Nobody => MachineOf(a) = m

\* What was read together stays together, and an activation marks its own keys only.
ReadsPair(t) ==
  /\ t \in Open => /\ Paired(req[t].machine, req[t].agent)
                   /\ req[t].kind = "activate" => req[t].machine \in {Nobody, req[t].by}
  /\ \A k \in revokes[t] : req[t].kind = "activate" => MachineOf(k) = req[t].by

\* What is committed stays together too.
CommittedPaired ==
  /\ Paired(licence.machine, licence.agent)
  /\ \A k \in Txns : ownerOf[k] # Nobody => MachineOf(k) = MachineOf(ownerOf[k])

Installed == CommittedPaired /\ \A t \in Txns : ReadsPair(t)

\* Whose keys a request that has issued its credentials takes back.
RevokedOwner(t) == IF req[t].kind = "activate" /\ ~Reuses(t) THEN Nobody ELSE req[t].agent

\* Without overlap what the one open transaction has read is still true.
OneOpen == \A t, u \in Open : t = u
StillTrue == \A t \in Open : /\ req[t].machine = licence.machine
                             /\ req[t].agent = licence.agent
                             /\ req[t].tenant = licence.tenant
TakesAllBack == \A t \in Txns : req[t].stage = "issued" => revokes[t] = KeysOf(RevokedOwner(t))
OneKey == /\ \A k \in active : ownerOf[k] = licence.agent
          /\ \A k, l \in active : k = l
OneCustomer == \A c \in Tenants : tenants[c].licensed => licence.tenant = c

Sequential ==
  ~overlapped => OneOpen /\ StillTrue /\ TakesAllBack /\ OneKey /\ OneCustomer

\* The inductive invariant of the licence.
LicInv == LicensingTypeOK /\ Named /\ Installed /\ Sequential

LEMMA LicInitHolds == LicensingInit => LicInv
<1> HAVE LicensingInit
<1>1. LicensingTypeOK
  <2>1. /\ licence \in LicenceRow /\ tenants \in [Tenants -> TenantRow]
        /\ overlapped \in BOOLEAN
    BY DEF LicensingInit, LicenceRow, TenantRow
  <2>2. req \in [Txns -> Request]
    BY DEF LicensingInit, NoRequest, Request
  <2> QED
    BY <2>1, <2>2 DEF LicensingInit, LicensingTypeOK
<1>2. \A t \in Txns : req[t] = NoRequest
  BY DEF LicensingInit
<1>3. Named
  BY <1>2 DEF LicensingInit, Named, CommittedNamed, RequestNamed, NoRequest, Open
<1>4. Installed
  BY <1>2 DEF LicensingInit, Installed, CommittedPaired, ReadsPair, NoRequest, Open, Paired
<1>5. Sequential
  BY <1>2 DEF LicensingInit, Sequential, OneOpen, StillTrue, TakesAllBack, OneKey, OneCustomer,
              NoRequest, Open
<1> QED
  BY <1>1, <1>3, <1>4, <1>5 DEF LicInv

(***************************************************************************)
(* What a step of one request leaves as it was                             *)
(***************************************************************************)
\* The requests a step does not touch.
LEMMA OthersKept ==
  ASSUME LicInv, NEW t \in Txns,
         \A u \in Txns : u # t => req'[u] = req[u] /\ revokes'[u] = revokes[u],
         \A a \in Past : a \in Past' /\ MachineOf(a)' = MachineOf(a),
         \A k \in Txns : ownerOf[k] # Nobody => ownerOf'[k] # Nobody,
         NEW u \in Txns, u # t
  PROVE  RequestNamed(u)' /\ ReadsPair(u)' /\ (u \in Open' <=> u \in Open)
<1> USE DEF LicInv
<1>1. req'[u] = req[u] /\ revokes'[u] = revokes[u] /\ RequestNamed(u) /\ ReadsPair(u)
  BY DEF Named, Installed
<1>2. u \in Open' <=> u \in Open
  BY <1>1 DEF Open
<1>3. revokes[u] \subseteq Txns
  BY DEF LicensingTypeOK
<1>4. RequestNamed(u)'
  BY <1>1, <1>2, <1>3 DEF RequestNamed
<1>5. ASSUME u \in Open PROVE Paired(req[u].machine, req[u].agent)'
  BY <1>1, <1>5 DEF RequestNamed, ReadsPair, Paired, MachineOf
<1>6. \A k \in revokes[u] : MachineOf(k)' = MachineOf(k)
  BY <1>1, <1>3 DEF Named, CommittedNamed, RequestNamed
<1> QED
  BY <1>1, <1>2, <1>4, <1>5, <1>6 DEF ReadsPair

\* What is committed, by a step that may revoke keys but changes no name.
LEMMA CommittedKept ==
  ASSUME LicInv,
         \A a \in Past : a \in Past' /\ MachineOf(a)' = MachineOf(a),
         licence'.machine = licence.machine, licence'.agent = licence.agent,
         ownerOf' = ownerOf, active' \subseteq active
  PROVE  CommittedNamed' /\ CommittedPaired'
<1> USE DEF LicInv
<1>1. CommittedNamed'
  BY DEF Named, CommittedNamed
<1>2. Paired(licence.machine, licence.agent)'
  <2>1. licence.agent \in Past \union {Nobody} /\ Paired(licence.machine, licence.agent)
    BY DEF Named, CommittedNamed, Installed, CommittedPaired
  <2> QED
    BY <2>1 DEF Paired, MachineOf
<1>3. ASSUME NEW k \in Txns, ownerOf[k] # Nobody
      PROVE  MachineOf(k)' = MachineOf(ownerOf[k])'
  <2>1. k \in Past /\ ownerOf[k] \in Past /\ MachineOf(k) = MachineOf(ownerOf[k])
    BY <1>3 DEF Named, CommittedNamed, Installed, CommittedPaired
  <2> QED
    BY <2>1 DEF MachineOf
<1> QED
  BY <1>1, <1>2, <1>3 DEF CommittedPaired

(***************************************************************************)
(* Sending, and the end of a request                                       *)
(***************************************************************************)
\* Sending a request disturbs nothing: no committed name is that of an unsent one.
LEMMA SendKeeps ==
  ASSUME LicInv, NEW t \in Unsent, NEW kind \in Kinds,
         NEW who \in Machines \union Tenants \union {Nobody},
         kind = "activate" => who \in Machines,
         kind = "claim" => who \in Tenants,
         req' = [req EXCEPT ![t].kind = kind, ![t].by = who, ![t].stage = "sent"],
         waiting' \in [Machines -> Txns \union {Nobody}],
         UNCHANGED <<licence, tenants, agents, ownerOf, active, revokes, behind,
                     store, overlapped>>
  PROVE  LicInv'
<1> USE DEF LicInv
<1>1. t \in Txns /\ req[t].stage = "unsent" /\ RequestNamed(t)
  BY DEF Unsent, Named
<1>2. LicensingTypeOK'
  <2>1. req' \in [Txns -> Request]
    BY <1>1 DEF LicensingTypeOK, Request
  <2> QED
    BY <2>1 DEF LicensingTypeOK
<1>3. /\ \A u \in Txns : u # t => req'[u] = req[u]
      /\ req'[t].kind = kind /\ req'[t].by = who /\ req'[t].stage = "sent"
      /\ req'[t].agent = req[t].agent
  BY <1>1 DEF LicensingTypeOK, Request
<1>4. Past' = Past /\ t \notin Past
  BY <1>1, <1>3 DEF Past
<1>5. Open' = Open /\ t \notin Open /\ \A u \in Open : u \in Txns /\ u # t
  BY <1>1, <1>3 DEF Open
<1>6. \A a \in Past : a \in Past' /\ MachineOf(a)' = MachineOf(a)
  BY <1>3, <1>4 DEF MachineOf, Past
<1>7. ASSUME NEW u \in Txns, u # t PROVE RequestNamed(u)' /\ ReadsPair(u)'
  BY <1>1, <1>3, <1>6, <1>7, OthersKept
<1>8. RequestNamed(t)' /\ ReadsPair(t)'
  BY <1>1, <1>3, <1>4, <1>5 DEF RequestNamed, ReadsPair
<1>9. CommittedNamed' /\ CommittedPaired'
  BY <1>6, CommittedKept
<1>10. Sequential'
  <2> SUFFICES ASSUME ~overlapped'
               PROVE  OneOpen' /\ StillTrue' /\ TakesAllBack' /\ OneKey' /\ OneCustomer'
    BY DEF Sequential
  <2>1. OneOpen /\ StillTrue /\ TakesAllBack /\ OneKey /\ OneCustomer
    BY DEF Sequential
  <2>2. \A u \in Txns : req'[u].stage = "issued" =>
          /\ req[u].stage = "issued"
          /\ KeysOf(RevokedOwner(u))' = KeysOf(RevokedOwner(u))
    BY <1>3 DEF RevokedOwner, Reuses, KeysOf
  <2>3. OneOpen' /\ StillTrue'
    BY <2>1, <1>3, <1>5 DEF OneOpen, StillTrue
  <2>4. TakesAllBack'
    BY <2>1, <2>2 DEF TakesAllBack
  <2>5. OneKey' /\ OneCustomer'
    BY <2>1 DEF OneKey, OneCustomer
  <2> QED
    BY <2>3, <2>4, <2>5
<1> QED
  BY <1>2, <1>7, <1>8, <1>9, <1>10 DEF Named, Installed

LEMMA OverIsRequest ==
  ASSUME NEW r \in Request
  PROVE  [r EXCEPT !.stage = "over", !.machine = Nobody, !.agent = Nobody,
                   !.tenant = Nobody] \in Request
BY DEF Request

\* A request that is over: its name may be committed now, and it has read nothing.
LEMMA FinishFacts ==
  ASSUME LicensingTypeOK, NEW t \in Txns, req[t].stage # "over", Finish(t)
  PROVE  /\ req' \in [Txns -> Request]
         /\ \A u \in Txns : u # t => req'[u] = req[u]
         /\ req'[t].stage = "over" /\ req'[t].agent = Nobody
         /\ \A u \in Txns : req'[u].kind = req[u].kind /\ MachineOf(u)' = MachineOf(u)
         /\ \A a \in Past : a \in Past' /\ MachineOf(a)' = MachineOf(a)
         /\ req[t].kind = "activate" => t \in Past'
         /\ Open' = Open \ {t}
<1>1. req' = [req EXCEPT ![t] = [@ EXCEPT !.stage = "over", !.machine = Nobody,
                                          !.agent = Nobody, !.tenant = Nobody]]
  BY DEF Finish
<1>2. req' \in [Txns -> Request]
  <2>1. [req[t] EXCEPT !.stage = "over", !.machine = Nobody, !.agent = Nobody,
                       !.tenant = Nobody] \in Request
    BY OverIsRequest DEF LicensingTypeOK
  <2> QED
    BY <2>1, <1>1 DEF LicensingTypeOK
<1>3. /\ \A u \in Txns : u # t => req'[u] = req[u]
      /\ req'[t].stage = "over" /\ req'[t].agent = Nobody
      /\ req'[t].kind = req[t].kind /\ req'[t].by = req[t].by
  BY <1>1 DEF LicensingTypeOK, Request
<1>4. \A u \in Txns : req'[u].kind = req[u].kind /\ MachineOf(u)' = MachineOf(u)
  BY <1>3 DEF MachineOf
<1>5. /\ \A a \in Past : a \in Past' /\ MachineOf(a)' = MachineOf(a)
      /\ req[t].kind = "activate" => t \in Past'
  BY <1>3, <1>4 DEF Past
<1>6. Open' = Open \ {t}
  BY <1>3 DEF Open
<1> QED
  BY <1>2, <1>3, <1>4, <1>5, <1>6

\* Once it is over, no request of a sequence is open, and none is about to revoke.
LEMMA LastIsOver ==
  ASSUME LicInv, ~overlapped, NEW t \in Open, Finish(t)
  PROVE  OneOpen' /\ StillTrue' /\ TakesAllBack'
<1>1. t \in Txns /\ req[t].stage # "over"
  BY DEF Open
<1>2. Open = {t}
  BY DEF LicInv, Sequential, OneOpen
<1>3. Open' = {}
  BY <1>1, <1>2, FinishFacts DEF LicInv
<1>4. \A u \in Txns : req'[u].stage # "issued"
  BY <1>3 DEF Open
<1> QED
  BY <1>3, <1>4 DEF OneOpen, StillTrue, TakesAllBack

\* A request that ends without effect.
LEMMA EndKeeps ==
  ASSUME LicInv, NEW t \in Txns, req[t].stage \in {"sent", "read"}, Finish(t),
         waiting' \in [Machines -> Txns \union {Nobody}],
         UNCHANGED <<licence, tenants, agents, ownerOf, active, revokes, behind,
                     store, overlapped>>
  PROVE  LicInv'
<1> USE DEF LicInv
<1>1. /\ \A u \in Txns : u # t => req'[u] = req[u]
      /\ req'[t].stage = "over" /\ req'[t].agent = Nobody
      /\ \A u \in Txns : req'[u].kind = req[u].kind /\ MachineOf(u)' = MachineOf(u)
      /\ \A a \in Past : a \in Past' /\ MachineOf(a)' = MachineOf(a)
      /\ Open' = Open \ {t}
  BY FinishFacts
<1>2. LicensingTypeOK'
  BY FinishFacts DEF LicensingTypeOK
<1>3. ASSUME NEW u \in Txns, u # t PROVE RequestNamed(u)' /\ ReadsPair(u)'
  BY <1>1, <1>3, OthersKept
<1>4. RequestNamed(t)' /\ ReadsPair(t)'
  BY <1>1 DEF Named, RequestNamed, ReadsPair, MachineOf
<1>5. CommittedNamed' /\ CommittedPaired'
  BY <1>1, CommittedKept
<1>6. Sequential'
  <2> SUFFICES ASSUME ~overlapped'
               PROVE  OneOpen' /\ StillTrue' /\ TakesAllBack' /\ OneKey' /\ OneCustomer'
    BY DEF Sequential
  <2>1. OneOpen /\ StillTrue /\ TakesAllBack /\ OneKey /\ OneCustomer
    BY DEF Sequential
  <2>2. \A u \in Txns : req'[u].stage = "issued" =>
          /\ req[u].stage = "issued"
          /\ KeysOf(RevokedOwner(u))' = KeysOf(RevokedOwner(u))
    BY <1>1 DEF RevokedOwner, Reuses, KeysOf
  <2>3. \A u \in Open' : u \in Open /\ req'[u] = req[u]
    BY <1>1 DEF Open
  <2>4. OneOpen' /\ StillTrue'
    BY <2>1, <2>3 DEF OneOpen, StillTrue
  <2>5. TakesAllBack'
    BY <2>1, <2>2 DEF TakesAllBack
  <2>6. OneKey' /\ OneCustomer'
    BY <2>1 DEF OneKey, OneCustomer
  <2> QED
    BY <2>4, <2>5, <2>6
<1> QED
  BY <1>2, <1>3, <1>4, <1>5, <1>6 DEF Named, Installed

(***************************************************************************)
(* The transactions                                                        *)
(***************************************************************************)
LEMMA ReadIsRequest ==
  ASSUME NEW r \in Request, NEW m \in Machines \union {Nobody},
         NEW a \in Txns \union {Nobody}, NEW c \in Tenants \union {Nobody}
  PROVE  [r EXCEPT !.stage = "read", !.machine = m, !.agent = a, !.tenant = c] \in Request
BY DEF Request

\* What a request reads is paired, since what is committed is.
LEMMA ReadKeeps ==
  ASSUME LicInv, NEW t \in Txns, Read(t)
  PROVE  LicInv'
<1> USE DEF LicInv
<1>1. /\ req[t] \in Request /\ req[t].stage = "sent" /\ ~Refused(t)
      /\ licence.machine \in Machines \union {Nobody}
      /\ licence.agent \in Txns \union {Nobody}
      /\ licence.tenant \in Tenants \union {Nobody}
  BY DEF Read, LicensingTypeOK, LicenceRow
<1>2. req' = [req EXCEPT ![t] = [@ EXCEPT !.stage = "read", !.machine = licence.machine,
                                   !.agent = licence.agent, !.tenant = licence.tenant]]
  BY DEF Read
<1>3. /\ UNCHANGED <<licence, tenants, agents, ownerOf, active, revokes, behind, store, waiting>>
      /\ overlapped' = (overlapped \/ Open # {})
  BY DEF Read
<1>4. LicensingTypeOK'
  <2>1. [req[t] EXCEPT !.stage = "read", !.machine = licence.machine,
                       !.agent = licence.agent, !.tenant = licence.tenant] \in Request
    BY <1>1, ReadIsRequest
  <2>2. req' \in [Txns -> Request]
    BY <2>1, <1>2 DEF LicensingTypeOK
  <2>3. overlapped' \in BOOLEAN
    BY <1>3, ZenonT(10)
  <2> QED
    BY <2>2, <2>3, <1>3 DEF LicensingTypeOK
<1>5. /\ \A u \in Txns : u # t => req'[u] = req[u]
      /\ req'[t].stage = "read" /\ req'[t].machine = licence.machine
      /\ req'[t].agent = licence.agent /\ req'[t].tenant = licence.tenant
      /\ req'[t].kind = req[t].kind /\ req'[t].by = req[t].by
  BY <1>1, <1>2 DEF LicensingTypeOK, Request
<1>6. \A u \in Txns : MachineOf(u)' = MachineOf(u)
  BY <1>5 DEF MachineOf
<1>7. Past' = Past
  BY <1>1, <1>5 DEF Past
<1>8. Open' = Open \union {t} /\ t \notin Open
  BY <1>1, <1>5 DEF Open
<1>9. \A a \in Past : a \in Past' /\ MachineOf(a)' = MachineOf(a)
  BY <1>6, <1>7 DEF Past
<1>10. ASSUME NEW u \in Txns, u # t PROVE RequestNamed(u)' /\ ReadsPair(u)'
  BY <1>3, <1>5, <1>9, <1>10, OthersKept
<1>11. CommittedNamed' /\ CommittedPaired'
  BY <1>3, <1>9, CommittedKept
<1>12. /\ req[t].kind = "activate" => licence.machine \in {Nobody, req[t].by}
                                      /\ licence.tenant \in Tenants
       /\ req[t].kind = "claim" => licence.tenant \in {Nobody, req[t].by}
  BY <1>1 DEF Refused, Usable
<1>13. RequestNamed(t)'
  <2>1. RequestNamed(t) /\ licence.agent \in Past \union {Nobody}
    BY DEF Named, CommittedNamed
  <2> QED
    BY <2>1, <1>1, <1>3, <1>5, <1>7, <1>12 DEF RequestNamed
<1>14. ReadsPair(t)'
  <2>1. revokes[t] = {}
    BY <1>1 DEF Named, RequestNamed
  <2>2. Paired(req[t].machine, req[t].agent)'
    BY <1>5, <1>11, <1>3 DEF CommittedPaired, Paired, MachineOf
  <2> QED
    BY <2>1, <2>2, <1>3, <1>5, <1>12 DEF ReadsPair
<1>15. Sequential'
  <2> SUFFICES ASSUME ~overlapped'
               PROVE  OneOpen' /\ StillTrue' /\ TakesAllBack' /\ OneKey' /\ OneCustomer'
    BY DEF Sequential
  <2>1. ~overlapped /\ Open = {}
    BY <1>3
  <2>2. OneKey /\ OneCustomer
    BY <2>1 DEF Sequential
  <2>3. OneOpen' /\ StillTrue'
    BY <2>1, <1>3, <1>5, <1>8 DEF OneOpen, StillTrue
  <2>4. \A u \in Txns : req'[u].stage # "issued"
    BY <2>1, <1>5 DEF Open
  <2>5. TakesAllBack'
    BY <2>4 DEF TakesAllBack
  <2>6. OneKey' /\ OneCustomer'
    BY <2>2, <1>3 DEF OneKey, OneCustomer
  <2> QED
    BY <2>3, <2>5, <2>6
<1> QED
  BY <1>4, <1>10, <1>11, <1>13, <1>14, <1>15 DEF Named, Installed

LEMMA RejectKeeps ==
  ASSUME LicInv, NEW t \in Txns, Reject(t) \/ AgentNotFound(t)
  PROVE  LicInv'
<1>1. /\ req[t].stage \in {"sent", "read"} /\ Finish(t)
      /\ waiting' = [m \in Machines |-> IF waiting[m] = t THEN Nobody ELSE waiting[m]]
      /\ UNCHANGED <<licence, tenants, agents, ownerOf, active, revokes, behind,
                     store, overlapped>>
  BY DEF Reject, AgentNotFound
<1>2. waiting' \in [Machines -> Txns \union {Nobody}]
  BY <1>1 DEF LicInv, LicensingTypeOK
<1> QED
  BY <1>1, <1>2, EndKeeps

LEMMA IssuedIsRequest ==
  ASSUME NEW r \in Request
  PROVE  [r EXCEPT !.stage = "issued"] \in Request
BY DEF Request

\* The keys an activation marks were issued to the machine that asks.
LEMMA IssueKeeps ==
  ASSUME LicInv, NEW t \in Txns, IssueAgentCredentials(t)
  PROVE  LicInv'
<1> USE DEF LicInv
<1> DEFINE o == IF req[t].kind = "activate" /\ ~Reuses(t) THEN Nobody ELSE req[t].agent
<1>1. /\ req[t].stage = "read" /\ req[t].kind # "claim"
      /\ req' = [req EXCEPT ![t].stage = "issued"]
      /\ revokes' = [revokes EXCEPT ![t] = KeysOf(o)]
      /\ behind' = [behind EXCEPT ![t] = {u \in Open : revokes[u] \intersect KeysOf(o) # {}}]
      /\ UNCHANGED <<licence, tenants, agents, ownerOf, active, store, waiting, overlapped>>
  BY DEF IssueAgentCredentials, RevokeByOwner
<1>2. KeysOf(o) \subseteq Txns /\ \A k \in KeysOf(o) : ownerOf[k] = o /\ o # Nobody
  BY DEF KeysOf
<1>3. LicensingTypeOK'
  <2>1. req' \in [Txns -> Request]
    <3>1. [req[t] EXCEPT !.stage = "issued"] \in Request
      BY IssuedIsRequest DEF LicensingTypeOK
    <3> QED
      BY <3>1, <1>1 DEF LicensingTypeOK
  <2>2. revokes' \in [Txns -> SUBSET Txns] /\ behind' \in [Txns -> SUBSET Txns]
    BY <1>1, <1>2 DEF LicensingTypeOK, Open
  <2> QED
    BY <2>1, <2>2, <1>1 DEF LicensingTypeOK
<1>4. /\ \A u \in Txns : u # t => req'[u] = req[u] /\ revokes'[u] = revokes[u]
      /\ req'[t].stage = "issued" /\ req'[t].kind = req[t].kind /\ req'[t].by = req[t].by
      /\ req'[t].machine = req[t].machine /\ req'[t].agent = req[t].agent
      /\ req'[t].tenant = req[t].tenant
      /\ revokes'[t] = KeysOf(o)
  BY <1>1 DEF LicensingTypeOK, Request
<1>5. \A u \in Txns : MachineOf(u)' = MachineOf(u)
  BY <1>4 DEF MachineOf
<1>6. Past' = Past
  BY <1>1, <1>4 DEF Past
<1>7. Open' = Open /\ t \in Open
  BY <1>1, <1>4 DEF Open
<1>8. \A a \in Past : a \in Past' /\ MachineOf(a)' = MachineOf(a)
  BY <1>5, <1>6 DEF Past
<1>9. ASSUME NEW u \in Txns, u # t PROVE RequestNamed(u)' /\ ReadsPair(u)'
  BY <1>1, <1>4, <1>8, <1>9, OthersKept
<1>10. CommittedNamed' /\ CommittedPaired'
  BY <1>1, <1>8, CommittedKept
<1>11. RequestNamed(t) /\ ReadsPair(t)
  BY DEF Named, Installed
<1>12. RequestNamed(t)'
  BY <1>1, <1>2, <1>4, <1>6, <1>7, <1>11 DEF RequestNamed
<1>13. ReadsPair(t)'
  <2>1. Paired(req[t].machine, req[t].agent)'
    <3>1. Paired(req[t].machine, req[t].agent) /\ req[t].agent \in Txns \union {Nobody}
      BY <1>7, <1>11 DEF ReadsPair, RequestNamed, Past
    <3> QED
      BY <3>1, <1>4, <1>5 DEF Paired, MachineOf
  <2>2. ASSUME NEW k \in KeysOf(o), req[t].kind = "activate"
        PROVE  MachineOf(k)' = req[t].by
    <3>1. o = req[t].agent /\ Reuses(t) /\ o # Nobody /\ ownerOf[k] = o /\ k \in Txns
      BY <2>2, <1>2
    <3>2. MachineOf(k) = MachineOf(o)
      BY <3>1 DEF Installed, CommittedPaired
    <3>3. MachineOf(o) = req[t].by
      BY <3>1, <2>2, <1>7, <1>11 DEF ReadsPair, Paired, Reuses
    <3> QED
      BY <3>1, <3>2, <3>3, <1>5
  <2> QED
    BY <2>1, <2>2, <1>4, <1>7, <1>11 DEF ReadsPair
<1>14. Sequential'
  <2> SUFFICES ASSUME ~overlapped'
               PROVE  OneOpen' /\ StillTrue' /\ TakesAllBack' /\ OneKey' /\ OneCustomer'
    BY DEF Sequential
  <2>1. OneOpen /\ StillTrue /\ TakesAllBack /\ OneKey /\ OneCustomer
    BY <1>1 DEF Sequential
  <2>2. Open = {t}
    BY <2>1, <1>7 DEF OneOpen
  <2>3. OneOpen' /\ StillTrue'
    BY <2>1, <2>2, <1>1, <1>4, <1>7 DEF OneOpen, StillTrue
  <2>4. \A u \in Txns : req'[u].stage = "issued" => u = t
    BY <2>2, <1>4 DEF Open
  <2>5. KeysOf(RevokedOwner(t))' = KeysOf(o)
    BY <1>1, <1>4 DEF KeysOf, RevokedOwner, Reuses
  <2>6. TakesAllBack'
    BY <2>4, <2>5, <1>4 DEF TakesAllBack
  <2>7. OneKey' /\ OneCustomer'
    BY <2>1, <1>1 DEF OneKey, OneCustomer
  <2> QED
    BY <2>3, <2>6, <2>7
<1> QED
  BY <1>3, <1>9, <1>10, <1>12, <1>13, <1>14 DEF Named, Installed

\* What a transaction writes: only the columns that differ from what it read.
LEMMA WriteFacts ==
  ASSUME LicensingTypeOK, NEW t \in Txns,
         NEW m \in Machines \union {Nobody}, NEW a \in Txns \union {Nobody}
  PROVE  /\ Write(t, m, a) \in LicenceRow
         /\ Write(t, m, a).machine = IF m # req[t].machine THEN m ELSE licence.machine
         /\ Write(t, m, a).agent = IF a # req[t].agent THEN a ELSE licence.agent
         /\ Write(t, m, a).tenant = licence.tenant
BY DEF LicensingTypeOK, LicenceRow, Write

\* A customer gets a licence: the other columns of the account stay.
LEMMA LicensedFacts ==
  ASSUME LicensingTypeOK, NEW c \in Tenants,
         tenants' = [tenants EXCEPT ![c].licensed = TRUE]
  PROVE  /\ tenants' \in [Tenants -> TenantRow]
         /\ \A d \in Tenants : d # c => tenants'[d] = tenants[d]
<1>1. [tenants[c] EXCEPT !.licensed = TRUE] \in TenantRow
  BY DEF LicensingTypeOK, TenantRow
<1> QED
  BY <1>1 DEF LicensingTypeOK

\* Without overlap a request that has issued its credentials takes every key back.
LEMMA AllTakenBack ==
  ASSUME LicInv, ~overlapped, NEW t \in Open, req[t].stage = "issued"
  PROVE  active \ revokes[t] = {}
<1> USE DEF LicInv
<1>1. t \in Txns /\ StillTrue /\ TakesAllBack /\ OneKey
  BY DEF Open, Sequential
<1>2. ASSUME NEW k \in active PROVE k \in revokes[t]
  <2>1. k \in Txns /\ ownerOf[k] = licence.agent /\ licence.agent # Nobody
    BY <1>1 DEF LicensingTypeOK, OneKey, Named, CommittedNamed
  <2>2. req[t].agent = licence.agent /\ req[t].machine = licence.machine
    BY <1>1 DEF StillTrue
  <2>3. licence.machine # Nobody
    BY <2>1 DEF Installed, CommittedPaired, Paired
  <2>4. RevokedOwner(t) = licence.agent
    BY <2>1, <2>2, <2>3 DEF RevokedOwner, Reuses
  <2>5. revokes[t] = KeysOf(licence.agent)
    BY <1>1, <2>4 DEF TakesAllBack
  <2> QED
    BY <2>1, <2>5 DEF KeysOf
<1> QED
  BY <1>2

\* What every commit leaves of the requests.
LEMMA CommitFacts ==
  ASSUME LicInv, NEW t \in Txns, req[t].stage \in {"read", "issued"}, Finish(t),
         revokes' = [revokes EXCEPT ![t] = {}],
         \A k \in Txns : ownerOf[k] # Nobody => ownerOf'[k] # Nobody
  PROVE  \A u \in Txns : RequestNamed(u)' /\ ReadsPair(u)'
<1> USE DEF LicInv
<1>1. /\ \A u \in Txns : u # t => req'[u] = req[u]
      /\ req'[t].stage = "over" /\ req'[t].agent = Nobody
      /\ \A u \in Txns : req'[u].kind = req[u].kind /\ MachineOf(u)' = MachineOf(u)
      /\ \A a \in Past : a \in Past' /\ MachineOf(a)' = MachineOf(a)
      /\ Open' = Open \ {t}
  BY FinishFacts
<1>2. revokes'[t] = {} /\ \A u \in Txns : u # t => revokes'[u] = revokes[u]
  BY DEF LicensingTypeOK
<1>3. ASSUME NEW u \in Txns, u # t PROVE RequestNamed(u)' /\ ReadsPair(u)'
  BY <1>1, <1>2, <1>3, OthersKept
<1>4. RequestNamed(t)' /\ ReadsPair(t)'
  BY <1>1, <1>2 DEF Named, RequestNamed, ReadsPair, MachineOf
<1> QED
  BY <1>3, <1>4

\* The licence comes to name the installation that asks, or stays as it is.
LEMMA ActivationKeeps ==
  ASSUME LicInv, NEW t \in Txns, CommitActivation(t)
  PROVE  LicInv'
<1> USE DEF LicInv
<1>1. /\ req[t].stage = "issued" /\ req[t].kind = "activate" /\ Finish(t)
      /\ revokes' = [revokes EXCEPT ![t] = {}] /\ behind' = [behind EXCEPT ![t] = {}]
      /\ licence' = Write(t, req[t].by, AgentOf(t))
      /\ tenants' = [tenants EXCEPT ![req[t].tenant].licensed = TRUE]
      /\ agents' = agents \union (IF Reuses(t) THEN {} ELSE {t})
      /\ ownerOf' = [ownerOf EXCEPT ![t] = AgentOf(t)]
      /\ active' = (active \ revokes[t]) \union {t}
      /\ store' = [m \in Machines |-> IF waiting[m] = t THEN t ELSE store[m]]
      /\ waiting' = [m \in Machines |-> IF waiting[m] = t THEN Nobody ELSE waiting[m]]
      /\ overlapped' = overlapped
  BY DEF CommitActivation, Commits
<1>2. t \in Open /\ t \notin Past
  BY <1>1 DEF Open, Past
<1>3. /\ req[t].by \in Machines /\ req[t].by # Nobody /\ t # Nobody
      /\ req[t].tenant \in Tenants /\ req[t].agent \in Past \union {Nobody}
      /\ req[t].machine \in {Nobody, req[t].by}
      /\ Paired(req[t].machine, req[t].agent)
  BY <1>1, <1>2, LicensingAssumption DEF Named, RequestNamed, Installed, ReadsPair
<1>4. /\ req' \in [Txns -> Request]
      /\ \A u \in Txns : MachineOf(u)' = MachineOf(u)
      /\ \A a \in Past : a \in Past' /\ MachineOf(a)' = MachineOf(a)
      /\ t \in Past'
  BY <1>1, FinishFacts
<1>5. AgentOf(t) \in Past \union {t} /\ AgentOf(t) # Nobody /\ AgentOf(t) \in Txns
  BY <1>3 DEF AgentOf, Reuses, Past
<1>6. /\ licence' \in LicenceRow
      /\ licence'.machine = IF req[t].by # req[t].machine THEN req[t].by ELSE licence.machine
      /\ licence'.agent = IF AgentOf(t) # req[t].agent THEN AgentOf(t) ELSE licence.agent
      /\ licence'.tenant = licence.tenant
  BY <1>1, <1>3, <1>5, WriteFacts
<1>7. tenants' \in [Tenants -> TenantRow]
      /\ \A d \in Tenants : d # req[t].tenant => tenants'[d] = tenants[d]
  BY <1>1, <1>3, LicensedFacts
<1>8. LicensingTypeOK'
  <2>1. store' \in [Machines -> Txns \union {Nobody}]
        /\ waiting' \in [Machines -> Txns \union {Nobody}]
    BY <1>1 DEF LicensingTypeOK
  <2>2. /\ revokes' \in [Txns -> SUBSET Txns] /\ behind' \in [Txns -> SUBSET Txns]
        /\ agents' \subseteq Txns /\ active' \subseteq Txns
    BY <1>1 DEF LicensingTypeOK
  <2>3. ownerOf' \in [Txns -> Txns \union {Nobody}] /\ overlapped' \in BOOLEAN
    BY <1>1, <1>5 DEF LicensingTypeOK
  <2> QED
    BY <2>1, <2>2, <2>3, <1>4, <1>6, <1>7 DEF LicensingTypeOK
<1>9. ownerOf'[t] = AgentOf(t) /\ \A k \in Txns : k # t => ownerOf'[k] = ownerOf[k]
  BY <1>1 DEF LicensingTypeOK
<1>10. \A u \in Txns : RequestNamed(u)' /\ ReadsPair(u)'
  BY <1>1, <1>5, <1>9, CommitFacts
<1>11. CommittedNamed'
  BY <1>1, <1>3, <1>4, <1>5, <1>6, <1>9 DEF Named, CommittedNamed, LicensingTypeOK
<1>12. MachineOf(t) = req[t].by /\ MachineOf(AgentOf(t)) = req[t].by
  BY <1>3 DEF AgentOf, Reuses, Paired, MachineOf
<1>13. CommittedPaired'
  <2>1. Paired(licence.machine, licence.agent)'
    <3>1. Paired(licence'.machine, licence'.agent)
      <4>1. Paired(licence.machine, licence.agent)
        BY DEF Installed, CommittedPaired
      <4>2. CASE Reuses(t)
        BY <4>1, <4>2, <1>3, <1>6 DEF Reuses, AgentOf
      <4>3. CASE ~Reuses(t)
        <5>1. req[t].machine = Nobody /\ req[t].agent = Nobody /\ AgentOf(t) = t
          BY <4>3, <1>3 DEF Reuses, AgentOf, Paired
        <5> QED
          BY <5>1, <1>3, <1>6, <1>12 DEF Paired
      <4> QED
        BY <4>2, <4>3
    <3>2. licence'.agent \in Txns \union {Nobody}
      BY <1>6 DEF LicenceRow
    <3> QED
      BY <3>1, <3>2, <1>4 DEF Paired, MachineOf
  <2>2. ASSUME NEW k \in Txns, ownerOf'[k] # Nobody
        PROVE  MachineOf(k)' = MachineOf(ownerOf[k])'
    <3>1. ownerOf'[k] \in Txns
      BY <1>8, <2>2 DEF LicensingTypeOK
    <3>2. MachineOf(k) = MachineOf(ownerOf'[k])
      BY <2>2, <1>9, <1>12 DEF Installed, CommittedPaired
    <3> QED
      BY <3>1, <3>2, <1>4 DEF MachineOf
  <2> QED
    BY <2>1, <2>2 DEF CommittedPaired
<1>14. Sequential'
  <2> SUFFICES ASSUME ~overlapped'
               PROVE  OneOpen' /\ StillTrue' /\ TakesAllBack' /\ OneKey' /\ OneCustomer'
    BY DEF Sequential
  <2>1. ~overlapped /\ StillTrue /\ OneCustomer
    BY <1>1 DEF Sequential
  <2>2. OneOpen' /\ StillTrue' /\ TakesAllBack'
    BY <2>1, <1>1, <1>2, LastIsOver
  <2>3. active' = {t}
    BY <2>1, <1>1, <1>2, AllTakenBack
  <2>4. req[t].agent = licence.agent /\ req[t].tenant = licence.tenant
    BY <2>1, <1>2 DEF StillTrue
  <2>5. licence'.agent = AgentOf(t)
    BY <2>4, <1>6
  <2>6. OneKey'
    BY <2>3, <2>5, <1>9 DEF OneKey
  <2>7. OneCustomer'
    BY <2>1, <2>4, <1>6, <1>7 DEF OneCustomer
  <2> QED
    BY <2>2, <2>6, <2>7
<1> QED
  BY <1>8, <1>10, <1>11, <1>13, <1>14 DEF Named, Installed

\* Unbinding clears both columns or neither, and leaves no key without overlap.
LEMMA UnbindKeeps ==
  ASSUME LicInv, NEW t \in Txns, CommitUnbind(t)
  PROVE  LicInv'
<1> USE DEF LicInv
<1>1. /\ req[t].stage = "issued" /\ Finish(t)
      /\ revokes' = [revokes EXCEPT ![t] = {}] /\ behind' = [behind EXCEPT ![t] = {}]
      /\ licence' = Write(t, Nobody, Nobody)
      /\ active' = active \ revokes[t]
      /\ UNCHANGED <<tenants, agents, ownerOf, store, waiting, overlapped>>
  BY DEF CommitUnbind, Commits
<1>2. t \in Open /\ Paired(req[t].machine, req[t].agent)
  BY <1>1 DEF Open, Installed, ReadsPair
<1>3. /\ req' \in [Txns -> Request]
      /\ \A u \in Txns : MachineOf(u)' = MachineOf(u)
      /\ \A a \in Past : a \in Past' /\ MachineOf(a)' = MachineOf(a)
  BY <1>1, FinishFacts
<1>4. /\ licence' \in LicenceRow /\ licence'.tenant = licence.tenant
      /\ licence'.machine = IF Nobody # req[t].machine THEN Nobody ELSE licence.machine
      /\ licence'.agent = IF Nobody # req[t].agent THEN Nobody ELSE licence.agent
  BY <1>1, WriteFacts
<1>5. LicensingTypeOK'
  BY <1>1, <1>3, <1>4 DEF LicensingTypeOK
<1>6. \A u \in Txns : RequestNamed(u)' /\ ReadsPair(u)'
  BY <1>1, CommitFacts
<1>7. CommittedNamed'
  BY <1>1, <1>3, <1>4 DEF Named, CommittedNamed
<1>8. CommittedPaired'
  <2>1. licence.agent \in Txns \union {Nobody} /\ Paired(licence.machine, licence.agent)
    BY DEF LicensingTypeOK, LicenceRow, Installed, CommittedPaired
  <2>2. Paired(licence.machine, licence.agent)'
    BY <2>1, <1>2, <1>3, <1>4 DEF Paired, MachineOf
  <2>3. ASSUME NEW k \in Txns, ownerOf'[k] # Nobody
        PROVE  MachineOf(k)' = MachineOf(ownerOf[k])'
    <3>1. ownerOf[k] \in Txns /\ MachineOf(k) = MachineOf(ownerOf[k]) /\ ownerOf' = ownerOf
      BY <2>3, <1>1 DEF LicensingTypeOK, Installed, CommittedPaired
    <3> QED
      BY <3>1, <1>3 DEF MachineOf
  <2> QED
    BY <2>2, <2>3 DEF CommittedPaired
<1>9. Sequential'
  <2> SUFFICES ASSUME ~overlapped'
               PROVE  OneOpen' /\ StillTrue' /\ TakesAllBack' /\ OneKey' /\ OneCustomer'
    BY DEF Sequential
  <2>1. ~overlapped /\ OneCustomer
    BY <1>1 DEF Sequential
  <2>2. OneOpen' /\ StillTrue' /\ TakesAllBack'
    BY <2>1, <1>1, <1>2, LastIsOver
  <2>3. active' = {}
    BY <2>1, <1>1, <1>2, AllTakenBack
  <2> QED
    BY <2>1, <2>2, <2>3, <1>1, <1>4 DEF OneKey, OneCustomer
<1> QED
  BY <1>5, <1>6, <1>7, <1>8, <1>9 DEF Named, Installed

LEMMA RemoveKeeps ==
  ASSUME LicInv, NEW t \in Txns, CommitRemove(t)
  PROVE  LicInv'
<1> USE DEF LicInv
<1>1. /\ req[t].stage = "issued" /\ Finish(t)
      /\ revokes' = [revokes EXCEPT ![t] = {}] /\ behind' = [behind EXCEPT ![t] = {}]
      /\ agents' = agents \ {req[t].agent}
      /\ active' = active \ revokes[t]
      /\ UNCHANGED <<licence, tenants, ownerOf, store, waiting, overlapped>>
  BY DEF CommitRemove, Commits
<1>2. t \in Open
  BY <1>1 DEF Open
<1>3. /\ req' \in [Txns -> Request]
      /\ \A a \in Past : a \in Past' /\ MachineOf(a)' = MachineOf(a)
  BY <1>1, FinishFacts
<1>4. LicensingTypeOK'
  BY <1>1, <1>3 DEF LicensingTypeOK
<1>5. \A u \in Txns : RequestNamed(u)' /\ ReadsPair(u)'
  BY <1>1, CommitFacts
<1>6. CommittedNamed' /\ CommittedPaired'
  BY <1>1, <1>3, CommittedKept
<1>7. Sequential'
  <2> SUFFICES ASSUME ~overlapped'
               PROVE  OneOpen' /\ StillTrue' /\ TakesAllBack' /\ OneKey' /\ OneCustomer'
    BY DEF Sequential
  <2>1. ~overlapped /\ OneCustomer
    BY <1>1 DEF Sequential
  <2>2. OneOpen' /\ StillTrue' /\ TakesAllBack'
    BY <2>1, <1>1, <1>2, LastIsOver
  <2>3. active' = {}
    BY <2>1, <1>1, <1>2, AllTakenBack
  <2> QED
    BY <2>1, <2>2, <2>3, <1>1 DEF OneKey, OneCustomer
<1> QED
  BY <1>4, <1>5, <1>6, <1>7 DEF Named, Installed

\* A customer that claims the licence is its only one: it was free, or his.
LEMMA ClaimKeeps ==
  ASSUME LicInv, NEW t \in Txns, CommitClaim(t)
  PROVE  LicInv'
<1> USE DEF LicInv
<1>1. /\ req[t].stage = "read" /\ req[t].kind = "claim" /\ Finish(t)
      /\ licence' = [licence EXCEPT !.tenant = IF req[t].by # req[t].tenant THEN req[t].by
                                                                           ELSE @]
      /\ tenants' = [tenants EXCEPT ![req[t].by].licensed = TRUE]
      /\ UNCHANGED <<agents, ownerOf, active, revokes, behind, store, waiting, overlapped>>
  BY DEF CommitClaim
<1>2. t \in Open
  BY <1>1 DEF Open
<1>3. req[t].by \in Tenants /\ req[t].tenant \in {Nobody, req[t].by} /\ revokes[t] = {}
  BY <1>1, <1>2 DEF Named, RequestNamed
<1>4. /\ req' \in [Txns -> Request]
      /\ \A a \in Past : a \in Past' /\ MachineOf(a)' = MachineOf(a)
  BY <1>1, FinishFacts
<1>5. /\ licence' \in LicenceRow
      /\ licence'.machine = licence.machine /\ licence'.agent = licence.agent
      /\ licence'.tenant = IF req[t].by # req[t].tenant THEN req[t].by ELSE licence.tenant
  BY <1>1, <1>3 DEF LicensingTypeOK, LicenceRow
<1>6. tenants' \in [Tenants -> TenantRow]
      /\ \A d \in Tenants : d # req[t].by => tenants'[d] = tenants[d]
  BY <1>1, <1>3, LicensedFacts
<1>7. LicensingTypeOK'
  BY <1>1, <1>4, <1>5, <1>6 DEF LicensingTypeOK
<1>8. \A u \in Txns : RequestNamed(u)' /\ ReadsPair(u)'
  <2>1. revokes' = [revokes EXCEPT ![t] = {}]
    BY <1>1, <1>3 DEF LicensingTypeOK
  <2> QED
    BY <2>1, <1>1, CommitFacts
<1>9. CommittedNamed' /\ CommittedPaired'
  BY <1>1, <1>4, <1>5, CommittedKept
<1>10. Sequential'
  <2> SUFFICES ASSUME ~overlapped'
               PROVE  OneOpen' /\ StillTrue' /\ TakesAllBack' /\ OneKey' /\ OneCustomer'
    BY DEF Sequential
  <2>1. ~overlapped /\ StillTrue /\ OneKey /\ OneCustomer
    BY <1>1 DEF Sequential
  <2>2. OneOpen' /\ StillTrue' /\ TakesAllBack'
    BY <2>1, <1>1, <1>2, LastIsOver
  <2>3. licence'.tenant = req[t].by /\ licence.tenant \in {Nobody, req[t].by}
    BY <2>1, <1>2, <1>3, <1>5 DEF StillTrue
  <2>4. OneCustomer'
    BY <2>1, <2>3, <1>6, LicensingAssumption DEF OneCustomer
  <2>5. OneKey'
    BY <2>1, <1>1, <1>5 DEF OneKey
  <2> QED
    BY <2>2, <2>4, <2>5
<1> QED
  BY <1>7, <1>8, <1>9, <1>10 DEF Named, Installed

\* Steps of the machine, of time and of the customer's account, and stuttering.
LEMMA OutsideKeeps ==
  ASSUME LicInv, licence' \in LicenceRow,
         licence'.machine = licence.machine, licence'.agent = licence.agent,
         licence'.tenant = licence.tenant,
         tenants' \in [Tenants -> TenantRow],
         \A c \in Tenants : tenants'[c].licensed = tenants[c].licensed,
         store' \in [Machines -> Txns \union {Nobody}],
         waiting' \in [Machines -> Txns \union {Nobody}],
         UNCHANGED <<agents, ownerOf, active, req, revokes, behind, overlapped>>
  PROVE  LicInv'
<1> USE DEF LicInv
<1>1. LicensingTypeOK'
  BY DEF LicensingTypeOK
<1>2. Past' = Past /\ Open' = Open /\ \A a \in Past : MachineOf(a)' = MachineOf(a)
  BY DEF Past, Open, MachineOf
<1>3. CommittedNamed' /\ CommittedPaired'
  BY <1>2, CommittedKept
<1>4. ASSUME NEW t \in Txns PROVE RequestNamed(t)' /\ ReadsPair(t)'
  <2>1. RequestNamed(t) /\ ReadsPair(t)
    BY DEF Named, Installed
  <2> QED
    BY <2>1, <1>2 DEF RequestNamed, ReadsPair, Paired, MachineOf
<1>5. Sequential'
  <2> SUFFICES ASSUME ~overlapped'
               PROVE  OneOpen' /\ StillTrue' /\ TakesAllBack' /\ OneKey' /\ OneCustomer'
    BY DEF Sequential
  <2>1. OneOpen /\ StillTrue /\ TakesAllBack /\ OneKey /\ OneCustomer
    BY DEF Sequential
  <2>2. OneOpen' /\ StillTrue'
    BY <2>1, <1>2 DEF OneOpen, StillTrue
  <2>3. TakesAllBack'
    BY <2>1 DEF TakesAllBack, KeysOf, RevokedOwner, Reuses
  <2>4. OneKey' /\ OneCustomer'
    BY <2>1 DEF OneKey, OneCustomer
  <2> QED
    BY <2>2, <2>3, <2>4
<1> QED
  BY <1>1, <1>3, <1>4, <1>5 DEF Named, Installed

LEMMA AccountKeeps ==
  ASSUME LicInv, SuspendTenant \/ ReactivateTenant \/ DeleteTenant \/ Expires
  PROVE  LicInv'
<1> USE DEF LicInv
<1>1. licence \in LicenceRow /\ tenants \in [Tenants -> TenantRow]
      /\ store \in [Machines -> Txns \union {Nobody}]
      /\ waiting \in [Machines -> Txns \union {Nobody}]
  BY DEF LicensingTypeOK
<1>2. ASSUME NEW from, NEW to \in {"active", "suspended", "deleted"}, MoveTenant(from, to)
      PROVE  LicInv'
  <2>1. PICK c \in Tenants : tenants' = [tenants EXCEPT ![c].state = to]
    BY <1>2 DEF MoveTenant
  <2>2. [tenants[c] EXCEPT !.state = to] \in TenantRow
        /\ [tenants[c] EXCEPT !.state = to].licensed = tenants[c].licensed
    BY <1>1 DEF TenantRow
  <2>3. tenants' \in [Tenants -> TenantRow]
        /\ \A d \in Tenants : tenants'[d].licensed = tenants[d].licensed
    BY <1>1, <2>1, <2>2
  <2>4. UNCHANGED <<licence, agents, ownerOf, active, req, revokes, behind, store,
                    waiting, overlapped>>
    BY <1>2 DEF MoveTenant
  <2> QED
    BY <1>1, <2>3, <2>4, OutsideKeeps
<1>3. CASE Expires
  <2>1. licence' \in LicenceRow /\ licence'.machine = licence.machine
        /\ licence'.agent = licence.agent /\ licence'.tenant = licence.tenant
    BY <1>1, <1>3 DEF Expires, LicenceRow
  <2> QED
    BY <1>1, <1>3, <2>1, OutsideKeeps DEF Expires
<1> QED
  BY <1>2, <1>3 DEF SuspendTenant, ReactivateTenant, DeleteTenant

LEMMA MachineKeeps ==
  ASSUME LicInv, NEW m \in Machines,
         EnsureActivated(m) \/ GivesUpWaiting(m) \/ LosesCredentials(m)
  PROVE  LicInv'
<1>1. licence \in LicenceRow /\ tenants \in [Tenants -> TenantRow]
      /\ store \in [Machines -> Txns \union {Nobody}]
      /\ waiting \in [Machines -> Txns \union {Nobody}]
  BY DEF LicInv, LicensingTypeOK
<1>2. CASE EnsureActivated(m)
  <2>1. PICK t \in Unsent : req' = [req EXCEPT ![t].kind = "activate", ![t].by = m,
                                               ![t].stage = "sent"]
    BY <1>2 DEF EnsureActivated, Send
  <2>2. (CHOOSE u \in Unsent : TRUE) \in Txns
    BY DEF Unsent
  <2>3. waiting' \in [Machines -> Txns \union {Nobody}]
    BY <1>1, <1>2, <2>2 DEF EnsureActivated
  <2> QED
    BY <1>2, <2>1, <2>3, SendKeeps DEF EnsureActivated, Kinds
<1>3. CASE GivesUpWaiting(m)
  BY <1>1, <1>3, OutsideKeeps DEF GivesUpWaiting
<1>4. CASE LosesCredentials(m)
  BY <1>1, <1>4, OutsideKeeps DEF LosesCredentials
<1> QED
  BY <1>2, <1>3, <1>4

LEMMA AdminKeeps ==
  ASSUME LicInv, AdminAsks
  PROVE  LicInv'
<1>1. /\ UNCHANGED <<licence, tenants, agents, ownerOf, active, revokes, behind,
                     store, overlapped>>
      /\ UNCHANGED waiting
  BY DEF AdminAsks
<1>2. waiting' \in [Machines -> Txns \union {Nobody}]
  BY <1>1 DEF LicInv, LicensingTypeOK
<1>3. CASE Send("unbind", Nobody)
  <2>1. PICK t \in Unsent : req' = [req EXCEPT ![t].kind = "unbind", ![t].by = Nobody,
                                               ![t].stage = "sent"]
    BY <1>3 DEF Send
  <2> QED
    BY <1>1, <1>2, <2>1, SendKeeps DEF Kinds
<1>4. CASE Send("remove", Nobody)
  <2>1. PICK t \in Unsent : req' = [req EXCEPT ![t].kind = "remove", ![t].by = Nobody,
                                               ![t].stage = "sent"]
    BY <1>4 DEF Send
  <2> QED
    BY <1>1, <1>2, <2>1, SendKeeps DEF Kinds
<1>5. ASSUME NEW c \in Tenants, Send("claim", c) PROVE LicInv'
  <2>1. PICK t \in Unsent : req' = [req EXCEPT ![t].kind = "claim", ![t].by = c,
                                               ![t].stage = "sent"]
    BY <1>5 DEF Send
  <2> QED
    BY <1>1, <1>2, <2>1, SendKeeps DEF Kinds
<1> QED
  BY <1>3, <1>4, <1>5 DEF AdminAsks

LEMMA LicStep == LicInv /\ [LicensingNext]_licVars => LicInv'
<1> SUFFICES ASSUME LicInv, [LicensingNext]_licVars PROVE LicInv'
  OBVIOUS
<1>1. ASSUME NEW m \in Machines,
             EnsureActivated(m) \/ GivesUpWaiting(m) \/ LosesCredentials(m)
      PROVE  LicInv'
  BY <1>1, MachineKeeps
<1>2. CASE AdminAsks
  BY <1>2, AdminKeeps
<1>3. ASSUME NEW t \in Txns,
             \/ Read(t) \/ Reject(t) \/ IssueAgentCredentials(t)
             \/ AgentNotFound(t) \/ CommitActivation(t) \/ CommitUnbind(t)
             \/ CommitRemove(t) \/ CommitClaim(t)
      PROVE  LicInv'
  BY <1>3, ReadKeeps, RejectKeeps, IssueKeeps, ActivationKeeps, UnbindKeeps, RemoveKeeps,
     ClaimKeeps
<1>4. CASE SuspendTenant \/ ReactivateTenant \/ DeleteTenant \/ Expires
  BY <1>4, AccountKeeps
<1>5. CASE UNCHANGED licVars
  <2>1. licence \in LicenceRow /\ tenants \in [Tenants -> TenantRow]
        /\ store \in [Machines -> Txns \union {Nobody}]
        /\ waiting \in [Machines -> Txns \union {Nobody}]
    BY DEF LicInv, LicensingTypeOK
  <2> QED
    BY <1>5, <2>1, OutsideKeeps DEF licVars
<1> QED
  BY <1>1, <1>2, <1>3, <1>4, <1>5 DEF LicensingNext

LEMMA LicInvAlways == LicensingSpec => []LicInv
BY LicInitHolds, LicStep, PTL DEF LicensingSpec

(***************************************************************************)
(* The theorems                                                            *)
(***************************************************************************)
\* Every variable keeps its type, for any number of requests and machines.
THEOREM LicensingTypeAlwaysOK == LicensingSpec => []LicensingTypeOK
<1>1. LicInv => LicensingTypeOK
  BY DEF LicInv
<1> QED
  BY <1>1, LicInvAlways, PTL

\* However many activations, unbindings, removals and claims interleave, the
\* machine and the agent of a licence come from one installation; and if no two
\* of them overlap, it has one key and one customer (EdgeService.activate, unbind).
THEOREM OneInstallationAlways == LicensingSpec => []OneInstallation
<1>1. LicInv => OneInstallation
  <2> SUFFICES ASSUME LicInv PROVE OneInstallation
    OBVIOUS
  <2>1. Paired(licence.machine, licence.agent)
    BY DEF LicInv, Installed, CommittedPaired
  <2>2. ASSUME ~overlapped, NEW k \in active
        PROVE  ownerOf[k] = licence.agent /\ MachineOf(k) = licence.machine
    <3>1. k \in Txns /\ ownerOf[k] = licence.agent /\ ownerOf[k] # Nobody
      BY <2>2 DEF LicInv, Sequential, OneKey, Named, CommittedNamed, LicensingTypeOK
    <3>2. MachineOf(k) = MachineOf(licence.agent)
      BY <3>1 DEF LicInv, Installed, CommittedPaired
    <3> QED
      BY <2>1, <3>1, <3>2 DEF Paired
  <2>3. ASSUME ~overlapped PROVE Cardinality(active) <= 1
    <3>1. CASE active = {}
      BY <3>1, FS_EmptySet
    <3>2. ASSUME NEW k \in active PROVE Cardinality(active) <= 1
      <4>1. active = {k}
        BY <2>3, <3>2 DEF LicInv, Sequential, OneKey
      <4> QED
        BY <4>1, FS_Singleton
    <3> QED
      BY <3>1, <3>2
  <2>4. ~overlapped => OneCustomer
    BY DEF LicInv, Sequential
  <2> QED
    BY <2>1, <2>2, <2>3, <2>4 DEF OneInstallation, Paired, OneCustomer
<1> QED
  BY <1>1, LicInvAlways, PTL

\* A key dies only by an admin's request or by an activation of its own machine,
\* whatever races (ApiKeyRepository.revoke_by_owner).
THEOREM OnlyOwnerOrAdminAlways == LicensingSpec => OnlyOwnerOrAdminRevokes
<1> DEFINE Taken(k) == \E t \in Txns :
             /\ req[t].stage = "issued" /\ req'[t].stage = "over"
             /\ req[t].kind \in {"unbind", "remove"} \/ req[t].by = MachineOf(k)
<1>1. ASSUME LicInv, [LicensingNext]_licVars
      PROVE  [\A k \in active \ active' : Taken(k)]_licVars
  <2> SUFFICES ASSUME NEW k \in active \ active' PROVE Taken(k)
    BY DEF licVars
  <2>1. PICK t \in Txns : \/ CommitActivation(t) /\ active' = (active \ revokes[t]) \union {t}
                          \/ CommitUnbind(t) /\ active' = active \ revokes[t]
                          \/ CommitRemove(t) /\ active' = active \ revokes[t]
    BY <1>1 DEF LicensingNext, licVars, EnsureActivated, GivesUpWaiting, LosesCredentials,
                AdminAsks, Read, Reject, IssueAgentCredentials, AgentNotFound,
                CommitActivation, CommitUnbind, CommitRemove, CommitClaim, SuspendTenant,
                ReactivateTenant, DeleteTenant, MoveTenant, Expires
  <2>2. k \in revokes[t]
    BY <2>1
  <2>3. req[t].stage = "issued" /\ Finish(t)
    BY <2>1 DEF CommitActivation, CommitUnbind, CommitRemove, Commits
  <2>4. req'[t].stage = "over"
    BY <1>1, <2>3, FinishFacts DEF LicInv
  <2>5. req[t].kind \in {"unbind", "remove"} \/ req[t].kind = "activate"
    BY <2>1 DEF CommitActivation, CommitUnbind, CommitRemove
  <2>6. req[t].kind = "activate" => req[t].by = MachineOf(k)
    BY <1>1, <2>2 DEF LicInv, Installed, ReadsPair
  <2> QED
    BY <2>3, <2>4, <2>5, <2>6
<1> QED
  BY <1>1, LicInvAlways, PTL DEF LicensingSpec, OnlyOwnerOrAdminRevokes

(***************************************************************************)
(* EdgeCredentials: the file holds the key that the server knows. The      *)
(* inductive invariant follows a key from the answer of the server to the  *)
(* file, through service and command line, and explains every file that is *)
(* torn.                                                                   *)
(***************************************************************************)
ServiceSteps == {"down", "asking", "answered", "writing", "running", "beaten",
                 "loaded", "updating", "revoked", "deaf"}
CliSteps == {"idle", "asking", "answered", "writing"}

StepsKnown ==
  /\ credStep \in [CredPrograms -> ServiceSteps \cup CliSteps]
  /\ credStep["service"] \in ServiceSteps /\ credStep["cli"] \in CliSteps
\* A program that runs has credentials, and one that writes has something to write.
DraftsHeld ==
  /\ \A w \in CredPrograms : drafted[w] # Absent <=> ChangesFile(w)
  /\ credStep["service"] \in {"running", "beaten", "loaded", "updating", "revoked", "deaf"} =>
       inUse # Absent

\* Unless they crossed, one program at a time is between reading and writing, and who
\* writes finds the file as it left it.
Alone ==
  ~credCrossed =>
    /\ ~(ChangesFile("service") /\ ChangesFile("cli"))
    /\ \A w \in CredPrograms : credStep[w] \in {"writing", "updating"} => agentJson = Torn
TornExplained ==
  agentJson = Torn => (\E w \in CredPrograms : ChangesFile(w)) \/ credCrashes > 0 \/ credCrossed

\* Unless a key strayed, the file has the last key as soon as its answer is written,
\* and what will be written has it before.
LastKeyHeld ==
  ~keyStrayed /\ ~credCrossed =>
    /\ \A w \in CredPrograms : ChangesFile(w) => drafted[w].key = keysIssued
    /\ FileReadable /\ (\A w \in CredPrograms : credStep[w] # "answered") =>
         agentJson.key = keysIssued

\* The key that somebody is about to write by hand is nobody else's yet.
KeysApart ==
  /\ FileReadable => agentJson.key <= keysIssued
  /\ inUse # Absent => inUse.key <= keysIssued
  /\ \A w \in CredPrograms : drafted[w] # Absent => drafted[w].key <= keysIssued
  /\ drafted["cli"] # Absent =>
       /\ FileReadable => agentJson.key # drafted["cli"].key
       /\ inUse # Absent => inUse.key # drafted["cli"].key
       /\ drafted["service"] # Absent => drafted["service"].key # drafted["cli"].key

\* The limits of a key in the file are the ones the service works with.
TermsAgree ==
  /\ FileReadable /\ credStep["service"] \in {"running", "beaten"} /\ agentJson.key = inUse.key =>
       agentJson.policy = inUse.policy
  /\ credStep["service"] \in {"loaded", "updating"} =>
       drafted["service"].policy = inUse.policy

CredentialsInv ==
  /\ CredentialsTypeOK /\ StepsKnown /\ DraftsHeld /\ Alone /\ TornExplained
  /\ LastKeyHeld /\ KeysApart /\ TermsAgree

LEMMA CredentialsStart == CredentialsInit => CredentialsInv
<1> SUFFICES ASSUME CredentialsInit PROVE CredentialsInv
  OBVIOUS
<1>1. credStep["service"] = "down" /\ credStep["cli"] = "idle"
      /\ credStep \in [CredPrograms -> ServiceSteps \cup CliSteps]
  BY DEF CredentialsInit, CredRest, CredPrograms, ServiceSteps, CliSteps
<1>2. /\ agentJson = Absent /\ inUse = Absent /\ credCrossed = FALSE /\ keyStrayed = FALSE
      /\ keysIssued = 0 /\ credCrashes = 0 /\ drafted = [w \in CredPrograms |-> Absent]
      /\ licenceTerms \in EdgePolicies /\ answeredTerms \in EdgePolicies
      /\ keyInEnv \in BOOLEAN
  BY DEF CredentialsInit
<1>3. ~FileReadable /\ \A w \in CredPrograms : drafted[w] = Absent /\ ~ChangesFile(w)
  BY <1>1, <1>2 DEF FileReadable, ChangesFile, CredPrograms
<1>4. agentJson # Torn
  BY <1>2, CredentialsAssumption
<1>5. CredentialsTypeOK
  <2>1. drafted \in [CredPrograms -> AgentCredentials \union {Absent}]
    BY <1>2
  <2>2. keyStrayed \in BOOLEAN /\ credCrossed \in BOOLEAN
    BY <1>2
  <2>3. keysIssued \in 0..MaxKeys /\ credCrashes \in 0..MaxCrashes
    BY <1>2, CredentialsAssumption
  <2> QED
    BY <1>1, <1>2, <2>1, <2>2, <2>3 DEF CredentialsTypeOK
<1>6. StepsKnown
  BY <1>1 DEF StepsKnown, ServiceSteps, CliSteps
<1>7. DraftsHeld /\ TermsAgree
  BY <1>1, <1>3 DEF DraftsHeld, TermsAgree
<1>8. Alone
  BY <1>1, <1>3 DEF Alone, CredPrograms
<1>9. LastKeyHeld /\ KeysApart /\ TornExplained
  BY <1>2, <1>3, <1>4 DEF LastKeyHeld, KeysApart, TornExplained, CredPrograms
<1> QED
  BY <1>5, <1>6, <1>7, <1>8, <1>9 DEF CredentialsInv

\* A step that leaves the file and the drafts alone, and what the service works with
\* unless it starts or stops: the programs change between reading and writing only by
\* asking, starting and stopping.
LEMMA QuietCredentialsKeep ==
  ASSUME CredentialsInv, NEW w \in CredPrograms, NEW to, CredGoes(w, to),
         UNCHANGED <<agentJson, keyStrayed, credCrashes, drafted, credCrossed, keysIssued>>,
         licenceTerms' \in EdgePolicies, answeredTerms' \in EdgePolicies,
         keyInEnv' \in BOOLEAN,
         ~ChangesFile(w),
         to \in IF w = "service" THEN {"down", "asking", "running", "beaten", "revoked"}
                ELSE {"idle", "asking"},
         \/ inUse' = inUse /\ (to \in {"running", "beaten", "revoked"} =>
                                credStep["service"] \in {"running", "beaten"})
         \/ inUse' = Absent /\ w = "service" /\ to = "down"
         \/ inUse' = agentJson /\ FileReadable /\ w = "service" /\ to = "running"
  PROVE  CredentialsInv'
<1>1. /\ credStep \in [CredPrograms -> ServiceSteps \cup CliSteps]
      /\ credStep["service"] \in ServiceSteps /\ credStep["cli"] \in CliSteps
  BY DEF CredentialsInv, StepsKnown
<1>2. /\ credStep' \in [CredPrograms -> ServiceSteps \cup CliSteps]
      /\ credStep'[w] = to /\ \A v \in CredPrograms : v # w => credStep'[v] = credStep[v]
  BY <1>1 DEF CredGoes, ServiceSteps, CliSteps
<1>3. "service" \in CredPrograms /\ "cli" \in CredPrograms
  BY DEF CredPrograms
<1>4. StepsKnown'
  BY <1>1, <1>2, <1>3 DEF StepsKnown, ServiceSteps, CliSteps
<1>5. inUse' \in AgentCredentials \cup {Absent}
  BY DEF CredentialsInv, CredentialsTypeOK, FileReadable
<1>6. CredentialsTypeOK'
  BY <1>4, <1>5 DEF StepsKnown, ServiceSteps, CliSteps, CredentialsInv, CredentialsTypeOK
<1>7. \A v \in CredPrograms : ChangesFile(v)' <=> ChangesFile(v)
  BY <1>2 DEF ChangesFile
<1>8. FileReadable' <=> FileReadable
  BY DEF FileReadable
<1>9. DraftsHeld'
  <2>1. \A v \in CredPrograms : drafted'[v] # Absent <=> ChangesFile(v)'
    BY <1>7 DEF CredentialsInv, DraftsHeld
  <2>2. ASSUME credStep'["service"] \in {"running", "beaten", "loaded", "updating", "revoked",
                                        "deaf"}
        PROVE  inUse' # Absent
    BY <1>2, <1>3, <2>2 DEF CredentialsInv, DraftsHeld, FileReadable
  <2> QED
    BY <2>1, <2>2 DEF DraftsHeld
<1>10. Alone'
  BY <1>2, <1>3, <1>7 DEF CredentialsInv, Alone
<1>11. TornExplained'
  BY <1>7 DEF CredentialsInv, TornExplained
<1>12. LastKeyHeld'
  BY <1>2, <1>7, <1>8 DEF CredentialsInv, LastKeyHeld, ChangesFile
<1>13. KeysApart'
  BY <1>3, <1>8 DEF CredentialsInv, KeysApart, FileReadable
<1>14. TermsAgree'
  BY <1>2, <1>3, <1>8 DEF CredentialsInv, TermsAgree
<1> QED
  BY <1>4, <1>6, <1>9, <1>10, <1>11, <1>12, <1>13, <1>14 DEF CredentialsInv
\* Who is at work, and where a step leads it.
LEMMA StepsGo ==
  ASSUME CredentialsInv, NEW w \in CredPrograms, NEW to, CredGoes(w, to),
         to \in IF w = "service" THEN ServiceSteps ELSE CliSteps
  PROVE  /\ StepsKnown' /\ credStep'[w] = to
         /\ \A v \in CredPrograms : v # w => credStep'[v] = credStep[v]
         /\ \A v \in CredPrograms : v # w => (ChangesFile(v)' <=> ChangesFile(v))
         /\ ChangesFile(w)' <=> to \in {"answered", "loaded", "writing", "updating"}
         /\ "service" \in CredPrograms /\ "cli" \in CredPrograms
         /\ w = "service" \/ w = "cli"
<1>1. /\ credStep \in [CredPrograms -> ServiceSteps \cup CliSteps]
      /\ credStep["service"] \in ServiceSteps /\ credStep["cli"] \in CliSteps
  BY DEF CredentialsInv, StepsKnown
<1>2. /\ "service" \in CredPrograms /\ "cli" \in CredPrograms
      /\ w = "service" \/ w = "cli"
  BY DEF CredPrograms
<1>3. /\ credStep' \in [CredPrograms -> ServiceSteps \cup CliSteps]
      /\ credStep'[w] = to /\ \A v \in CredPrograms : v # w => credStep'[v] = credStep[v]
  BY <1>1, <1>2 DEF CredGoes
<1>4. StepsKnown'
  BY <1>1, <1>2, <1>3 DEF StepsKnown
<1>5. /\ \A v \in CredPrograms : v # w => (ChangesFile(v)' <=> ChangesFile(v))
      /\ ChangesFile(w)' <=> to \in {"answered", "loaded", "writing", "updating"}
  BY <1>3 DEF ChangesFile
<1> QED
  BY <1>2, <1>3, <1>4, <1>5

\* A key is issued: its answer arrives, or the key strays.
LEMMA ActivateKeeps ==
  ASSUME CredentialsInv, NEW w \in CredPrograms, ActivateKey(w)
  PROVE  CredentialsInv'
<1>1. /\ credStep[w] = "asking" /\ keysIssued < MaxKeys /\ keysIssued' = keysIssued + 1
      /\ UNCHANGED <<agentJson, licenceTerms, keyInEnv, inUse, answeredTerms, credCrashes>>
      /\ ~ChangesFile(w)
  BY DEF ActivateKey, ChangesFile
<1>2. /\ keysIssued \in Nat /\ MaxKeys \in Nat /\ licenceTerms \in EdgePolicies
      /\ drafted \in [CredPrograms -> AgentCredentials \cup {Absent}]
      /\ credCrossed \in BOOLEAN /\ keyStrayed \in BOOLEAN
  BY CredentialsAssumption DEF CredentialsInv, CredentialsTypeOK
<1>3. FileReadable' <=> FileReadable
  BY <1>1 DEF FileReadable
<1>4. ASSUME NEW x \in AgentCredentials, x.key = keysIssued + 1,
             drafted' = [drafted EXCEPT ![w] = x],
             CredGoes(w, "answered"), CredCrosses(w), UNCHANGED keyStrayed
      PROVE  CredentialsInv'
  <2>1. /\ StepsKnown' /\ credStep'[w] = "answered"
        /\ \A v \in CredPrograms : v # w => credStep'[v] = credStep[v]
        /\ \A v \in CredPrograms : v # w => (ChangesFile(v)' <=> ChangesFile(v))
        /\ ChangesFile(w)'
        /\ "service" \in CredPrograms /\ "cli" \in CredPrograms
        /\ w = "service" \/ w = "cli"
    BY <1>4, StepsGo DEF ServiceSteps, CliSteps
  <2>2. /\ drafted'[w] = x /\ \A v \in CredPrograms : v # w => drafted'[v] = drafted[v]
        /\ drafted' \in [CredPrograms -> AgentCredentials \cup {Absent}] /\ x # Absent
    BY <1>2, <1>4, CredentialsAssumption
  <2>3. credCrossed' = (credCrossed \/ \E v \in CredPrograms \ {w} : ChangesFile(v))
    BY <1>4 DEF CredCrosses
  <2>4. credCrossed' \in BOOLEAN
    BY <2>3, <1>2
  <2>5. CredentialsTypeOK'
    BY <1>1, <1>2, <1>4, <2>1, <2>2, <2>4 DEF CredentialsInv, CredentialsTypeOK, StepsKnown,
       ServiceSteps, CliSteps
  <2>6. DraftsHeld'
    BY <1>1, <2>1, <2>2 DEF CredentialsInv, DraftsHeld
  <2>7. Alone'
    BY <1>1, <2>1, <2>3 DEF CredentialsInv, Alone
  <2>8. TornExplained'
    BY <2>1 DEF TornExplained
  <2>9. LastKeyHeld'
    BY <1>1, <1>3, <1>4, <2>1, <2>2, <2>3 DEF CredentialsInv, LastKeyHeld
  <2>10. KeysApart'
    <3>1. /\ FileReadable => agentJson.key <= keysIssued /\ agentJson.key \in Nat
          /\ inUse # Absent => inUse.key <= keysIssued /\ inUse.key \in Nat
          /\ \A v \in CredPrograms : drafted[v] # Absent =>
                drafted[v].key <= keysIssued /\ drafted[v].key \in Nat
      BY <1>2 DEF CredentialsInv, KeysApart, CredentialsTypeOK, AgentCredentials, FileReadable
    <3>2. /\ FileReadable' => agentJson'.key <= keysIssued' /\ agentJson'.key # x.key
          /\ inUse' # Absent => inUse'.key <= keysIssued' /\ inUse'.key # x.key
          /\ \A v \in CredPrograms : v # w /\ drafted'[v] # Absent =>
                drafted'[v].key <= keysIssued' /\ drafted'[v].key # x.key
      BY <1>1, <1>2, <1>3, <1>4, <2>2, <3>1
    <3>3. x.key <= keysIssued'
      BY <1>1, <1>2, <1>4
    <3> QED
      BY <1>1, <1>3, <2>1, <2>2, <3>2, <3>3 DEF CredentialsInv, KeysApart
  <2>11. TermsAgree'
    BY <1>1, <1>3, <2>1, <2>2 DEF CredentialsInv, TermsAgree
  <2> QED
    BY <2>1, <2>5, <2>6, <2>7, <2>8, <2>9, <2>10, <2>11 DEF CredentialsInv
<1>5. ASSUME keyStrayed' = TRUE, CredGoes(w, CredRest(w)), UNCHANGED <<drafted, credCrossed>>
      PROVE  CredentialsInv'
  <2>1. /\ StepsKnown' /\ credStep'[w] \in {"down", "idle"}
        /\ \A v \in CredPrograms : v # w => credStep'[v] = credStep[v]
        /\ \A v \in CredPrograms : v # w => (ChangesFile(v)' <=> ChangesFile(v))
        /\ ~ChangesFile(w)'
        /\ "service" \in CredPrograms /\ "cli" \in CredPrograms
        /\ w = "service" \/ w = "cli"
    BY <1>5, StepsGo DEF ServiceSteps, CliSteps, CredRest
  <2>2. keyStrayed' \in BOOLEAN
    BY <1>5
  <2>3. CredentialsTypeOK'
    BY <1>1, <1>2, <1>5, <2>1, <2>2 DEF CredentialsInv, CredentialsTypeOK, StepsKnown,
       ServiceSteps, CliSteps
  <2>4. DraftsHeld'
    BY <1>1, <1>5, <2>1 DEF CredentialsInv, DraftsHeld
  <2>5. Alone'
    BY <1>1, <1>5, <2>1 DEF CredentialsInv, Alone
  <2>6. TornExplained'
    BY <1>1, <1>5, <2>1 DEF CredentialsInv, TornExplained
  <2>7. LastKeyHeld'
    BY <1>5 DEF LastKeyHeld
  <2>8. KeysApart'
    <3>1. /\ FileReadable => agentJson.key \in Nat
          /\ inUse # Absent => inUse.key \in Nat
          /\ \A v \in CredPrograms : drafted[v] # Absent => drafted[v].key \in Nat
      BY <1>2 DEF CredentialsInv, KeysApart, CredentialsTypeOK, AgentCredentials, FileReadable
    <3> QED
      BY <1>1, <1>2, <1>3, <1>5, <3>1 DEF CredentialsInv, KeysApart
  <2>9. TermsAgree'
    BY <1>1, <1>3, <1>5, <2>1 DEF CredentialsInv, TermsAgree
  <2> QED
    BY <2>1, <2>3, <2>4, <2>5, <2>6, <2>7, <2>8, <2>9 DEF CredentialsInv
<1>6. [key |-> keysIssued + 1, policy |-> licenceTerms] \in AgentCredentials
  BY <1>1, <1>2 DEF AgentCredentials, EdgePolicy
<1> QED
  BY <1>4, <1>5, <1>6 DEF ActivateKey

\* The file is opened, and empty.
LEMMA OpensKeeps ==
  ASSUME CredentialsInv, NEW w \in CredPrograms, OpensFile(w)
  PROVE  CredentialsInv'
<1>1. /\ credStep[w] \in {"answered", "loaded"} /\ agentJson' = Torn
      /\ CredGoes(w, IF credStep[w] = "answered" THEN "writing" ELSE "updating")
      /\ UNCHANGED <<keyInEnv, inUse, keyStrayed, credCrashes, drafted, credCrossed,
                     licenceTerms, keysIssued, answeredTerms>>
      /\ ChangesFile(w)
  BY DEF OpensFile, ChangesFile, fileVars, serverVars
<1>2. credStep[w] = "loaded" => w = "service"
  BY DEF CredentialsInv, StepsKnown, CredPrograms, CliSteps
<1>3. /\ StepsKnown' /\ credStep'[w] \in {"writing", "updating"}
      /\ credStep'[w] = "updating" => credStep[w] = "loaded"
      /\ \A v \in CredPrograms : v # w => credStep'[v] = credStep[v]
      /\ \A v \in CredPrograms : v # w => (ChangesFile(v)' <=> ChangesFile(v))
      /\ ChangesFile(w)'
      /\ "service" \in CredPrograms /\ "cli" \in CredPrograms
      /\ w = "service" \/ w = "cli"
  BY <1>1, <1>2, StepsGo DEF ServiceSteps, CliSteps
<1>4. ~FileReadable'
  BY <1>1 DEF FileReadable
<1>5. CredentialsTypeOK'
  BY <1>1, <1>3 DEF CredentialsInv, CredentialsTypeOK, StepsKnown, ServiceSteps, CliSteps
<1>6. DraftsHeld'
  BY <1>1, <1>3 DEF CredentialsInv, DraftsHeld
<1>7. Alone' /\ TornExplained'
  BY <1>1, <1>3 DEF CredentialsInv, Alone, TornExplained
<1>8. LastKeyHeld'
  BY <1>1, <1>3, <1>4 DEF CredentialsInv, LastKeyHeld
<1>9. KeysApart'
  BY <1>1, <1>4 DEF CredentialsInv, KeysApart
<1>10. TermsAgree'
  BY <1>1, <1>3, <1>4 DEF CredentialsInv, TermsAgree
<1> QED
  BY <1>3, <1>5, <1>6, <1>7, <1>8, <1>9, <1>10 DEF CredentialsInv
\* What was drafted is written, or what was written before is left behind it.
LEMMA SaveKeeps ==
  ASSUME CredentialsInv, NEW w \in CredPrograms, SaveCredentials(w)
  PROVE  CredentialsInv'
<1> DEFINE x == drafted[w]
<1>1. /\ credStep[w] \in {"writing", "updating"} /\ agentJson' \in FileWritten(w)
      /\ inUse' = (IF w = "service" /\ credStep[w] = "writing" THEN x ELSE inUse)
      /\ drafted' = [drafted EXCEPT ![w] = Absent]
      /\ CredGoes(w, IF w = "service" THEN "running" ELSE "idle")
      /\ UNCHANGED <<keyInEnv, keyStrayed, credCrossed, credCrashes, licenceTerms, keysIssued,
                     answeredTerms>>
      /\ ChangesFile(w)
  BY DEF SaveCredentials, ChangesFile, serverVars
<1>2. /\ drafted \in [CredPrograms -> AgentCredentials \cup {Absent}]
      /\ x \in AgentCredentials /\ x # Absent /\ x # Torn
  <2>1. x # Absent /\ drafted \in [CredPrograms -> AgentCredentials \cup {Absent}]
    BY <1>1 DEF CredentialsInv, DraftsHeld, CredentialsTypeOK
  <2>2. x \in AgentCredentials
    BY <2>1
  <2> QED
    BY <2>1, <2>2 DEF AgentCredentials, Torn
<1> HIDE DEF x
<1>3. /\ StepsKnown' /\ credStep'[w] \in {"running", "idle"} /\ ~ChangesFile(w)'
      /\ credStep'[w] = "running" => w = "service"
      /\ \A v \in CredPrograms : v # w => credStep'[v] = credStep[v]
      /\ \A v \in CredPrograms : v # w => (ChangesFile(v)' <=> ChangesFile(v))
      /\ "service" \in CredPrograms /\ "cli" \in CredPrograms
      /\ w = "service" \/ w = "cli"
  BY <1>1, StepsGo DEF ServiceSteps, CliSteps
<1>4. /\ agentJson' = x \/ (agentJson' = Torn /\ agentJson # Torn)
      /\ agentJson' \in AgentCredentials \cup {Torn}
  BY <1>1, <1>2 DEF FileWritten, x
<1>5. agentJson' = Torn => credCrossed
  BY <1>1, <1>2, <1>4 DEF CredentialsInv, Alone
<1>6. /\ drafted'[w] = Absent /\ \A v \in CredPrograms : v # w => drafted'[v] = drafted[v]
      /\ drafted' \in [CredPrograms -> AgentCredentials \cup {Absent}]
  BY <1>1, <1>2
<1>7. inUse' \in AgentCredentials \cup {Absent}
  BY <1>1, <1>2 DEF CredentialsInv, CredentialsTypeOK
<1>8. CredentialsTypeOK'
  BY <1>1, <1>3, <1>4, <1>6, <1>7 DEF CredentialsInv, CredentialsTypeOK, StepsKnown,
     ServiceSteps, CliSteps
<1>9. DraftsHeld'
  <2>1. \A v \in CredPrograms : drafted'[v] # Absent <=> ChangesFile(v)'
    BY <1>3, <1>6 DEF CredentialsInv, DraftsHeld
  <2>2. ASSUME credStep'["service"] \in {"running", "beaten", "loaded", "updating", "revoked",
                                        "deaf"}
        PROVE  inUse' # Absent
    BY <1>1, <1>2, <1>3, <2>2 DEF CredentialsInv, DraftsHeld
  <2> QED
    BY <2>1, <2>2 DEF DraftsHeld
<1>a. ASSUME ~credCrossed, NEW v \in CredPrograms PROVE ~ChangesFile(v)'
  <2>1. v = w \/ ~ChangesFile(v)
    BY <1>a, <1>1 DEF CredentialsInv, Alone, CredPrograms
  <2> QED
    BY <1>3, <2>1
<1>10. Alone'
  BY <1>1, <1>3, <1>a DEF Alone, ChangesFile
<1>11. TornExplained'
  BY <1>1, <1>5 DEF TornExplained
<1>12. LastKeyHeld'
  <2>1. ~keyStrayed /\ ~credCrossed => agentJson' = x /\ x.key = keysIssued
    BY <1>1, <1>4, <1>5 DEF CredentialsInv, LastKeyHeld, x
  <2> QED
    BY <1>1, <1>a, <2>1 DEF LastKeyHeld
<1>13. FileReadable' => agentJson' = x
  BY <1>4 DEF FileReadable
<1>14. KeysApart'
  <2>1. x.key <= keysIssued
    BY <1>2 DEF CredentialsInv, KeysApart, x
  <2>2. CASE w = "service"
    <3>1. /\ FileReadable' => agentJson'.key <= keysIssued
          /\ inUse' # Absent => inUse'.key <= keysIssued
          /\ \A v \in CredPrograms : drafted'[v] # Absent => drafted'[v].key <= keysIssued
      BY <1>1, <1>6, <1>13, <2>1 DEF CredentialsInv, KeysApart
    <3>2. ASSUME drafted["cli"] # Absent
          PROVE  /\ x.key # drafted["cli"].key
                 /\ inUse # Absent => inUse.key # drafted["cli"].key
      BY <1>2, <2>2, <3>2 DEF CredentialsInv, KeysApart, x
    <3>3. drafted'["cli"] = drafted["cli"] /\ drafted'["service"] = Absent
      BY <1>3, <1>6, <2>2
    <3> QED
      BY <1>1, <1>13, <3>1, <3>2, <3>3 DEF KeysApart
  <2>3. CASE w = "cli"
    BY <1>1, <1>3, <1>6, <1>13, <2>1, <2>3 DEF CredentialsInv, KeysApart
  <2> QED
    BY <1>3, <2>2, <2>3
<1>15. TermsAgree'
  <2>1. CASE w = "service"
    <3>1. credStep[w] = "updating" => x.policy = inUse.policy
      BY <2>1 DEF CredentialsInv, TermsAgree, x
    <3>2. FileReadable' => agentJson'.policy = inUse'.policy
      BY <1>1, <1>13, <2>1, <3>1
    <3> QED
      BY <1>3, <2>1, <3>2 DEF TermsAgree
  <2>2. CASE w = "cli"
    <3>1. inUse' = inUse /\ credStep'["service"] = credStep["service"]
          /\ drafted'["service"] = drafted["service"]
      BY <1>1, <1>3, <1>6, <2>2
    <3>2. inUse # Absent => inUse.key # x.key
      BY <1>2, <2>2 DEF CredentialsInv, KeysApart, x
    <3>3. credStep["service"] \in {"running", "beaten"} => inUse # Absent
      BY DEF CredentialsInv, DraftsHeld
    <3> QED
      BY <1>13, <3>1, <3>2, <3>3 DEF CredentialsInv, TermsAgree
  <2> QED
    BY <1>3, <2>1, <2>2
<1> QED
  BY <1>3, <1>8, <1>9, <1>10, <1>11, <1>12, <1>14, <1>15 DEF CredentialsInv

\* New limits: the service works with them at once, and writes them if it can read
\* the file.
LEMMA SyncKeeps ==
  ASSUME CredentialsInv, SyncPolicy, answeredTerms # inUse.policy
  PROVE  CredentialsInv'
<1> DEFINE u == [inUse EXCEPT !.policy = answeredTerms]
<1> DEFINE x == [agentJson EXCEPT !.policy = answeredTerms]
<1>1. /\ credStep["service"] = "beaten" /\ inUse' = u /\ UpdatePolicy(answeredTerms)
      /\ UNCHANGED <<agentJson, keyInEnv, keyStrayed, credCrashes, licenceTerms, keysIssued,
                     answeredTerms>>
      /\ ~ChangesFile("service")
  BY DEF SyncPolicy, ChangesFile, serverVars
<1>2. /\ inUse \in AgentCredentials /\ answeredTerms \in EdgePolicies
      /\ drafted \in [CredPrograms -> AgentCredentials \cup {Absent}]
      /\ "service" \in CredPrograms /\ credCrossed \in BOOLEAN
  BY <1>1 DEF CredentialsInv, CredentialsTypeOK, DraftsHeld, CredPrograms
<1>3. u \in AgentCredentials /\ u.key = inUse.key /\ u.policy = answeredTerms /\ u # Absent
  BY <1>2, CredentialsAssumption DEF AgentCredentials, EdgePolicy
<1>4. FileReadable => agentJson \in AgentCredentials
  BY DEF FileReadable, CredentialsInv, CredentialsTypeOK
<1>5. FileReadable => /\ x \in AgentCredentials /\ x.key = agentJson.key
                      /\ x.policy = answeredTerms /\ x # Absent
  BY <1>2, <1>4, CredentialsAssumption DEF AgentCredentials, EdgePolicy
<1> HIDE DEF u, x
<1>6. FileReadable' <=> FileReadable
  BY <1>1 DEF FileReadable
<1>7. CASE ~FileReadable
  <2>1. CredGoes("service", "running") /\ UNCHANGED <<drafted, credCrossed>>
    BY <1>1, <1>7 DEF UpdatePolicy
  <2>2. /\ StepsKnown' /\ credStep'["service"] = "running" /\ ~ChangesFile("service")'
        /\ \A v \in CredPrograms : v # "service" => credStep'[v] = credStep[v]
        /\ \A v \in CredPrograms : v # "service" => (ChangesFile(v)' <=> ChangesFile(v))
        /\ "cli" \in CredPrograms
    BY <1>2, <2>1, StepsGo DEF ServiceSteps
  <2>3. \A v \in CredPrograms : ChangesFile(v)' <=> ChangesFile(v)
    BY <1>1, <2>2
  <2>4. CredentialsTypeOK'
    BY <1>1, <1>2, <1>3, <2>1, <2>2 DEF CredentialsInv, CredentialsTypeOK, StepsKnown,
       ServiceSteps, CliSteps
  <2>5. DraftsHeld'
    BY <1>1, <1>3, <2>1, <2>3 DEF CredentialsInv, DraftsHeld
  <2>6. Alone' /\ TornExplained'
    BY <1>1, <1>2, <2>1, <2>2, <2>3 DEF CredentialsInv, Alone, TornExplained
  <2>7. LastKeyHeld' /\ TermsAgree'
    BY <1>1, <1>6, <1>7, <2>1, <2>2, <2>3 DEF CredentialsInv, LastKeyHeld, TermsAgree
  <2>8. KeysApart'
    BY <1>1, <1>2, <1>3, <1>6, <1>7, <2>1, CredentialsAssumption DEF CredentialsInv, KeysApart
  <2> QED
    BY <2>2, <2>4, <2>5, <2>6, <2>7, <2>8 DEF CredentialsInv
<1>8. CASE FileReadable
  <2>1. /\ CredGoes("service", "loaded") /\ CredCrosses("service")
        /\ drafted' = [drafted EXCEPT !["service"] = x]
    BY <1>1, <1>8 DEF UpdatePolicy, x
  <2>2. /\ StepsKnown' /\ credStep'["service"] = "loaded" /\ ChangesFile("service")'
        /\ \A v \in CredPrograms : v # "service" => credStep'[v] = credStep[v]
        /\ \A v \in CredPrograms : v # "service" => (ChangesFile(v)' <=> ChangesFile(v))
        /\ "cli" \in CredPrograms
        /\ \A v \in CredPrograms : v = "service" \/ v = "cli"
    BY <1>2, <2>1, StepsGo DEF ServiceSteps, CredPrograms
  <2>3. /\ drafted'["service"] = x
        /\ \A v \in CredPrograms : v # "service" => drafted'[v] = drafted[v]
        /\ drafted' \in [CredPrograms -> AgentCredentials \cup {Absent}]
    BY <1>2, <1>5, <1>8, <2>1
  <2>4. credCrossed' = (credCrossed \/ ChangesFile("cli")) /\ credCrossed' \in BOOLEAN
    <3>1. (\E v \in CredPrograms \ {"service"} : ChangesFile(v)) <=> ChangesFile("cli")
      BY <2>2
    <3> QED
      BY <1>2, <2>1, <3>1 DEF CredCrosses
  <2>5. CredentialsTypeOK'
    BY <1>1, <1>2, <1>3, <2>2, <2>3, <2>4 DEF CredentialsInv, CredentialsTypeOK, StepsKnown,
       ServiceSteps, CliSteps
  <2>6. DraftsHeld'
    <3>1. \A v \in CredPrograms : drafted'[v] # Absent <=> ChangesFile(v)'
      BY <1>5, <1>8, <2>2, <2>3 DEF CredentialsInv, DraftsHeld
    <3> QED
      BY <1>1, <1>3, <3>1 DEF DraftsHeld
  <2>7. Alone'
    BY <1>1, <2>2, <2>4 DEF CredentialsInv, Alone
  <2>8. TornExplained'
    BY <1>2, <2>2 DEF TornExplained
  <2>9. LastKeyHeld'
    <3>1. ASSUME ~keyStrayed, ~credCrossed, ~ChangesFile("cli") PROVE agentJson.key = keysIssued
      <4>1. \A v \in CredPrograms : credStep[v] # "answered"
        BY <1>1, <2>2, <3>1 DEF ChangesFile
      <4> QED
        BY <1>8, <3>1, <4>1 DEF CredentialsInv, LastKeyHeld
    <3> QED
      BY <1>1, <1>5, <1>8, <2>2, <2>3, <2>4, <3>1 DEF LastKeyHeld
  <2>10. KeysApart'
    <3>1. /\ agentJson.key <= keysIssued /\ inUse.key <= keysIssued
          /\ \A v \in CredPrograms : drafted[v] # Absent => drafted[v].key <= keysIssued
          /\ drafted["cli"] # Absent => /\ agentJson.key # drafted["cli"].key
                                        /\ inUse.key # drafted["cli"].key
      BY <1>2, <1>8, CredentialsAssumption DEF CredentialsInv, KeysApart
    <3> QED
      BY <1>1, <1>3, <1>5, <1>8, <2>2, <2>3, <3>1 DEF KeysApart
  <2>11. TermsAgree'
    BY <1>1, <1>3, <1>5, <1>8, <2>2, <2>3 DEF TermsAgree
  <2> QED
    BY <2>2, <2>5, <2>6, <2>7, <2>8, <2>9, <2>10, <2>11 DEF CredentialsInv
<1> QED
  BY <1>7, <1>8

\* A program dies, or its write fails.
LEMMA CredCrashKeeps ==
  ASSUME CredentialsInv, NEW w \in CredPrograms, CredCrash(w)
  PROVE  CredentialsInv'
<1>1. /\ credCrashes < MaxCrashes /\ credCrashes' = credCrashes + 1
      /\ keyStrayed' = (keyStrayed \/ credStep[w] = "answered")
      /\ drafted' = [drafted EXCEPT ![w] = Absent]
      /\ UNCHANGED <<agentJson, keyInEnv, credCrossed, licenceTerms, keysIssued, answeredTerms>>
  BY DEF CredCrash, serverVars
<1>2. /\ drafted \in [CredPrograms -> AgentCredentials \cup {Absent}]
      /\ credCrashes \in Nat /\ MaxCrashes \in Nat /\ keyStrayed \in BOOLEAN
      /\ inUse \in AgentCredentials \cup {Absent}
  BY CredentialsAssumption DEF CredentialsInv, CredentialsTypeOK
<1>3. PICK to \in {"down", "idle", "deaf"} :
        /\ CredGoes(w, to)
        /\ to = "deaf" => credStep[w] \in {"loaded", "updating"} /\ inUse' = inUse
        /\ to = "down" => w = "service" /\ inUse' = Absent
        /\ to = "idle" => w = "cli" /\ inUse' = inUse
  BY DEF CredCrash, CredRest, CredPrograms
<1>4. to \in IF w = "service" THEN ServiceSteps ELSE CliSteps
  BY <1>3 DEF CredentialsInv, StepsKnown, CredPrograms, ServiceSteps, CliSteps
<1>5. /\ StepsKnown' /\ credStep'[w] = to /\ ~ChangesFile(w)'
      /\ \A v \in CredPrograms : v # w => credStep'[v] = credStep[v]
      /\ \A v \in CredPrograms : v # w => (ChangesFile(v)' <=> ChangesFile(v))
      /\ "service" \in CredPrograms /\ "cli" \in CredPrograms
      /\ w = "service" \/ w = "cli"
  BY <1>3, <1>4, StepsGo
<1>6. /\ drafted'[w] = Absent /\ \A v \in CredPrograms : v # w => drafted'[v] = drafted[v]
      /\ drafted' \in [CredPrograms -> AgentCredentials \cup {Absent}]
  BY <1>1, <1>2
<1>7. FileReadable' <=> FileReadable
  BY <1>1 DEF FileReadable
<1>8. inUse' = inUse \/ (inUse' = Absent /\ w = "service" /\ to = "down")
  BY <1>3
<1>9. keyStrayed' \in BOOLEAN /\ credCrashes' \in 0..MaxCrashes /\ credCrashes' > 0
  BY <1>1, <1>2
<1>10. CredentialsTypeOK'
  BY <1>1, <1>2, <1>5, <1>6, <1>8, <1>9 DEF CredentialsInv, CredentialsTypeOK, StepsKnown,
     ServiceSteps, CliSteps
<1>11. DraftsHeld'
  <2>1. \A v \in CredPrograms : drafted'[v] # Absent <=> ChangesFile(v)'
    BY <1>5, <1>6 DEF CredentialsInv, DraftsHeld
  <2>2. ASSUME credStep'["service"] \in {"running", "beaten", "loaded", "updating", "revoked",
                                        "deaf"}
        PROVE  inUse' # Absent
    BY <1>3, <1>5, <1>8, <2>2 DEF CredentialsInv, DraftsHeld
  <2> QED
    BY <2>1, <2>2 DEF DraftsHeld
<1>12. Alone'
  BY <1>1, <1>5 DEF CredentialsInv, Alone, ChangesFile
<1>13. TornExplained'
  BY <1>9 DEF TornExplained
<1>14. LastKeyHeld'
  <2>1. ASSUME ~keyStrayed', ~credCrossed',
               FileReadable, \A v \in CredPrograms : credStep'[v] # "answered"
        PROVE  agentJson.key = keysIssued
    <3>1. \A v \in CredPrograms : credStep[v] # "answered"
      BY <1>1, <1>5, <2>1
    <3>2. ~keyStrayed /\ ~credCrossed
      BY <1>1, <2>1
    <3> QED
      BY <2>1, <3>1, <3>2 DEF CredentialsInv, LastKeyHeld
  <2>2. ASSUME ~keyStrayed', ~credCrossed', NEW v \in CredPrograms, ChangesFile(v)'
        PROVE  drafted'[v].key = keysIssued
    <3>1. ~keyStrayed /\ ~credCrossed /\ v # w /\ ChangesFile(v)
      BY <1>1, <1>5, <2>2
    <3> QED
      BY <1>6, <3>1 DEF CredentialsInv, LastKeyHeld
  <2> QED
    BY <1>1, <1>7, <2>1, <2>2 DEF LastKeyHeld
<1>15. KeysApart'
  BY <1>1, <1>5, <1>6, <1>7, <1>8 DEF CredentialsInv, KeysApart
<1>16. TermsAgree'
  BY <1>1, <1>3, <1>5, <1>6, <1>7, <1>8 DEF CredentialsInv, TermsAgree
<1> QED
  BY <1>5, <1>10, <1>11, <1>12, <1>13, <1>14, <1>15, <1>16 DEF CredentialsInv

\* Every step of both programs and of the server keeps the invariant.
LEMMA CredentialsStep == CredentialsInv /\ [CredentialsNext]_credVars => CredentialsInv'
<1> SUFFICES ASSUME CredentialsInv, [CredentialsNext]_credVars PROVE CredentialsInv'
  OBVIOUS
<1>1. /\ licenceTerms \in EdgePolicies /\ answeredTerms \in EdgePolicies
      /\ keyInEnv \in BOOLEAN /\ "service" \in CredPrograms /\ "cli" \in CredPrograms
  BY DEF CredentialsInv, CredentialsTypeOK, CredPrograms
<1>2. CASE StartsStored
  <2>1. ~ChangesFile("service")
    BY <1>2 DEF StartsStored, ChangesFile
  <2> QED
    BY <1>1, <1>2, <2>1, QuietCredentialsKeep DEF StartsStored, fileVars, serverVars
<1>3. CASE StartsUnactivated
  <2>1. ~ChangesFile("service")
    BY <1>3 DEF StartsUnactivated, ChangesFile
  <2> QED
    BY <1>1, <1>3, <2>1, QuietCredentialsKeep DEF StartsUnactivated, fileVars, serverVars
<1>4. ASSUME NEW force \in BOOLEAN, CmdActivate(force) PROVE CredentialsInv'
  <2>1. ~ChangesFile("cli")
    BY <1>4 DEF CmdActivate, ChangesFile
  <2> QED
    BY <1>1, <1>4, <2>1, QuietCredentialsKeep DEF CmdActivate, fileVars, serverVars
<1>5. ASSUME NEW w \in CredPrograms, ActivationFails(w) PROVE CredentialsInv'
  <2>1. ~ChangesFile(w)
    BY <1>5 DEF ActivationFails, ChangesFile
  <2>2. CredRest(w) \in IF w = "service" THEN {"down"} ELSE {"idle"}
    BY DEF CredRest
  <2> QED
    BY <1>1, <1>5, <2>1, <2>2, QuietCredentialsKeep DEF ActivationFails, fileVars, serverVars
<1>6. CASE SendEdgeHeartbeat
  <2>1. ~ChangesFile("service")
    BY <1>6 DEF SendEdgeHeartbeat, ChangesFile
  <2>2. answeredTerms' \in EdgePolicies /\ licenceTerms' \in EdgePolicies
    BY <1>1, <1>6 DEF SendEdgeHeartbeat, EdgeHeartbeat, PolicyFromLicense
  <2> QED
    BY <1>1, <1>6, <2>1, <2>2, QuietCredentialsKeep DEF SendEdgeHeartbeat, fileVars
<1>7. CASE SyncPolicy
  <2>1. CASE answeredTerms = inUse.policy
    <3>1. ~ChangesFile("service")
      BY <1>7 DEF SyncPolicy, ChangesFile
    <3> QED
      BY <1>1, <1>7, <2>1, <3>1, QuietCredentialsKeep DEF SyncPolicy, serverVars
  <2> QED
    BY <1>7, <2>1, SyncKeeps
<1>8. CASE StopService
  <2>1. ~ChangesFile("service")
    BY <1>8 DEF StopService, ChangesFile
  <2> QED
    BY <1>1, <1>8, <2>1, QuietCredentialsKeep DEF StopService, fileVars, serverVars
<1>9. ASSUME NEW p \in EdgePolicies, SetTerms(p) PROVE CredentialsInv'
  BY <1>9 DEF SetTerms, fileVars, CredentialsInv, CredentialsTypeOK, StepsKnown, DraftsHeld,
     Alone, TornExplained, LastKeyHeld, KeysApart, TermsAgree, ChangesFile, FileReadable
<1>10. CASE UNCHANGED credVars
  BY <1>10 DEF credVars, fileVars, serverVars, CredentialsInv, CredentialsTypeOK, StepsKnown,
     DraftsHeld, Alone, TornExplained, LastKeyHeld, KeysApart, TermsAgree, ChangesFile,
     FileReadable
<1> QED
  BY <1>2, <1>3, <1>4, <1>5, <1>6, <1>7, <1>8, <1>9, <1>10, ActivateKeeps, OpensKeeps,
     SaveKeeps, CredCrashKeeps DEF CredentialsNext

LEMMA CredentialsAlwaysInv == CredentialsSpec => []CredentialsInv
  BY CredentialsStart, CredentialsStep, PTL DEF CredentialsSpec

\* The file, the keys and the steps of both programs keep their types.
THEOREM CredentialsTypeAlwaysOK == CredentialsSpec => []CredentialsTypeOK
<1>1. CredentialsInv => CredentialsTypeOK
  BY DEF CredentialsInv
<1> QED
  BY <1>1, CredentialsAlwaysInv, PTL

\* agent.json can be read unless a program is in the middle of it, died there or was
\* crossed; at rest it names the last key unless one strayed; and the limits it has
\* for the key in use are the ones in use: for any number of activations and crashes.
THEOREM CredentialsAlwaysKept == CredentialsSpec => []CredentialsKept
<1>1. CredentialsInv => CredentialsKept
  <2> SUFFICES ASSUME CredentialsInv PROVE CredentialsKept
    OBVIOUS
  <2>1. ASSUME ~(\E w \in CredPrograms : ChangesFile(w))
        PROVE  \A w \in CredPrograms : credStep[w] # "answered"
    BY <2>1 DEF ChangesFile
  <2> QED
    BY <2>1 DEF CredentialsInv, CredentialsKept, TornExplained, LastKeyHeld, TermsAgree
<1> QED
  BY <1>1, CredentialsAlwaysInv, PTL
=============================================================================
