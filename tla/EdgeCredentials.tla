--------------------------- MODULE EdgeCredentials ----------------------------
(***************************************************************************)
(* agent.json, the file in which an installation keeps the key and the     *)
(* limits it got from the central server.  The service writes it when it   *)
(* activates itself and whenever a heartbeat brings new limits; the        *)
(* command line writes it when somebody activates by hand.  Each opens the *)
(* file, which empties it, and then writes; neither takes a lock, and      *)
(* either may die in between.                                              *)
(*                                                                         *)
(* Keys are numbered in the order the server issues them: each activation  *)
(* revokes the one before.  What the server checks is in Licensing.        *)
(***************************************************************************)
EXTENDS Naturals

CONSTANTS EdgePolicies,   \* limits a licence may have
          MaxKeys,    \* bound: activations that reach the server
          MaxCrashes, \* bound: deaths of a program, or writes that fail
          Absent      \* no file, or an unreadable one

CredPrograms == {"service", "cli"}
\* EdgePolicy and AgentCredentials.
EdgePolicy == EdgePolicies
AgentCredentials == [key : 1..MaxKeys, policy : EdgePolicy]
Torn == [key |-> 0, policy |-> Absent]

ASSUME CredentialsAssumption ==
  MaxKeys \in Nat /\ MaxCrashes \in Nat /\ Absent \notin AgentCredentials \union {Torn}

VARIABLES agentJson,     \* agent.json: Absent, Torn, or credentials
          licenceTerms,  \* the limits of the licence on the server
          keysIssued,    \* keys issued so far; the last one is accepted
          keyInEnv,      \* LICENSE_KEY is in the service's environment
          credStep,      \* program -> what it is doing
          inUse,         \* the credentials the service works with, or Absent
          drafted,       \* program -> what it is about to write, or Absent
          answeredTerms, \* the limits the last heartbeat brought
          keyStrayed,    \* history: a key was issued that nobody stored
          credCrossed,   \* history: two programs were between reading and writing
          credCrashes

fileVars == <<drafted, credCrossed>>
serverVars == <<licenceTerms, keysIssued, answeredTerms>>
credVars == <<agentJson, keyInEnv, credStep, inUse, keyStrayed, credCrashes, fileVars, serverVars>>

FileReadable == agentJson \notin {Absent, Torn}
FileExists == agentJson # Absent
ChangesFile(w) == credStep[w] \in {"answered", "loaded", "writing", "updating"}
CredGoes(w, to) == credStep' = [credStep EXCEPT ![w] = to]
CredRest(w) == IF w = "service" THEN "down" ELSE "idle"
CredCrosses(w) == credCrossed' = (credCrossed \/ \E v \in CredPrograms \ {w} : ChangesFile(v))

CredentialsInit ==
  /\ agentJson = Absent /\ keysIssued = 0
  /\ licenceTerms \in EdgePolicies /\ keyInEnv \in BOOLEAN
  /\ credStep = [w \in CredPrograms |-> CredRest(w)]
  /\ inUse = Absent /\ drafted = [w \in CredPrograms |-> Absent]
  /\ answeredTerms = licenceTerms
  /\ keyStrayed = FALSE /\ credCrossed = FALSE /\ credCrashes = 0

-----------------------------------------------------------------------------
(***************************************************************************)
(* Starting and activating.                                                *)
(***************************************************************************)
\* _resolve_credentials: what the file holds goes first, and needs no network.
StartsStored ==
  /\ credStep["service"] = "down" /\ FileReadable
  /\ inUse' = agentJson
  /\ CredGoes("service", "running")
  /\ UNCHANGED <<agentJson, keyInEnv, keyStrayed, credCrashes, fileVars, serverVars>>

\* A file that is missing or cannot be read is replaced if there is a licence;
\* without one the service starts under another identity or fails: not followed.
StartsUnactivated ==
  /\ credStep["service"] = "down" /\ ~FileReadable /\ keyInEnv
  /\ CredGoes("service", "asking")
  /\ UNCHANGED <<agentJson, keyInEnv, inUse, keyStrayed, credCrashes, fileVars, serverVars>>

\* activate, by hand: only with --force if the file exists, whatever is in it.
CmdActivate(force) ==
  /\ credStep["cli"] = "idle" /\ (force \/ ~FileExists)
  /\ CredGoes("cli", "asking")
  /\ UNCHANGED <<agentJson, keyInEnv, inUse, keyStrayed, credCrashes, fileVars, serverVars>>

\* POST /edge/activate issues a key; its answer arrives or does not.
ActivateKey(w) ==
  /\ credStep[w] = "asking" /\ keysIssued < MaxKeys
  /\ keysIssued' = keysIssued + 1
  /\ \/ /\ drafted' = [drafted EXCEPT ![w] = [key |-> keysIssued + 1, policy |-> licenceTerms]]
        /\ CredGoes(w, "answered") /\ CredCrosses(w)
        /\ UNCHANGED keyStrayed
     \/ /\ keyStrayed' = TRUE
        /\ CredGoes(w, CredRest(w))
        /\ UNCHANGED <<drafted, credCrossed>>
  /\ UNCHANGED <<agentJson, licenceTerms, keyInEnv, inUse, answeredTerms, credCrashes>>

\* The server refuses, or is not reached.
ActivationFails(w) ==
  /\ credStep[w] = "asking"
  /\ CredGoes(w, CredRest(w))
  /\ UNCHANGED <<agentJson, keyInEnv, inUse, keyStrayed, credCrashes, fileVars, serverVars>>

-----------------------------------------------------------------------------
(***************************************************************************)
(* CredentialStore.save, two steps.                                        *)
(***************************************************************************)
OpensFile(w) ==
  /\ credStep[w] \in {"answered", "loaded"}
  /\ agentJson' = Torn
  /\ CredGoes(w, IF credStep[w] = "answered" THEN "writing" ELSE "updating")
  /\ UNCHANGED <<keyInEnv, inUse, keyStrayed, credCrashes, fileVars, serverVars>>

\* Writing over what another program wrote meanwhile may leave its end behind.
FileWritten(w) == IF agentJson = Torn THEN {drafted[w]} ELSE {drafted[w], Torn}

SaveCredentials(w) ==
  /\ credStep[w] \in {"writing", "updating"}
  /\ agentJson' \in FileWritten(w)
  /\ inUse' = IF w = "service" /\ credStep[w] = "writing" THEN drafted[w] ELSE inUse
  /\ drafted' = [drafted EXCEPT ![w] = Absent]
  /\ CredGoes(w, IF w = "service" THEN "running" ELSE "idle")
  /\ UNCHANGED <<keyInEnv, keyStrayed, credCrossed, credCrashes, serverVars>>

-----------------------------------------------------------------------------
(***************************************************************************)
(* Heartbeats.                                                             *)
(***************************************************************************)
\* _resolve_agent_tenant: a key that was revoked is refused.
AcceptsKey(key) == key = keysIssued
\* policy_from_license of the active licence: its limits of the moment.
PolicyFromLicense == licenceTerms

\* edge_heartbeat: what the server answers to the key.
EdgeHeartbeat(key) == IF AcceptsKey(key) THEN {PolicyFromLicense} ELSE {}

\* send_edge_heartbeat: being refused ends the loops of the agent.  A heartbeat
\* that is lost changes nothing.
SendEdgeHeartbeat ==
  /\ credStep["service"] = "running"
  /\ \/ /\ answeredTerms' \in EdgeHeartbeat(inUse.key)
        /\ CredGoes("service", "beaten")
     \/ /\ EdgeHeartbeat(inUse.key) = {}
        /\ CredGoes("service", "revoked") /\ UNCHANGED answeredTerms
  /\ UNCHANGED <<agentJson, licenceTerms, keysIssued, keyInEnv, inUse, keyStrayed, credCrashes,
                 fileVars>>

\* Mutant of UpdatePolicy: it writes what the service works with.
UpdateFromMemory(p) ==
  /\ CredGoes("service", "loaded") /\ CredCrosses("service")
  /\ drafted' = [drafted EXCEPT !["service"] = [inUse EXCEPT !.policy = p]]

\* update_policy reads the file again, and leaves an unreadable one alone.
UpdatePolicy(p) ==
  IF FileReadable
    THEN /\ CredGoes("service", "loaded") /\ CredCrosses("service")
         /\ drafted' = [drafted EXCEPT !["service"] = [agentJson EXCEPT !.policy = p]]
    ELSE CredGoes("service", "running") /\ UNCHANGED <<drafted, credCrossed>>

\* _sync_policy writes only what is new.
SyncPolicy ==
  /\ credStep["service"] = "beaten"
  /\ IF answeredTerms = inUse.policy
       THEN CredGoes("service", "running") /\ UNCHANGED <<inUse, drafted, credCrossed>>
       ELSE inUse' = [inUse EXCEPT !.policy = answeredTerms] /\ UpdatePolicy(answeredTerms)
  /\ UNCHANGED <<agentJson, keyInEnv, keyStrayed, credCrashes, serverVars>>

\* The licence's limits are changed on the server.
SetTerms(p) ==
  /\ licenceTerms' = p
  /\ UNCHANGED <<agentJson, keysIssued, answeredTerms, keyInEnv, credStep, inUse, keyStrayed,
                 credCrashes, fileVars>>

\* The service is stopped: never within a write, which awaits nothing.
StopService ==
  /\ credStep["service"] \in {"running", "beaten", "revoked", "deaf"}
  /\ CredGoes("service", "down") /\ inUse' = Absent
  /\ UNCHANGED <<agentJson, keyInEnv, keyStrayed, credCrashes, fileVars, serverVars>>

\* A program dies, or its write fails.  A failed update ends the heartbeats of a
\* service that goes on with the rest.
CredCrash(w) ==
  /\ credStep[w] # CredRest(w) /\ credCrashes < MaxCrashes
  /\ credCrashes' = credCrashes + 1
  /\ keyStrayed' = (keyStrayed \/ credStep[w] = "answered")
  /\ drafted' = [drafted EXCEPT ![w] = Absent]
  /\ \/ CredGoes(w, CredRest(w)) /\ inUse' = IF w = "service" THEN Absent ELSE inUse
     \/ credStep[w] \in {"loaded", "updating"} /\ CredGoes(w, "deaf") /\ UNCHANGED inUse
  /\ UNCHANGED <<agentJson, keyInEnv, credCrossed, serverVars>>

CredentialsNext ==
  \/ StartsStored \/ StartsUnactivated \/ \E force \in BOOLEAN : CmdActivate(force)
  \/ \E w \in CredPrograms : \/ ActivateKey(w) \/ ActivationFails(w)
                             \/ OpensFile(w) \/ SaveCredentials(w) \/ CredCrash(w)
  \/ SendEdgeHeartbeat \/ SyncPolicy \/ StopService
  \/ \E p \in EdgePolicies : SetTerms(p)

CredentialsSpec == CredentialsInit /\ [][CredentialsNext]_credVars

-----------------------------------------------------------------------------
\* Type invariant.
CredentialsTypeOK ==
  /\ agentJson \in AgentCredentials \union {Absent, Torn}
  /\ licenceTerms \in EdgePolicies /\ answeredTerms \in EdgePolicies
  /\ keysIssued \in 0..MaxKeys /\ keyInEnv \in BOOLEAN
  /\ credStep["service"] \in {"down", "asking", "answered", "writing", "running", "beaten",
                          "loaded", "updating", "revoked", "deaf"}
  /\ credStep["cli"] \in {"idle", "asking", "answered", "writing"}
  /\ inUse \in AgentCredentials \union {Absent}
  /\ drafted \in [CredPrograms -> AgentCredentials \union {Absent}]
  /\ keyStrayed \in BOOLEAN /\ credCrossed \in BOOLEAN /\ credCrashes \in 0..MaxCrashes

\* agent.json can be read unless a program is writing it, died while it was, or
\* two wrote at once.  When it is at rest it names the last key that was issued,
\* although an update of the limits writes the key back as well: unless an answer
\* never came or two programs crossed.  And the limits it has for the key of the
\* running service are the ones the service works with, so that a restart changes
\* nothing.
CredentialsKept ==
  /\ agentJson = Torn => (\E w \in CredPrograms : ChangesFile(w)) \/ credCrashes > 0 \/ credCrossed
  /\ FileReadable /\ ~(\E w \in CredPrograms : ChangesFile(w)) /\ ~keyStrayed /\ ~credCrossed =>
       agentJson.key = keysIssued
  /\ FileReadable /\ credStep["service"] = "running" /\ agentJson.key = inUse.key =>
       agentJson.policy = inUse.policy
=============================================================================
