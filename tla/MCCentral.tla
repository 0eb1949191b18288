----------------------------- MODULE MCCentral ------------------------------
(***************************************************************************)
(* What installations and users ask of the central server, one instance    *)
(* each: licences, the quota and the batches of the edge, clips, tunnels,  *)
(* sessions, notifications, face recognition, accounts, reports, commands  *)
(* for agents, live events, and the credentials an installation keeps.     *)
(* They share no state in these models, so that every behaviour of all is  *)
(* an interleaving of their own: it is enough to let one part move, the    *)
(* one that part names, with the others at rest.                           *)
(***************************************************************************)
EXTENDS Licensing, IngestQuota, EdgeIngest, EventClips, AgentTunnels, Sessions,
        Notifications, FaceConsent, Accounts, Reports, AgentCommands, LiveEvents,
        EdgeCredentials

CONSTANTS KeptEvent, \* the event whose clip is kept for a day, and rendered twice
          FirstSlug,
          SoldTo,    \* the tenant whose licence is sold before it is used
          FirstTerms

VARIABLE part

Parts == {"licensing", "quota", "ingest", "clips", "tunnels", "sessions", "notify", "faces",
          "accounts", "reports", "commands", "live", "credentials"}

MCRetention == [e \in ClipEvents |-> IF e = KeptEvent THEN 1 ELSE 0]
MCMaxTries == [e \in ClipEvents |-> IF e = KeptEvent THEN 2 ELSE 1]

Chosen(p, value) == part = p \/ value

MCLanCameras == {[c \in Calls |-> IF c = "profiles" THEN "refused" ELSE "ok"],
                 [c \in Calls |-> IF c = "stream" THEN "cut" ELSE "ok"]}
MCLanReplies == {<<[ip |-> 1, url |-> "a"], [ip |-> 1, url |-> "b"]>>}

\* A part at rest has one initial state.
CentralInit ==
  /\ part \in Parts
  /\ LicensingInit /\ licence.tenant \in {Nobody, SoldTo}
  /\ Chosen("licensing", licence.tenant = Nobody)
  /\ QuotaInit
  /\ IngestInit /\ Chosen("ingest", gone = {})
  /\ ClipsInit /\ Chosen("clips", edge)
  /\ TunnelsInit
  /\ SessionsInit /\ Chosen("sessions", \A u \in Users : account[u].role = Manager)
  /\ NotifyInit /\ Chosen("notify", unsigned = {} /\ \A r \in Rules : rule[r] = "new")
  /\ FaceInit /\ Chosen("faces", \A c \in Consents : consent[c].opens)
  /\ AccountsInit /\ Chosen("accounts", slugs = {FirstSlug})
  /\ ReportsInit /\ CommandsInit /\ LiveInit
  /\ CredentialsInit /\ Chosen("credentials", keyInEnv /\ licenceTerms = FirstTerms)

Rests(p, vars) == IF part = p THEN TRUE ELSE UNCHANGED vars

CentralNext ==
  /\ UNCHANGED part
  /\ Rests("licensing", licVars) /\ Rests("quota", quotaVars) /\ Rests("ingest", ingestVars)
  /\ Rests("clips", clipVars) /\ Rests("tunnels", tunnelVars) /\ Rests("sessions", sessionVars)
  /\ Rests("notify", notifyVars) /\ Rests("faces", faceVars)
  /\ Rests("accounts", accountVars) /\ Rests("reports", reportVars)
  /\ Rests("commands", commandVars) /\ Rests("live", liveVars)
  /\ Rests("credentials", credVars)
  /\ \/ part = "licensing" /\ LicensingNext
     \/ part = "quota" /\ QuotaNext
     \/ part = "ingest" /\ IngestNext
     \/ part = "clips" /\ ClipsNext
     \/ part = "tunnels" /\ TunnelsNext
     \/ part = "sessions" /\ SessionsNext
     \/ part = "notify" /\ NotifyNext
     \/ part = "faces" /\ FaceNext
     \/ part = "accounts" /\ AccountsNext
     \/ part = "reports" /\ ReportsNext
     \/ part = "commands" /\ CommandsNext
     \/ part = "live" /\ LiveNext
     \/ part = "credentials" /\ CredentialsNext

centralVars == <<part, licVars, quotaVars, ingestVars, clipVars, tunnelVars, sessionVars,
                 notifyVars, faceVars, accountVars, reportVars, commandVars, liveVars, credVars>>

CentralSpec == CentralInit /\ [][CentralNext]_centralVars

\* What the variables of the part that moves may hold; the others are at rest.
CentralTypeOK ==
  /\ part \in Parts
  /\ part = "licensing" => LicensingTypeOK
  /\ part = "quota" => QuotaTypeOK
  /\ part = "ingest" => IngestTypeOK
  /\ part = "clips" => ClipsTypeOK
  /\ part = "tunnels" => TunnelsTypeOK
  /\ part = "sessions" => SessionsTypeOK
  /\ part = "notify" => NotifyTypeOK
  /\ part = "faces" => FaceTypeOK
  /\ part = "accounts" => AccountsTypeOK
  /\ part = "reports" => ReportsTypeOK
  /\ part = "commands" => CommandsTypeOK
  /\ part = "live" => LiveTypeOK
  /\ part = "credentials" => CredentialsTypeOK

\* What an installation holds and what the server knows of it stay the same: the
\* licence names one installation, and its file the key it was given.
LicenceIsHeld == OneInstallation /\ CredentialsKept
=============================================================================
