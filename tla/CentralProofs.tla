---------------------------- MODULE CentralProofs -----------------------------
(***************************************************************************)
(* The composition of the central server: each part is a behaviour of its  *)
(* own specification, whichever part moves, so that what is proved of the  *)
(* parts holds of the whole.                                               *)
(***************************************************************************)
EXTENDS MCCentral, LicensingProofs, EdgeIngestProofs, AccountsProofs,
        ConnectionsProofs

\* A part takes one of its steps, or rests.
LEMMA PartSteps ==
  [CentralNext]_centralVars =>
    /\ [LicensingNext]_licVars
    /\ [QuotaNext]_quotaVars
    /\ [IngestNext]_ingestVars
    /\ [ClipsNext]_clipVars
    /\ [TunnelsNext]_tunnelVars
    /\ [SessionsNext]_sessionVars
    /\ [NotifyNext]_notifyVars
    /\ [FaceNext]_faceVars
    /\ [AccountsNext]_accountVars
    /\ [ReportsNext]_reportVars
    /\ [CommandsNext]_commandVars
    /\ [LiveNext]_liveVars
    /\ [CredentialsNext]_credVars
<1> SUFFICES ASSUME [CentralNext]_centralVars
             PROVE  /\ [LicensingNext]_licVars
                    /\ [QuotaNext]_quotaVars
                    /\ [IngestNext]_ingestVars
                    /\ [ClipsNext]_clipVars
                    /\ [TunnelsNext]_tunnelVars
                    /\ [SessionsNext]_sessionVars
                    /\ [NotifyNext]_notifyVars
                    /\ [FaceNext]_faceVars
                    /\ [AccountsNext]_accountVars
                    /\ [ReportsNext]_reportVars
                    /\ [CommandsNext]_commandVars
                    /\ [LiveNext]_liveVars
                    /\ [CredentialsNext]_credVars
  OBVIOUS
<1>1. [LicensingNext]_licVars
  BY DEF CentralNext, Rests, centralVars
<1>2. [QuotaNext]_quotaVars
  BY DEF CentralNext, Rests, centralVars
<1>3. [IngestNext]_ingestVars
  BY DEF CentralNext, Rests, centralVars
<1>4. [ClipsNext]_clipVars
  BY DEF CentralNext, Rests, centralVars
<1>5. [TunnelsNext]_tunnelVars
  BY DEF CentralNext, Rests, centralVars
<1>6. [SessionsNext]_sessionVars
  BY DEF CentralNext, Rests, centralVars
<1>7. [NotifyNext]_notifyVars
  BY DEF CentralNext, Rests, centralVars
<1>8. [FaceNext]_faceVars
  BY DEF CentralNext, Rests, centralVars
<1>9. [AccountsNext]_accountVars
  BY DEF CentralNext, Rests, centralVars
<1>10. [ReportsNext]_reportVars
  BY DEF CentralNext, Rests, centralVars
<1>11. [CommandsNext]_commandVars
  BY DEF CentralNext, Rests, centralVars
<1>12. [LiveNext]_liveVars
  BY DEF CentralNext, Rests, centralVars
<1>13. [CredentialsNext]_credVars
  BY DEF CentralNext, Rests, centralVars
<1> QED
  BY <1>1, <1>2, <1>3, <1>4, <1>5, <1>6, <1>7, <1>8, <1>9, <1>10, <1>11, <1>12, <1>13

LEMMA PartStarts ==
  CentralInit =>
    /\ LicensingInit
    /\ QuotaInit
    /\ IngestInit
    /\ ClipsInit
    /\ TunnelsInit
    /\ SessionsInit
    /\ NotifyInit
    /\ FaceInit
    /\ AccountsInit
    /\ ReportsInit
    /\ CommandsInit
    /\ LiveInit
    /\ CredentialsInit
<1> QED
  BY DEF CentralInit

\* Every behaviour of the whole is one of each part.
LEMMA PartsOfCentral ==
  CentralSpec =>
    /\ LicensingSpec
    /\ QuotaSpec
    /\ IngestSpec
    /\ ClipsSpec
    /\ TunnelsSpec
    /\ SessionsSpec
    /\ NotifySpec
    /\ FaceSpec
    /\ AccountsSpec
    /\ ReportsSpec
    /\ CommandsSpec
    /\ LiveSpec
    /\ CredentialsSpec
<1>1. CentralSpec => LicensingSpec
  BY PartStarts, PartSteps, PTL DEF CentralSpec, LicensingSpec
<1>2. CentralSpec => QuotaSpec
  BY PartStarts, PartSteps, PTL DEF CentralSpec, QuotaSpec
<1>3. CentralSpec => IngestSpec
  BY PartStarts, PartSteps, PTL DEF CentralSpec, IngestSpec
<1>4. CentralSpec => ClipsSpec
  BY PartStarts, PartSteps, PTL DEF CentralSpec, ClipsSpec
<1>5. CentralSpec => TunnelsSpec
  BY PartStarts, PartSteps, PTL DEF CentralSpec, TunnelsSpec
<1>6. CentralSpec => SessionsSpec
  BY PartStarts, PartSteps, PTL DEF CentralSpec, SessionsSpec
<1>7. CentralSpec => NotifySpec
  BY PartStarts, PartSteps, PTL DEF CentralSpec, NotifySpec
<1>8. CentralSpec => FaceSpec
  BY PartStarts, PartSteps, PTL DEF CentralSpec, FaceSpec
<1>9. CentralSpec => AccountsSpec
  BY PartStarts, PartSteps, PTL DEF CentralSpec, AccountsSpec
<1>10. CentralSpec => ReportsSpec
  BY PartStarts, PartSteps, PTL DEF CentralSpec, ReportsSpec
<1>11. CentralSpec => CommandsSpec
  BY PartStarts, PartSteps, PTL DEF CentralSpec, CommandsSpec
<1>12. CentralSpec => LiveSpec
  BY PartStarts, PartSteps, PTL DEF CentralSpec, LiveSpec
<1>13. CentralSpec => CredentialsSpec
  BY PartStarts, PartSteps, PTL DEF CentralSpec, CredentialsSpec
<1> QED
  BY <1>1, <1>2, <1>3, <1>4, <1>5, <1>6, <1>7, <1>8, <1>9, <1>10, <1>11, <1>12, <1>13, PTL

LEMMA PartNamed == CentralSpec => [](part \in Parts)
<1>1. CentralInit => part \in Parts
  BY DEF CentralInit
<1>2. part \in Parts /\ [CentralNext]_centralVars => (part \in Parts)'
  BY DEF CentralNext, centralVars
<1> QED
  BY <1>1, <1>2, PTL DEF CentralSpec

\* What the variables of the parts may hold, always, whichever of them moves.
THEOREM CentralTypeAlwaysOK == CentralSpec => []CentralTypeOK
<1>1. /\ part \in Parts
      /\ LicensingTypeOK
      /\ QuotaTypeOK
      /\ IngestTypeOK
      /\ ClipsTypeOK
      /\ TunnelsTypeOK
      /\ SessionsTypeOK
      /\ NotifyTypeOK
      /\ FaceTypeOK
      /\ AccountsTypeOK
      /\ ReportsTypeOK
      /\ CommandsTypeOK
      /\ LiveTypeOK
      /\ CredentialsTypeOK
      => CentralTypeOK
  BY DEF CentralTypeOK
<1> QED
  BY <1>1, PartNamed, PartsOfCentral, QuotaTypeAlwaysOK, IngestTypeAlwaysOK, ClipsTypeAlwaysOK,
     LicensingTypeAlwaysOK, TunnelsTypeAlwaysOK, SessionsTypeAlwaysOK, NotifyTypeAlwaysOK,
     FaceTypeAlwaysOK, AccountsTypeAlwaysOK, ReportsTypeAlwaysOK, CommandsTypeAlwaysOK,
     LiveTypeAlwaysOK, CredentialsTypeAlwaysOK, PTL

\* The licence names one installation and its file the key it was given, while
\* everything else of the central server may go on.
THEOREM LicenceIsAlwaysHeld == CentralSpec => []LicenceIsHeld
<1>1. OneInstallation /\ CredentialsKept => LicenceIsHeld
  BY DEF LicenceIsHeld
<1> QED
  BY <1>1, PartsOfCentral, OneInstallationAlways, CredentialsAlwaysKept, PTL

\* What the central server promises its installations, users and operators, all
\* at once, while any of its parts may go on.
THEOREM CentralPromisesHold ==
  CentralSpec => /\ []QuotaHolds
                 /\ []EventsKept
                 /\ []ClipsKept
                 /\ []PeersAreTunnels
                 /\ []AccessIsRecent
                 /\ []MessagesAreLogged
                 /\ []FaceDataKept
                 /\ []TrailIsTrue
                 /\ []FewPdfs
                 /\ []AnswersMatch
                 /\ []StreamsAreTrue
                 /\ OnlyOwnerOrAdminRevokes
BY PartsOfCentral, QuotaAlwaysHolds, EventsAlwaysKept, ClipsAreAlwaysKept,
   PeersAreAlwaysTunnels, AccessAlwaysRecent, MessagesAreAlwaysLogged,
   FaceDataAlwaysKept, TrailIsAlwaysTrue, AlwaysFewPdfs, AnswersAlwaysMatch,
   StreamsAreAlwaysTrue, OnlyOwnerOrAdminAlways, PTL
=============================================================================
