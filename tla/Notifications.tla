--------------------------- MODULE Notifications ---------------------------
(***************************************************************************)
(* The job task_dispatch_event_notifications for one event of one tenant:  *)
(* it reads the rules, looks up their contacts one by one, sends all       *)
(* messages at once and then writes one log after the other, while users   *)
(* change rules and contacts.  ARQ runs a job again when its worker was    *)
(* shut down or killed in the middle of it.  Messages to contacts go to    *)
(* the WhatsApp gateway, which sends photos at once and queues texts.      *)
(***************************************************************************)
EXTENDS Integers

CONSTANTS Rules,        \* ids of notification rules whose pattern matches
          ContactRules, \* those with destination_type "contact"; others are webhooks
          MaxRuns,      \* max_tries of ARQ
          GatewayTries  \* maxAttempts of the gateway's sendWithRetry

ASSUME NotificationsAssumption ==
  /\ ContactRules \subseteq Rules
  /\ MaxRuns \in Nat \ {0} /\ GatewayTries \in Nat \ {0}

VARIABLES rule,     \* rule -> "new", "there" or "deleted"
          unsigned, \* the webhooks without a webhook_secret
          contact,  \* contact rule -> what became of its contact
          stage,    \* of the job
          runs,     \* how often it was started
          matching, \* the rules this run has read
          resolved, \* the contact rules whose contact this run has looked up
          reached,  \* those of them whose contact was active
          call,     \* rule -> its message in this run
          taken,    \* rule -> the runs whose message its receiver has taken
          gateway,  \* rule -> run -> how often the gateway may still try to send it
          sent,     \* rule -> run -> how often it was delivered
          logs,     \* rule -> the runs with a row in notification_logs
          successes,\* rule -> those whose row says success
          severed   \* history: the runs that something cut short

notifyVars == <<rule, unsigned, contact, stage, runs, matching, resolved, reached, call,
                taken, gateway, sent, logs, successes, severed>>
ruleVars == <<rule, unsigned, contact>>
jobVars == <<stage, runs, matching, resolved, reached, call>>
messageVars == <<taken, gateway, sent>>
logVars == <<logs, successes>>

Webhooks == Rules \ ContactRules
Attempts == 1..MaxRuns
NoRuns == [r \in Rules |-> {}]
NoTries == [r \in Rules |-> [n \in Attempts |-> 0]]
NoCalls == [r \in Rules |-> "none"]
JobRuns == stage \in {"resolving", "sending", "logging"}
Calling == {r \in Rules : call[r] = "calling"}

NotifyInit ==
  /\ rule \in [Rules -> {"new", "there"}] /\ unsigned \in SUBSET Webhooks
  /\ contact = [c \in ContactRules |-> "active"]
  /\ stage = "queued" /\ runs = 0
  /\ matching = {} /\ resolved = {} /\ reached = {} /\ call = NoCalls
  /\ taken = NoRuns /\ gateway = NoTries /\ sent = NoTries
  /\ logs = NoRuns /\ successes = NoRuns /\ severed = {}

(***************************************************************************)
(* Rules and contacts                                                      *)
(***************************************************************************)
\* create_rule wants a URL of a webhook but not the secret it is signed with.
CreateRule(r) ==
  /\ rule[r] = "new"
  /\ rule' = [rule EXCEPT ![r] = "there"]
  /\ UNCHANGED <<unsigned, contact, jobVars, messageVars, logVars, severed>>

\* Its logs go with it, and the one that the job is to write cannot be written.
DeleteRule(r) ==
  /\ rule[r] = "there"
  /\ rule' = [rule EXCEPT ![r] = "deleted"]
  /\ severed' = IF JobRuns /\ r \in matching THEN severed \union {runs} ELSE severed
  /\ logs' = [logs EXCEPT ![r] = {}] /\ successes' = [successes EXCEPT ![r] = {}]
  /\ UNCHANGED <<unsigned, contact, jobVars, messageVars>>

UpdateContact(c) ==
  /\ contact[c] # "deleted"
  /\ \E s \in {"active", "inactive", "deleted"} \ {contact[c]} :
       contact' = [contact EXCEPT ![c] = s]
  /\ UNCHANGED <<rule, unsigned, jobVars, messageVars, logVars, severed>>

(***************************************************************************)
(* The job                                                                 *)
(***************************************************************************)
\* A job without a snapshot returns before it looks at any rule.
WithoutSnapshot ==
  /\ stage = "queued" /\ runs = 0
  /\ stage' = "done"
  /\ UNCHANGED <<ruleVars, runs, matching, resolved, reached, call, messageVars,
                 logVars, severed>>

\* evaluate_and_dispatch reads the active rules that match.
Evaluate ==
  /\ stage = "queued" /\ runs < MaxRuns
  /\ runs' = runs + 1 /\ stage' = "resolving"
  /\ matching' = {r \in Rules : rule[r] = "there"}
  /\ resolved' = {} /\ reached' = {} /\ call' = NoCalls
  /\ UNCHANGED <<ruleVars, messageVars, logVars, severed>>

ResolveContact(r) ==
  /\ stage = "resolving" /\ r \in (matching \intersect ContactRules) \ resolved
  /\ resolved' = resolved \union {r}
  /\ reached' = IF contact[r] = "active" THEN reached \union {r} ELSE reached
  /\ UNCHANGED <<ruleVars, stage, runs, matching, call, messageVars, logVars, severed>>

\* A query raises: the job catches it and ends without a message.
EvaluateFails ==
  /\ stage = "resolving"
  /\ stage' = "done"
  /\ UNCHANGED <<ruleVars, runs, matching, resolved, reached, call, messageVars,
                 logVars, severed>>

\* asyncio.gather: dispatch_webhook signs before its try, and what it raises
\* ends the dispatch while the other messages go on.
Raises == matching \intersect unsigned # {}
Dispatches(r) == r \in reached \/ r \in (matching \intersect Webhooks) \ unsigned

Gather ==
  /\ stage = "resolving" /\ matching \intersect ContactRules \subseteq resolved
  /\ stage' = IF Raises THEN "done" ELSE "sending"
  /\ severed' = IF Raises THEN severed \union {runs} ELSE severed
  /\ call' = [r \in Rules |-> IF Dispatches(r) THEN "calling" ELSE "none"]
  /\ UNCHANGED <<ruleVars, runs, matching, resolved, reached, messageVars, logVars>>

\* A webhook and a photo are delivered as they are taken, a text is queued at the
\* gateway, which answers 202.
TakenBy(takers, texts) ==
  /\ taken' = [r \in Rules |-> IF r \in takers THEN taken[r] \union {runs} ELSE taken[r]]
  /\ gateway' = [r \in Rules |-> IF r \in takers \intersect texts
                                 THEN [gateway[r] EXCEPT ![runs] = GatewayTries]
                                 ELSE gateway[r]]
  /\ sent' = [r \in Rules |-> IF r \in takers \ texts
                              THEN [sent[r] EXCEPT ![runs] = 1] ELSE sent[r]]

\* dispatch_webhook and dispatch_channel: one try, and a message whose reply is
\* lost counts as failed.
SendEnds(r, result) ==
  /\ call[r] = "calling"
  /\ call' = [call EXCEPT ![r] = result]
  /\ \E texts \in {{}, ContactRules} :
       \/ TakenBy({r}, texts)
       \/ result = "failed" /\ TakenBy({}, texts)
  /\ UNCHANGED <<ruleVars, stage, runs, matching, resolved, reached, logVars, severed>>

\* sendWithRetry, in the background: a try that the provider reports as failed may
\* have been delivered all the same.
GatewaySends(r, n) ==
  /\ gateway[r][n] > 0
  /\ \/ /\ sent' = [sent EXCEPT ![r][n] = @ + 1]
        /\ \E left \in {0, gateway[r][n] - 1} : gateway' = [gateway EXCEPT ![r][n] = left]
     \/ /\ gateway' = [gateway EXCEPT ![r][n] = @ - 1]
        /\ UNCHANGED sent
  /\ UNCHANGED <<ruleVars, jobVars, taken, logVars, severed>>

\* What it has queued is in its memory only.
GatewayRestarts ==
  /\ gateway # NoTries /\ gateway' = NoTries
  /\ UNCHANGED <<ruleVars, jobVars, taken, sent, logVars, severed>>

\* Mutant of ToLog: only successes are logged.
ToLogSuccesses == {r \in Rules : call[r] = "success"}

ToLog == {r \in Rules : call[r] \in {"success", "failed"}}

StartLogging ==
  /\ stage = "sending" /\ Calling = {}
  /\ stage' = "logging"
  /\ UNCHANGED <<ruleVars, runs, matching, resolved, reached, call, messageVars,
                 logVars, severed>>

\* The row of r's log, committed.
LogRow(r) ==
  /\ logs' = [logs EXCEPT ![r] = @ \union {runs}]
  /\ successes' = [successes EXCEPT ![r] = IF call[r] = "success" THEN @ \union {runs} ELSE @]

\* NotificationLogRepository.create commits every log on its own.
WriteLog(r) ==
  /\ stage = "logging" /\ r \in ToLog /\ rule[r] = "there"
  /\ LogRow(r)
  /\ call' = [call EXCEPT ![r] = "none"]
  /\ UNCHANGED <<ruleVars, stage, runs, matching, resolved, reached, messageVars, severed>>

\* The rule is gone, and the foreign key fails; or the database does, before or after
\* the commit.  The job catches it, and the logs still to write are lost.
LogFails(r) ==
  /\ stage = "logging" /\ r \in ToLog
  /\ stage' = "done"
  /\ \/ rule[r] = "deleted" /\ UNCHANGED <<logVars, severed>>
     \/ rule[r] = "there" /\ severed' = severed \union {runs} /\ (LogRow(r) \/ UNCHANGED logVars)
  /\ UNCHANGED <<ruleVars, runs, matching, resolved, reached, call, messageVars>>

JobEnds ==
  /\ stage = "logging" /\ ToLog = {}
  /\ stage' = "done"
  /\ UNCHANGED <<ruleVars, runs, matching, resolved, reached, call, messageVars,
                 logVars, severed>>

\* Requests under way may or may not have arrived.
CutShort ==
  /\ JobRuns
  /\ call' = NoCalls /\ severed' = severed \union {runs}
  /\ \E arrived \in SUBSET Calling, texts \in {{}, ContactRules} : TakenBy(arrived, texts)
  /\ UNCHANGED <<ruleVars, runs, matching, resolved, reached, logVars>>

\* The worker is shut down or killed: ARQ starts the job again.
Interrupted ==
  /\ CutShort
  /\ stage' = IF runs < MaxRuns THEN "queued" ELSE "done"

\* job_timeout: cancelled for good.
JobTimesOut ==
  /\ CutShort
  /\ stage' = "done"

NotifyNext ==
  \/ \E r \in Rules : \/ CreateRule(r) \/ DeleteRule(r) \/ ResolveContact(r)
                      \/ WriteLog(r) \/ LogFails(r)
                      \/ \E result \in {"success", "failed"} : SendEnds(r, result)
                      \/ \E n \in Attempts : GatewaySends(r, n)
  \/ \E c \in ContactRules : UpdateContact(c)
  \/ WithoutSnapshot \/ Evaluate \/ EvaluateFails \/ Gather \/ StartLogging \/ JobEnds
  \/ Interrupted \/ JobTimesOut \/ GatewayRestarts

NotifySpec == NotifyInit /\ [][NotifyNext]_notifyVars

(***************************************************************************)
(* Properties                                                              *)
(***************************************************************************)
\* What every variable may hold.
NotifyTypeOK ==
  /\ rule \in [Rules -> {"new", "there", "deleted"}]
  /\ unsigned \subseteq Webhooks
  /\ contact \in [ContactRules -> {"active", "inactive", "deleted"}]
  /\ stage \in {"queued", "resolving", "sending", "logging", "done"}
  /\ runs \in 0..MaxRuns
  /\ \A s \in {matching, resolved, reached} : s \subseteq Rules
  /\ call \in [Rules -> {"none", "calling", "success", "failed"}]
  /\ \A f \in {taken, logs, successes} : f \in [Rules -> SUBSET Attempts]
  /\ gateway \in [Rules -> [Attempts -> 0..GatewayTries]]
  /\ sent \in [Rules -> [Attempts -> 0..GatewayTries]]
  /\ severed \subseteq Attempts

\* One run of the job delivers a message once, and a text at most as often as the
\* gateway tries to; so that a second photo or webhook has an interrupted run behind
\* it.  A log that says success tells the truth, which for a text is no more than that
\* it was queued.  When a run is over that nothing cut short, every message that was
\* taken has its log: failed, slow and lost messages of some rules leave those of the
\* others alone.  Cut short: the worker stopped, a rule that it notifies was deleted,
\* the database failed as a log was written, a webhook has no secret to sign with.
MessagesAreLogged ==
  /\ \A r \in Rules, n \in Attempts :
       /\ sent[r][n] > 0 => n \in taken[r]
       /\ sent[r][n] <= IF r \in ContactRules THEN GatewayTries ELSE 1
       /\ n \in successes[r] => n \in taken[r]
       /\ n \in successes[r] /\ r \in Webhooks => sent[r][n] = 1
  /\ stage = "done" /\ runs \notin severed =>
       \A r \in Rules : runs \in taken[r] /\ rule[r] = "there" => runs \in logs[r]
=============================================================================
