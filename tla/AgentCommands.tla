---------------------------- MODULE AgentCommands -----------------------------
(***************************************************************************)
(* What the cloud asks of an installation behind CGNAT.  The process that  *)
(* serves a request keeps a future under the request's id and publishes    *)
(* the command on the agent's channel; whichever process holds the agent's *)
(* WebSocket passes it on, and the answer comes back the same way.  The    *)
(* futures are in the memory of one process: an answer that comes in at    *)
(* another finds none, and the request times out.                          *)
(***************************************************************************)
EXTENDS Integers, FiniteSets, Sequences

CONSTANTS Procs,      \* processes of the API
          Boxes,      \* agents at the customers'
          Commands,   \* requests and pushes
          Links,      \* WebSocket connections, each opened at most once
          LanCameras, \* what cameras do with the calls of a probe
          LanReplies, \* what comes back to a broadcast, in order of arrival
          NoBox, NoProc, NoLink, NoCommand

VARIABLES cmd,  \* command -> the request or the push
          link, \* connection -> its two ends
          box,  \* agent -> the connection it reads and the command it executes
          ran   \* history: command -> connections it was executed from

commandVars == <<cmd, link, box, ran>>

Calls == {"info", "profiles", "stream", "snapshot"}
Cameras == [Calls -> {"ok", "refused", "cut"}]
CommandKinds == {"probe", "discover", "push"}

ASSUME LanAssumption ==
  /\ LanCameras \subseteq Cameras
  /\ \A replies \in LanReplies : DOMAIN replies = 1..Len(replies)
  /\ NoBox \notin Boxes /\ NoLink \notin Links /\ NoCommand \notin Commands

NoAnswer == [to |-> NoCommand, body |-> {}]
NewCmd == [step |-> "new", kind |-> "push", box |-> NoBox, proc |-> NoProc, got |-> NoAnswer]
NewLink == [step |-> "new", box |-> NoBox, proc |-> NoProc, down |-> <<>>, up |-> <<>>]

CommandsInit ==
  /\ cmd = [r \in Commands |-> NewCmd]
  /\ link = [c \in Links |-> NewLink]
  /\ box = [a \in Boxes |-> [on |-> NoLink, doing |-> NoCommand]]
  /\ ran = [r \in Commands |-> {}]

-----------------------------------------------------------------------------
(***************************************************************************)
(* ONVIF, as the agent and the API speak it.                               *)
(***************************************************************************)
\* A call that is refused ends the probe only where its answer is needed; one that
\* is cut makes the whole camera unreachable, but for the last, which is optional.
Unreachable(cam) ==
  \/ cam["info"] = "cut" \/ cam["profiles"] = "cut"
  \/ cam["profiles"] = "ok" /\ cam["stream"] = "cut"

ProbeReport(cam) ==
  IF Unreachable(cam)
    THEN [reachable |-> FALSE, error |-> TRUE, found |-> {}]
    ELSE [reachable |-> TRUE, error |-> cam["profiles"] = "refused",
          found |-> {call \in {"info"} : cam[call] = "ok"}
                    \cup {call \in {"stream", "snapshot"} :
                            cam["profiles"] = "ok" /\ cam[call] = "ok"}]

\* The first reply of every address counts.
Discovered(replies) ==
  {replies[i] : i \in {k \in DOMAIN replies :
                         \A j \in 1..(k - 1) : replies[j].ip # replies[k].ip}}

Bodies(kind) ==
  CASE kind = "probe" -> {{ProbeReport(cam)} : cam \in LanCameras}
    [] kind = "discover" -> {Discovered(replies) : replies \in LanReplies}
    [] kind = "push" -> {{}}

-----------------------------------------------------------------------------
(***************************************************************************)
(* The request, in its process.                                            *)
(***************************************************************************)
\* A request without an agent is answered by the API's own client.
AskDirectly(r, kind) ==
  /\ cmd[r] = NewCmd
  /\ \E body \in Bodies(kind) :
       cmd' = [cmd EXCEPT ![r] = [NewCmd EXCEPT !.step = "ended", !.kind = kind,
                                                !.got = [to |-> r, body |-> body]]]
  /\ UNCHANGED <<link, box, ran>>

\* _send_agent_command registers the future before it publishes.
Ask(r, kind, a, p) ==
  /\ cmd[r] = NewCmd
  /\ cmd' = [cmd EXCEPT ![r] = [NewCmd EXCEPT !.step = "asked", !.kind = kind,
                                              !.box = a, !.proc = p]]
  /\ UNCHANGED <<link, box, ran>>

\* PUBLISH reaches who listens now.
Published(r, a) ==
  [c \in Links |-> IF link[c].box = a /\ link[c].step = "open"
                     THEN [link[c] EXCEPT !.down = Append(@, r)] ELSE link[c]]

Publish(r) ==
  /\ cmd[r].step = "asked"
  /\ link' = Published(r, cmd[r].box)
  /\ cmd' = [cmd EXCEPT ![r].step = "waiting"]
  /\ UNCHANGED <<box, ran>>

\* _notify_agent waits for nothing and swallows a failure.
Notify(r, a) ==
  /\ cmd[r] = NewCmd
  /\ cmd' = [cmd EXCEPT ![r] = [NewCmd EXCEPT !.step = "ended", !.box = a]]
  /\ link' \in {link, Published(r, a)}
  /\ UNCHANGED <<box, ran>>

\* The future leaves the dictionary in every case.
Return(r) ==
  /\ cmd[r].step = "settled"
  /\ cmd' = [cmd EXCEPT ![r].step = "ended"]
  /\ UNCHANGED <<link, box, ran>>

\* PUBLISH raises, or wait_for gives up, perhaps on a future that has just been set.
GivesUp(r) ==
  /\ cmd[r].step \in {"asked", "waiting", "settled"}
  /\ cmd' = [cmd EXCEPT ![r].step = "ended", ![r].got = NoAnswer]
  /\ UNCHANGED <<link, box, ran>>

-----------------------------------------------------------------------------
(***************************************************************************)
(* The WebSocket.                                                          *)
(***************************************************************************)
Connect(c, a, p) ==
  /\ link[c] = NewLink /\ box[a].on = NoLink
  /\ link' = [link EXCEPT ![c] = [NewLink EXCEPT !.step = "accepted", !.box = a, !.proc = p]]
  /\ box' = [box EXCEPT ![a].on = c]
  /\ UNCHANGED <<cmd, ran>>

Subscribe(c) ==
  /\ link[c].step = "accepted"
  /\ link' = [link EXCEPT ![c].step = "open"]
  /\ UNCHANGED <<cmd, box, ran>>

\* The network; the server may still read what has reached it.
Drops(c) ==
  /\ link[c].step \in {"accepted", "open"}
  /\ link' = [link EXCEPT ![c].step = "lost"]
  /\ UNCHANGED <<cmd, box, ran>>

Unsubscribe(c) ==
  /\ link[c].step = "lost"
  /\ link' = [link EXCEPT ![c].step = "closed", ![c].up = <<>>]
  /\ UNCHANGED <<cmd, box, ran>>

\* Mutant of Resolves: the future of the request that waits for this agent.
ResolvesByBox(c, answer, r) ==
  /\ cmd[r].box = link[c].box
  /\ cmd[r].step = "waiting" /\ cmd[r].proc = link[c].proc

\* The future an answer is for.
Resolves(c, answer, r) ==
  /\ r = answer.to
  /\ cmd[r].step = "waiting" /\ cmd[r].proc = link[c].proc

\* receive_text: an answer nobody waits for is dropped.
Receive(c) ==
  /\ link[c].step \in {"open", "lost"} /\ link[c].up # <<>>
  /\ LET answer == Head(link[c].up)
     IN \/ /\ \A r \in Commands : ~Resolves(c, answer, r)
           /\ UNCHANGED cmd
        \/ \E r \in Commands :
             /\ Resolves(c, answer, r)
             /\ cmd' = [cmd EXCEPT ![r].step = "settled", ![r].got = answer]
  /\ link' = [link EXCEPT ![c].up = Tail(@)]
  /\ UNCHANGED <<box, ran>>

\* A process dies with its futures and its connections.
ProcDies(p) ==
  /\ \E c \in Links : link[c].proc = p /\ link[c].step \in {"accepted", "open", "lost"}
  /\ cmd' = [r \in Commands |->
               IF cmd[r].proc = p /\ cmd[r].step \in {"asked", "waiting", "settled"}
                 THEN [cmd[r] EXCEPT !.step = "ended", !.got = NoAnswer] ELSE cmd[r]]
  /\ link' = [c \in Links |-> IF link[c].proc = p /\ link[c].step # "closed"
                                THEN [link[c] EXCEPT !.step = "closed", !.up = <<>>]
                                ELSE link[c]]
  /\ UNCHANGED <<box, ran>>

-----------------------------------------------------------------------------
(***************************************************************************)
(* The agent reads one message at a time and executes it before the next.  *)
(***************************************************************************)
TakeCommand(a) ==
  LET c == box[a].on
  IN /\ c # NoLink /\ box[a].doing = NoCommand /\ link[c].down # <<>>
     /\ box' = [box EXCEPT ![a].doing = Head(link[c].down)]
     /\ link' = [link EXCEPT ![c].down = Tail(@)]
     /\ UNCHANGED <<cmd, ran>>

\* A push makes it fetch its configuration; what it sends on a connection that is
\* gone is lost.
Execute(a) ==
  LET c == box[a].on
      r == box[a].doing
  IN /\ r # NoCommand
     /\ ran' = [ran EXCEPT ![r] = @ \cup {c}]
     /\ box' = [box EXCEPT ![a].doing = NoCommand]
     /\ IF cmd[r].kind # "push" /\ link[c].step = "open"
          THEN \E body \in Bodies(cmd[r].kind) :
                 link' = [link EXCEPT ![c].up = Append(@, [to |-> r, body |-> body])]
          ELSE UNCHANGED link
     /\ UNCHANGED cmd

\* The agent connects anew, after a while; what it had not read is gone.
Reconnects(a) ==
  LET c == box[a].on
  IN /\ c # NoLink /\ link[c].step \in {"lost", "closed"} /\ box[a].doing = NoCommand
     /\ box' = [box EXCEPT ![a].on = NoLink]
     /\ link' = [link EXCEPT ![c].down = <<>>]
     /\ UNCHANGED <<cmd, ran>>

CommandsNext ==
  \/ \E r \in Commands, kind \in {"probe", "discover"} :
       \/ AskDirectly(r, kind)
       \/ \E a \in Boxes, p \in Procs : Ask(r, kind, a, p)
  \/ \E r \in Commands : Publish(r) \/ Return(r) \/ GivesUp(r)
  \/ \E r \in Commands, a \in Boxes : Notify(r, a)
  \/ \E c \in Links : \/ Subscribe(c) \/ Drops(c) \/ Unsubscribe(c) \/ Receive(c)
                      \/ \E a \in Boxes, p \in Procs : Connect(c, a, p)
  \/ \E p \in Procs : ProcDies(p)
  \/ \E a \in Boxes : TakeCommand(a) \/ Execute(a) \/ Reconnects(a)

CommandsSpec == CommandsInit /\ [][CommandsNext]_commandVars

-----------------------------------------------------------------------------
AllBodies == UNION {Bodies(kind) : kind \in CommandKinds}
Answers == [to : Commands, body : AllBodies]

\* Type invariant.
CommandsTypeOK ==
  /\ cmd \in [Commands -> [step : {"new", "asked", "waiting", "settled", "ended"},
                           kind : CommandKinds, box : Boxes \cup {NoBox},
                           proc : Procs \cup {NoProc}, got : Answers \cup {NoAnswer}]]
  /\ link \in [Links -> [step : {"new", "accepted", "open", "lost", "closed"},
                        box : Boxes \cup {NoBox}, proc : Procs \cup {NoProc},
                        down : Seq(Commands), up : Seq(Answers)]]
  /\ box \in [Boxes -> [on : Links \cup {NoLink}, doing : Commands \cup {NoCommand}]]
  /\ ran \in [Commands -> SUBSET Links]

\* A camera that did not answer is reported with nothing, and one that refused its
\* profiles without a stream; a discovery names an address once.
Coherent(kind, body) ==
  /\ kind = "probe" => \A said \in body : /\ ~said.reachable => said.found = {}
                                          /\ said.error => said.found \subseteq {"info"}
  /\ kind = "discover" => \A x, y \in body : x.ip = y.ip => x = y

\* A user gets the answer to what he asked, whatever is lost, late or in the hands of
\* another process: it was worked out for this request by the agent it was meant for,
\* which executes a command once at most, however often it connects anew; and it makes
\* sense.
AnswersMatch ==
  \A r \in Commands :
    /\ cmd[r].got # NoAnswer => cmd[r].got.to = r /\ Coherent(cmd[r].kind, cmd[r].got.body)
    /\ cmd[r].got # NoAnswer /\ cmd[r].box # NoBox => ran[r] # {}
    /\ Cardinality(ran[r]) <= 1 /\ \A c \in ran[r] : link[c].box = cmd[r].box
=============================================================================
