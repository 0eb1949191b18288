-------------------------- MODULE ConnectionsProofs -------------------------
(***************************************************************************)
(* What goes over connections that stay open: commands for agents, tunnels *)
(* and live events, for any number of agents, requests, processes and      *)
(* streams.                                                                *)
(***************************************************************************)
EXTENDS AgentCommands, AgentTunnels, LiveEvents, FiniteSetTheorems,
        SequenceTheorems, TLAPS

(***************************************************************************)
(* AgentCommands: a caller gets the answer to its own command. The         *)
(* inductive invariant places every command in flight in one queue,        *)
(* channel or call, and pairs it with the process and the connection it    *)
(* goes through.                                                           *)
(***************************************************************************)
\* A connection that is up, or brings what its agent has not read, is the one that
\* its agent is on.
LinksSound ==
  /\ \A a \in Boxes : /\ box[a].on # NoLink => link[box[a].on].box = a
                      /\ box[a].doing # NoCommand => box[a].on # NoLink
  /\ \A c \in Links :
       link[c].step \in {"accepted", "open"} \/ link[c].down # <<>> =>
         link[c].box \in Boxes /\ box[link[c].box].on = c

\* A command is nowhere, or once on its way to its agent, or executed there now, or
\* executed there once.
Travels(r) ==
  \A c \in Links : \A i \in DOMAIN link[c].down : link[c].down[i] = r =>
    /\ link[c].box = cmd[r].box /\ ran[r] = {}
    /\ \A a \in Boxes : box[a].doing # r
    /\ \A j \in DOMAIN link[c].down : link[c].down[j] = r => j = i
Underway(r) ==
  \A a \in Boxes : box[a].doing = r => cmd[r].box = a /\ ran[r] = {}
Executed(r) ==
  /\ \A c \in ran[r] : link[c].box = cmd[r].box /\ cmd[r].box \in Boxes
  /\ \A c, d \in ran[r] : c = d
Nowhere(r) ==
  /\ \A c \in Links : \A i \in DOMAIN link[c].down : link[c].down[i] # r
  /\ \A a \in Boxes : box[a].doing # r
  /\ ran[r] = {}

OnceOnly(r) ==
  /\ cmd[r].step \in {"new", "asked"} => Nowhere(r)
  /\ Travels(r) /\ Underway(r) /\ Executed(r)

\* An answer was worked out by an execution of the command that it is for.
WorkedOut(answer) == /\ ran[answer.to] # {}
                     /\ answer.body \in Bodies(cmd[answer.to].kind)
Given(r) ==
  cmd[r].got # NoAnswer => /\ cmd[r].got.to = r
                           /\ cmd[r].got.body \in Bodies(cmd[r].kind)
                           /\ cmd[r].box # NoBox => ran[r] # {}

\* The inductive invariant of commands and answers.
CommandsInv ==
  /\ CommandsTypeOK /\ LinksSound
  /\ \A r \in Commands : OnceOnly(r) /\ Given(r)
  /\ \A c \in Links : \A i \in DOMAIN link[c].up : WorkedOut(link[c].up[i])

CmdRecords == [step : {"new", "asked", "waiting", "settled", "ended"},
               kind : CommandKinds, box : Boxes \cup {NoBox},
               proc : Procs \cup {NoProc}, got : Answers \cup {NoAnswer}]
LinkRecords == [step : {"new", "accepted", "open", "lost", "closed"},
                box : Boxes \cup {NoBox}, proc : Procs \cup {NoProc},
                down : Seq(Commands), up : Seq(Answers)]

LEMMA EntryOf ==
  ASSUME NEW S, NEW s \in Seq(S), NEW i \in DOMAIN s
  PROVE  s[i] \in S
BY LenProperties, ElementOfSeq

\* The type invariant with its records named.
LEMMA CommandsTypes ==
  CommandsTypeOK <=>
    /\ cmd \in [Commands -> CmdRecords] /\ link \in [Links -> LinkRecords]
    /\ box \in [Boxes -> [on : Links \cup {NoLink}, doing : Commands \cup {NoCommand}]]
    /\ ran \in [Commands -> SUBSET Links]
BY DEF CommandsTypeOK, CmdRecords, LinkRecords

\* What a probe or a discovery reports makes sense, whatever the cameras do.
LEMMA BodiesCoherent ==
  ASSUME NEW kind \in CommandKinds, NEW body \in Bodies(kind)
  PROVE  Coherent(kind, body)
<1>1. CASE kind = "probe"
  <2>1. PICK cam \in LanCameras : body = {ProbeReport(cam)}
    BY <1>1 DEF Bodies
  <2>2. cam \in [Calls -> {"ok", "refused", "cut"}]
    BY LanAssumption DEF Cameras
  <2>3. ASSUME NEW said \in body
        PROVE  /\ ~said.reachable => said.found = {}
               /\ said.error => said.found \subseteq {"info"}
    <3>1. said = ProbeReport(cam)
      BY <2>1
    <3>2. CASE Unreachable(cam)
      BY <3>1, <3>2 DEF ProbeReport
    <3>3. CASE ~Unreachable(cam)
      <4>1. said.reachable
        BY <3>1, <3>3 DEF ProbeReport
      <4>2. cam["profiles"] = "refused" =>
              {call \in {"stream", "snapshot"} : cam["profiles"] = "ok" /\ cam[call] = "ok"} = {}
        OBVIOUS
      <4>3. said.error => cam["profiles"] = "refused"
        BY <3>1, <3>3 DEF ProbeReport
      <4>4. said.found = {call \in {"info"} : cam[call] = "ok"}
                         \cup {call \in {"stream", "snapshot"} :
                                 cam["profiles"] = "ok" /\ cam[call] = "ok"}
        BY <3>1, <3>3 DEF ProbeReport
      <4> QED
        BY <4>1, <4>2, <4>3, <4>4
    <3> QED
      BY <3>2, <3>3
  <2> QED
    BY <1>1, <2>3 DEF Coherent
<1>2. CASE kind = "discover"
  <2>1. PICK replies \in LanReplies : body = Discovered(replies)
    BY <1>2 DEF Bodies
  <2>2. DOMAIN replies = 1..Len(replies)
    BY LanAssumption
  <2>3. ASSUME NEW x \in body, NEW y \in body, x.ip = y.ip PROVE x = y
    <3>1. PICK i \in DOMAIN replies :
            x = replies[i] /\ \A j \in 1..(i - 1) : replies[j].ip # replies[i].ip
      BY <2>1 DEF Discovered
    <3>2. PICK k \in DOMAIN replies :
            y = replies[k] /\ \A j \in 1..(k - 1) : replies[j].ip # replies[k].ip
      BY <2>1 DEF Discovered
    <3>3. i \in Int /\ k \in Int /\ i >= 1 /\ k >= 1
      BY <2>2
    <3>4. ~(i < k) /\ ~(k < i)
      BY <2>3, <3>1, <3>2, <3>3
    <3> QED
      BY <3>1, <3>2, <3>3, <3>4
  <2> QED
    BY <1>2, <2>3 DEF Coherent
<1>3. CASE kind = "push"
  BY <1>3 DEF Coherent
<1> QED
  BY <1>1, <1>2, <1>3 DEF CommandKinds

LEMMA CommandsInitHolds == CommandsInit => CommandsInv
<1> HAVE CommandsInit
<1>1. /\ cmd = [r \in Commands |-> NewCmd] /\ link = [c \in Links |-> NewLink]
      /\ box = [a \in Boxes |-> [on |-> NoLink, doing |-> NoCommand]]
      /\ ran = [r \in Commands |-> {}]
  BY DEF CommandsInit
<1>2. NewCmd \in CmdRecords /\ NewLink \in LinkRecords
  BY DEF NewCmd, NewLink, CmdRecords, LinkRecords, CommandKinds
<1>3. CommandsTypeOK
  BY <1>1, <1>2, CommandsTypes
<1>4. \A c \in Links : link[c].down = <<>> /\ link[c].up = <<>> /\ link[c].step = "new"
  BY <1>1 DEF NewLink
<1>5. LinksSound
  BY <1>1, <1>4 DEF LinksSound
<1>6. ASSUME NEW r \in Commands PROVE OnceOnly(r) /\ Given(r)
  <2>1. cmd[r].got = NoAnswer
    BY <1>1 DEF NewCmd
  <2>2. ran[r] = {} /\ \A a \in Boxes : box[a].doing # r
    BY <1>1, LanAssumption
  <2>3. \A c \in Links : DOMAIN link[c].down = {}
    BY <1>4
  <2> QED
    BY <2>1, <2>2, <2>3 DEF OnceOnly, Nowhere, Travels, Underway, Executed, Given
<1> QED
  BY <1>3, <1>4, <1>5, <1>6 DEF CommandsInv

\* A connection that brings nothing more, and is not up again.
Fades(c) ==
  /\ link'[c].box = link[c].box /\ link'[c].down = link[c].down
  /\ link'[c].step \in {"accepted", "open"} => link[c].step \in {"accepted", "open"}
  /\ \A i \in DOMAIN link'[c].up : \E j \in DOMAIN link[c].up : link'[c].up[i] = link[c].up[j]

\* A request that keeps its question and is not to be published any more than before.
Goes(r) ==
  /\ cmd'[r].box = cmd[r].box /\ cmd'[r].kind = cmd[r].kind
  /\ cmd'[r].step \in {"new", "asked"} => cmd[r].step \in {"new", "asked"}
  /\ \/ cmd'[r].got \in {cmd[r].got, NoAnswer}
     \/ cmd'[r].got.to = r /\ WorkedOut(cmd'[r].got)

\* Connections that fade and requests that go on move no command.
LEMMA QuietKeeps ==
  ASSUME CommandsInv, CommandsTypeOK', UNCHANGED <<box, ran>>,
         \A c \in Links : Fades(c), \A r \in Commands : Goes(r)
  PROVE  CommandsInv'
<1>1. LinksSound'
  BY CommandsTypes DEF CommandsInv, LinksSound, Fades
<1>2. ASSUME NEW r \in Commands PROVE OnceOnly(r)'
  <2>1. OnceOnly(r) /\ Goes(r)
    BY DEF CommandsInv
  <2>2. Nowhere(r) => Nowhere(r)'
    BY DEF Nowhere, Fades
  <2>3. Travels(r)'
    BY <2>1 DEF OnceOnly, Travels, Fades, Goes
  <2>4. Underway(r)'
    BY <2>1 DEF OnceOnly, Underway, Goes
  <2>5. Executed(r)'
    <3>1. ran[r] \subseteq Links
      BY CommandsTypes DEF CommandsInv
    <3> QED
      BY <2>1, <3>1 DEF OnceOnly, Executed, Fades, Goes
  <2> QED
    BY <2>1, <2>2, <2>3, <2>4, <2>5 DEF OnceOnly, Goes
<1>3. ASSUME NEW r \in Commands PROVE Given(r)'
  <2>1. Given(r) /\ Goes(r)
    BY DEF CommandsInv
  <2>2. CASE cmd'[r].got.to = r /\ WorkedOut(cmd'[r].got)
    BY <2>1, <2>2 DEF Given, Goes, WorkedOut, Bodies
  <2>3. CASE cmd'[r].got = cmd[r].got
    BY <2>1, <2>3 DEF Given, Goes, Bodies
  <2>4. CASE cmd'[r].got = NoAnswer
    BY <2>4 DEF Given
  <2> QED
    BY <2>1, <2>2, <2>3, <2>4 DEF Goes
<1>4. ASSUME NEW c \in Links, NEW i \in DOMAIN link'[c].up PROVE WorkedOut(link[c].up[i])'
  <2>1. PICK j \in DOMAIN link[c].up : link'[c].up[i] = link[c].up[j]
    BY DEF Fades
  <2>2. link[c].up \in Seq(Answers)
    BY CommandsTypes DEF CommandsInv, LinkRecords
  <2>3. link[c].up[j] \in Answers
    BY <2>2, EntryOf
  <2>4. WorkedOut(link[c].up[j])
    BY DEF CommandsInv
  <2> QED
    BY <2>1, <2>3, <2>4 DEF WorkedOut, Goes, Bodies, Answers
<1>5. \A c \in Links : \A i \in DOMAIN link'[c].up : WorkedOut(link[c].up[i])'
  BY <1>4
<1> QED
  BY <1>1, <1>2, <1>3, <1>5 DEF CommandsInv

\* A link that only changes its state, or loses what was on its way up.
LEMMA LinkFades ==
  ASSUME CommandsInv, NEW c \in Links, NEW y \in LinkRecords,
         link' = [link EXCEPT ![c] = y],
         y.box = link[c].box, y.down = link[c].down,
         y.step \in {"accepted", "open"} => link[c].step = "accepted",
         y.up \in {<<>>, link[c].up},
         UNCHANGED <<cmd, box, ran>>
  PROVE  CommandsInv'
<1>1. cmd \in [Commands -> CmdRecords] /\ link \in [Links -> LinkRecords]
  BY CommandsTypes DEF CommandsInv
<1>2. link'[c] = y /\ \A d \in Links : d # c => link'[d] = link[d]
  BY <1>1
<1>3. link' \in [Links -> LinkRecords]
  BY <1>1
<1>4. CommandsTypeOK'
  BY <1>3 DEF CommandsInv, CommandsTypeOK, CmdRecords, LinkRecords
<1>5. ASSUME NEW d \in Links PROVE Fades(d)
  <2>1. CASE d = c
    BY <1>2, <2>1 DEF Fades
  <2>2. CASE d # c
    BY <1>2, <2>2 DEF Fades
  <2> QED
    BY <2>1, <2>2
<1>6. \A r \in Commands : Goes(r)
  BY DEF Goes
<1> QED
  BY <1>4, <1>5, <1>6, QuietKeeps

\* A request that goes on, or gives up.
LEMMA CmdGoes ==
  ASSUME CommandsInv, NEW r \in Commands, NEW x \in CmdRecords,
         cmd' = [cmd EXCEPT ![r] = x],
         x.box = cmd[r].box, x.kind = cmd[r].kind,
         x.step \notin {"new", "asked"}, x.got \in {cmd[r].got, NoAnswer},
         UNCHANGED <<link, box, ran>>
  PROVE  CommandsInv'
<1>1. cmd \in [Commands -> CmdRecords] /\ link \in [Links -> LinkRecords]
  BY CommandsTypes DEF CommandsInv
<1>2. cmd'[r] = x /\ \A q \in Commands : q # r => cmd'[q] = cmd[q]
  BY <1>1
<1>3. cmd' \in [Commands -> CmdRecords]
  BY <1>1
<1>4. CommandsTypeOK'
  BY <1>3 DEF CommandsInv, CommandsTypeOK, CmdRecords, LinkRecords
<1>5. \A c \in Links : Fades(c)
  BY DEF Fades
<1>6. ASSUME NEW q \in Commands PROVE Goes(q)
  <2>1. CASE q = r
    BY <1>2, <2>1 DEF Goes
  <2>2. CASE q # r
    BY <1>2, <2>2 DEF Goes
  <2> QED
    BY <2>1, <2>2
<1> QED
  BY <1>4, <1>5, <1>6, QuietKeeps

\* The future that an answer resolves is that of the command it is for.
LEMMA ReceiveKeeps ==
  ASSUME CommandsInv, NEW c \in Links, Receive(c)
  PROVE  CommandsInv'
<1> DEFINE answer == Head(link[c].up)
<1>1. /\ cmd \in [Commands -> CmdRecords] /\ link \in [Links -> LinkRecords]
      /\ box \in [Boxes -> [on : Links \cup {NoLink}, doing : Commands \cup {NoCommand}]]
      /\ ran \in [Commands -> SUBSET Links]
  BY CommandsTypes DEF CommandsInv
<1>2. link[c].up \in Seq(Answers) /\ link[c].up # <<>>
  BY <1>1 DEF LinkRecords, Receive
<1>a. DOMAIN link[c].up = 1..Len(link[c].up) /\ Len(link[c].up) \in Nat \ {0}
  BY <1>2, LenProperties, EmptySeq
<1>b. /\ Tail(link[c].up) \in Seq(Answers) /\ Len(Tail(link[c].up)) = Len(link[c].up) - 1
      /\ \A i \in 1..Len(Tail(link[c].up)) : Tail(link[c].up)[i] = link[c].up[i + 1]
      /\ answer \in Answers
  BY <1>2, HeadTailProperties
<1>c. DOMAIN Tail(link[c].up) = 1..Len(Tail(link[c].up))
  BY <1>b, LenProperties
<1>3. /\ answer \in Answers /\ answer = link[c].up[1] /\ 1 \in DOMAIN link[c].up
      /\ Tail(link[c].up) \in Seq(Answers)
      /\ \A i \in DOMAIN Tail(link[c].up) :
           i + 1 \in DOMAIN link[c].up /\ Tail(link[c].up)[i] = link[c].up[i + 1]
  BY <1>a, <1>b, <1>c
<1>4. /\ link' = [link EXCEPT ![c].up = Tail(@)]
      /\ UNCHANGED <<box, ran>>
  BY DEF Receive
<1>5. /\ link'[c] = [link[c] EXCEPT !.up = Tail(link[c].up)]
      /\ \A d \in Links : d # c => link'[d] = link[d]
  BY <1>1, <1>4
<1>e. link[c] \in LinkRecords
  BY <1>1
<1>f. link'[c] \in LinkRecords
  BY <1>3, <1>5, <1>e DEF LinkRecords
<1>d. /\ link'[c].up = Tail(link[c].up)
      /\ link'[c].step = link[c].step /\ link'[c].box = link[c].box
      /\ link'[c].down = link[c].down
  BY <1>5, <1>e DEF LinkRecords
<1>6. link' \in [Links -> LinkRecords]
  BY <1>1, <1>4, <1>f
<1>7. ASSUME NEW d \in Links PROVE Fades(d)
  <2>1. CASE d = c
    BY <1>3, <1>d, <2>1 DEF Fades
  <2>2. CASE d # c
    BY <1>5, <2>2 DEF Fades
  <2> QED
    BY <2>1, <2>2
<1>8. CASE UNCHANGED cmd
  <2>1. \A r \in Commands : Goes(r)
    BY <1>8 DEF Goes
  <2>2. CommandsTypeOK'
    BY <1>1, <1>4, <1>6, <1>8 DEF CommandsTypeOK, CmdRecords, LinkRecords
  <2> QED
    BY <1>4, <1>7, <2>1, <2>2, QuietKeeps
<1>9. ASSUME NEW r \in Commands, Resolves(c, answer, r),
             cmd' = [cmd EXCEPT ![r].step = "settled", ![r].got = answer]
      PROVE  CommandsInv'
  <2>1. cmd'[r] = [cmd[r] EXCEPT !.step = "settled", !.got = answer]
        /\ \A q \in Commands : q # r => cmd'[q] = cmd[q]
    BY <1>1, <1>9
  <2>b. cmd[r] \in CmdRecords
    BY <1>1
  <2>c. cmd'[r] \in CmdRecords
    BY <1>3, <2>1, <2>b DEF CmdRecords
  <2>a. /\ cmd'[r].step = "settled" /\ cmd'[r].got = answer
        /\ cmd'[r].box = cmd[r].box /\ cmd'[r].kind = cmd[r].kind
    BY <2>1, <2>b DEF CmdRecords
  <2>2. cmd' \in [Commands -> CmdRecords]
    BY <1>1, <1>9, <2>1, <2>c
  <2>3. CommandsTypeOK'
    BY <1>1, <1>4, <1>6, <2>2 DEF CommandsTypeOK, CmdRecords, LinkRecords
  <2>4. ASSUME NEW q \in Commands PROVE Goes(q)
    <3>1. CASE q = r
      <4>2. WorkedOut(answer)
        BY <1>3 DEF CommandsInv
      <4>3. answer.to = r
        BY <1>9 DEF Resolves
      <4> QED
        BY <2>a, <3>1, <4>2, <4>3 DEF Goes
    <3>2. CASE q # r
      BY <2>1, <3>2 DEF Goes
    <3> QED
      BY <3>1, <3>2
  <2> QED
    BY <1>4, <1>7, <2>3, <2>4, QuietKeeps
<1> QED
  BY <1>8, <1>9 DEF Receive

\* The death of a process closes its connections and ends its requests.
LEMMA ProcDiesKeeps ==
  ASSUME CommandsInv, NEW p \in Procs, ProcDies(p)
  PROVE  CommandsInv'
<1>1. /\ cmd \in [Commands -> CmdRecords] /\ link \in [Links -> LinkRecords]
      /\ box \in [Boxes -> [on : Links \cup {NoLink}, doing : Commands \cup {NoCommand}]]
      /\ ran \in [Commands -> SUBSET Links]
  BY CommandsTypes DEF CommandsInv
<1>2. /\ cmd' = [r \in Commands |->
               IF cmd[r].proc = p /\ cmd[r].step \in {"asked", "waiting", "settled"}
                 THEN [cmd[r] EXCEPT !.step = "ended", !.got = NoAnswer] ELSE cmd[r]]
      /\ link' = [c \in Links |-> IF link[c].proc = p /\ link[c].step # "closed"
                                THEN [link[c] EXCEPT !.step = "closed", !.up = <<>>]
                                ELSE link[c]]
      /\ UNCHANGED <<box, ran>>
  BY DEF ProcDies
<1>3. ASSUME NEW r \in Commands PROVE cmd'[r] \in CmdRecords /\ Goes(r)
  <2>a. cmd[r] \in CmdRecords
    BY <1>1
  <2>1. /\ [cmd[r] EXCEPT !.step = "ended", !.got = NoAnswer] \in CmdRecords
        /\ [cmd[r] EXCEPT !.step = "ended", !.got = NoAnswer].box = cmd[r].box
        /\ [cmd[r] EXCEPT !.step = "ended", !.got = NoAnswer].kind = cmd[r].kind
        /\ [cmd[r] EXCEPT !.step = "ended", !.got = NoAnswer].step = "ended"
        /\ [cmd[r] EXCEPT !.step = "ended", !.got = NoAnswer].got = NoAnswer
    BY <1>1, <2>a DEF CmdRecords
  <2>2. cmd'[r] = cmd[r] \/ cmd'[r] = [cmd[r] EXCEPT !.step = "ended", !.got = NoAnswer]
    BY <1>2
  <2> QED
    BY <1>1, <2>1, <2>2 DEF Goes
<1>4. ASSUME NEW c \in Links PROVE link'[c] \in LinkRecords /\ Fades(c)
  <2>1. <<>> \in Seq(Answers)
    BY EmptySeq
  <2>a. link[c] \in LinkRecords
    BY <1>1
  <2>2. /\ [link[c] EXCEPT !.step = "closed", !.up = <<>>] \in LinkRecords
        /\ [link[c] EXCEPT !.step = "closed", !.up = <<>>].box = link[c].box
        /\ [link[c] EXCEPT !.step = "closed", !.up = <<>>].down = link[c].down
        /\ [link[c] EXCEPT !.step = "closed", !.up = <<>>].step = "closed"
        /\ [link[c] EXCEPT !.step = "closed", !.up = <<>>].up = <<>>
    BY <2>1, <2>a DEF LinkRecords
  <2>3. link'[c] = link[c] \/ link'[c] = [link[c] EXCEPT !.step = "closed", !.up = <<>>]
    BY <1>2
  <2>4. CASE link'[c] = link[c]
    BY <2>4, <2>a DEF Fades
  <2>5. CASE link'[c] = [link[c] EXCEPT !.step = "closed", !.up = <<>>]
    <3>1. /\ link'[c] \in LinkRecords /\ link'[c].box = link[c].box
          /\ link'[c].down = link[c].down /\ link'[c].step = "closed" /\ link'[c].up = <<>>
      BY <2>2, <2>5
    <3> QED
      BY <3>1 DEF Fades
  <2> QED
    BY <2>3, <2>4, <2>5
<1>6. cmd' \in [Commands -> CmdRecords] /\ link' \in [Links -> LinkRecords]
  BY <1>2, <1>3, <1>4
<1>5. CommandsTypeOK'
  BY <1>1, <1>2, <1>6 DEF CommandsTypeOK, CmdRecords, LinkRecords
<1> QED
  BY <1>2, <1>3, <1>4, <1>5, QuietKeeps

\* A request that is made, or answered by the API itself, has been executed nowhere.
LEMMA AskKeeps ==
  ASSUME CommandsInv, NEW r \in Commands, NEW x \in CmdRecords,
         cmd[r].step = "new", cmd' = [cmd EXCEPT ![r] = x],
         \/ x.got = NoAnswer
         \/ x.got.to = r /\ x.got.body \in Bodies(x.kind) /\ x.box = NoBox,
         UNCHANGED <<link, box, ran>>
  PROVE  CommandsInv'
<1>1. cmd \in [Commands -> CmdRecords] /\ link \in [Links -> LinkRecords]
  BY CommandsTypes DEF CommandsInv
<1>2. cmd'[r] = x /\ \A q \in Commands : q # r => cmd'[q] = cmd[q]
  BY <1>1
<1>3. cmd' \in [Commands -> CmdRecords]
  BY <1>1
<1>4. CommandsTypeOK'
  BY <1>3 DEF CommandsInv, CommandsTypeOK, CmdRecords, LinkRecords
<1>5. LinksSound'
  BY DEF CommandsInv, LinksSound
<1>6. Nowhere(r)
  BY DEF CommandsInv, OnceOnly
<1>7. ASSUME NEW q \in Commands PROVE OnceOnly(q)' /\ Given(q)'
  <2>1. CASE q = r
    <3>1. OnceOnly(r)'
      BY <1>6 DEF OnceOnly, Nowhere, Travels, Underway, Executed
    <3>2. Given(r)'
      BY <1>2 DEF Given, Bodies
    <3> QED
      BY <2>1, <3>1, <3>2
  <2>2. CASE q # r
    <3>1. OnceOnly(q) /\ Given(q) /\ cmd'[q] = cmd[q]
      BY <1>2, <2>2 DEF CommandsInv
    <3>2. OnceOnly(q)'
      BY <3>1 DEF OnceOnly, Nowhere, Travels, Underway, Executed
    <3>3. Given(q)'
      BY <3>1 DEF Given, Bodies
    <3> QED
      BY <3>2, <3>3
  <2> QED
    BY <2>1, <2>2
<1>8. ASSUME NEW c \in Links, NEW i \in DOMAIN link[c].up PROVE WorkedOut(link[c].up[i])'
  <2>1. WorkedOut(link[c].up[i])
    BY DEF CommandsInv
  <2>2. link[c].up \in Seq(Answers)
    BY <1>1 DEF LinkRecords
  <2>3. link[c].up[i] \in Answers
    BY <2>2, EntryOf
  <2>4. link[c].up[i].to # r
    BY <1>6, <2>1 DEF WorkedOut, Nowhere
  <2>5. cmd'[link[c].up[i].to] = cmd[link[c].up[i].to]
    BY <1>2, <2>3, <2>4 DEF Answers
  <2> QED
    BY <2>1, <2>5 DEF WorkedOut, Bodies
<1>9. \A c \in Links : \A i \in DOMAIN link'[c].up : WorkedOut(link[c].up[i])'
  BY <1>8
<1> QED
  BY <1>4, <1>5, <1>7, <1>9 DEF CommandsInv

\* What is published travels on one connection at most, where it was not before.
LEMMA PublishedKeeps ==
  ASSUME CommandsInv, NEW r \in Commands, NEW x \in CmdRecords,
         Nowhere(r), cmd' = [cmd EXCEPT ![r] = x],
         \/ x.got = NoAnswer
         \/ x.got = cmd[r].got /\ x.box = cmd[r].box /\ x.kind = cmd[r].kind,
         x.step \notin {"new", "asked"},
         link' = Published(r, x.box), UNCHANGED <<box, ran>>
  PROVE  CommandsInv'
<1>1. cmd \in [Commands -> CmdRecords] /\ link \in [Links -> LinkRecords]
  BY CommandsTypes DEF CommandsInv
<1>2. cmd'[r] = x /\ \A q \in Commands : q # r => cmd'[q] = cmd[q]
  BY <1>1
<1>3. cmd' \in [Commands -> CmdRecords]
  BY <1>1
<1>4. \A c \in Links :
        link'[c] = IF link[c].box = x.box /\ link[c].step = "open"
                     THEN [link[c] EXCEPT !.down = Append(link[c].down, r)] ELSE link[c]
  BY DEF Published
<1>5. ASSUME NEW c \in Links
      PROVE  /\ link'[c] \in LinkRecords
             /\ link'[c].step = link[c].step /\ link'[c].box = link[c].box
             /\ link'[c].up = link[c].up
             /\ IF link[c].box = x.box /\ link[c].step = "open"
                  THEN link'[c].down = Append(link[c].down, r)
                  ELSE link'[c].down = link[c].down
  <2>1. link[c] \in LinkRecords /\ link[c].down \in Seq(Commands)
    BY <1>1 DEF LinkRecords
  <2>2. Append(link[c].down, r) \in Seq(Commands)
    BY <2>1, AppendProperties
  <2>3. CASE link[c].box = x.box /\ link[c].step = "open"
    <3>1. link'[c] = [link[c] EXCEPT !.down = Append(link[c].down, r)]
      BY <1>4, <2>3
    <3>2. link'[c] \in LinkRecords
      BY <2>1, <2>2, <3>1 DEF LinkRecords
    <3>3. /\ link'[c].step = link[c].step /\ link'[c].box = link[c].box
          /\ link'[c].up = link[c].up /\ link'[c].down = Append(link[c].down, r)
      BY <2>1, <3>1 DEF LinkRecords
    <3> QED
      BY <2>3, <3>2, <3>3
  <2>4. CASE ~(link[c].box = x.box /\ link[c].step = "open")
    BY <1>4, <2>1, <2>4
  <2> QED
    BY <2>3, <2>4
<1>6. link' \in [Links -> LinkRecords]
  BY <1>5 DEF Published
<1>7. CommandsTypeOK'
  BY <1>3, <1>6 DEF CommandsInv, CommandsTypeOK, CmdRecords, LinkRecords
<1>8. ASSUME NEW c \in Links, NEW i \in DOMAIN link'[c].down
      PROVE  \/ i \in DOMAIN link[c].down /\ link'[c].down[i] = link[c].down[i]
             \/ /\ link[c].box = x.box /\ link[c].step = "open" /\ link'[c].down[i] = r
                /\ \A j \in DOMAIN link'[c].down : j # i =>
                     j \in DOMAIN link[c].down /\ link'[c].down[j] = link[c].down[j]
  <2>1. link[c].down \in Seq(Commands)
    BY <1>1 DEF LinkRecords
  <2>2. CASE link[c].box = x.box /\ link[c].step = "open"
    <3>1. link'[c].down = Append(link[c].down, r)
      BY <1>5, <2>2
    <3>2. /\ Len(link'[c].down) = Len(link[c].down) + 1
          /\ link'[c].down[Len(link[c].down) + 1] = r
          /\ \A j \in 1..Len(link[c].down) : link'[c].down[j] = link[c].down[j]
          /\ link'[c].down \in Seq(Commands)
      BY <2>1, <3>1, AppendProperties
    <3>3. /\ DOMAIN link[c].down = 1..Len(link[c].down) /\ Len(link[c].down) \in Nat
          /\ DOMAIN link'[c].down = 1..(Len(link[c].down) + 1)
      BY <2>1, <3>2, LenProperties
    <3> QED
      BY <2>2, <3>2, <3>3
  <2>3. CASE ~(link[c].box = x.box /\ link[c].step = "open")
    BY <1>5, <2>3
  <2> QED
    BY <2>2, <2>3
<1>9. LinksSound'
  <2>1. LinksSound
    BY DEF CommandsInv
  <2>2. ASSUME NEW c \in Links,
               link'[c].step \in {"accepted", "open"} \/ link'[c].down # <<>>
        PROVE  link'[c].box \in Boxes /\ box[link'[c].box].on = c
    BY <1>5, <2>1, <2>2 DEF LinksSound
  <2>3. \A a \in Boxes : box[a].on # NoLink => box[a].on \in Links
    BY DEF CommandsInv, CommandsTypeOK
  <2>4. \A a \in Boxes : /\ box[a].on # NoLink => link'[box[a].on].box = a
                         /\ box[a].doing # NoCommand => box[a].on # NoLink
    BY <1>5, <2>1, <2>3 DEF LinksSound
  <2> QED
    BY <2>2, <2>4 DEF LinksSound
<1>10. ASSUME NEW q \in Commands PROVE OnceOnly(q)'
  <2>1. ran[q] \subseteq Links /\ OnceOnly(q)
    BY DEF CommandsInv, CommandsTypeOK
  <2>2. CASE q = r
    <3>1. Travels(r)'
      <4> SUFFICES ASSUME NEW c \in Links, NEW i \in DOMAIN link'[c].down, link'[c].down[i] = r
                   PROVE  /\ link'[c].box = cmd'[r].box /\ ran[r] = {}
                          /\ \A a \in Boxes : box[a].doing # r
                          /\ \A j \in DOMAIN link'[c].down : link'[c].down[j] = r => j = i
        BY DEF Travels
      <4>1. \A j \in DOMAIN link[c].down : link[c].down[j] # r
        BY DEF Nowhere
      <4>2. /\ link[c].box = x.box
            /\ \A j \in DOMAIN link'[c].down : j # i =>
                 j \in DOMAIN link[c].down /\ link'[c].down[j] = link[c].down[j]
        BY <1>8, <4>1
      <4> QED
        BY <1>2, <1>5, <4>1, <4>2 DEF Nowhere
    <3>2. Underway(r)' /\ Executed(r)'
      BY DEF Nowhere, Underway, Executed
    <3> QED
      BY <1>2, <2>2, <3>1, <3>2 DEF OnceOnly
  <2>3. CASE q # r
    <3>1. \A c \in Links : \A i \in DOMAIN link'[c].down : link'[c].down[i] = q =>
            i \in DOMAIN link[c].down /\ link[c].down[i] = q
      BY <1>8, <2>3
    <3>2. Travels(q)'
      BY <1>2, <1>5, <2>1, <2>3, <3>1 DEF OnceOnly, Travels
    <3>3. Nowhere(q) => Nowhere(q)'
      BY <3>1 DEF Nowhere
    <3>4. Underway(q)' /\ Executed(q)'
      BY <1>2, <1>5, <2>1, <2>3 DEF OnceOnly, Underway, Executed
    <3> QED
      BY <1>2, <2>1, <2>3, <3>2, <3>3, <3>4 DEF OnceOnly
  <2> QED
    BY <2>2, <2>3
<1>11. ASSUME NEW q \in Commands PROVE Given(q)'
  <2>1. Given(q)
    BY DEF CommandsInv
  <2> QED
    BY <1>2, <2>1 DEF Given, Bodies
<1>12. ASSUME NEW c \in Links, NEW i \in DOMAIN link'[c].up PROVE WorkedOut(link[c].up[i])'
  <2>1. link'[c].up = link[c].up
    BY <1>5
  <2>2. WorkedOut(link[c].up[i])
    BY <2>1 DEF CommandsInv
  <2>3. link[c].up \in Seq(Answers)
    BY <1>1 DEF LinkRecords
  <2>4. link[c].up[i] \in Answers
    BY <2>1, <2>3, EntryOf
  <2>5. link[c].up[i].to # r
    BY <2>2 DEF WorkedOut, Nowhere
  <2>6. cmd'[link[c].up[i].to] = cmd[link[c].up[i].to]
    BY <1>2, <2>4, <2>5 DEF Answers
  <2> QED
    BY <2>1, <2>2, <2>6 DEF WorkedOut, Bodies
<1>13. \A c \in Links : \A i \in DOMAIN link'[c].up : WorkedOut(link[c].up[i])'
  BY <1>12
<1> QED
  BY <1>7, <1>9, <1>10, <1>11, <1>13 DEF CommandsInv

\* A connection that is opened brings nothing yet, and nothing was executed from it.
LEMMA ConnectKeeps ==
  ASSUME CommandsInv, NEW c \in Links, NEW a \in Boxes, NEW p \in Procs, Connect(c, a, p)
  PROVE  CommandsInv'
<1> DEFINE y == [NewLink EXCEPT !.step = "accepted", !.box = a, !.proc = p]
<1>1. /\ cmd \in [Commands -> CmdRecords] /\ link \in [Links -> LinkRecords]
      /\ box \in [Boxes -> [on : Links \cup {NoLink}, doing : Commands \cup {NoCommand}]]
      /\ ran \in [Commands -> SUBSET Links]
  BY CommandsTypes DEF CommandsInv
<1>2. /\ link[c] = NewLink /\ box[a].on = NoLink
      /\ link' = [link EXCEPT ![c] = y] /\ box' = [box EXCEPT ![a].on = c]
      /\ UNCHANGED <<cmd, ran>>
  BY DEF Connect
<1>3. /\ y \in LinkRecords /\ y.step = "accepted" /\ y.box = a
      /\ y.down = <<>> /\ y.up = <<>>
  BY EmptySeq DEF NewLink, LinkRecords
<1>4. link[c].box = NoBox /\ link[c].up = <<>>
  BY <1>2 DEF NewLink
<1> HIDE DEF y
<1>5. link'[c] = y /\ \A d \in Links : d # c => link'[d] = link[d]
  BY <1>1, <1>2
<1>6. /\ box'[a].on = c /\ box'[a].doing = box[a].doing
      /\ \A b \in Boxes : b # a => box'[b] = box[b]
  BY <1>1, <1>2
<1>7. link' \in [Links -> LinkRecords]
  BY <1>1, <1>2, <1>3
<1>8. box' \in [Boxes -> [on : Links \cup {NoLink}, doing : Commands \cup {NoCommand}]]
  BY <1>1, <1>2
<1>9. CommandsTypeOK'
  BY <1>2, <1>7, <1>8 DEF CommandsInv, CommandsTypeOK, CmdRecords, LinkRecords
<1>10. LinksSound'
  <2>1. LinksSound
    BY DEF CommandsInv
  <2>2. ASSUME NEW d \in Links,
               link'[d].step \in {"accepted", "open"} \/ link'[d].down # <<>>
        PROVE  link'[d].box \in Boxes /\ box'[link'[d].box].on = d
    <3>1. CASE d = c
      BY <1>3, <1>5, <1>6, <3>1
    <3>2. CASE d # c
      <4>1. link[d].box \in Boxes /\ box[link[d].box].on = d /\ link'[d] = link[d]
        BY <1>5, <2>1, <2>2, <3>2 DEF LinksSound
      <4>2. link[d].box # a
        BY <1>2, <4>1, LanAssumption
      <4> QED
        BY <1>6, <4>1, <4>2
    <3> QED
      BY <3>1, <3>2
  <2>3. ASSUME NEW b \in Boxes
        PROVE  /\ box'[b].on # NoLink => link'[box'[b].on].box = b
               /\ box'[b].doing # NoCommand => box'[b].on # NoLink
    <3>1. CASE b = a
      BY <1>3, <1>5, <1>6, <3>1, LanAssumption
    <3>2. CASE b # a
      <4>1. box'[b] = box[b]
        BY <1>6, <3>2
      <4>2. box[b].on # NoLink => box[b].on \in Links /\ link[box[b].on].box = b
        BY <1>1, <2>1 DEF LinksSound
      <4>3. box[b].on # NoLink => box[b].on # c
        BY <1>4, <4>2, LanAssumption
      <4> QED
        BY <1>5, <2>1, <4>1, <4>2, <4>3 DEF LinksSound
    <3> QED
      BY <3>1, <3>2
  <2> QED
    BY <2>2, <2>3 DEF LinksSound
<1>11. \A b \in Boxes : box'[b].doing = box[b].doing
  BY <1>6
<1>12. ASSUME NEW r \in Commands PROVE OnceOnly(r)' /\ Given(r)'
  <2>1. OnceOnly(r) /\ Given(r) /\ ran[r] \subseteq Links
    BY <1>1 DEF CommandsInv
  <2>2. c \notin ran[r]
    BY <1>4, <2>1, LanAssumption DEF OnceOnly, Executed
  <2>3. DOMAIN link'[c].down = {}
    BY <1>3, <1>5
  <2>4. Nowhere(r) => Nowhere(r)'
    BY <1>2, <1>5, <1>11, <2>3 DEF Nowhere
  <2>5. Travels(r)'
    BY <1>2, <1>5, <1>11, <2>1, <2>3 DEF OnceOnly, Travels
  <2>6. Underway(r)' /\ Executed(r)'
    BY <1>2, <1>5, <1>11, <2>1, <2>2 DEF OnceOnly, Underway, Executed
  <2>7. Given(r)'
    BY <1>2, <2>1 DEF Given, Bodies
  <2> QED
    BY <1>2, <2>1, <2>4, <2>5, <2>6, <2>7 DEF OnceOnly
<1>13. ASSUME NEW d \in Links, NEW i \in DOMAIN link'[d].up PROVE WorkedOut(link[d].up[i])'
  <2>1. d # c
    BY <1>3, <1>5
  <2>2. link'[d] = link[d] /\ WorkedOut(link[d].up[i])
    BY <1>5, <2>1 DEF CommandsInv
  <2> QED
    BY <1>2, <2>2 DEF WorkedOut, Bodies
<1>14. \A d \in Links : \A i \in DOMAIN link'[d].up : WorkedOut(link[d].up[i])'
  BY <1>13
<1> QED
  BY <1>9, <1>10, <1>12, <1>14 DEF CommandsInv

\* What an agent takes is on its way no more.
LEMMA TakeCommandKeeps ==
  ASSUME CommandsInv, NEW a \in Boxes, TakeCommand(a)
  PROVE  CommandsInv'
<1> DEFINE c == box[a].on
<1> DEFINE s == link[c].down
<1> DEFINE y == [link[c] EXCEPT !.down = Tail(s)]
<1> DEFINE t == Head(s)
<1>1. /\ cmd \in [Commands -> CmdRecords] /\ link \in [Links -> LinkRecords]
      /\ box \in [Boxes -> [on : Links \cup {NoLink}, doing : Commands \cup {NoCommand}]]
      /\ ran \in [Commands -> SUBSET Links]
  BY CommandsTypes DEF CommandsInv
<1>2. /\ c \in Links /\ c # NoLink /\ box[a].doing = NoCommand /\ s # <<>>
      /\ box' = [box EXCEPT ![a].doing = t] /\ link' = [link EXCEPT ![c] = y]
      /\ UNCHANGED <<cmd, ran>>
  BY <1>1 DEF TakeCommand
<1>3. link[c] \in LinkRecords /\ s \in Seq(Commands)
  BY <1>1, <1>2 DEF LinkRecords
<1>a. DOMAIN s = 1..Len(s) /\ Len(s) \in Nat \ {0}
  BY <1>2, <1>3, LenProperties, EmptySeq
<1>b. /\ Tail(s) \in Seq(Commands) /\ Len(Tail(s)) = Len(s) - 1
      /\ \A i \in 1..Len(Tail(s)) : Tail(s)[i] = s[i + 1]
      /\ t \in Commands
  BY <1>2, <1>3, HeadTailProperties
<1>c. DOMAIN Tail(s) = 1..Len(Tail(s))
  BY <1>b, LenProperties
<1>4. /\ t = s[1] /\ 1 \in DOMAIN s
      /\ \A i \in DOMAIN Tail(s) : /\ i + 1 \in DOMAIN s /\ i + 1 # 1
                                   /\ Tail(s)[i] = s[i + 1]
                                   /\ \A j \in DOMAIN Tail(s) : i + 1 = j + 1 => i = j
  BY <1>a, <1>b, <1>c
<1>5. /\ y \in LinkRecords /\ y.down = Tail(s)
      /\ y.step = link[c].step /\ y.box = link[c].box /\ y.up = link[c].up
  BY <1>3, <1>b DEF LinkRecords
<1> HIDE DEF y
<1>6. link'[c] = y /\ \A d \in Links : d # c => link'[d] = link[d]
  BY <1>1, <1>2
<1>7. /\ box'[a].on = c /\ box'[a].doing = t
      /\ \A b \in Boxes : b # a => box'[b] = box[b]
  BY <1>1, <1>2
<1>8. link' \in [Links -> LinkRecords]
  BY <1>1, <1>2, <1>5
<1>9. box' \in [Boxes -> [on : Links \cup {NoLink}, doing : Commands \cup {NoCommand}]]
  BY <1>1, <1>2, <1>b
<1>10. CommandsTypeOK'
  BY <1>2, <1>8, <1>9 DEF CommandsInv, CommandsTypeOK, CmdRecords, LinkRecords
<1>11. LinksSound /\ OnceOnly(t)
  BY <1>b DEF CommandsInv
<1>12. \A b \in Boxes : box'[b].on = box[b].on
  BY <1>7
<1>13. \A d \in Links : /\ link'[d].box = link[d].box /\ link'[d].step = link[d].step
                        /\ link'[d].up = link[d].up
                        /\ link'[d].down # <<>> => link[d].down # <<>>
  BY <1>2, <1>5, <1>6
<1> HIDE DEF c, s, t
<1>14. LinksSound'
  <2>1. ASSUME NEW d \in Links,
               link'[d].step \in {"accepted", "open"} \/ link'[d].down # <<>>
        PROVE  link'[d].box \in Boxes /\ box'[link'[d].box].on = d
    BY <1>11, <1>12, <1>13, <2>1 DEF LinksSound
  <2>2. ASSUME NEW b \in Boxes
        PROVE  /\ box'[b].on # NoLink => link'[box'[b].on].box = b
               /\ box'[b].doing # NoCommand => box'[b].on # NoLink
    <3>1. box[b].on # NoLink => box[b].on \in Links
      BY <1>1
    <3>2. b = a => box[b].on # NoLink
      BY <1>2 DEF c
    <3> QED
      BY <1>7, <1>11, <1>12, <1>13, <3>1, <3>2 DEF LinksSound
  <2> QED
    BY <2>1, <2>2 DEF LinksSound
<1>15. /\ cmd[t].box = a /\ ran[t] = {} /\ \A b \in Boxes : box[b].doing # t
       /\ \A i \in DOMAIN s : s[i] = t => i = 1
  <2>1. link[c].box = a
    BY <1>2, <1>11 DEF LinksSound, c
  <2> QED
    BY <1>2, <1>4, <1>11, <2>1 DEF OnceOnly, Travels, s
<1>16. ~Nowhere(t)
  BY <1>2, <1>4 DEF Nowhere, s
<1>17. ASSUME NEW d \in Links, NEW i \in DOMAIN link'[d].down
       PROVE  link'[d].down[i] # t
  <2>1. CASE d = c
    BY <1>4, <1>5, <1>6, <1>15, <2>1
  <2>2. CASE d # c
    <3>1. SUFFICES ASSUME link[d].down[i] = t PROVE FALSE
      BY <1>6, <2>2
    <3>2. i \in DOMAIN link[d].down /\ link[d].down # <<>>
      BY <1>6, <2>2
    <3>3. link[d].box = a
      BY <1>11, <1>15, <3>1, <3>2 DEF OnceOnly, Travels
    <3>4. box[a].on = d
      BY <1>11, <3>2, <3>3 DEF LinksSound
    <3> QED
      BY <2>2, <3>4 DEF c
  <2> QED
    BY <2>1, <2>2
<1>18. ASSUME NEW r \in Commands PROVE OnceOnly(r)'
  <2>1. OnceOnly(r) /\ ran[r] \subseteq Links
    BY <1>1 DEF CommandsInv
  <2>2. Executed(r)'
    BY <1>2, <1>13, <2>1 DEF OnceOnly, Executed
  <2>3. CASE r = t
    <3>1. Travels(r)'
      BY <1>17, <2>3 DEF Travels
    <3>2. Underway(r)'
      BY <1>2, <1>7, <1>15, <2>3 DEF Underway
    <3> QED
      BY <1>2, <1>11, <1>16, <2>2, <2>3, <3>1, <3>2 DEF OnceOnly
  <2>4. CASE r # t
    <3>1. \A b \in Boxes : box'[b].doing = r => box[b].doing = r
      BY <1>7, <2>4
    <3>2. ASSUME Nowhere(r) PROVE Nowhere(r)'
      <4>1. ASSUME NEW d \in Links, NEW i \in DOMAIN link'[d].down PROVE link'[d].down[i] # r
        <5>1. CASE d = c
          <6>1. i \in DOMAIN Tail(s) /\ link'[d].down[i] = Tail(s)[i]
            BY <1>5, <1>6, <5>1
          <6>2. i + 1 \in DOMAIN s /\ Tail(s)[i] = s[i + 1]
            BY <1>4, <6>1
          <6>3. \A j \in DOMAIN s : s[j] # r
            BY <1>2, <3>2 DEF Nowhere, s
          <6> QED
            BY <6>1, <6>2, <6>3
        <5>2. CASE d # c
          BY <1>6, <3>2, <5>2 DEF Nowhere
        <5> QED
          BY <5>1, <5>2
      <4> QED
        BY <1>2, <3>1, <3>2, <4>1 DEF Nowhere
    <3>3. Travels(r)'
      <4> SUFFICES ASSUME NEW d \in Links, NEW i \in DOMAIN link'[d].down,
                          link'[d].down[i] = r
                   PROVE  /\ link'[d].box = cmd'[r].box /\ ran'[r] = {}
                          /\ \A b \in Boxes : box'[b].doing # r
                          /\ \A j \in DOMAIN link'[d].down : link'[d].down[j] = r => j = i
        BY DEF Travels
      <4>1. Travels(r)
        BY <2>1 DEF OnceOnly
      <4>2. CASE d = c
        <5>1. i \in DOMAIN Tail(s) /\ s[i + 1] = r /\ i + 1 \in DOMAIN link[c].down
          BY <1>4, <1>5, <1>6, <4>2 DEF s
        <5>2. /\ link[c].box = cmd[r].box /\ ran[r] = {}
              /\ \A b \in Boxes : box[b].doing # r
              /\ \A j \in DOMAIN s : s[j] = r => j = i + 1
          BY <1>2, <4>1, <5>1 DEF Travels, s
        <5>3. \A j \in DOMAIN link'[d].down : link'[d].down[j] = r => j = i
          BY <1>4, <1>5, <1>6, <4>2, <5>1, <5>2
        <5> QED
          BY <1>2, <1>13, <3>1, <4>2, <5>2, <5>3
      <4>3. CASE d # c
        BY <1>2, <1>6, <3>1, <4>1, <4>3 DEF Travels
      <4> QED
        BY <4>2, <4>3
    <3>4. Underway(r)'
      BY <1>2, <2>1, <3>1 DEF OnceOnly, Underway
    <3> QED
      BY <1>2, <2>1, <2>2, <3>2, <3>3, <3>4 DEF OnceOnly
  <2> QED
    BY <2>3, <2>4
<1>19. ASSUME NEW r \in Commands PROVE Given(r)'
  <2>1. Given(r)
    BY DEF CommandsInv
  <2> QED
    BY <1>2, <2>1 DEF Given, Bodies
<1>20. ASSUME NEW d \in Links, NEW i \in DOMAIN link'[d].up PROVE WorkedOut(link[d].up[i])'
  <2>1. link'[d].up = link[d].up /\ WorkedOut(link[d].up[i])
    BY <1>13 DEF CommandsInv
  <2> QED
    BY <1>2, <2>1 DEF WorkedOut, Bodies
<1>21. \A d \in Links : \A i \in DOMAIN link'[d].up : WorkedOut(link[d].up[i])'
  BY <1>20
<1> QED
  BY <1>10, <1>14, <1>18, <1>19, <1>21 DEF CommandsInv

\* What is executed leaves its agent's hands, and no trace of it is left elsewhere.
LEMMA ExecuteKeeps ==
  ASSUME CommandsInv, NEW a \in Boxes, Execute(a)
  PROVE  CommandsInv'
<1> DEFINE c == box[a].on
<1> DEFINE r == box[a].doing
<1>1. /\ cmd \in [Commands -> CmdRecords] /\ link \in [Links -> LinkRecords]
      /\ box \in [Boxes -> [on : Links \cup {NoLink}, doing : Commands \cup {NoCommand}]]
      /\ ran \in [Commands -> SUBSET Links]
  BY CommandsTypes DEF CommandsInv
<1>2. /\ r # NoCommand /\ ran' = [ran EXCEPT ![r] = ran[r] \cup {c}]
      /\ box' = [box EXCEPT ![a].doing = NoCommand] /\ UNCHANGED cmd
  BY DEF Execute
<1>3. LinksSound
  BY DEF CommandsInv
<1>4. c # NoLink /\ link[c].box = a /\ c \in Links /\ r \in Commands
  BY <1>1, <1>2, <1>3 DEF LinksSound
<1>5. OnceOnly(r)
  BY <1>4 DEF CommandsInv
<1>6. /\ cmd[r].box = a /\ ran[r] = {} /\ ~Nowhere(r)
      /\ \A b \in Boxes : box[b].doing = r => b = a
      /\ \A d \in Links : \A i \in DOMAIN link[d].down : link[d].down[i] # r
  BY <1>5 DEF OnceOnly, Underway, Travels, Nowhere
<1>7. /\ box'[a].on = c /\ box'[a].doing = NoCommand
      /\ \A b \in Boxes : b # a => box'[b] = box[b]
  BY <1>1, <1>2
<1>8. ran'[r] = {c} /\ \A q \in Commands : q # r => ran'[q] = ran[q]
  BY <1>1, <1>2, <1>4, <1>6
<1>9. /\ box' \in [Boxes -> [on : Links \cup {NoLink}, doing : Commands \cup {NoCommand}]]
      /\ ran' \in [Commands -> SUBSET Links]
  BY <1>1, <1>2, <1>4
<1> HIDE DEF c, r
<1>10. /\ link' \in [Links -> LinkRecords]
       /\ \A d \in Links : /\ link'[d].box = link[d].box /\ link'[d].step = link[d].step
                           /\ link'[d].down = link[d].down
       /\ \A d \in Links : \A i \in DOMAIN link'[d].up :
            \/ i \in DOMAIN link[d].up /\ link'[d].up[i] = link[d].up[i]
            \/ link'[d].up[i].to = r /\ link'[d].up[i].body \in Bodies(cmd[r].kind)
  <2>1. CASE UNCHANGED link
    BY <1>1, <2>1
  <2>2. ASSUME NEW body \in Bodies(cmd[r].kind),
               link' = [link EXCEPT ![c].up = Append(@, [to |-> r, body |-> body])]
        PROVE  <1>10!:
    <3> DEFINE e == [to |-> r, body |-> body]
    <3> DEFINE u == Append(link[c].up, e)
    <3>1. link[c] \in LinkRecords /\ link[c].up \in Seq(Answers)
      BY <1>1, <1>4 DEF LinkRecords
    <3>2. cmd[r].kind \in CommandKinds
      BY <1>1, <1>4 DEF CmdRecords
    <3>3. body \in AllBodies
      BY <3>2 DEF AllBodies
    <3>4. e \in Answers /\ e.to = r /\ e.body = body
      BY <1>4, <3>3 DEF Answers
    <3>5. link' = [link EXCEPT ![c] = [link[c] EXCEPT !.up = u]]
      BY <1>1, <1>4, <2>2
    <3> HIDE DEF e
    <3>6. /\ u \in Seq(Answers) /\ Len(u) = Len(link[c].up) + 1
          /\ u[Len(link[c].up) + 1] = e
          /\ \A i \in 1..Len(link[c].up) : u[i] = link[c].up[i]
      BY <3>1, <3>4, AppendProperties
    <3> HIDE DEF u
    <3>7. /\ DOMAIN link[c].up = 1..Len(link[c].up) /\ Len(link[c].up) \in Nat
          /\ DOMAIN u = 1..(Len(link[c].up) + 1)
      BY <3>1, <3>6, LenProperties
    <3>8. \A i \in DOMAIN u : (i \in DOMAIN link[c].up /\ u[i] = link[c].up[i]) \/ u[i] = e
      BY <3>6, <3>7
    <3> DEFINE y == [link[c] EXCEPT !.up = u]
    <3>9. y \in LinkRecords
      BY <3>1, <3>6 DEF LinkRecords
    <3>10. y.box = link[c].box /\ y.step = link[c].step /\ y.down = link[c].down /\ y.up = u
      BY <3>1 DEF LinkRecords
    <3>11. link' = [link EXCEPT ![c] = y]
      BY <3>5
    <3> HIDE DEF y
    <3>12. link' \in [Links -> LinkRecords]
      BY <1>1, <3>9, <3>11
    <3>13. link'[c] = y /\ \A d \in Links : d # c => link'[d] = link[d]
      BY <1>1, <1>4, <3>11
    <3>14. \A d \in Links : /\ link'[d].box = link[d].box /\ link'[d].step = link[d].step
                            /\ link'[d].down = link[d].down
      BY <3>10, <3>13
    <3>15. ASSUME NEW d \in Links, NEW i \in DOMAIN link'[d].up
           PROVE  \/ i \in DOMAIN link[d].up /\ link'[d].up[i] = link[d].up[i]
                  \/ link'[d].up[i].to = r /\ link'[d].up[i].body \in Bodies(cmd[r].kind)
      <4>1. CASE d = c
        BY <2>2, <3>4, <3>8, <3>10, <3>13, <4>1
      <4>2. CASE d # c
        BY <3>13, <4>2
      <4> QED
        BY <4>1, <4>2
    <3> QED
      BY <3>12, <3>14, <3>15
  <2> QED
    BY <2>1, <2>2 DEF Execute, c, r
<1>11. CommandsTypeOK'
  BY <1>2, <1>9, <1>10 DEF CommandsInv, CommandsTypeOK, CmdRecords, LinkRecords
<1>12. \A b \in Boxes : box'[b].on = box[b].on
  BY <1>7 DEF c
<1>13. LinksSound'
  <2>1. ASSUME NEW d \in Links,
               link'[d].step \in {"accepted", "open"} \/ link'[d].down # <<>>
        PROVE  link'[d].box \in Boxes /\ box'[link'[d].box].on = d
    BY <1>3, <1>10, <1>12, <2>1 DEF LinksSound
  <2>2. ASSUME NEW b \in Boxes
        PROVE  /\ box'[b].on # NoLink => link'[box'[b].on].box = b
               /\ box'[b].doing # NoCommand => box'[b].on # NoLink
    <3>1. box[b].on # NoLink => box[b].on \in Links
      BY <1>1
    <3> QED
      BY <1>3, <1>7, <1>10, <1>12, <3>1 DEF LinksSound
  <2> QED
    BY <2>1, <2>2 DEF LinksSound
<1>14. ASSUME NEW q \in Commands PROVE OnceOnly(q)'
  <2>1. OnceOnly(q) /\ ran[q] \subseteq Links
    BY <1>1 DEF CommandsInv
  <2>2. CASE q = r
    <3>1. Travels(q)'
      BY <1>6, <1>10, <2>2 DEF Travels
    <3>2. Underway(q)'
      BY <1>4, <1>6, <1>7, <2>2, LanAssumption DEF Underway
    <3>3. Executed(q)'
      BY <1>2, <1>4, <1>6, <1>8, <1>10, <2>2 DEF Executed
    <3> QED
      BY <1>2, <1>6, <2>1, <2>2, <3>1, <3>2, <3>3 DEF OnceOnly
  <2>3. CASE q # r
    <3>1. ran'[q] = ran[q] /\ \A b \in Boxes : box'[b].doing = q => box[b].doing = q
      BY <1>7, <1>8, <2>3, LanAssumption
    <3>2. Nowhere(q) => Nowhere(q)'
      BY <1>10, <3>1 DEF Nowhere
    <3>a. Travels(q) /\ \A d \in Links : link'[d].down = link[d].down /\ link'[d].box = link[d].box
      BY <1>10, <2>1 DEF OnceOnly
    <3>3. Travels(q)'
      BY <1>2, <3>1, <3>a DEF Travels
    <3>4. Underway(q)' /\ Executed(q)'
      BY <1>2, <1>10, <2>1, <3>1 DEF OnceOnly, Underway, Executed
    <3> QED
      BY <1>2, <2>1, <3>2, <3>3, <3>4 DEF OnceOnly
  <2> QED
    BY <2>2, <2>3
<1>15. ASSUME NEW q \in Commands PROVE ran[q] # {} => ran'[q] # {}
  BY <1>8
<1>16. ASSUME NEW q \in Commands PROVE Given(q)'
  <2>1. Given(q)
    BY DEF CommandsInv
  <2> QED
    BY <1>2, <1>15, <2>1 DEF Given, Bodies
<1>17. ASSUME NEW d \in Links, NEW i \in DOMAIN link'[d].up PROVE WorkedOut(link[d].up[i])'
  <2>1. CASE i \in DOMAIN link[d].up /\ link'[d].up[i] = link[d].up[i]
    <3>1. link[d].up \in Seq(Answers)
      BY <1>1 DEF LinkRecords
    <3>2. link[d].up[i] \in Answers
      BY <2>1, <3>1, EntryOf
    <3>3. WorkedOut(link[d].up[i])
      BY <2>1 DEF CommandsInv
    <3> QED
      BY <1>2, <1>15, <2>1, <3>2, <3>3 DEF WorkedOut, Bodies, Answers
  <2>2. CASE link'[d].up[i].to = r /\ link'[d].up[i].body \in Bodies(cmd[r].kind)
    BY <1>2, <1>8, <2>2 DEF WorkedOut, Bodies
  <2> QED
    BY <1>10, <2>1, <2>2
<1>18. \A d \in Links : \A i \in DOMAIN link'[d].up : WorkedOut(link[d].up[i])'
  BY <1>17
<1> QED
  BY <1>11, <1>13, <1>14, <1>16, <1>18 DEF CommandsInv

\* What an agent had not read when it gave its connection up is gone.
LEMMA ReconnectsKeeps ==
  ASSUME CommandsInv, NEW a \in Boxes, Reconnects(a)
  PROVE  CommandsInv'
<1> DEFINE c == box[a].on
<1> DEFINE y == [link[c] EXCEPT !.down = <<>>]
<1>1. /\ cmd \in [Commands -> CmdRecords] /\ link \in [Links -> LinkRecords]
      /\ box \in [Boxes -> [on : Links \cup {NoLink}, doing : Commands \cup {NoCommand}]]
      /\ ran \in [Commands -> SUBSET Links]
  BY CommandsTypes DEF CommandsInv
<1>2. /\ c \in Links /\ link[c].step \in {"lost", "closed"} /\ box[a].doing = NoCommand
      /\ box' = [box EXCEPT ![a].on = NoLink] /\ link' = [link EXCEPT ![c] = y]
      /\ UNCHANGED <<cmd, ran>>
  BY <1>1 DEF Reconnects
<1>3. link[c] \in LinkRecords
  BY <1>1, <1>2
<1>4. /\ y \in LinkRecords /\ y.down = <<>>
      /\ y.step = link[c].step /\ y.box = link[c].box /\ y.up = link[c].up
  BY <1>3, EmptySeq DEF LinkRecords
<1> HIDE DEF y
<1>5. link'[c] = y /\ \A d \in Links : d # c => link'[d] = link[d]
  BY <1>1, <1>2
<1>6. /\ box'[a].on = NoLink /\ box'[a].doing = NoCommand
      /\ \A b \in Boxes : b # a => box'[b] = box[b]
  BY <1>1, <1>2
<1>7. link' \in [Links -> LinkRecords]
  BY <1>1, <1>2, <1>4
<1>8. box' \in [Boxes -> [on : Links \cup {NoLink}, doing : Commands \cup {NoCommand}]]
  BY <1>1, <1>2
<1>9. CommandsTypeOK'
  BY <1>2, <1>7, <1>8 DEF CommandsInv, CommandsTypeOK, CmdRecords, LinkRecords
<1>10. \A d \in Links : link'[d].box = link[d].box /\ link'[d].up = link[d].up
  BY <1>4, <1>5
<1>11. LinksSound
  BY DEF CommandsInv
<1>12. DOMAIN link'[c].down = {} /\ link'[c].down = <<>> /\ link'[c].step = link[c].step
  BY <1>4, <1>5
<1>13. \A b \in Boxes : box'[b].doing = box[b].doing
  BY <1>2, <1>6
<1>14. LinksSound'
  <2>1. ASSUME NEW d \in Links,
               link'[d].step \in {"accepted", "open"} \/ link'[d].down # <<>>
        PROVE  link'[d].box \in Boxes /\ box'[link'[d].box].on = d
    <3>1. d # c
      BY <1>2, <1>12, <2>1
    <3>2. link[d].box \in Boxes /\ box[link[d].box].on = d /\ link'[d] = link[d]
      BY <1>5, <1>11, <2>1, <3>1 DEF LinksSound
    <3>3. link[d].box # a
      BY <3>1, <3>2
    <3> QED
      BY <1>6, <3>2, <3>3
  <2>2. ASSUME NEW b \in Boxes
        PROVE  /\ box'[b].on # NoLink => link'[box'[b].on].box = b
               /\ box'[b].doing # NoCommand => box'[b].on # NoLink
    <3>1. CASE b = a
      BY <1>6, <3>1
    <3>2. CASE b # a
      <4>1. box[b].on # NoLink => box[b].on \in Links
        BY <1>1
      <4> QED
        BY <1>6, <1>10, <1>11, <3>2, <4>1 DEF LinksSound
    <3> QED
      BY <3>1, <3>2
  <2> QED
    BY <2>1, <2>2 DEF LinksSound
<1> HIDE DEF c
<1>15. ASSUME NEW r \in Commands PROVE OnceOnly(r)' /\ Given(r)'
  <2>1. OnceOnly(r) /\ Given(r) /\ ran[r] \subseteq Links
    BY <1>1 DEF CommandsInv
  <2>2. Nowhere(r) => Nowhere(r)'
    BY <1>2, <1>5, <1>12, <1>13 DEF Nowhere
  <2>3. Travels(r)'
    BY <1>2, <1>5, <1>12, <1>13, <2>1 DEF OnceOnly, Travels
  <2>4. Underway(r)' /\ Executed(r)'
    BY <1>2, <1>10, <1>13, <2>1 DEF OnceOnly, Underway, Executed
  <2>5. Given(r)'
    BY <1>2, <2>1 DEF Given, Bodies
  <2> QED
    BY <1>2, <2>1, <2>2, <2>3, <2>4, <2>5 DEF OnceOnly
<1>16. ASSUME NEW d \in Links, NEW i \in DOMAIN link'[d].up PROVE WorkedOut(link[d].up[i])'
  <2>1. link'[d].up = link[d].up /\ WorkedOut(link[d].up[i])
    BY <1>10 DEF CommandsInv
  <2> QED
    BY <1>2, <2>1 DEF WorkedOut, Bodies
<1>17. \A d \in Links : \A i \in DOMAIN link'[d].up : WorkedOut(link[d].up[i])'
  BY <1>16
<1> QED
  BY <1>9, <1>14, <1>15, <1>17 DEF CommandsInv

\* Every step of the requests, the processes, the network and the agents keeps it.
LEMMA CommandsStep == CommandsInv /\ [CommandsNext]_commandVars => CommandsInv'
<1> SUFFICES ASSUME CommandsInv, [CommandsNext]_commandVars PROVE CommandsInv'
  OBVIOUS
<1>1. /\ cmd \in [Commands -> CmdRecords] /\ link \in [Links -> LinkRecords]
      /\ CommandsTypeOK
  BY CommandsTypes DEF CommandsInv
<1>2. NewCmd \in CmdRecords
  BY DEF NewCmd, CmdRecords, CommandKinds
<1>3. ASSUME NEW r \in Commands, NEW kind \in {"probe", "discover"}, AskDirectly(r, kind)
      PROVE  CommandsInv'
  <2>1. PICK body \in Bodies(kind) :
          cmd' = [cmd EXCEPT ![r] = [NewCmd EXCEPT !.step = "ended", !.kind = kind,
                                                   !.got = [to |-> r, body |-> body]]]
    BY <1>3 DEF AskDirectly
  <2> DEFINE e == [to |-> r, body |-> body]
  <2>2. kind \in CommandKinds
    BY DEF CommandKinds
  <2>3. body \in AllBodies
    BY <2>2 DEF AllBodies
  <2>4. e \in Answers /\ e.to = r /\ e.body = body
    BY <2>3 DEF Answers
  <2> HIDE DEF e
  <2> DEFINE x == [NewCmd EXCEPT !.step = "ended", !.kind = kind, !.got = e]
  <2>5. /\ x \in CmdRecords /\ x.got = e /\ x.kind = kind /\ x.box = NoBox
    BY <2>2, <2>4 DEF NewCmd, CmdRecords
  <2>6. cmd' = [cmd EXCEPT ![r] = x] /\ cmd[r].step = "new" /\ UNCHANGED <<link, box, ran>>
    <3>1. cmd' = [cmd EXCEPT ![r] = x]
      BY <2>1 DEF e
    <3>2. cmd[r].step = "new" /\ UNCHANGED <<link, box, ran>>
      BY <1>3 DEF AskDirectly, NewCmd
    <3> QED
      BY <3>1, <3>2
  <2> HIDE DEF x
  <2> QED
    BY <2>4, <2>5, <2>6, AskKeeps
<1>4. ASSUME NEW r \in Commands, NEW kind \in {"probe", "discover"},
             NEW a \in Boxes, NEW p \in Procs, Ask(r, kind, a, p)
      PROVE  CommandsInv'
  <2> DEFINE x == [NewCmd EXCEPT !.step = "asked", !.kind = kind, !.box = a, !.proc = p]
  <2>1. x \in CmdRecords /\ x.got = NoAnswer
    BY DEF NewCmd, CmdRecords, CommandKinds
  <2>2. cmd' = [cmd EXCEPT ![r] = x] /\ cmd[r].step = "new" /\ UNCHANGED <<link, box, ran>>
    BY <1>4 DEF Ask, NewCmd
  <2> HIDE DEF x
  <2> QED
    BY <2>1, <2>2, AskKeeps
<1>5. ASSUME NEW r \in Commands, Publish(r) PROVE CommandsInv'
  <2> DEFINE x == [cmd[r] EXCEPT !.step = "waiting"]
  <2>1. cmd[r] \in CmdRecords
    BY <1>1
  <2>2. x \in CmdRecords
    BY <2>1 DEF CmdRecords
  <2>3. x.step = "waiting" /\ x.got = cmd[r].got /\ x.box = cmd[r].box /\ x.kind = cmd[r].kind
    BY <2>1 DEF CmdRecords
  <2>4. /\ cmd' = [cmd EXCEPT ![r] = x] /\ cmd[r].step = "asked"
        /\ link' = Published(r, cmd[r].box) /\ UNCHANGED <<box, ran>>
    BY <1>5 DEF Publish
  <2>5. Nowhere(r)
    BY <2>4 DEF CommandsInv, OnceOnly
  <2> HIDE DEF x
  <2>6. link' = Published(r, x.box)
    BY <2>3, <2>4
  <2> QED
    BY <2>2, <2>3, <2>4, <2>5, <2>6, PublishedKeeps
<1>6. ASSUME NEW r \in Commands, NEW a \in Boxes, Notify(r, a) PROVE CommandsInv'
  <2> DEFINE x == [NewCmd EXCEPT !.step = "ended", !.box = a]
  <2>1. x \in CmdRecords /\ x.got = NoAnswer /\ x.step = "ended" /\ x.box = a
    BY DEF NewCmd, CmdRecords, CommandKinds
  <2>2. /\ cmd' = [cmd EXCEPT ![r] = x] /\ cmd[r].step = "new" /\ UNCHANGED <<box, ran>>
        /\ link' = link \/ link' = Published(r, a)
    BY <1>6 DEF Notify, NewCmd
  <2>3. Nowhere(r)
    BY <2>2 DEF CommandsInv, OnceOnly
  <2> HIDE DEF x
  <2>4. CASE link' = link
    BY <2>1, <2>2, <2>4, AskKeeps
  <2>5. CASE link' = Published(r, a)
    <3>1. link' = Published(r, x.box)
      BY <2>1, <2>5
    <3> QED
      BY <2>1, <2>2, <2>3, <3>1, PublishedKeeps
  <2> QED
    BY <2>2, <2>4, <2>5
<1>7. ASSUME NEW r \in Commands, Return(r) PROVE CommandsInv'
  <2> DEFINE x == [cmd[r] EXCEPT !.step = "ended"]
  <2>1. cmd[r] \in CmdRecords
    BY <1>1
  <2>2. x \in CmdRecords
    BY <2>1 DEF CmdRecords
  <2>3. x.step = "ended" /\ x.got = cmd[r].got /\ x.box = cmd[r].box /\ x.kind = cmd[r].kind
    BY <2>1 DEF CmdRecords
  <2>4. cmd' = [cmd EXCEPT ![r] = x] /\ UNCHANGED <<link, box, ran>>
    BY <1>7 DEF Return
  <2> HIDE DEF x
  <2> QED
    BY <2>2, <2>3, <2>4, CmdGoes
<1>8. ASSUME NEW r \in Commands, GivesUp(r) PROVE CommandsInv'
  <2> DEFINE x == [cmd[r] EXCEPT !.step = "ended", !.got = NoAnswer]
  <2>1. cmd[r] \in CmdRecords
    BY <1>1
  <2>2. x \in CmdRecords
    BY <2>1 DEF CmdRecords
  <2>3. x.step = "ended" /\ x.got = NoAnswer /\ x.box = cmd[r].box /\ x.kind = cmd[r].kind
    BY <2>1 DEF CmdRecords
  <2>4. cmd' = [cmd EXCEPT ![r] = x] /\ UNCHANGED <<link, box, ran>>
    BY <1>1, <1>8 DEF GivesUp
  <2> HIDE DEF x
  <2> QED
    BY <2>2, <2>3, <2>4, CmdGoes
<1>9. ASSUME NEW c \in Links, Subscribe(c) \/ Drops(c) PROVE CommandsInv'
  <2>1. PICK step \in {"open", "lost"} :
          /\ link' = [link EXCEPT ![c] = [link[c] EXCEPT !.step = step]]
          /\ step = "open" => link[c].step = "accepted"
          /\ UNCHANGED <<cmd, box, ran>>
    BY <1>9 DEF Subscribe, Drops
  <2> DEFINE y == [link[c] EXCEPT !.step = step]
  <2>2. link[c] \in LinkRecords
    BY <1>1
  <2>3. y \in LinkRecords
    BY <2>2 DEF LinkRecords
  <2>4. y.step = step /\ y.box = link[c].box /\ y.down = link[c].down /\ y.up = link[c].up
    BY <2>2 DEF LinkRecords
  <2>5. link' = [link EXCEPT ![c] = y]
    BY <2>1
  <2> HIDE DEF y
  <2> QED
    BY <2>1, <2>3, <2>4, <2>5, LinkFades
<1>10. ASSUME NEW c \in Links, Unsubscribe(c) PROVE CommandsInv'
  <2> DEFINE y == [link[c] EXCEPT !.step = "closed", !.up = <<>>]
  <2>1. link[c] \in LinkRecords /\ <<>> \in Seq(Answers)
    BY <1>1, EmptySeq
  <2>2. y \in LinkRecords
    BY <2>1 DEF LinkRecords
  <2>3. y.step = "closed" /\ y.box = link[c].box /\ y.down = link[c].down /\ y.up = <<>>
    BY <2>1 DEF LinkRecords
  <2>4. link' = [link EXCEPT ![c] = y] /\ UNCHANGED <<cmd, box, ran>>
    BY <1>1, <1>10 DEF Unsubscribe
  <2> HIDE DEF y
  <2> QED
    BY <2>2, <2>3, <2>4, LinkFades
<1>11. CASE UNCHANGED commandVars
  <2>1. CommandsTypeOK' /\ \A c \in Links : Fades(c)
    <3>1. CommandsTypeOK'
      BY <1>1, <1>11 DEF commandVars, CommandsTypeOK
    <3> QED
      BY <1>11, <3>1 DEF commandVars, Fades
  <2>2. \A r \in Commands : Goes(r)
    BY <1>11 DEF commandVars, Goes
  <2> QED
    BY <1>11, <2>1, <2>2, QuietKeeps DEF commandVars
<1> QED
  BY <1>3, <1>4, <1>5, <1>6, <1>7, <1>8, <1>9, <1>10, <1>11, ReceiveKeeps, ProcDiesKeeps,
     ConnectKeeps, TakeCommandKeeps, ExecuteKeeps, ReconnectsKeeps DEF CommandsNext

LEMMA CommandsAlwaysInv == CommandsSpec => []CommandsInv
<1>1. CommandsInit => CommandsInv
  BY CommandsInitHolds
<1>2. CommandsInv /\ [CommandsNext]_commandVars => CommandsInv'
  BY CommandsStep
<1> QED
  BY <1>1, <1>2, PTL DEF CommandsSpec

\* Type correctness of the requests, the connections and the agents.
THEOREM CommandsTypeAlwaysOK == CommandsSpec => []CommandsTypeOK
<1>1. CommandsInv => CommandsTypeOK
  BY DEF CommandsInv
<1> QED
  BY <1>1, CommandsAlwaysInv, PTL

\* Whatever is lost, late or in the hands of another process, a user gets the answer to
\* what he asked: worked out for this request by the agent that it was meant for, which
\* executed it once, and coherent.
THEOREM AnswersAlwaysMatch == CommandsSpec => []AnswersMatch
<1>1. CommandsInv => AnswersMatch
  <2> SUFFICES ASSUME CommandsInv, NEW r \in Commands
               PROVE  /\ cmd[r].got # NoAnswer =>
                           cmd[r].got.to = r /\ Coherent(cmd[r].kind, cmd[r].got.body)
                      /\ cmd[r].got # NoAnswer /\ cmd[r].box # NoBox => ran[r] # {}
                      /\ Cardinality(ran[r]) <= 1
                      /\ \A c \in ran[r] : link[c].box = cmd[r].box
    BY DEF AnswersMatch
  <2>1. Given(r) /\ OnceOnly(r) /\ cmd[r].kind \in CommandKinds
    BY DEF CommandsInv, CommandsTypeOK
  <2>2. cmd[r].got # NoAnswer => Coherent(cmd[r].kind, cmd[r].got.body)
    BY <2>1, BodiesCoherent DEF Given
  <2>3. Cardinality(ran[r]) <= 1
    <3>1. CASE ran[r] = {}
      <4>1. Cardinality(ran[r]) = 0
        BY <3>1, FS_EmptySet
      <4> QED
        BY <4>1
    <3>2. CASE ran[r] # {}
      <4>1. PICK c \in ran[r] : TRUE
        BY <3>2
      <4>2. ran[r] = {c}
        BY <2>1, <4>1 DEF OnceOnly, Executed
      <4>3. Cardinality(ran[r]) = 1
        BY <4>2, FS_Singleton
      <4> QED
        BY <4>3
    <3> QED
      BY <3>1, <3>2
  <2> QED
    BY <2>1, <2>2, <2>3 DEF Given, OnceOnly, Executed
<1> QED
  BY <1>1, CommandsAlwaysInv, PTL

(***************************************************************************)
(* AgentTunnels: the hub knows the tunnels of the agents there are. The    *)
(* inductive invariant follows an address from the sequence that hands it  *)
(* out to the row and to the peer, through calls that fail and boots of    *)
(* the hub.                                                                *)
(***************************************************************************)
\* A request that makes a tunnel is alone with its agent, which is not there yet.
CallsSound ==
  \A r \in AgentRequests :
    /\ hubCall[r].op # "idle" => hubCall[r].agent \in Agents
    /\ hubCall[r].op = "idle" => hubCall[r].host = 0
    /\ hubCall[r].step = "write" => hubCall[r].op \in {"update", "beat"}
    /\ hubCall[r].op = "create" =>
         /\ hubCall[r].host # 0 /\ agent[hubCall[r].agent] = "none"
         /\ \A q \in AgentRequests : hubCall[q].agent = hubCall[r].agent => q = r
    /\ hubCall[r].host # 0 => hubCall[r].op = "create"

\* Where an address may be met on its way.
Owns(a, h) ==
  \/ address[a] = h \/ peer[a] = h \/ hubList[a] = h
  \/ \E r \in AgentRequests : hubCall[r].agent = a /\ hubCall[r].host = h

\* No address is handed out twice.
HostsApart ==
  /\ lastOffset \in 1..(calls + 1)
  /\ \A a \in Agents : \A h \in Hosts \ {0} : Owns(a, h) => h <= lastOffset
  /\ \A a, b \in Agents : \A h \in Hosts \ {0} : Owns(a, h) /\ Owns(b, h) => a = b

WiredBy(r, a) == hubCall[r].agent = a /\ hubCall[r].op \in {"create", "delete"}
Certain(a) == a \notin unsure /\ \A r \in AgentRequests : ~WiredBy(r, a)

\* The hub, or the list that it boots with, agrees with the rows of the agents it is certain of.
HubAgrees ==
  \A a \in Agents : Certain(a) => /\ hub = "up" => peer[a] = address[a]
                                  /\ hub = "booting" => hubList[a] = address[a]

\* What a request is about to write is what the hub has been told.
AboutToWrite ==
  \A r \in AgentRequests :
    hubCall[r].op \in {"create", "delete"} /\ hubCall[r].step = "commit"
      /\ hubCall[r].agent \notin unsure =>
        hub # "booting" /\ (hub = "up" => peer[hubCall[r].agent] = hubCall[r].host)

RowsMatch == \A a \in Agents : address[a] # 0 <=> Exists(a)

\* The inductive invariant of the tunnels.
TunnelsInv ==
  /\ TunnelsTypeOK /\ CallsSound /\ HostsApart /\ HubAgrees /\ AboutToWrite /\ RowsMatch

TunnelSteps == {"info", "peer", "commit", "unpeer", "write", "done"}
CallRecords == [op : {"idle", "create", "delete", "update", "beat"},
                agent : Agents \union {NoAgent}, step : TunnelSteps,
                host : Hosts, draft : {"none", "active", "inactive", "gone"}]

\* The fields of a request that moves on, ends or begins, and those of the others.
LEMMA CallGoesFields ==
  ASSUME hubCall \in [AgentRequests -> CallRecords], NEW r \in AgentRequests,
         NEW step \in TunnelSteps, CallGoes(r, step)
  PROVE  /\ hubCall' \in [AgentRequests -> CallRecords]
         /\ \A q \in AgentRequests : /\ hubCall'[q].op = hubCall[q].op
                                     /\ hubCall'[q].agent = hubCall[q].agent
                                     /\ hubCall'[q].host = hubCall[q].host
                                     /\ q # r => hubCall'[q].step = hubCall[q].step
         /\ hubCall'[r].step = step
<1> DEFINE x == [hubCall[r] EXCEPT !.step = step]
<1>1. hubCall[r] \in CallRecords
  OBVIOUS
<1>2. x \in CallRecords
  BY <1>1 DEF CallRecords
<1>3. /\ x.step = step /\ x.op = hubCall[r].op
      /\ x.agent = hubCall[r].agent /\ x.host = hubCall[r].host
  BY <1>1 DEF CallRecords
<1>4. hubCall' = [hubCall EXCEPT ![r] = x]
  BY DEF CallGoes
<1> HIDE DEF x
<1>5. hubCall'[r] = x /\ \A q \in AgentRequests : q # r => hubCall'[q] = hubCall[q]
  BY <1>4
<1> QED
  BY <1>2, <1>3, <1>4, <1>5

LEMMA EndsCallFields ==
  ASSUME hubCall \in [AgentRequests -> CallRecords], NEW r \in AgentRequests, EndsCall(r)
  PROVE  /\ hubCall' \in [AgentRequests -> CallRecords]
         /\ \A q \in AgentRequests : q # r => hubCall'[q] = hubCall[q]
         /\ hubCall'[r].op = "idle" /\ hubCall'[r].agent = NoAgent
         /\ hubCall'[r].step = "done" /\ hubCall'[r].host = 0
<1>1. NoCall \in CallRecords
  BY TunnelAssumption DEF NoCall, CallRecords, TunnelSteps, Hosts
<1>2. hubCall' = [hubCall EXCEPT ![r] = NoCall]
  BY DEF EndsCall
<1>3. hubCall'[r] = NoCall /\ \A q \in AgentRequests : q # r => hubCall'[q] = hubCall[q]
  BY <1>2
<1>4. hubCall' \in [AgentRequests -> CallRecords]
  BY <1>1, <1>2
<1> QED
  BY <1>3, <1>4 DEF NoCall

LEMMA BeginsFields ==
  ASSUME TunnelsTypeOK, NEW r \in AgentRequests,
         NEW op \in {"create", "delete", "update", "beat"},
         NEW a \in Agents, NEW step \in TunnelSteps, NEW host \in Hosts, Begins(r, op, a, step, host)
  PROVE  /\ hubCall' \in [AgentRequests -> CallRecords]
         /\ \A q \in AgentRequests : q # r => hubCall'[q] = hubCall[q]
         /\ hubCall'[r].op = op /\ hubCall'[r].agent = a
         /\ hubCall'[r].step = step /\ hubCall'[r].host = host
         /\ hubCall[r].op = "idle" /\ calls' = calls + 1 /\ calls < MaxCalls
         /\ calls' \in 0..MaxCalls
<1> DEFINE x == [op |-> op, agent |-> a, step |-> step, host |-> host, draft |-> agent[a]]
<1>1. agent[a] \in {"none", "active", "inactive", "gone"} /\ calls \in 0..MaxCalls
      /\ hubCall \in [AgentRequests -> CallRecords]
  BY DEF TunnelsTypeOK, CallRecords, TunnelSteps
<1>2. /\ x \in CallRecords
      /\ x.op = op /\ x.agent = a /\ x.step = step /\ x.host = host
  BY <1>1 DEF CallRecords
<1>3. /\ hubCall' = [hubCall EXCEPT ![r] = x]
      /\ hubCall[r].op = "idle" /\ calls' = calls + 1 /\ calls < MaxCalls
  BY DEF Begins
<1>4. calls' \in 0..MaxCalls
  BY <1>1, <1>3, TunnelAssumption
<1> HIDE DEF x
<1>5. hubCall'[r] = x /\ \A q \in AgentRequests : q # r => hubCall'[q] = hubCall[q]
  BY <1>1, <1>3
<1>6. hubCall' \in [AgentRequests -> CallRecords]
  BY <1>1, <1>2, <1>3
<1> QED
  BY <1>2, <1>3, <1>4, <1>5, <1>6

\* The type invariant with its records named.
LEMMA TunnelTypes ==
  TunnelsTypeOK <=>
    /\ agent \in [Agents -> {"none", "active", "inactive", "gone"}]
    /\ keyed \subseteq Agents /\ unsure \subseteq Agents
    /\ address \in [Agents -> Hosts] /\ peer \in [Agents -> Hosts] /\ hubList \in [Agents -> Hosts]
    /\ lastOffset \in Hosts /\ hub \in {"up", "down", "booting"} /\ calls \in 0..MaxCalls
    /\ hubCall \in [AgentRequests -> CallRecords]
BY DEF TunnelsTypeOK, CallRecords, TunnelSteps

\* An address that nobody newly has stays where it was.
LEMMA HostsStay ==
  ASSUME TunnelsInv, lastOffset' = lastOffset, calls' \in {calls, calls + 1},
         \A a \in Agents : \A h \in Hosts \ {0} : Owns(a, h)' => Owns(a, h)
  PROVE  HostsApart'
<1>1. lastOffset \in 1..(calls + 1) /\ calls \in Nat
  BY TunnelAssumption DEF TunnelsInv, HostsApart, TunnelsTypeOK
<1>2. lastOffset' \in 1..(calls' + 1)
  <2>1. CASE calls' = calls
    BY <1>1, <2>1
  <2>2. CASE calls' = calls + 1
    BY <1>1, <2>2
  <2> QED
    BY <2>1, <2>2
<1>3. \A a \in Agents : \A h \in Hosts \ {0} : Owns(a, h)' => h <= lastOffset'
  BY DEF TunnelsInv, HostsApart
<1>4. \A a, b \in Agents : \A h \in Hosts \ {0} : Owns(a, h)' /\ Owns(b, h)' => a = b
  BY DEF TunnelsInv, HostsApart
<1> QED
  BY <1>2, <1>3, <1>4 DEF HostsApart

LEMMA TunnelsInitHolds == TunnelsInit => TunnelsInv
<1> HAVE TunnelsInit
<1>1. /\ agent = [a \in Agents |-> "none"] /\ keyed = {}
      /\ address = [a \in Agents |-> 0] /\ peer = [a \in Agents |-> 0]
      /\ hubList = [a \in Agents |-> 0]
      /\ lastOffset = 1 /\ hub = "up" /\ calls = 0 /\ unsure = {}
      /\ hubCall = [r \in AgentRequests |-> NoCall]
  BY DEF TunnelsInit, NoHosts
<1>2. NoCall \in CallRecords /\ 0 \in Hosts /\ 1 \in Hosts /\ 0 \in 0..MaxCalls
  BY TunnelAssumption DEF NoCall, CallRecords, TunnelSteps, Hosts
<1>3. TunnelsTypeOK
  BY <1>1, <1>2, TunnelTypes
<1>4. \A r \in AgentRequests : /\ hubCall[r].op = "idle" /\ hubCall[r].host = 0
                               /\ hubCall[r].step = "done"
  BY <1>1 DEF NoCall
<1>5. CallsSound /\ AboutToWrite
  BY <1>4 DEF CallsSound, AboutToWrite
<1>6. HostsApart
  <2>1. \A a \in Agents : \A h \in Hosts \ {0} : ~Owns(a, h)
    BY <1>1, <1>4 DEF Owns
  <2> QED
    BY <1>1, <2>1 DEF HostsApart
<1>7. HubAgrees /\ RowsMatch
  BY <1>1 DEF HubAgrees, RowsMatch, Exists
<1> QED
  BY <1>3, <1>5, <1>6, <1>7 DEF TunnelsInv

\* A request takes an address that nobody has had.
LEMMA CreateAgentKeeps ==
  ASSUME TunnelsInv, NEW r \in AgentRequests, NEW a \in Agents, CreateAgent(r, a)
  PROVE  TunnelsInv'
<1> DEFINE n == lastOffset + 1
<1>1. /\ TunnelsTypeOK /\ CallsSound /\ HostsApart /\ HubAgrees /\ AboutToWrite /\ RowsMatch
      /\ hubCall \in [AgentRequests -> CallRecords] /\ calls \in 0..MaxCalls
  BY TunnelTypes DEF TunnelsInv
<1>2. /\ agent[a] = "none" /\ a \notin Touched /\ Begins(r, "create", a, "info", n)
      /\ lastOffset' = n /\ calls < MaxCalls
      /\ UNCHANGED <<agent, keyed, address, peer, hub, hubList, unsure>>
  BY DEF CreateAgent, Begins
<1>3. n \in Hosts /\ n \in Nat \ {0} /\ n \in 1..(calls + 1 + 1) /\ lastOffset \in Nat
  BY <1>1, <1>2, TunnelAssumption DEF HostsApart, Hosts
<1>4. /\ hubCall' \in [AgentRequests -> CallRecords]
      /\ \A q \in AgentRequests : q # r => hubCall'[q] = hubCall[q]
      /\ hubCall'[r].op = "create" /\ hubCall'[r].agent = a
      /\ hubCall'[r].step = "info" /\ hubCall'[r].host = n
      /\ hubCall[r].op = "idle" /\ calls' = calls + 1
      /\ calls' \in 0..MaxCalls
  BY <1>1, <1>2, <1>3, BeginsFields DEF TunnelSteps
<1>5. TunnelsTypeOK'
  BY <1>1, <1>2, <1>3, <1>4 DEF TunnelsTypeOK, CallRecords, TunnelSteps
<1>6. \A q \in AgentRequests : hubCall[q].agent # a
  BY <1>2 DEF Touched
<1>7. CallsSound'
  BY <1>1, <1>2, <1>3, <1>4, <1>6 DEF CallsSound
<1>8. ASSUME NEW b \in Agents, NEW h \in Hosts \ {0}, Owns(b, h)'
      PROVE  Owns(b, h) \/ (b = a /\ h = n)
  BY <1>2, <1>4, <1>8 DEF Owns
<1>9. HostsApart'
  <2>1. \A b \in Agents : ~Owns(b, n)
    BY <1>1, <1>3 DEF HostsApart
  <2>2. lastOffset' \in 1..(calls' + 1)
    BY <1>2, <1>3, <1>4
  <2>3. ASSUME NEW b \in Agents, NEW h \in Hosts \ {0}, Owns(b, h)'
        PROVE  h <= lastOffset'
    <3>1. CASE Owns(b, h)
      <4>1. h <= lastOffset /\ h \in Int
        BY <1>1, <3>1 DEF HostsApart, Hosts
      <4> QED
        BY <1>2, <1>3, <4>1
    <3>2. CASE h = n
      BY <1>2, <1>3, <3>2
    <3> QED
      BY <1>8, <2>3, <3>1, <3>2
  <2>4. \A b, d \in Agents : \A h \in Hosts \ {0} : Owns(b, h)' /\ Owns(d, h)' => b = d
    BY <1>1, <1>8, <2>1 DEF HostsApart
  <2>5. \A b \in Agents : \A h \in Hosts \ {0} : Owns(b, h)' => h <= lastOffset'
    BY <2>3
  <2> QED
    BY <2>2, <2>4, <2>5 DEF HostsApart
<1>10. HubAgrees'
  <2>1. \A b \in Agents : Certain(b)' => Certain(b)
    BY <1>2, <1>4 DEF Certain, WiredBy
  <2> QED
    BY <1>1, <1>2, <2>1 DEF HubAgrees
<1>11. AboutToWrite'
  BY <1>1, <1>2, <1>4 DEF AboutToWrite
<1>12. RowsMatch'
  BY <1>1, <1>2 DEF RowsMatch, Exists
<1> QED
  BY <1>5, <1>7, <1>9, <1>10, <1>11, <1>12 DEF TunnelsInv

LEMMA ReadAgentKeeps ==
  ASSUME TunnelsInv, NEW r \in AgentRequests, NEW op \in {"delete", "update", "beat"},
         NEW a \in Agents, ReadAgent(r, op, a)
  PROVE  TunnelsInv'
<1> DEFINE step == IF op = "delete" THEN "unpeer" ELSE "write"
<1>1. /\ TunnelsTypeOK /\ CallsSound /\ HostsApart /\ HubAgrees /\ AboutToWrite /\ RowsMatch
      /\ hubCall \in [AgentRequests -> CallRecords] /\ calls \in 0..MaxCalls
  BY TunnelTypes DEF TunnelsInv
<1>2. /\ Exists(a) /\ Begins(r, op, a, step, 0)
      /\ UNCHANGED <<agent, keyed, address, lastOffset, peer, hub, hubList, unsure>>
  BY DEF ReadAgent
<1>3. step \in TunnelSteps /\ 0 \in Hosts
  BY TunnelAssumption DEF TunnelSteps, Hosts
<1>a. step # "commit" /\ (step = "write" => op \in {"update", "beat"})
  OBVIOUS
<1> HIDE DEF step
<1>4. /\ hubCall' \in [AgentRequests -> CallRecords]
      /\ \A q \in AgentRequests : q # r => hubCall'[q] = hubCall[q]
      /\ hubCall'[r].op = op /\ hubCall'[r].agent = a
      /\ hubCall'[r].step = step /\ hubCall'[r].host = 0
      /\ hubCall[r].op = "idle" /\ calls' = calls + 1
      /\ calls' \in 0..MaxCalls
  BY <1>1, <1>2, <1>3, BeginsFields
<1>5. TunnelsTypeOK'
  BY <1>1, <1>2, <1>4 DEF TunnelsTypeOK, CallRecords, TunnelSteps
<1>6. CallsSound'
  <2>1. agent[a] # "none"
    BY <1>2 DEF Exists
  <2> QED
    BY <1>1, <1>2, <1>4, <1>a, <2>1 DEF CallsSound
<1>7. HostsApart'
  <2>1. \A b \in Agents : \A h \in Hosts \ {0} : Owns(b, h)' => Owns(b, h)
    BY <1>2, <1>4 DEF Owns
  <2> QED
    BY <1>2, <1>4, <2>1, HostsStay
<1>8. HubAgrees'
  <2>1. \A b \in Agents : Certain(b)' => Certain(b)
    BY <1>2, <1>4 DEF Certain, WiredBy
  <2> QED
    BY <1>1, <1>2, <2>1 DEF HubAgrees
<1>9. AboutToWrite'
  BY <1>1, <1>2, <1>4, <1>a DEF AboutToWrite
<1>10. RowsMatch'
  BY <1>1, <1>2 DEF RowsMatch, Exists
<1> QED
  BY <1>5, <1>6, <1>7, <1>8, <1>9, <1>10 DEF TunnelsInv

LEMMA GetHubInfoKeeps ==
  ASSUME TunnelsInv, NEW r \in AgentRequests, GetHubInfo(r)
  PROVE  TunnelsInv'
<1>1. /\ TunnelsTypeOK /\ CallsSound /\ HostsApart /\ HubAgrees /\ AboutToWrite /\ RowsMatch
      /\ hubCall \in [AgentRequests -> CallRecords]
  BY TunnelTypes DEF TunnelsInv
<1>2. /\ hubCall[r].op = "create" /\ hubCall[r].step = "info" /\ CallGoes(r, "peer")
      /\ UNCHANGED <<agent, keyed, address, lastOffset, peer, hub, hubList, calls, unsure>>
  BY DEF GetHubInfo, CallDoing
<1>3. /\ hubCall' \in [AgentRequests -> CallRecords]
      /\ \A q \in AgentRequests : /\ hubCall'[q].op = hubCall[q].op
                                  /\ hubCall'[q].agent = hubCall[q].agent
                                  /\ hubCall'[q].host = hubCall[q].host
                                  /\ q # r => hubCall'[q].step = hubCall[q].step
      /\ hubCall'[r].step = "peer"
  BY <1>1, <1>2, CallGoesFields DEF TunnelSteps
<1>4. TunnelsTypeOK'
  BY <1>1, <1>2, <1>3 DEF TunnelsTypeOK, CallRecords, TunnelSteps
<1>5. CallsSound'
  BY <1>1, <1>2, <1>3 DEF CallsSound
<1>6. HostsApart'
  <2>1. \A b \in Agents : \A h \in Hosts \ {0} : Owns(b, h)' => Owns(b, h)
    BY <1>2, <1>3 DEF Owns
  <2> QED
    BY <1>2, <2>1, HostsStay
<1>7. HubAgrees'
  <2>1. \A b \in Agents : Certain(b)' => Certain(b)
    BY <1>2, <1>3 DEF Certain, WiredBy
  <2> QED
    BY <1>1, <1>2, <2>1 DEF HubAgrees
<1>8. AboutToWrite'
  BY <1>1, <1>2, <1>3 DEF AboutToWrite
<1>9. RowsMatch'
  BY <1>1, <1>2 DEF RowsMatch, Exists
<1> QED
  BY <1>4, <1>5, <1>6, <1>7, <1>8, <1>9 DEF TunnelsInv

\* The hub is told of a peer, or rid of one, in the name of the agent that is wired.
LEMMA AddPeerKeeps ==
  ASSUME TunnelsInv, NEW r \in AgentRequests, AddPeer(r)
  PROVE  TunnelsInv'
<1> DEFINE a == hubCall[r].agent
<1>1. /\ TunnelsTypeOK /\ CallsSound /\ HostsApart /\ HubAgrees /\ AboutToWrite /\ RowsMatch
      /\ hubCall \in [AgentRequests -> CallRecords] /\ peer \in [Agents -> Hosts]
  BY TunnelTypes DEF TunnelsInv
<1>2. /\ hubCall[r].op = "create" /\ hubCall[r].step = "peer" /\ CallGoes(r, "commit")
      /\ hub = "up" /\ peer' = [peer EXCEPT ![a] = hubCall[r].host]
      /\ UNCHANGED <<agent, keyed, address, lastOffset, hub, hubList, calls, unsure>>
  BY DEF AddPeer, CallDoing
<1>3. /\ hubCall' \in [AgentRequests -> CallRecords]
      /\ \A q \in AgentRequests : /\ hubCall'[q].op = hubCall[q].op
                                  /\ hubCall'[q].agent = hubCall[q].agent
                                  /\ hubCall'[q].host = hubCall[q].host
                                  /\ q # r => hubCall'[q].step = hubCall[q].step
      /\ hubCall'[r].step = "commit"
  BY <1>1, <1>2, CallGoesFields DEF TunnelSteps
<1>4. a \in Agents /\ hubCall[r].host \in Hosts
      /\ \A q \in AgentRequests : hubCall[q].agent = a => q = r
  BY <1>1, <1>2 DEF CallsSound, CallRecords
<1>5. /\ peer'[a] = hubCall[r].host /\ \A b \in Agents : b # a => peer'[b] = peer[b]
      /\ peer' \in [Agents -> Hosts]
  BY <1>1, <1>2, <1>4
<1>6. TunnelsTypeOK'
  BY <1>1, <1>2, <1>3, <1>5 DEF TunnelsTypeOK, CallRecords, TunnelSteps
<1>7. CallsSound'
  BY <1>1, <1>2, <1>3 DEF CallsSound
<1>8. HostsApart'
  <2>1. \A b \in Agents : \A h \in Hosts \ {0} : Owns(b, h)' => Owns(b, h)
    BY <1>2, <1>3, <1>5 DEF Owns
  <2> QED
    BY <1>2, <2>1, HostsStay
<1>9. HubAgrees'
  <2>1. \A b \in Agents : Certain(b)' => Certain(b) /\ b # a
    BY <1>2, <1>3 DEF Certain, WiredBy
  <2> QED
    BY <1>1, <1>2, <1>5, <2>1 DEF HubAgrees
<1>10. AboutToWrite'
  <2> SUFFICES ASSUME NEW q \in AgentRequests,
                      hubCall'[q].op \in {"create", "delete"}, hubCall'[q].step = "commit",
                      hubCall'[q].agent \notin unsure
               PROVE  peer'[hubCall'[q].agent] = hubCall'[q].host
    BY <1>2 DEF AboutToWrite
  <2>1. CASE q = r
    BY <1>3, <1>5, <2>1
  <2>2. CASE q # r
    <3>1. hubCall[q].agent # a /\ hubCall[q].agent \in Agents
      BY <1>1, <1>3, <1>4, <2>2 DEF CallsSound
    <3> QED
      BY <1>1, <1>2, <1>3, <1>5, <2>2, <3>1 DEF AboutToWrite
  <2> QED
    BY <2>1, <2>2
<1>11. RowsMatch'
  BY <1>1, <1>2 DEF RowsMatch, Exists
<1> QED
  BY <1>6, <1>7, <1>8, <1>9, <1>10, <1>11 DEF TunnelsInv

LEMMA RemovePeerKeeps ==
  ASSUME TunnelsInv, NEW r \in AgentRequests, RemovePeer(r)
  PROVE  TunnelsInv'
<1> DEFINE a == hubCall[r].agent
<1>1. /\ TunnelsTypeOK /\ CallsSound /\ HostsApart /\ HubAgrees /\ AboutToWrite /\ RowsMatch
      /\ hubCall \in [AgentRequests -> CallRecords] /\ peer \in [Agents -> Hosts]
  BY TunnelTypes DEF TunnelsInv
<1>2. /\ hubCall[r].op = "delete" /\ hubCall[r].step = "unpeer" /\ CallGoes(r, "commit")
      /\ \/ hub = "up" /\ peer' = [peer EXCEPT ![a] = 0] /\ UNCHANGED unsure
         \/ unsure' = unsure \union {a} /\ UNCHANGED peer
      /\ UNCHANGED <<agent, keyed, address, lastOffset, hub, hubList, calls>>
  BY DEF RemovePeer, CallDoing
<1>3. /\ hubCall' \in [AgentRequests -> CallRecords]
      /\ \A q \in AgentRequests : /\ hubCall'[q].op = hubCall[q].op
                                  /\ hubCall'[q].agent = hubCall[q].agent
                                  /\ hubCall'[q].host = hubCall[q].host
                                  /\ q # r => hubCall'[q].step = hubCall[q].step
      /\ hubCall'[r].step = "commit"
  BY <1>1, <1>2, CallGoesFields DEF TunnelSteps
<1>4. a \in Agents /\ 0 \in Hosts /\ hubCall[r].host = 0
  BY <1>1, <1>2, TunnelAssumption DEF CallsSound, CallRecords, Hosts
<1>5. /\ peer' \in [Agents -> Hosts] /\ unsure' \subseteq Agents /\ unsure \subseteq unsure'
      /\ \A b \in Agents : b # a => peer'[b] = peer[b]
      /\ (hub = "up" /\ peer'[a] = 0) \/ (a \in unsure' /\ UNCHANGED peer)
      /\ \A b \in Agents : peer'[b] \in {peer[b], 0}
  <2>1. unsure \subseteq Agents
    BY <1>1 DEF TunnelsTypeOK
  <2>2. CASE hub = "up" /\ peer' = [peer EXCEPT ![a] = 0] /\ UNCHANGED unsure
    <3>1. peer'[a] = 0 /\ \A b \in Agents : b # a => peer'[b] = peer[b]
      BY <1>1, <1>4, <2>2
    <3>2. peer' \in [Agents -> Hosts]
      BY <1>1, <1>4, <2>2
    <3>3. unsure' = unsure /\ hub = "up"
      BY <2>2
    <3>4. \A b \in Agents : peer'[b] \in {peer[b], 0}
      BY <3>1
    <3> QED
      BY <2>1, <3>1, <3>2, <3>3, <3>4
  <2>3. CASE unsure' = unsure \union {a} /\ UNCHANGED peer
    BY <1>1, <1>4, <2>1, <2>3
  <2> QED
    BY <1>2, <2>2, <2>3
<1>6. TunnelsTypeOK'
  BY <1>1, <1>2, <1>3, <1>5 DEF TunnelsTypeOK, CallRecords, TunnelSteps
<1>7. CallsSound'
  BY <1>1, <1>2, <1>3 DEF CallsSound
<1>8. HostsApart'
  <2>1. \A b \in Agents : \A h \in Hosts \ {0} : Owns(b, h)' => Owns(b, h)
    BY <1>2, <1>3, <1>5 DEF Owns
  <2> QED
    BY <1>2, <2>1, HostsStay
<1>9. HubAgrees'
  <2>1. \A b \in Agents : Certain(b)' => Certain(b) /\ b # a
    BY <1>2, <1>3, <1>5 DEF Certain, WiredBy
  <2> QED
    BY <1>1, <1>2, <1>5, <2>1 DEF HubAgrees
<1>10. AboutToWrite'
  <2> SUFFICES ASSUME NEW q \in AgentRequests,
                      hubCall'[q].op \in {"create", "delete"}, hubCall'[q].step = "commit",
                      hubCall'[q].agent \notin unsure'
               PROVE  hub # "booting" /\ (hub = "up" => peer'[hubCall'[q].agent] = hubCall'[q].host)
    BY <1>2 DEF AboutToWrite
  <2>1. CASE hubCall[q].agent = a
    <3>1. hub = "up" /\ peer'[a] = 0
      BY <1>3, <1>5, <2>1
    <3>2. hubCall[q].op # "create"
      BY <1>1, <1>2, <2>1 DEF CallsSound
    <3>3. hubCall[q].host = 0
      BY <1>1, <3>2 DEF CallsSound
    <3> QED
      BY <1>3, <2>1, <3>1, <3>3
  <2>2. CASE hubCall[q].agent # a
    <3>1. hubCall[q].agent \in Agents /\ q # r
      BY <1>1, <1>3, <2>2 DEF CallsSound
    <3> QED
      BY <1>1, <1>2, <1>3, <1>5, <2>2, <3>1 DEF AboutToWrite
  <2> QED
    BY <2>1, <2>2
<1>11. RowsMatch'
  BY <1>1, <1>2 DEF RowsMatch, Exists
<1> QED
  BY <1>6, <1>7, <1>8, <1>9, <1>10, <1>11 DEF TunnelsInv

\* The row is written as the hub was told.
LEMMA CommitAgentKeeps ==
  ASSUME TunnelsInv, NEW r \in AgentRequests, CommitAgent(r)
  PROVE  TunnelsInv'
<1> DEFINE a == hubCall[r].agent
<1>1. /\ TunnelsTypeOK /\ CallsSound /\ HostsApart /\ HubAgrees /\ AboutToWrite /\ RowsMatch
      /\ hubCall \in [AgentRequests -> CallRecords] /\ address \in [Agents -> Hosts]
      /\ agent \in [Agents -> {"none", "active", "inactive", "gone"}]
  BY TunnelTypes DEF TunnelsInv
<1>2. /\ hubCall[r].op = "create" /\ hubCall[r].step = "commit" /\ EndsCall(r)
      /\ agent' = [agent EXCEPT ![a] = "active"] /\ keyed' = keyed \union {a}
      /\ address' = [address EXCEPT ![a] = hubCall[r].host]
      /\ UNCHANGED <<lastOffset, peer, hub, hubList, calls, unsure>>
  BY DEF CommitAgent, CallDoing
<1>3. /\ hubCall' \in [AgentRequests -> CallRecords]
      /\ \A q \in AgentRequests : q # r => hubCall'[q] = hubCall[q]
      /\ hubCall'[r].op = "idle" /\ hubCall'[r].agent = NoAgent
      /\ hubCall'[r].step = "done" /\ hubCall'[r].host = 0
  BY <1>1, <1>2, EndsCallFields
<1>4. /\ a \in Agents /\ hubCall[r].host \in Hosts \ {0}
      /\ \A q \in AgentRequests : hubCall[q].agent = a => q = r
  BY <1>1, <1>2 DEF CallsSound, CallRecords
<1>5. /\ address'[a] = hubCall[r].host /\ \A b \in Agents : b # a => address'[b] = address[b]
      /\ agent'[a] = "active" /\ \A b \in Agents : b # a => agent'[b] = agent[b]
      /\ address' \in [Agents -> Hosts]
      /\ agent' \in [Agents -> {"none", "active", "inactive", "gone"}]
  BY <1>1, <1>2, <1>4
<1>6. TunnelsTypeOK'
  <2>1. keyed' \subseteq Agents
    BY <1>1, <1>2, <1>4 DEF TunnelsTypeOK
  <2> QED
    BY <1>1, <1>2, <1>3, <1>5, <2>1 DEF TunnelsTypeOK, CallRecords, TunnelSteps
<1>7. CallsSound'
  BY <1>1, <1>2, <1>3, <1>4, <1>5, TunnelAssumption DEF CallsSound
<1>8. HostsApart'
  <2>1. \A b \in Agents : \A h \in Hosts \ {0} : Owns(b, h)' => Owns(b, h)
    BY <1>2, <1>3, <1>4, <1>5 DEF Owns
  <2> QED
    BY <1>2, <2>1, HostsStay
<1>9. HubAgrees'
  <2> SUFFICES ASSUME NEW b \in Agents, Certain(b)'
               PROVE  /\ hub = "up" => peer[b] = address'[b]
                      /\ hub = "booting" => hubList[b] = address'[b]
    BY <1>2 DEF HubAgrees
  <2>1. CASE b = a
    <3>1. a \notin unsure
      BY <1>2, <2>1 DEF Certain
    <3> QED
      BY <1>1, <1>2, <1>5, <2>1, <3>1 DEF AboutToWrite
  <2>2. CASE b # a
    <3>1. Certain(b)
      BY <1>2, <1>3, <2>2 DEF Certain, WiredBy
    <3> QED
      BY <1>1, <1>5, <2>2, <3>1 DEF HubAgrees
  <2> QED
    BY <2>1, <2>2
<1>10. AboutToWrite'
  BY <1>1, <1>2, <1>3 DEF AboutToWrite
<1>11. RowsMatch'
  BY <1>1, <1>4, <1>5 DEF RowsMatch, Exists
<1> QED
  BY <1>6, <1>7, <1>8, <1>9, <1>10, <1>11 DEF TunnelsInv

LEMMA DeleteAgentKeeps ==
  ASSUME TunnelsInv, NEW r \in AgentRequests, DeleteAgent(r)
  PROVE  TunnelsInv'
<1> DEFINE a == hubCall[r].agent
<1>1. /\ TunnelsTypeOK /\ CallsSound /\ HostsApart /\ HubAgrees /\ AboutToWrite /\ RowsMatch
      /\ hubCall \in [AgentRequests -> CallRecords] /\ address \in [Agents -> Hosts]
      /\ agent \in [Agents -> {"none", "active", "inactive", "gone"}]
  BY TunnelTypes DEF TunnelsInv
<1>2. /\ hubCall[r].op = "delete" /\ hubCall[r].step = "commit" /\ EndsCall(r)
      /\ agent' = [agent EXCEPT ![a] = "gone"] /\ keyed' = keyed \ {a}
      /\ address' = [address EXCEPT ![a] = 0]
      /\ UNCHANGED <<lastOffset, peer, hub, hubList, calls, unsure>>
  BY DEF DeleteAgent, CallDoing
<1>3. /\ hubCall' \in [AgentRequests -> CallRecords]
      /\ \A q \in AgentRequests : q # r => hubCall'[q] = hubCall[q]
      /\ hubCall'[r].op = "idle" /\ hubCall'[r].agent = NoAgent
      /\ hubCall'[r].step = "done" /\ hubCall'[r].host = 0
  BY <1>1, <1>2, EndsCallFields
<1>4. a \in Agents /\ hubCall[r].host = 0 /\ 0 \in Hosts
  BY <1>1, <1>2, TunnelAssumption DEF CallsSound, Hosts
<1>5. /\ address'[a] = 0 /\ \A b \in Agents : b # a => address'[b] = address[b]
      /\ agent'[a] = "gone" /\ \A b \in Agents : b # a => agent'[b] = agent[b]
      /\ address' \in [Agents -> Hosts]
      /\ agent' \in [Agents -> {"none", "active", "inactive", "gone"}]
  BY <1>1, <1>2, <1>4
<1>6. TunnelsTypeOK'
  <2>1. keyed' \subseteq Agents
    BY <1>1, <1>2 DEF TunnelsTypeOK
  <2> QED
    BY <1>1, <1>2, <1>3, <1>5, <2>1 DEF TunnelsTypeOK, CallRecords, TunnelSteps
<1>7. CallsSound'
  <2>1. \A q \in AgentRequests : hubCall[q].op = "create" => hubCall[q].agent # a
    BY <1>1, <1>2 DEF CallsSound
  <2> QED
    BY <1>1, <1>2, <1>3, <1>4, <1>5, <2>1, TunnelAssumption DEF CallsSound
<1>8. HostsApart'
  <2>1. \A b \in Agents : \A h \in Hosts \ {0} : Owns(b, h)' => Owns(b, h)
    BY <1>2, <1>3, <1>4, <1>5 DEF Owns
  <2> QED
    BY <1>2, <2>1, HostsStay
<1>9. HubAgrees'
  <2> SUFFICES ASSUME NEW b \in Agents, Certain(b)'
               PROVE  /\ hub = "up" => peer[b] = address'[b]
                      /\ hub = "booting" => hubList[b] = address'[b]
    BY <1>2 DEF HubAgrees
  <2>1. CASE b = a
    <3>1. a \notin unsure
      BY <1>2, <2>1 DEF Certain
    <3> QED
      BY <1>1, <1>2, <1>4, <1>5, <2>1, <3>1 DEF AboutToWrite
  <2>2. CASE b # a
    <3>1. Certain(b)
      BY <1>2, <1>3, <2>2 DEF Certain, WiredBy
    <3> QED
      BY <1>1, <1>5, <2>2, <3>1 DEF HubAgrees
  <2> QED
    BY <2>1, <2>2
<1>10. AboutToWrite'
  BY <1>1, <1>2, <1>3 DEF AboutToWrite
<1>11. RowsMatch'
  BY <1>1, <1>4, <1>5 DEF RowsMatch, Exists
<1> QED
  BY <1>6, <1>7, <1>8, <1>9, <1>10, <1>11 DEF TunnelsInv

\* A row that is written back whole, long after it was read, changes no tunnel.
LEMMA WriteAgentKeeps ==
  ASSUME TunnelsInv, NEW r \in AgentRequests, NEW status \in {"active", "inactive"},
         WriteAgent(r, status)
  PROVE  TunnelsInv'
<1> DEFINE a == hubCall[r].agent
<1>1. /\ TunnelsTypeOK /\ CallsSound /\ HostsApart /\ HubAgrees /\ AboutToWrite /\ RowsMatch
      /\ hubCall \in [AgentRequests -> CallRecords]
      /\ agent \in [Agents -> {"none", "active", "inactive", "gone"}]
  BY TunnelTypes DEF TunnelsInv
<1>2. /\ hubCall[r].step = "write" /\ EndsCall(r)
      /\ agent' = IF Exists(a) THEN [agent EXCEPT ![a] = status] ELSE agent
      /\ UNCHANGED <<keyed, address, lastOffset, peer, hub, hubList, calls, unsure>>
  BY DEF WriteAgent
<1>3. /\ hubCall' \in [AgentRequests -> CallRecords]
      /\ \A q \in AgentRequests : q # r => hubCall'[q] = hubCall[q]
      /\ hubCall'[r].op = "idle" /\ hubCall'[r].agent = NoAgent
      /\ hubCall'[r].step = "done" /\ hubCall'[r].host = 0
  BY <1>1, <1>2, EndsCallFields
<1>4. a \in Agents /\ hubCall[r].op \in {"update", "beat"}
  BY <1>1, <1>2 DEF CallsSound
<1>5. /\ agent' \in [Agents -> {"none", "active", "inactive", "gone"}]
      /\ \A b \in Agents : \/ agent'[b] = agent[b]
                           \/ /\ agent[b] \in {"active", "inactive"}
                              /\ agent'[b] \in {"active", "inactive"}
  <2>1. CASE Exists(a)
    BY <1>1, <1>2, <1>4, <2>1 DEF Exists
  <2>2. CASE ~Exists(a)
    BY <1>1, <1>2, <2>2
  <2> QED
    BY <2>1, <2>2
<1>6. TunnelsTypeOK'
  BY <1>1, <1>2, <1>3, <1>5 DEF TunnelsTypeOK, CallRecords, TunnelSteps
<1>7. CallsSound'
  <2> SUFFICES ASSUME NEW q \in AgentRequests
               PROVE  /\ hubCall'[q].op # "idle" => hubCall'[q].agent \in Agents
                      /\ hubCall'[q].op = "idle" => hubCall'[q].host = 0
                      /\ hubCall'[q].step = "write" => hubCall'[q].op \in {"update", "beat"}
                      /\ hubCall'[q].op = "create" =>
                           /\ hubCall'[q].host # 0 /\ agent'[hubCall'[q].agent] = "none"
                           /\ \A p \in AgentRequests :
                                hubCall'[p].agent = hubCall'[q].agent => p = q
                      /\ hubCall'[q].host # 0 => hubCall'[q].op = "create"
    BY DEF CallsSound
  <2>1. CASE q = r
    BY <1>3, <2>1
  <2>2. CASE q # r
    <3>1. hubCall'[q] = hubCall[q]
      BY <1>3, <2>2
    <3>2. hubCall[q].op = "create" =>
            /\ hubCall[q].agent \in Agents /\ agent[hubCall[q].agent] = "none"
            /\ \A p \in AgentRequests : hubCall[p].agent = hubCall[q].agent => p = q
      BY <1>1 DEF CallsSound
    <3>3. hubCall[q].op = "create" =>
            /\ agent'[hubCall[q].agent] = "none"
            /\ \A p \in AgentRequests : hubCall'[p].agent = hubCall[q].agent => p = q
      BY <1>3, <1>5, <3>2, TunnelAssumption
    <3> QED
      BY <1>1, <3>1, <3>3 DEF CallsSound
  <2> QED
    BY <2>1, <2>2
<1>8. HostsApart'
  <2>1. \A b \in Agents : \A h \in Hosts \ {0} : Owns(b, h)' => Owns(b, h)
    BY <1>2, <1>3 DEF Owns
  <2> QED
    BY <1>2, <2>1, HostsStay
<1>9. HubAgrees'
  <2>1. \A b \in Agents : Certain(b)' => Certain(b)
    BY <1>2, <1>3, <1>4 DEF Certain, WiredBy
  <2> QED
    BY <1>1, <1>2, <2>1 DEF HubAgrees
<1>10. AboutToWrite'
  BY <1>1, <1>2, <1>3 DEF AboutToWrite
<1>11. RowsMatch'
  BY <1>1, <1>2, <1>5 DEF RowsMatch, Exists
<1> QED
  BY <1>6, <1>7, <1>8, <1>9, <1>10, <1>11 DEF TunnelsInv

\* A transaction that is rolled back leaves the hub with what it was told.
LEMMA CallRollsBackKeeps ==
  ASSUME TunnelsInv, NEW r \in AgentRequests, CallRollsBack(r)
  PROVE  TunnelsInv'
<1> DEFINE a == hubCall[r].agent
<1>1. /\ TunnelsTypeOK /\ CallsSound /\ HostsApart /\ HubAgrees /\ AboutToWrite /\ RowsMatch
      /\ hubCall \in [AgentRequests -> CallRecords] /\ unsure \subseteq Agents
  BY TunnelTypes DEF TunnelsInv
<1>2. /\ hubCall[r].op # "idle" /\ EndsCall(r)
      /\ unsure' = IF hubCall[r].op \in {"create", "delete"} THEN unsure \union {a} ELSE unsure
      /\ UNCHANGED <<agent, keyed, address, lastOffset, peer, hub, hubList, calls>>
  BY DEF CallRollsBack
<1>3. /\ hubCall' \in [AgentRequests -> CallRecords]
      /\ \A q \in AgentRequests : q # r => hubCall'[q] = hubCall[q]
      /\ hubCall'[r].op = "idle" /\ hubCall'[r].agent = NoAgent
      /\ hubCall'[r].step = "done" /\ hubCall'[r].host = 0
  BY <1>1, <1>2, EndsCallFields
<1>4. a \in Agents
  BY <1>1, <1>2 DEF CallsSound
<1>5. /\ unsure' \subseteq Agents /\ unsure \subseteq unsure'
      /\ hubCall[r].op \in {"create", "delete"} => a \in unsure'
  BY <1>1, <1>2, <1>4
<1>6. TunnelsTypeOK'
  BY <1>1, <1>2, <1>3, <1>5 DEF TunnelsTypeOK, CallRecords, TunnelSteps
<1>7. CallsSound'
  BY <1>1, <1>2, <1>3, TunnelAssumption DEF CallsSound
<1>8. HostsApart'
  <2>1. \A b \in Agents : \A h \in Hosts \ {0} : Owns(b, h)' => Owns(b, h)
    BY <1>2, <1>3 DEF Owns
  <2> QED
    BY <1>2, <2>1, HostsStay
<1>9. HubAgrees'
  <2>1. \A b \in Agents : Certain(b)' => Certain(b)
    BY <1>3, <1>5 DEF Certain, WiredBy
  <2> QED
    BY <1>1, <1>2, <2>1 DEF HubAgrees
<1>10. AboutToWrite'
  BY <1>1, <1>2, <1>3, <1>5 DEF AboutToWrite
<1>11. RowsMatch'
  BY <1>1, <1>2 DEF RowsMatch, Exists
<1> QED
  BY <1>6, <1>7, <1>8, <1>9, <1>10, <1>11 DEF TunnelsInv

\* The hub goes down, reads the rows while requests go on, and comes up.
LEMMA HubKeeps ==
  ASSUME TunnelsInv, HubStops \/ HubReads \/ HubResyncs
  PROVE  TunnelsInv'
<1>1. /\ TunnelsTypeOK /\ CallsSound /\ HostsApart /\ HubAgrees /\ AboutToWrite /\ RowsMatch
      /\ hubCall \in [AgentRequests -> CallRecords] /\ unsure \subseteq Agents
      /\ NoHosts \in [Agents -> Hosts] /\ \A a \in Agents : NoHosts[a] = 0
  <2>1. 0 \in Hosts
    BY TunnelAssumption DEF Hosts
  <2> QED
    BY <2>1, TunnelTypes DEF TunnelsInv, NoHosts
<1>2. UNCHANGED <<agent, keyed, address, lastOffset, hubCall>>
  BY DEF HubStops, HubReads, HubResyncs
<1>3. CallsSound' /\ RowsMatch'
  BY <1>1, <1>2 DEF CallsSound, RowsMatch, Exists
<1>4. CASE HubStops
  <2>1. /\ hub' = "down" /\ peer' = NoHosts /\ calls' = calls + 1 /\ calls < MaxCalls
        /\ UNCHANGED <<hubList, unsure>>
    BY <1>4 DEF HubStops
  <2>2. calls' \in 0..MaxCalls
    BY <1>1, <2>1, TunnelAssumption DEF TunnelsTypeOK
  <2>3. TunnelsTypeOK'
    BY <1>1, <1>2, <2>1, <2>2 DEF TunnelsTypeOK
  <2>4. HostsApart'
    <3>1. \A b \in Agents : \A h \in Hosts \ {0} : Owns(b, h)' => Owns(b, h)
      BY <1>1, <1>2, <2>1 DEF Owns
    <3> QED
      BY <1>2, <2>1, <3>1, HostsStay
  <2>5. HubAgrees' /\ AboutToWrite'
    BY <2>1 DEF HubAgrees, AboutToWrite
  <2> QED
    BY <1>3, <2>3, <2>4, <2>5 DEF TunnelsInv
<1>5. CASE HubReads
  <2>1. /\ hub' = "booting" /\ hubList' = address /\ unsure' = Wiring \ {NoAgent}
        /\ UNCHANGED <<peer, calls>>
    BY <1>5 DEF HubReads
  <2>2. \A a \in Agents : a \in unsure' <=> \E r \in AgentRequests : WiredBy(r, a)
    BY <2>1, TunnelAssumption DEF Wiring, WiredBy
  <2>3. unsure' \subseteq Agents
    <3>1. \A r \in AgentRequests :
            hubCall[r].op \in {"create", "delete"} => hubCall[r].agent \in Agents
      BY <1>1 DEF CallsSound
    <3> SUFFICES ASSUME NEW x \in Wiring PROVE x \in Agents
      BY <2>1
    <3>2. PICK r \in AgentRequests :
            hubCall[r].op \in {"create", "delete"} /\ x = hubCall[r].agent
      BY DEF Wiring
    <3> QED
      BY <3>1, <3>2
  <2>4. TunnelsTypeOK'
    BY <1>1, <1>2, <2>1, <2>3 DEF TunnelsTypeOK
  <2>5. HostsApart'
    <3>1. \A b \in Agents : \A h \in Hosts \ {0} : Owns(b, h)' => Owns(b, h)
      BY <1>2, <2>1 DEF Owns
    <3> QED
      BY <1>2, <2>1, <3>1, HostsStay
  <2>6. HubAgrees'
    BY <1>2, <2>1 DEF HubAgrees
  <2>7. AboutToWrite'
    BY <1>1, <1>2, <2>2 DEF AboutToWrite, WiredBy, CallsSound
  <2> QED
    BY <1>3, <2>4, <2>5, <2>6, <2>7 DEF TunnelsInv
<1>6. CASE HubResyncs
  <2>1. /\ hub = "booting" /\ hub' = "up" /\ hubList' = NoHosts /\ UNCHANGED calls
        /\ \/ peer' = hubList /\ UNCHANGED unsure
           \/ unsure' = Agents /\ UNCHANGED peer
    BY <1>6 DEF HubResyncs
  <2>2. unsure \subseteq unsure' /\ unsure' \subseteq Agents
    BY <1>1, <2>1
  <2>3. TunnelsTypeOK'
    BY <1>1, <1>2, <2>1, <2>2 DEF TunnelsTypeOK
  <2>4. HostsApart'
    <3>1. \A b \in Agents : \A h \in Hosts \ {0} : Owns(b, h)' => Owns(b, h)
      BY <1>1, <1>2, <2>1 DEF Owns
    <3> QED
      BY <1>2, <2>1, <3>1, HostsStay
  <2>5. HubAgrees'
    <3>1. \A a \in Agents : Certain(a)' => Certain(a) /\ peer' = hubList
      BY <1>2, <2>1, <2>2 DEF Certain, WiredBy
    <3> QED
      BY <1>1, <1>2, <2>1, <3>1 DEF HubAgrees
  <2>6. AboutToWrite'
    <3>1. \A r \in AgentRequests :
            hubCall[r].op \in {"create", "delete"} => hubCall[r].agent \in Agents
      BY <1>1 DEF CallsSound
    <3> QED
      BY <1>1, <1>2, <2>1, <2>2, <3>1 DEF AboutToWrite
  <2> QED
    BY <1>3, <2>3, <2>4, <2>5, <2>6 DEF TunnelsInv
<1> QED
  BY <1>4, <1>5, <1>6

\* Every step of requests and of the hub keeps the invariant.
LEMMA TunnelsStep == TunnelsInv /\ [TunnelsNext]_tunnelVars => TunnelsInv'
<1> SUFFICES ASSUME TunnelsInv, [TunnelsNext]_tunnelVars PROVE TunnelsInv'
  OBVIOUS
<1>1. CASE UNCHANGED tunnelVars
  BY <1>1 DEF tunnelVars, TunnelsInv, TunnelsTypeOK, CallsSound, HostsApart, Owns, HubAgrees,
              Certain, WiredBy, AboutToWrite, RowsMatch, Exists
<1> QED
  BY <1>1, CreateAgentKeeps, ReadAgentKeeps, GetHubInfoKeeps, AddPeerKeeps, CommitAgentKeeps,
     RemovePeerKeeps, DeleteAgentKeeps, CallRollsBackKeeps, WriteAgentKeeps, HubKeeps
     DEF TunnelsNext

LEMMA TunnelsAlwaysInv == TunnelsSpec => []TunnelsInv
<1>1. TunnelsInit => TunnelsInv
  BY TunnelsInitHolds
<1>2. TunnelsInv /\ [TunnelsNext]_tunnelVars => TunnelsInv'
  BY TunnelsStep
<1> QED
  BY <1>1, <1>2, PTL DEF TunnelsSpec

\* Type correctness of agents, tunnels, requests and hub.
THEOREM TunnelsTypeAlwaysOK == TunnelsSpec => []TunnelsTypeOK
<1>1. TunnelsInv => TunnelsTypeOK
  BY DEF TunnelsInv
<1> QED
  BY <1>1, TunnelsAlwaysInv, PTL

\* While the hub is up it knows exactly the tunnels of the agents there are, each at an
\* address of its own, except where a request failed or met a boot of the hub.
THEOREM PeersAreAlwaysTunnels == TunnelsSpec => []PeersAreTunnels
<1>1. TunnelsInv => PeersAreTunnels
  <2> SUFFICES ASSUME TunnelsInv, hub = "up"
               PROVE  /\ \A a \in Agents \ (Wiring \union unsure) : peer[a] = address[a]
                      /\ \A a, b \in Agents : a # b /\ peer[a] = peer[b] => peer[a] = 0
                      /\ \A a \in Agents : address[a] # 0 <=> Exists(a)
    BY DEF PeersAreTunnels
  <2>1. ASSUME NEW a \in Agents \ (Wiring \union unsure) PROVE peer[a] = address[a]
    <3>1. Certain(a)
      BY DEF Certain, WiredBy, Wiring
    <3> QED
      BY <3>1 DEF TunnelsInv, HubAgrees
  <2>2. ASSUME NEW a \in Agents, NEW b \in Agents, a # b, peer[a] = peer[b]
        PROVE  peer[a] = 0
    <3>1. peer[a] \in Hosts
      BY DEF TunnelsInv, TunnelsTypeOK
    <3>2. Owns(a, peer[a]) /\ Owns(b, peer[a])
      BY <2>2 DEF Owns
    <3> QED
      BY <2>2, <3>1, <3>2 DEF TunnelsInv, HostsApart
  <2>3. \A a \in Agents : address[a] # 0 <=> Exists(a)
    BY DEF TunnelsInv, RowsMatch
  <2> QED
    BY <2>1, <2>2, <2>3
<1> QED
  BY <1>1, TunnelsAlwaysInv, PTL

(***************************************************************************)
(* LiveEvents: streams are true. The inductive invariant places every      *)
(* message that a stream has told, or still holds, in what its tenant's    *)
(* channel carried, and counts the connections by the set of streams that  *)
(* have one.                                                               *)
(***************************************************************************)
StreamRecords == [step : {"new", "admitted", "subscribing", "open", "closing", "ended"},
                  of : Watchers \cup {NoWatcher}, since : Nat,
                  buf : Seq(News), told : Seq(News)]
NewsRecords == [step : {"new", "inserted", "published", "committed", "ended"},
                of : Watchers \cup {NoWatcher}, stored : BOOLEAN]
Opened == {s \in Streams : Listens(s)}

\* An event on its way has a tenant, and is stored once its handler has committed.
NewsSound ==
  \A e \in News : /\ news[e].step \in {"inserted", "published", "committed"} =>
                       news[e].of \in Watchers
                  /\ news[e].step = "committed" => news[e].stored

\* A channel carries its tenant's events, stored first unless the commit is late.
Carried(t, e) == /\ news[e].step # "new" /\ news[e].of = t
                 /\ e \notin EarlyNews => news[e].stored
ChannelsTrue == \A t \in Watchers : \A i \in DOMAIN published[t] : Carried(t, published[t][i])

\* What a stream has told, and what waits in it, is what its channel has carried since
\* it began, in order and without a gap.
Heard(s) ==
  LET x == stream[s]
  IN /\ x.step \in {"admitted", "subscribing", "open", "closing"} => x.of \in Watchers
     /\ x.step \in {"new", "admitted", "subscribing"} => x.told = <<>>
     /\ x.step # "open" => x.buf = <<>>
     /\ \A i \in DOMAIN x.told :
          /\ x.of \in Watchers
          /\ x.since + i \in DOMAIN published[x.of]
          /\ x.told[i] = published[x.of][x.since + i]
     /\ x.step = "open" =>
          /\ x.since + Len(x.told) + Len(x.buf) = Len(published[x.of])
          /\ \A i \in DOMAIN x.buf :
               x.buf[i] = published[x.of][x.since + Len(x.told) + i]

StreamsCounted ==
  /\ IsFiniteSet(Connected) /\ sseActive = Cardinality(Opened)
  /\ Cardinality(Connected) + lostConns <= PoolSize

\* The inductive invariant of the streams.
LiveInv ==
  /\ LiveTypeOK /\ NewsSound /\ ChannelsTrue /\ StreamsCounted
  /\ \A s \in Streams : Heard(s)

LEMMA LiveTypes ==
  LiveTypeOK <=>
    /\ news \in [News -> NewsRecords] /\ published \in [Watchers -> Seq(News)]
    /\ stream \in [Streams -> StreamRecords] /\ sseActive \in Nat /\ lostConns \in Nat
BY DEF LiveTypeOK, NewsRecords, StreamRecords

LEMMA LiveInitHolds == LiveInit => LiveInv
<1> HAVE LiveInit
<1>1. /\ news = [e \in News |-> NoNews] /\ published = [t \in Watchers |-> <<>>]
      /\ stream = [s \in Streams |-> NewStream] /\ sseActive = 0 /\ lostConns = 0
  BY DEF LiveInit
<1>2. NoNews \in NewsRecords
  BY DEF NoNews, NewsRecords
<1>3. NewStream \in StreamRecords
  BY EmptySeq DEF NewStream, StreamRecords
<1>4. <<>> \in Seq(News)
  BY EmptySeq
<1>5. LiveTypeOK
  BY <1>1, <1>2, <1>3, <1>4, LiveTypes
<1>6. NewsSound
  BY <1>1 DEF NoNews, NewsSound
<1>7. ChannelsTrue
  BY <1>1 DEF ChannelsTrue
<1>8. \A s \in Streams : stream[s].step = "new" /\ stream[s].buf = <<>> /\ stream[s].told = <<>>
  BY <1>1 DEF NewStream
<1>9. StreamsCounted
  <2>1. Connected = {} /\ Opened = {}
    BY <1>8 DEF Connected, Opened, Listens
  <2> QED
    BY <1>1, <2>1, FS_EmptySet, LiveAssumption DEF StreamsCounted
<1>10. \A s \in Streams : Heard(s)
  BY <1>8 DEF Heard
<1> QED
  BY <1>5, <1>6, <1>7, <1>9, <1>10 DEF LiveInv

\* An event that goes on keeps its tenant, and stays stored.
LEMMA NewsOnly ==
  ASSUME LiveInv, NEW e \in News, NEW x \in NewsRecords,
         news' = [news EXCEPT ![e] = x],
         x.step # "new", x.step \in {"inserted", "published", "committed"} => x.of \in Watchers,
         x.step = "committed" => x.stored,
         news[e].step # "new" => x.of = news[e].of,
         news[e].step # "new" /\ news[e].stored => x.stored
  PROVE  /\ news' \in [News -> NewsRecords] /\ NewsSound'
         /\ \A t \in Watchers : \A d \in News : Carried(t, d) => Carried(t, d)'
<1>1. news \in [News -> NewsRecords] /\ NewsSound
  BY LiveTypes DEF LiveInv
<1>2. news'[e] = x /\ \A d \in News : d # e => news'[d] = news[d]
  BY <1>1
<1>3. news' \in [News -> NewsRecords]
  BY <1>1
<1>4. NewsSound'
  BY <1>1, <1>2 DEF NewsSound
<1>5. ASSUME NEW t \in Watchers, NEW d \in News, Carried(t, d) PROVE Carried(t, d)'
  <2>1. CASE d = e
    BY <1>2, <1>5, <2>1 DEF Carried
  <2>2. CASE d # e
    BY <1>2, <1>5, <2>2 DEF Carried
  <2> QED
    BY <2>1, <2>2
<1> QED
  BY <1>3, <1>4, <1>5

\* A handler's step that publishes nothing disturbs no stream.
LEMMA NewsKeeps ==
  ASSUME LiveInv, news' \in [News -> NewsRecords], NewsSound',
         \A t \in Watchers : \A d \in News : Carried(t, d) => Carried(t, d)',
         UNCHANGED <<published, stream, sseActive, lostConns>>
  PROVE  LiveInv'
<1>1. published \in [Watchers -> Seq(News)] /\ LiveTypeOK
  BY LiveTypes DEF LiveInv
<1>2. LiveTypeOK'
  BY <1>1 DEF LiveTypeOK, NewsRecords
<1>3. ASSUME NEW t \in Watchers, NEW i \in DOMAIN published[t]
      PROVE  Carried(t, published[t][i])'
  <2>1. published[t] \in Seq(News)
    BY <1>1
  <2>2. published[t][i] \in News
    BY <2>1, LenProperties, ElementOfSeq
  <2>3. Carried(t, published[t][i])
    BY DEF LiveInv, ChannelsTrue
  <2> QED
    BY <2>2, <2>3 DEF Carried
<1>4. ChannelsTrue'
  BY <1>3 DEF ChannelsTrue
<1>5. StreamsCounted'
  BY DEF LiveInv, StreamsCounted, Connected, Opened, Listens
<1>6. ASSUME NEW s \in Streams PROVE Heard(s)'
  <2>1. Heard(s)
    BY DEF LiveInv
  <2> QED
    BY <2>1 DEF Heard
<1> QED
  BY <1>2, <1>4, <1>5, <1>6 DEF LiveInv

\* A message on a channel goes to the end of what its listeners hold.
LEMMA CarriesKeeps ==
  ASSUME LiveInv, NEW e \in News, news[e].of \in Watchers, Carries(e),
         news' \in [News -> NewsRecords], NewsSound',
         \A t \in Watchers : \A d \in News : Carried(t, d) => Carried(t, d)',
         news'[e].step # "new", news'[e].of = news[e].of,
         e \notin EarlyNews => news'[e].stored, UNCHANGED <<sseActive, lostConns>>
  PROVE  LiveInv'
<1> DEFINE w == news[e].of
<1>1. /\ published \in [Watchers -> Seq(News)] /\ stream \in [Streams -> StreamRecords]
      /\ LiveTypeOK
  BY LiveTypes DEF LiveInv
<1>2. /\ published' = [published EXCEPT ![w] = Append(published[w], e)]
      /\ stream' = [s \in Streams |-> IF Listens(s) /\ stream[s].of = w
                                       THEN [stream[s] EXCEPT !.buf = Append(stream[s].buf, e)]
                                       ELSE stream[s]]
  BY <1>1 DEF Carries
<1> DEFINE n == Len(published[w])
<1>3. /\ Append(published[w], e) \in Seq(News) /\ Len(Append(published[w], e)) = n + 1
      /\ \A i \in 1..n : Append(published[w], e)[i] = published[w][i]
      /\ Append(published[w], e)[n + 1] = e
      /\ n \in Nat /\ DOMAIN published[w] = 1..n
  BY <1>1, AppendProperties, LenProperties
<1>4. /\ published'[w] = Append(published[w], e)
      /\ \A t \in Watchers : t # w => published'[t] = published[t]
      /\ published' \in [Watchers -> Seq(News)]
  BY <1>1, <1>2, <1>3
<1>5. DOMAIN published'[w] = 1..(n + 1)
  BY <1>3, <1>4, LenProperties
<1>6. \A t \in Watchers : \A i \in DOMAIN published[t] :
        i \in DOMAIN published'[t] /\ published'[t][i] = published[t][i]
  <2> HIDE DEF w, n
  <2> SUFFICES ASSUME NEW t \in Watchers, NEW i \in DOMAIN published[t]
               PROVE  i \in DOMAIN published'[t] /\ published'[t][i] = published[t][i]
    OBVIOUS
  <2>1. CASE t = w
    <3>1. i \in 1..n /\ i \in 1..(n + 1)
      BY <1>3, <2>1
    <3> QED
      BY <1>3, <1>4, <1>5, <2>1, <3>1
  <2>2. CASE t # w
    BY <1>4, <2>2
  <2> QED
    BY <2>1, <2>2
<1> HIDE DEF w, n
<1>a. w \in Watchers /\ news'[e].of = w
  BY DEF w
<1>7. ASSUME NEW s \in Streams
      PROVE  /\ stream'[s] \in StreamRecords
             /\ stream'[s].step = stream[s].step /\ stream'[s].of = stream[s].of
             /\ stream'[s].since = stream[s].since /\ stream'[s].told = stream[s].told
             /\ IF Listens(s) /\ stream[s].of = w
                  THEN stream'[s].buf = Append(stream[s].buf, e)
                  ELSE stream'[s].buf = stream[s].buf
  <2>1. stream[s] \in StreamRecords
    BY <1>1
  <2>2. stream[s].buf \in Seq(News)
    BY <2>1 DEF StreamRecords
  <2>3. Append(stream[s].buf, e) \in Seq(News)
    BY <2>2, AppendProperties
  <2>4. CASE Listens(s) /\ stream[s].of = w
    <3>1. stream'[s] = [stream[s] EXCEPT !.buf = Append(stream[s].buf, e)]
      BY <1>2, <2>4
    <3>2. stream'[s] \in StreamRecords
      BY <2>1, <2>3, <3>1 DEF StreamRecords
    <3>3. /\ stream'[s].step = stream[s].step /\ stream'[s].of = stream[s].of
          /\ stream'[s].since = stream[s].since /\ stream'[s].told = stream[s].told
          /\ stream'[s].buf = Append(stream[s].buf, e)
      BY <2>1, <3>1 DEF StreamRecords
    <3> QED
      BY <2>4, <3>2, <3>3
  <2>5. CASE ~(Listens(s) /\ stream[s].of = w)
    BY <1>2, <2>1, <2>5
  <2> QED
    BY <2>4, <2>5
<1>8. stream' \in [Streams -> StreamRecords]
  BY <1>2, <1>7
<1>9. LiveTypeOK'
  BY <1>1, <1>4, <1>8 DEF LiveTypeOK, NewsRecords, StreamRecords
<1>10. ASSUME NEW t \in Watchers, NEW i \in DOMAIN published'[t]
       PROVE  Carried(t, published[t][i])'
  <2>1. CASE i \in DOMAIN published[t]
    <3>1. published[t] \in Seq(News)
      BY <1>1
    <3>2. published[t][i] \in News
      BY <2>1, <3>1, LenProperties, ElementOfSeq
    <3>3. Carried(t, published[t][i])
      BY <2>1 DEF LiveInv, ChannelsTrue
    <3>4. published'[t][i] = published[t][i]
      BY <1>6, <2>1
    <3> QED
      BY <3>2, <3>3, <3>4 DEF Carried
  <2>2. CASE i \notin DOMAIN published[t]
    <3>a. t = w
      BY <1>4, <2>2
    <3>b. i \in 1..(n + 1) /\ i \notin 1..n
      BY <1>3, <1>5, <2>2, <3>a
    <3>1. t = w /\ i = n + 1
      BY <1>3, <3>a, <3>b
    <3>2. published'[t][i] = e
      BY <1>3, <1>4, <3>1
    <3> QED
      BY <1>a, <3>1, <3>2 DEF Carried
  <2> QED
    BY <2>1, <2>2
<1>11. ChannelsTrue'
  BY <1>10 DEF ChannelsTrue
<1>12. StreamsCounted'
  <2>1. \A s \in Streams : stream'[s].step = stream[s].step
    BY <1>7
  <2>2. Connected' = Connected /\ Opened' = Opened
    BY <2>1 DEF Connected, Opened, Listens
  <2> QED
    BY <2>2 DEF LiveInv, StreamsCounted
<1>13. ASSUME NEW s \in Streams PROVE Heard(s)'
  <2>1. Heard(s)
    BY DEF LiveInv
  <2>2. stream[s].since \in Nat /\ stream[s].buf \in Seq(News) /\ stream[s].told \in Seq(News)
    BY <1>1 DEF StreamRecords
  <2>3. ASSUME NEW i \in DOMAIN stream'[s].told
        PROVE  /\ stream'[s].of \in Watchers
               /\ stream'[s].since + i \in DOMAIN published'[stream'[s].of]
               /\ stream'[s].told[i] = published'[stream'[s].of][stream'[s].since + i]
    BY <1>6, <1>7, <2>1 DEF Heard
  <2>4. ASSUME stream'[s].step = "open"
        PROVE  /\ stream'[s].since + Len(stream'[s].told) + Len(stream'[s].buf)
                    = Len(published'[stream'[s].of])
               /\ \A i \in DOMAIN stream'[s].buf :
                    stream'[s].buf[i] =
                      published'[stream'[s].of][stream'[s].since + Len(stream'[s].told) + i]
    <3> DEFINE b == stream[s].buf
    <3> DEFINE k == stream[s].since + Len(stream[s].told)
    <3> DEFINE o == stream[s].of
    <3>1. stream[s].step = "open" /\ o \in Watchers
      BY <1>7, <2>1, <2>4 DEF Heard
    <3>2. k + Len(b) = Len(published[o]) /\ \A i \in DOMAIN b : b[i] = published[o][k + i]
      BY <2>1, <3>1 DEF Heard
    <3>3. k \in Nat /\ Len(b) \in Nat /\ DOMAIN b = 1..Len(b) /\ b \in Seq(News)
      BY <2>2, LenProperties
    <3>4. DOMAIN published[o] = 1..Len(published[o]) /\ Len(published[o]) \in Nat
      BY <1>1, <3>1, LenProperties
    <3>5. /\ stream'[s].since + Len(stream'[s].told) = k /\ stream'[s].of = o
          /\ IF o = w THEN stream'[s].buf = Append(b, e) ELSE stream'[s].buf = b
      BY <1>7, <3>1 DEF Listens
    <3> HIDE DEF b, k, o
    <3>6. \A i \in DOMAIN b : published'[o][k + i] = b[i]
      <4> SUFFICES ASSUME NEW i \in DOMAIN b PROVE published'[o][k + i] = b[i]
        OBVIOUS
      <4>1. k + i \in DOMAIN published[o]
        BY <3>2, <3>3, <3>4
      <4> QED
        BY <1>6, <3>1, <3>2, <4>1
    <3>7. CASE o # w
      BY <1>4, <3>1, <3>2, <3>5, <3>6, <3>7
    <3>8. CASE o = w
      <4>1. /\ Len(Append(b, e)) = Len(b) + 1 /\ Append(b, e) \in Seq(News)
            /\ \A i \in 1..Len(b) : Append(b, e)[i] = b[i]
            /\ Append(b, e)[Len(b) + 1] = e
        BY <3>3, AppendProperties
      <4>2. DOMAIN Append(b, e) = 1..(Len(b) + 1)
        BY <4>1, LenProperties
      <4>3. n = k + Len(b) /\ Len(published'[o]) = n + 1 /\ published'[o][n + 1] = e
        BY <1>3, <1>4, <3>2, <3>8 DEF n
      <4>4. stream'[s].buf = Append(b, e)
        BY <3>5, <3>8
      <4>5. ASSUME NEW i \in DOMAIN Append(b, e) PROVE Append(b, e)[i] = published'[o][k + i]
        <5>1. CASE i \in 1..Len(b)
          BY <3>3, <3>6, <4>1, <5>1
        <5>2. CASE i = Len(b) + 1
          <6>1. k + i = n + 1
            BY <3>3, <4>3, <5>2
          <6> QED
            BY <4>1, <4>3, <5>2, <6>1
        <5> QED
          BY <3>3, <4>2, <5>1, <5>2
      <4>6. k + Len(Append(b, e)) = Len(published'[o])
        BY <3>3, <4>1, <4>3
      <4> QED
        BY <3>5, <4>4, <4>5, <4>6
    <3> QED
      BY <3>7, <3>8
  <2>5. stream'[s].step # "open" => stream'[s].buf = stream[s].buf
    BY <1>7 DEF Listens
  <2>6. /\ stream'[s].step \in {"admitted", "subscribing", "open", "closing"} =>
             stream'[s].of \in Watchers
        /\ stream'[s].step \in {"new", "admitted", "subscribing"} => stream'[s].told = <<>>
        /\ stream'[s].step # "open" => stream'[s].buf = <<>>
    BY <1>7, <2>1, <2>5 DEF Heard
  <2> QED
    BY <2>3, <2>4, <2>6 DEF Heard
<1> QED
  BY <1>9, <1>11, <1>12, <1>13 DEF LiveInv

HasConnection(step) == step \in {"subscribing", "open", "closing"}

\* A step of one stream, with what it does to the counter and to the connections.
LEMMA StreamKeeps ==
  ASSUME LiveInv, NEW s \in Streams, NEW x \in StreamRecords,
         stream' = [stream EXCEPT ![s] = x], UNCHANGED <<news, published>>,
         Heard(s)',
         \/ (x.step = "open" <=> stream[s].step = "open") /\ sseActive' = sseActive
         \/ x.step = "open" /\ stream[s].step # "open" /\ sseActive' = sseActive + 1
         \/ x.step # "open" /\ stream[s].step = "open" /\ sseActive' = sseActive - 1,
         \/ /\ HasConnection(x.step) <=> HasConnection(stream[s].step)
            /\ lostConns' = lostConns
         \/ /\ HasConnection(x.step) /\ ~HasConnection(stream[s].step)
            /\ lostConns' = lostConns /\ Cardinality(Connected) + lostConns < PoolSize
         \/ /\ ~HasConnection(x.step) /\ HasConnection(stream[s].step)
            /\ lostConns' \in {lostConns, lostConns + 1}
  PROVE  LiveInv'
<1>1. /\ stream \in [Streams -> StreamRecords] /\ LiveTypeOK /\ StreamsCounted
      /\ sseActive \in Nat /\ lostConns \in Nat
  BY LiveTypes DEF LiveInv
<1>2. stream'[s] = x /\ \A q \in Streams : q # s => stream'[q] = stream[q]
  BY <1>1
<1>3. stream' \in [Streams -> StreamRecords]
  BY <1>1
<1>4. IsFiniteSet(Connected) /\ IsFiniteSet(Opened) /\ Cardinality(Connected) \in Nat
      /\ Cardinality(Opened) \in Nat
  <2>1. IsFiniteSet(Connected) /\ Opened \subseteq Connected
    BY <1>1 DEF StreamsCounted, Opened, Connected, Listens
  <2> QED
    BY <2>1, FS_Subset, FS_CardinalityType
<1>5. Opened' = IF x.step = "open" THEN Opened \cup {s} ELSE Opened \ {s}
  BY <1>2 DEF Opened, Listens
<1>6. Connected' = IF HasConnection(x.step) THEN Connected \cup {s} ELSE Connected \ {s}
  BY <1>2 DEF Connected, HasConnection
<1>7. (s \in Opened <=> stream[s].step = "open")
      /\ (s \in Connected <=> HasConnection(stream[s].step))
  BY DEF Opened, Connected, Listens, HasConnection
<1>8. sseActive' = Cardinality(Opened') /\ Cardinality(Opened') \in Nat
  <2>1. sseActive = Cardinality(Opened)
    BY <1>1 DEF StreamsCounted
  <2>2. CASE x.step = "open"
    <3>1. Cardinality(Opened') = IF s \in Opened THEN Cardinality(Opened)
                                 ELSE Cardinality(Opened) + 1
      BY <1>4, <1>5, <2>2, FS_AddElement
    <3> QED
      BY <1>4, <1>7, <2>1, <2>2, <3>1
  <2>3. CASE x.step # "open"
    <3>1. IsFiniteSet(Opened') /\ Cardinality(Opened') =
            IF s \in Opened THEN Cardinality(Opened) - 1 ELSE Cardinality(Opened)
      BY <1>4, <1>5, <2>3, FS_RemoveElement
    <3>2. Cardinality(Opened') \in Nat
      BY <3>1, FS_CardinalityType
    <3> QED
      BY <1>4, <1>7, <2>1, <2>3, <3>1, <3>2
  <2> QED
    BY <2>2, <2>3
<1>9. /\ IsFiniteSet(Connected') /\ lostConns' \in Nat
      /\ Cardinality(Connected') + lostConns' <= PoolSize
  <2>1. Cardinality(Connected) + lostConns <= PoolSize /\ PoolSize \in Nat
    BY <1>1, LiveAssumption DEF StreamsCounted
  <2>2. CASE /\ HasConnection(x.step) <=> HasConnection(stream[s].step)
             /\ lostConns' = lostConns
    <3>1. Connected' = Connected
      BY <1>6, <1>7, <2>2
    <3> QED
      BY <1>1, <1>4, <2>1, <2>2, <3>1
  <2>3. CASE /\ HasConnection(x.step) /\ ~HasConnection(stream[s].step)
             /\ lostConns' = lostConns /\ Cardinality(Connected) + lostConns < PoolSize
    <3>1. IsFiniteSet(Connected') /\ Cardinality(Connected') = Cardinality(Connected) + 1
      BY <1>4, <1>6, <1>7, <2>3, FS_AddElement
    <3> QED
      BY <1>1, <1>4, <2>1, <2>3, <3>1
  <2>4. CASE /\ ~HasConnection(x.step) /\ HasConnection(stream[s].step)
             /\ lostConns' \in {lostConns, lostConns + 1}
    <3>1. IsFiniteSet(Connected') /\ Cardinality(Connected') = Cardinality(Connected) - 1
      BY <1>4, <1>6, <1>7, <2>4, FS_RemoveElement
    <3> QED
      BY <1>1, <1>4, <2>1, <2>4, <3>1
  <2> QED
    BY <2>2, <2>3, <2>4
<1>10. StreamsCounted'
  BY <1>8, <1>9 DEF StreamsCounted
<1>11. LiveTypeOK'
  BY <1>1, <1>3, <1>8, <1>9 DEF LiveTypeOK, StreamRecords
<1>12. NewsSound' /\ ChannelsTrue'
  BY DEF LiveInv, NewsSound, ChannelsTrue, Carried
<1>13. ASSUME NEW q \in Streams PROVE Heard(q)'
  <2>1. CASE q = s
    BY <2>1
  <2>2. CASE q # s
    <3>1. Heard(q) /\ stream'[q] = stream[q]
      BY <1>2, <2>2 DEF LiveInv
    <3> QED
      BY <3>1 DEF Heard
  <2> QED
    BY <2>1, <2>2
<1> QED
  BY <1>10, <1>11, <1>12, <1>13 DEF LiveInv

\* A stream that holds nothing, and that ends, waits or goes on to subscribe.
LEMMA StepKeeps ==
  ASSUME LiveInv, NEW s \in Streams, NEW step \in {"subscribing", "ended"},
         StreamGoes(s, step), UNCHANGED <<news, published, sseActive>>,
         stream[s].step # "open",
         step = "subscribing" => stream[s].step = "admitted" /\ lostConns' = lostConns
                                 /\ Cardinality(Connected) + lostConns < PoolSize,
         step = "ended" =>
           \/ stream[s].step \in {"subscribing", "closing"}
              /\ lostConns' \in {lostConns, lostConns + 1}
           \/ stream[s].step \in {"new", "admitted"} /\ lostConns' = lostConns
  PROVE  LiveInv'
<1> DEFINE x == [stream[s] EXCEPT !.step = step]
<1>a. stream[s] \in StreamRecords
  BY LiveTypes DEF LiveInv
<1>b. x \in StreamRecords
  BY <1>a DEF StreamRecords
<1>1. /\ x \in StreamRecords /\ x.step = step /\ x.of = stream[s].of
      /\ x.since = stream[s].since /\ x.buf = stream[s].buf /\ x.told = stream[s].told
  BY <1>a, <1>b DEF StreamRecords
<1>2. stream' = [stream EXCEPT ![s] = x] /\ stream \in [Streams -> StreamRecords]
  BY LiveTypes DEF StreamGoes, LiveInv
<1> HIDE DEF x
<1>3. stream'[s] = x
  BY <1>2
<1>4. Heard(s)
  BY DEF LiveInv
<1>5. Heard(s)'
  BY <1>1, <1>3, <1>4 DEF Heard
<1>6. (x.step = "open" <=> stream[s].step = "open") /\ sseActive' = sseActive
  BY <1>1
<1>7. UNCHANGED <<news, published>>
  OBVIOUS
<1>8. CASE step = "subscribing"
  <2>1. HasConnection(x.step) /\ ~HasConnection(stream[s].step)
    BY <1>1, <1>8 DEF HasConnection
  <2>2. lostConns' = lostConns /\ Cardinality(Connected) + lostConns < PoolSize
    BY <1>8
  <2> QED
    BY <1>1, <1>2, <1>5, <1>6, <1>7, <2>1, <2>2, StreamKeeps
<1>9. CASE step = "ended"
  <2>1. ~HasConnection(x.step)
    BY <1>1, <1>9 DEF HasConnection
  <2>2. CASE /\ stream[s].step \in {"subscribing", "closing"}
             /\ lostConns' \in {lostConns, lostConns + 1}
    <3>1. HasConnection(stream[s].step)
      BY <2>2 DEF HasConnection
    <3> QED
      BY <1>1, <1>2, <1>5, <1>6, <1>7, <2>1, <2>2, <3>1, StreamKeeps
  <2>3. CASE stream[s].step \in {"new", "admitted"} /\ lostConns' = lostConns
    <3>1. ~HasConnection(stream[s].step)
      BY <2>3 DEF HasConnection
    <3> QED
      BY <1>1, <1>2, <1>5, <1>6, <1>7, <2>1, <2>3, <3>1, StreamKeeps
  <2> QED
    BY <1>9, <2>2, <2>3
<1> QED
  BY <1>8, <1>9

\* A stream begins with what its channel carries next.
LEMMA StartsKeeps ==
  ASSUME LiveInv, NEW s \in Streams, StartsStream(s)
  PROVE  LiveInv'
<1> DEFINE n == Len(published[stream[s].of])
<1> DEFINE x == [stream[s] EXCEPT !.step = "open", !.since = n]
<1>1. /\ stream[s] \in StreamRecords /\ stream \in [Streams -> StreamRecords] /\ Heard(s)
      /\ published \in [Watchers -> Seq(News)]
  BY LiveTypes DEF LiveInv
<1>2. /\ stream[s].step = "subscribing" /\ stream' = [stream EXCEPT ![s] = x]
      /\ sseActive' = sseActive + 1 /\ UNCHANGED <<news, published, lostConns>>
  BY <1>1 DEF StartsStream
<1>3. stream[s].of \in Watchers /\ stream[s].told = <<>> /\ stream[s].buf = <<>>
  BY <1>1, <1>2 DEF Heard
<1>4. n \in Nat
  BY <1>1, <1>3, LenProperties
<1>5. x \in StreamRecords
  BY <1>1, <1>4 DEF StreamRecords
<1>6. /\ x.step = "open" /\ x.of = stream[s].of /\ x.since = n
      /\ x.buf = stream[s].buf /\ x.told = stream[s].told
  BY <1>1 DEF StreamRecords
<1> HIDE DEF x
<1>7. stream'[s] = x
  BY <1>1, <1>2
<1>8. Heard(s)'
  <2>1. Len(<<>>) = 0 /\ n + 0 + 0 = n
    BY <1>4
  <2> QED
    BY <1>2, <1>3, <1>6, <1>7, <2>1 DEF Heard
<1> QED
  BY <1>2, <1>5, <1>6, <1>8, StreamKeeps DEF HasConnection

\* What a stream tells next is the first that it holds.
LEMMA YieldsKeeps ==
  ASSUME LiveInv, NEW s \in Streams, Yields(s)
  PROVE  LiveInv'
<1> DEFINE b == stream[s].buf
<1> DEFINE t == stream[s].told
<1> DEFINE p == published[stream[s].of]
<1> DEFINE x == [stream[s] EXCEPT !.told = Append(t, Head(b)), !.buf = Tail(b)]
<1>1. /\ stream[s] \in StreamRecords /\ stream \in [Streams -> StreamRecords] /\ Heard(s)
      /\ published \in [Watchers -> Seq(News)]
  BY LiveTypes DEF LiveInv
<1>2. /\ stream[s].step = "open" /\ b # <<>> /\ stream' = [stream EXCEPT ![s] = x]
      /\ UNCHANGED <<news, published, sseActive, lostConns>>
  BY <1>1 DEF Yields, Listens
<1>3. b \in Seq(News) /\ t \in Seq(News) /\ stream[s].since \in Nat
  BY <1>1 DEF StreamRecords
<1>4. /\ Tail(b) \in Seq(News) /\ Len(Tail(b)) = Len(b) - 1 /\ Head(b) \in News
      /\ \A i \in 1..Len(Tail(b)) : Tail(b)[i] = b[i + 1]
      /\ Head(b) = b[1]
  BY <1>2, <1>3, HeadTailProperties
<1>5. /\ Append(t, Head(b)) \in Seq(News) /\ Len(Append(t, Head(b))) = Len(t) + 1
      /\ \A i \in 1..Len(t) : Append(t, Head(b))[i] = t[i]
      /\ Append(t, Head(b))[Len(t) + 1] = b[1]
  BY <1>3, <1>4, AppendProperties
<1>6. /\ Len(b) \in Nat \ {0} /\ DOMAIN b = 1..Len(b)
      /\ Len(t) \in Nat /\ DOMAIN t = 1..Len(t)
      /\ DOMAIN Tail(b) = 1..(Len(b) - 1)
      /\ DOMAIN Append(t, Head(b)) = 1..(Len(t) + 1)
  BY <1>2, <1>3, <1>4, <1>5, LenProperties, EmptySeq
<1>7. x \in StreamRecords
  BY <1>1, <1>4, <1>5 DEF StreamRecords
<1>8. /\ x.step = "open" /\ x.of = stream[s].of /\ x.since = stream[s].since
      /\ x.buf = Tail(b) /\ x.told = Append(t, Head(b))
  BY <1>1, <1>2 DEF StreamRecords
<1> HIDE DEF x
<1>9. stream'[s] = x
  BY <1>1, <1>2
<1>10. /\ stream[s].of \in Watchers
       /\ stream[s].since + Len(t) + Len(b) = Len(p)
       /\ \A i \in DOMAIN b : b[i] = p[stream[s].since + Len(t) + i]
       /\ \A i \in DOMAIN t : stream[s].since + i \in DOMAIN p
                              /\ t[i] = p[stream[s].since + i]
  BY <1>1, <1>2 DEF Heard
<1>11. DOMAIN p = 1..Len(p) /\ Len(p) \in Nat
  BY <1>1, <1>10, LenProperties
<1> DEFINE m == stream[s].since
<1>a. m \in Nat
  BY <1>3
<1> HIDE DEF b, t, p, m
<1>12. ASSUME NEW i \in DOMAIN x.told
       PROVE  m + i \in DOMAIN p /\ x.told[i] = p[m + i]
  <2>1. i \in 1..(Len(t) + 1) /\ x.told[i] = Append(t, Head(b))[i]
    BY <1>6, <1>8
  <2>2. CASE i \in 1..Len(t)
    BY <1>5, <1>6, <1>10, <2>1, <2>2 DEF m
  <2>3. CASE i = Len(t) + 1
    <3>1. x.told[i] = b[1] /\ 1 \in DOMAIN b
      BY <1>5, <1>6, <2>1, <2>3
    <3>2. b[1] = p[m + Len(t) + 1]
      BY <1>10, <3>1 DEF m
    <3>a. m + Len(t) + Len(b) = Len(p)
      BY <1>10 DEF m
    <3>b. /\ m \in Nat /\ Len(t) \in Nat /\ Len(b) \in Nat /\ Len(b) # 0
          /\ Len(p) \in Nat /\ i = Len(t) + 1
      BY <1>6, <1>11, <1>a, <2>3
    <3>3. m + Len(t) + 1 = m + i /\ m + i \in 1..Len(p)
      BY <3>a, <3>b
    <3> QED
      BY <1>11, <3>1, <3>2, <3>3
  <2> QED
    BY <1>6, <2>1, <2>2, <2>3
<1>13. m + Len(x.told) + Len(x.buf) = Len(p)
  <2>1. m + Len(t) + Len(b) = Len(p)
    BY <1>10 DEF m
  <2> QED
    BY <1>4, <1>5, <1>6, <1>8, <1>a, <2>1
<1>14. ASSUME NEW i \in DOMAIN x.buf
       PROVE  x.buf[i] = p[m + Len(x.told) + i]
  <2>1. i \in 1..(Len(b) - 1) /\ x.buf[i] = b[i + 1] /\ i + 1 \in DOMAIN b
    BY <1>4, <1>6, <1>8
  <2>2. b[i + 1] = p[m + Len(t) + (i + 1)]
    BY <1>10, <2>1 DEF m
  <2>3. m + Len(t) + (i + 1) = m + Len(x.told) + i
    BY <1>5, <1>6, <1>8, <1>a, <2>1
  <2> QED
    BY <2>1, <2>2, <2>3
<1>15. Heard(s)'
  <2>1. /\ stream'[s].step = "open" /\ stream'[s].of = stream[s].of
        /\ stream'[s].since = m /\ stream'[s].buf = x.buf /\ stream'[s].told = x.told
    BY <1>8, <1>9 DEF m
  <2>2. published'[stream'[s].of] = p /\ stream'[s].of \in Watchers
    BY <1>2, <1>10, <2>1 DEF p
  <2>3. /\ stream'[s].since + Len(stream'[s].told) + Len(stream'[s].buf)
              = Len(published'[stream'[s].of])
        /\ \A i \in DOMAIN stream'[s].told :
             /\ stream'[s].since + i \in DOMAIN published'[stream'[s].of]
             /\ stream'[s].told[i] = published'[stream'[s].of][stream'[s].since + i]
        /\ \A i \in DOMAIN stream'[s].buf :
             stream'[s].buf[i]
               = published'[stream'[s].of][stream'[s].since + Len(stream'[s].told) + i]
    BY <1>12, <1>13, <1>14, <2>1, <2>2
  <2> QED
    BY <2>1, <2>2, <2>3 DEF Heard
<1> QED
  BY <1>2, <1>7, <1>8, <1>15, StreamKeeps DEF HasConnection

\* Every step of handlers and streams keeps the invariant.
LEMMA LiveStep == LiveInv /\ [LiveNext]_liveVars => LiveInv'
<1> SUFFICES ASSUME LiveInv, [LiveNext]_liveVars PROVE LiveInv'
  OBVIOUS
<1>1. /\ news \in [News -> NewsRecords] /\ stream \in [Streams -> StreamRecords]
      /\ published \in [Watchers -> Seq(News)] /\ NewsSound /\ LiveTypeOK
      /\ \A s \in Streams : Heard(s)
  BY LiveTypes DEF LiveInv
<1>2. ASSUME NEW e \in News, NEW t \in Watchers, InsertNews(e, t) PROVE LiveInv'
  <2> DEFINE x == [news[e] EXCEPT !.step = "inserted", !.of = t]
  <2>a. news[e] \in NewsRecords
    BY <1>1
  <2>b. news[e].step = "new"
    <3>1. NoNews.step = "new"
      BY DEF NoNews
    <3>2. news[e] = NoNews
      BY <1>2 DEF InsertNews
    <3> QED
      BY <3>1, <3>2
  <2>1. news[e] \in NewsRecords /\ news[e].step = "new"
    BY <2>a, <2>b
  <2>2. x \in NewsRecords /\ x.step = "inserted" /\ x.of = t
    BY <2>1 DEF NewsRecords
  <2>3. /\ news' = [news EXCEPT ![e] = x]
        /\ UNCHANGED <<published, stream, sseActive, lostConns>>
    BY <1>1, <1>2 DEF InsertNews
  <2> HIDE DEF x
  <2>4. /\ news' \in [News -> NewsRecords] /\ NewsSound'
        /\ \A w \in Watchers : \A d \in News : Carried(w, d) => Carried(w, d)'
    BY <2>1, <2>2, <2>3, NewsOnly
  <2> QED
    BY <2>3, <2>4, NewsKeeps
<1>3. ASSUME NEW e \in News, PublishEarly(e) \/ PublishLate(e) PROVE LiveInv'
  <2>1. PICK step \in {"published", "ended"} :
          /\ NewsGoes(e, step) /\ PublishEvent(e) /\ UNCHANGED <<sseActive, lostConns>>
          /\ news[e].step \in {"inserted", "committed"}
          /\ news[e].step = "inserted" => e \in EarlyNews
    BY <1>3 DEF PublishEarly, PublishLate, PublishesFirst
  <2> DEFINE x == [news[e] EXCEPT !.step = step]
  <2>2. news[e] \in NewsRecords
    BY <1>1
  <2>3. x \in NewsRecords /\ x.step = step
    BY <2>2 DEF NewsRecords
  <2>4. x.of = news[e].of /\ (x.stored <=> news[e].stored)
    BY <2>2 DEF NewsRecords
  <2>5. news' = [news EXCEPT ![e] = x]
    BY <2>1 DEF NewsGoes
  <2> HIDE DEF x
  <2>6. news[e].of \in Watchers /\ (news[e].step = "committed" => news[e].stored)
    BY <1>1, <2>1 DEF NewsSound
  <2>7. /\ news' \in [News -> NewsRecords] /\ NewsSound'
        /\ \A w \in Watchers : \A d \in News : Carried(w, d) => Carried(w, d)'
    BY <2>3, <2>4, <2>5, <2>6, NewsOnly
  <2>8. /\ news'[e].step # "new" /\ news'[e].of = news[e].of
        /\ e \notin EarlyNews => news'[e].stored
    <3>1. news'[e] = x
      BY <1>1, <2>5
    <3> QED
      BY <2>1, <2>3, <2>4, <2>6, <3>1
  <2>9. CASE Carries(e)
    BY <2>1, <2>6, <2>7, <2>8, <2>9, CarriesKeeps
  <2>10. CASE UNCHANGED <<published, stream>>
    BY <2>1, <2>7, <2>10, NewsKeeps
  <2> QED
    BY <2>1, <2>9, <2>10 DEF PublishEvent
<1>4. ASSUME NEW e \in News, GetDbCommits(e) \/ CommitFirst(e) PROVE LiveInv'
  <2>1. PICK step \in {"committed", "ended"} :
          /\ news' = [news EXCEPT ![e] = [news[e] EXCEPT !.step = step, !.stored = TRUE]]
          /\ news[e].step \in {"inserted", "published"}
          /\ UNCHANGED <<published, stream, sseActive, lostConns>>
    BY <1>1, <1>4 DEF GetDbCommits, CommitFirst
  <2> DEFINE x == [news[e] EXCEPT !.step = step, !.stored = TRUE]
  <2>2. news[e] \in NewsRecords
    BY <1>1
  <2>3. x \in NewsRecords /\ x.step = step /\ x.of = news[e].of
    BY <2>2 DEF NewsRecords
  <2>4. x.stored
    BY <2>2 DEF NewsRecords
  <2>5. news' = [news EXCEPT ![e] = x]
    BY <2>1
  <2> HIDE DEF x
  <2>6. news[e].of \in Watchers
    BY <1>1, <2>1 DEF NewsSound
  <2>7. /\ news' \in [News -> NewsRecords] /\ NewsSound'
        /\ \A w \in Watchers : \A d \in News : Carried(w, d) => Carried(w, d)'
    BY <2>3, <2>4, <2>5, <2>6, NewsOnly
  <2> QED
    BY <2>1, <2>7, NewsKeeps
<1>5. ASSUME NEW e \in News, HandlerFails(e) PROVE LiveInv'
  <2> DEFINE x == [news[e] EXCEPT !.step = "ended"]
  <2>1. news[e] \in NewsRecords
    BY <1>1
  <2>2. x \in NewsRecords /\ x.step = "ended" /\ x.of = news[e].of
    BY <2>1 DEF NewsRecords
  <2>3. x.stored <=> news[e].stored
    BY <2>1 DEF NewsRecords
  <2>4. news' = [news EXCEPT ![e] = x] /\ UNCHANGED <<published, stream, sseActive, lostConns>>
    BY <1>5 DEF HandlerFails, NewsGoes
  <2> HIDE DEF x
  <2>5. /\ news' \in [News -> NewsRecords] /\ NewsSound'
        /\ \A w \in Watchers : \A d \in News : Carried(w, d) => Carried(w, d)'
    BY <2>2, <2>3, <2>4, NewsOnly
  <2> QED
    BY <2>4, <2>5, NewsKeeps
<1>6. ASSUME NEW s \in Streams, NEW t \in Watchers, Admit(s, t) PROVE LiveInv'
  <2> DEFINE x == [stream[s] EXCEPT !.step = "admitted", !.of = t]
  <2>1. stream[s] \in StreamRecords /\ stream[s].step = "new" /\ Heard(s)
    BY <1>1, <1>6 DEF Admit, NewStream
  <2>2. x \in StreamRecords
    BY <2>1 DEF StreamRecords
  <2>3. /\ x.step = "admitted" /\ x.of = t /\ x.since = stream[s].since
        /\ x.buf = stream[s].buf /\ x.told = stream[s].told
    BY <2>1 DEF StreamRecords
  <2>4. /\ stream' = [stream EXCEPT ![s] = x]
        /\ UNCHANGED <<news, published, sseActive, lostConns>>
    BY <1>1, <1>6 DEF Admit
  <2> HIDE DEF x
  <2>5. stream'[s] = x
    BY <1>1, <2>4
  <2>6. Heard(s)'
    BY <2>1, <2>3, <2>4, <2>5 DEF Heard
  <2> QED
    BY <2>1, <2>2, <2>3, <2>4, <2>6, StreamKeeps DEF HasConnection
<1>7. ASSUME NEW s \in Streams, Refuse(s) PROVE LiveInv'
  <2>1. stream[s].step = "new"
    BY <1>7 DEF Refuse, NewStream
  <2> QED
    BY <1>7, <2>1, StepKeeps DEF Refuse
<1>8. ASSUME NEW s \in Streams, Subscribes(s) PROVE LiveInv'
  BY <1>8, StepKeeps DEF Subscribes
<1>9. ASSUME NEW s \in Streams, Stillborn(s) PROVE LiveInv'
  BY <1>9, StepKeeps DEF Stillborn
<1>10. ASSUME NEW s \in Streams, Releases(s) PROVE LiveInv'
  BY <1>10, StepKeeps DEF Releases
<1>11. ASSUME NEW s \in Streams, StopsCounting(s) PROVE LiveInv'
  <2> DEFINE x == [stream[s] EXCEPT !.step = "closing", !.buf = <<>>]
  <2>1. stream[s] \in StreamRecords /\ stream[s].step = "open" /\ Heard(s)
    BY <1>1, <1>11 DEF StopsCounting, Listens
  <2>2. <<>> \in Seq(News)
    BY EmptySeq
  <2>3. x \in StreamRecords
    BY <2>1, <2>2 DEF StreamRecords
  <2>4. /\ x.step = "closing" /\ x.of = stream[s].of /\ x.since = stream[s].since
        /\ x.buf = <<>> /\ x.told = stream[s].told
    BY <2>1 DEF StreamRecords
  <2>5. /\ stream' = [stream EXCEPT ![s] = x] /\ sseActive' = sseActive - 1
        /\ UNCHANGED <<news, published, lostConns>>
    BY <1>1, <1>11 DEF StopsCounting
  <2> HIDE DEF x
  <2>6. stream'[s] = x
    BY <1>1, <2>5
  <2>7. Heard(s)'
    BY <2>1, <2>4, <2>5, <2>6 DEF Heard
  <2> QED
    BY <2>1, <2>3, <2>4, <2>5, <2>7, StreamKeeps DEF HasConnection
<1>12. CASE UNCHANGED liveVars
  <2>1. /\ news' \in [News -> NewsRecords] /\ NewsSound'
        /\ \A w \in Watchers : \A d \in News : Carried(w, d) => Carried(w, d)'
    BY <1>1, <1>12 DEF liveVars, NewsSound, Carried
  <2> QED
    BY <1>12, <2>1, NewsKeeps DEF liveVars
<1> QED
  BY <1>2, <1>3, <1>4, <1>5, <1>6, <1>7, <1>8, <1>9, <1>10, <1>11, <1>12,
     StartsKeeps, YieldsKeeps DEF LiveNext

LEMMA LiveAlwaysInv == LiveSpec => []LiveInv
<1>1. LiveInit => LiveInv
  BY LiveInitHolds
<1>2. LiveInv /\ [LiveNext]_liveVars => LiveInv'
  BY LiveStep
<1> QED
  BY <1>1, <1>2, PTL DEF LiveSpec

\* Type correctness of events, channels, streams and counters.
THEOREM LiveTypeAlwaysOK == LiveSpec => []LiveTypeOK
<1>1. LiveInv => LiveTypeOK
  BY DEF LiveInv
<1> QED
  BY <1>1, LiveAlwaysInv, PTL

\* The counter is the number of streams that run, the pool is never overdrawn, and what
\* a stream tells is what its tenant's channel has carried since it began, in order and
\* without a gap, stored first unless its handler commits late.
THEOREM StreamsAreAlwaysTrue == LiveSpec => []StreamsAreTrue
<1>1. LiveInv => StreamsAreTrue
  <2> SUFFICES ASSUME LiveInv PROVE StreamsAreTrue
    OBVIOUS
  <2>1. /\ sseActive = Cardinality({s \in Streams : Listens(s)})
        /\ Cardinality(Connected) + lostConns <= PoolSize
    BY DEF LiveInv, StreamsCounted, Opened
  <2>2. ASSUME NEW s \in Streams
        PROVE  /\ Len(stream[s].told) > 0 =>
                    stream[s].told = SubSeq(published[stream[s].of], stream[s].since + 1,
                                            stream[s].since + Len(stream[s].told))
               /\ \A i \in DOMAIN stream[s].told : news[stream[s].told[i]].of = stream[s].of
               /\ \A i \in DOMAIN stream[s].told :
                    stream[s].told[i] \notin EarlyNews => news[stream[s].told[i]].stored
    <3> DEFINE t == stream[s].told
    <3> DEFINE p == published[stream[s].of]
    <3> DEFINE m == stream[s].since
    <3>1. /\ stream[s] \in StreamRecords /\ Heard(s) /\ ChannelsTrue
          /\ published \in [Watchers -> Seq(News)]
      BY LiveTypes DEF LiveInv
    <3>2. t \in Seq(News) /\ m \in Nat
      BY <3>1 DEF StreamRecords
    <3>3. Len(t) \in Nat /\ DOMAIN t = 1..Len(t)
      BY <3>2, LenProperties
    <3>4. \A i \in DOMAIN t : stream[s].of \in Watchers /\ m + i \in DOMAIN p /\ t[i] = p[m + i]
      BY <3>1 DEF Heard
    <3>5. \A i \in DOMAIN t : Carried(stream[s].of, t[i])
      BY <3>1, <3>4 DEF ChannelsTrue
    <3>6. ASSUME Len(t) > 0 PROVE t = SubSeq(p, m + 1, m + Len(t))
      <4> HIDE DEF t, p, m
      <4>1. 1 \in DOMAIN t
        BY <3>3, <3>6
      <4>2. p \in Seq(News)
        BY <3>1, <3>4, <4>1 DEF p
      <4>3. DOMAIN p = 1..Len(p) /\ Len(p) \in Nat /\ \A i \in DOMAIN p : p[i] \in News
        BY <4>2, LenProperties, ElementOfSeq
      <4>4. ASSUME NEW i \in (m + 1)..(m + Len(t)) PROVE p[i] \in News
        <5>1. i - m \in DOMAIN t /\ m + (i - m) = i
          BY <3>2, <3>3
        <5> QED
          BY <3>4, <4>3, <5>1
      <4>5. m + 1 \in Int /\ m + Len(t) \in Int /\ m + 1 <= m + Len(t)
            /\ (m + Len(t)) - (m + 1) + 1 = Len(t)
        BY <3>2, <3>3, <3>6
      <4> DEFINE u == SubSeq(p, m + 1, m + Len(t))
      <4>6. /\ u \in Seq(News) /\ Len(u) = Len(t)
            /\ \A i \in 1..Len(t) : u[i] = p[(m + 1) + i - 1]
        BY <4>4, <4>5, SubSeqProperties
      <4> HIDE DEF u
      <4>7. ASSUME NEW i \in 1..Len(t) PROVE t[i] = u[i]
        <5>1. (m + 1) + i - 1 = m + i
          BY <3>2, <3>3
        <5> QED
          BY <3>3, <3>4, <4>6, <5>1
      <4>8. t = u
        BY <3>2, <4>6, <4>7, SeqEqual
      <4> QED
        BY <4>8 DEF u
    <3> QED
      BY <3>5, <3>6 DEF Carried
  <2> QED
    BY <2>1, <2>2 DEF StreamsAreTrue
<1> QED
  BY <1>1, LiveAlwaysInv, PTL
=============================================================================
