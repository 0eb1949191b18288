---------------------------- MODULE AgentTunnels ----------------------------
(***************************************************************************)
(* Agents, their API keys and their WireGuard tunnels.  The tunnel of an   *)
(* agent is a row and a peer of the hub; the hub is told by HTTP in the    *)
(* middle of the transaction and reads the rows again when it boots.       *)
(* Heartbeats and updates write the whole row of the agent back.           *)
(***************************************************************************)
EXTENDS Integers

CONSTANTS Agents,        \* ids of agents
          AgentRequests, \* API requests about agents that run at once
          LastHost,      \* 254, the last address of wg_subnet; the hub has 1
          MaxCalls,      \* bound: requests that are started
          NoAgent        \* no agent

ASSUME TunnelAssumption ==
  LastHost \in Nat \ {0} /\ MaxCalls \in Nat /\ NoAgent \notin Agents

VARIABLES agent,      \* agent -> "none", "active", "inactive" or "gone"
          keyed,        \* agents whose API key is accepted
          address,    \* agent -> host of its tunnel_ip, 0 without a tunnel
          lastOffset, \* agent_tunnel_ip_seq
          peer,       \* agent -> host the hub allows its public key, or 0
          hub,        \* "up", "down", or "booting" after it has read the rows
          hubList,     \* agent -> host in what the booting hub has read
          hubCall,       \* request -> what it is doing
          calls,      \* requests started
          unsure      \* history: agents whose peer may differ from their row

tunnelVars == <<agent, keyed, address, lastOffset, peer, hub, hubList, hubCall, calls,
                unsure>>

NoHosts == [a \in Agents |-> 0]
Hosts == 0..MaxCalls + 1
NoCall == [op |-> "idle", agent |-> NoAgent, step |-> "done", host |-> 0, draft |-> "none"]
CallDoing(r, op, step) == hubCall[r].op = op /\ hubCall[r].step = step
CallGoes(r, step) == hubCall' = [hubCall EXCEPT ![r].step = step]
EndsCall(r) == hubCall' = [hubCall EXCEPT ![r] = NoCall]
Exists(a) == agent[a] \in {"active", "inactive"}
\* Agents whose tunnel is being made or taken away.
Wiring == {hubCall[r].agent : r \in {q \in AgentRequests : hubCall[q].op \in {"create", "delete"}}}
Touched == {hubCall[r].agent : r \in AgentRequests}

TunnelsInit ==
  /\ agent = [a \in Agents |-> "none"] /\ keyed = {} /\ address = NoHosts
  /\ lastOffset = 1 /\ peer = NoHosts /\ hub = "up" /\ hubList = NoHosts
  /\ hubCall = [r \in AgentRequests |-> NoCall] /\ calls = 0
  /\ unsure = {}

Begins(r, op, a, step, host) ==
  /\ hubCall[r].op = "idle" /\ calls < MaxCalls
  /\ calls' = calls + 1
  /\ hubCall' = [hubCall EXCEPT ![r] = [op |-> op, agent |-> a, step |-> step,
                                  host |-> host, draft |-> agent[a]]]

(***************************************************************************)
(* create_agent_with_tunnel                                                *)
(***************************************************************************)
\* create_agent flushes the row and its key; nextval is never rolled back.
CreateAgent(r, a) ==
  /\ agent[a] = "none" /\ a \notin Touched
  /\ Begins(r, "create", a, "info", lastOffset + 1)
  /\ lastOffset' = lastOffset + 1
  /\ UNCHANGED <<agent, keyed, address, peer, hub, hubList, unsure>>

GetHubInfo(r) ==
  /\ CallDoing(r, "create", "info") /\ hub = "up"
  /\ CallGoes(r, "peer")
  /\ UNCHANGED <<agent, keyed, address, lastOffset, peer, hub, hubList, calls, unsure>>

\* wg set refuses an address that is none.
AddPeer(r) ==
  /\ CallDoing(r, "create", "peer") /\ hub = "up" /\ hubCall[r].host <= LastHost
  /\ peer' = [peer EXCEPT ![hubCall[r].agent] = hubCall[r].host]
  /\ CallGoes(r, "commit")
  /\ UNCHANGED <<agent, keyed, address, lastOffset, hub, hubList, calls, unsure>>

\* The router commits before it answers.
CommitAgent(r) ==
  /\ CallDoing(r, "create", "commit")
  /\ agent' = [agent EXCEPT ![hubCall[r].agent] = "active"]
  /\ keyed' = keyed \union {hubCall[r].agent}
  /\ address' = [address EXCEPT ![hubCall[r].agent] = hubCall[r].host]
  /\ EndsCall(r)
  /\ UNCHANGED <<lastOffset, peer, hub, hubList, calls, unsure>>

(***************************************************************************)
(* delete_agent, update_agent and the heartbeat                            *)
(***************************************************************************)
ReadAgent(r, op, a) ==
  /\ Exists(a) /\ (op = "beat" => a \in keyed /\ agent[a] = "active")
  /\ Begins(r, op, a, IF op = "delete" THEN "unpeer" ELSE "write", 0)
  /\ UNCHANGED <<agent, keyed, address, lastOffset, peer, hub, hubList, unsure>>

\* remove_peer is best effort: without the hub the agent is deleted all the same.
RemovePeer(r) ==
  /\ CallDoing(r, "delete", "unpeer")
  /\ \/ /\ hub = "up" /\ peer' = [peer EXCEPT ![hubCall[r].agent] = 0]
        /\ UNCHANGED unsure
     \/ unsure' = unsure \union {hubCall[r].agent} /\ UNCHANGED peer
  /\ CallGoes(r, "commit")
  /\ UNCHANGED <<agent, keyed, address, lastOffset, hub, hubList, calls>>

\* The row of the tunnel goes with the agent, by cascade if not before.
DeleteAgent(r) ==
  /\ CallDoing(r, "delete", "commit")
  /\ agent' = [agent EXCEPT ![hubCall[r].agent] = "gone"]
  /\ keyed' = keyed \ {hubCall[r].agent}
  /\ address' = [address EXCEPT ![hubCall[r].agent] = 0]
  /\ EndsCall(r)
  /\ UNCHANGED <<lastOffset, peer, hub, hubList, calls, unsure>>

\* AgentRepository.update writes is_active whether or not it was to change.
WriteAgent(r, status) ==
  /\ hubCall[r].step = "write"
  /\ hubCall[r].op = "beat" => status = hubCall[r].draft
  /\ LET a == hubCall[r].agent
     IN agent' = IF Exists(a) THEN [agent EXCEPT ![a] = status] ELSE agent
  /\ EndsCall(r)
  /\ UNCHANGED <<keyed, address, lastOffset, peer, hub, hubList, calls, unsure>>

\* A call to the hub fails, the request dies, its commit fails: the transaction
\* is rolled back, and what the hub was told remains.
CallRollsBack(r) ==
  /\ hubCall[r].op # "idle"
  /\ EndsCall(r)
  /\ unsure' = IF hubCall[r].op \in {"create", "delete"}
               THEN unsure \union {hubCall[r].agent} ELSE unsure
  /\ UNCHANGED <<agent, keyed, address, lastOffset, peer, hub, hubList, calls>>

(***************************************************************************)
(* The hub                                                                 *)
(***************************************************************************)
HubStops ==
  /\ hub # "down" /\ calls < MaxCalls
  /\ hub' = "down" /\ peer' = NoHosts /\ calls' = calls + 1
  /\ UNCHANGED <<agent, keyed, address, lastOffset, hubList, hubCall, unsure>>

\* reconcile_from_api: the control API is not up before it is done.
HubReads ==
  /\ hub = "down"
  /\ hub' = "booting" /\ hubList' = address
  /\ unsure' = Wiring \ {NoAgent}
  /\ UNCHANGED <<agent, keyed, address, lastOffset, peer, hubCall, calls>>

\* Mutant of HubResyncs: the hub boots without reading its peers back.
HubResyncsNothing ==
  /\ hub = "booting" /\ hub' = "up" /\ hubList' = NoHosts
  /\ UNCHANGED <<agent, keyed, address, lastOffset, peer, hubCall, calls, unsure>>

\* Without the API the hub serves with no peer at all, after five tries.
HubResyncs ==
  /\ hub = "booting" /\ hub' = "up" /\ hubList' = NoHosts
  /\ \/ peer' = hubList /\ UNCHANGED unsure
     \/ unsure' = Agents /\ UNCHANGED peer
  /\ UNCHANGED <<agent, keyed, address, lastOffset, hubCall, calls>>

TunnelsNext ==
  \/ \E r \in AgentRequests :
       \/ \E a \in Agents : \/ CreateAgent(r, a)
                            \/ \E op \in {"delete", "update", "beat"} : ReadAgent(r, op, a)
       \/ GetHubInfo(r) \/ AddPeer(r) \/ CommitAgent(r)
       \/ RemovePeer(r) \/ DeleteAgent(r) \/ CallRollsBack(r)
       \/ \E status \in {"active", "inactive"} : WriteAgent(r, status)
  \/ HubStops \/ HubReads \/ HubResyncs

TunnelsSpec == TunnelsInit /\ [][TunnelsNext]_tunnelVars

-----------------------------------------------------------------------------
\* Types of the state.
TunnelsTypeOK ==
  /\ agent \in [Agents -> {"none", "active", "inactive", "gone"}]
  /\ keyed \subseteq Agents /\ unsure \subseteq Agents
  /\ address \in [Agents -> Hosts] /\ peer \in [Agents -> Hosts] /\ hubList \in [Agents -> Hosts]
  /\ lastOffset \in Hosts /\ hub \in {"up", "down", "booting"} /\ calls \in 0..MaxCalls
  /\ hubCall \in [AgentRequests ->
       [op : {"idle", "create", "delete", "update", "beat"}, agent : Agents \union {NoAgent},
        step : {"info", "peer", "commit", "unpeer", "write", "done"},
        host : Hosts, draft : {"none", "active", "inactive", "gone"}]]

\* While the hub is up it knows exactly the tunnels of the agents there are,
\* each at its own address, once no request is wiring that agent: except where
\* a request failed, the hub could not be told, or the hub booted between the
\* peer and the row (create_agent_with_tunnel, delete_agent, reconcile_from_api).
PeersAreTunnels ==
  hub = "up" =>
    /\ \A a \in Agents \ (Wiring \union unsure) : peer[a] = address[a]
    /\ \A a, b \in Agents : a # b /\ peer[a] = peer[b] => peer[a] = 0
    /\ \A a \in Agents : address[a] # 0 <=> Exists(a)
=============================================================================
