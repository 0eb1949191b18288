----------------------------- MODULE LiveEvents -------------------------------
(***************************************************************************)
(* Events on their way to browsers: a handler stores an event and          *)
(* publishes it on Redis channels; a process of the API keeps an SSE       *)
(* stream per browser, each with a connection of a pool of its own.        *)
(* Nobody listens on the channel domain_events (start_listening is never   *)
(* called), so that only the channel of the tenant is modelled.            *)
(***************************************************************************)
EXTENDS Integers, FiniteSets, Sequences

CONSTANTS Streams,     \* requests for a stream
          News,        \* events
          EarlyNews,   \* those of handlers that leave the commit to get_db
          Watchers,    \* tenants
          MaxStreams,  \* _SSE_MAX_CONNECTIONS
          PoolSize,    \* connections of the pool sse_redis
          NoWatcher

ASSUME LiveAssumption == EarlyNews \subseteq News /\ {MaxStreams, PoolSize} \subseteq Nat

VARIABLES news,     \* event -> how far its handler is
          published,\* tenant -> what its channel has carried, in order
          stream,   \* request -> its stream
          sseActive,   \* _sse_active
          lostConns \* connections of the pool that nobody will give back

liveVars == <<news, published, stream, sseActive, lostConns>>

NewStream == [step |-> "new", of |-> NoWatcher, since |-> 0, buf |-> <<>>, told |-> <<>>]
NoNews == [step |-> "new", of |-> NoWatcher, stored |-> FALSE]

LiveInit ==
  /\ news = [e \in News |-> NoNews]
  /\ published = [t \in Watchers |-> <<>>]
  /\ stream = [s \in Streams |-> NewStream]
  /\ sseActive = 0 /\ lostConns = 0

Listens(s) == stream[s].step = "open"
Connected == {s \in Streams : stream[s].step \in {"subscribing", "open", "closing"}}
StreamGoes(s, step) == stream' = [stream EXCEPT ![s].step = step]
NewsGoes(e, step) == news' = [news EXCEPT ![e].step = step]

-----------------------------------------------------------------------------
(***************************************************************************)
(* The handlers of events.                                                 *)
(***************************************************************************)
InsertNews(e, t) ==
  /\ news[e] = NoNews
  /\ news' = [news EXCEPT ![e].step = "inserted", ![e].of = t]
  /\ UNCHANGED <<published, stream, sseActive, lostConns>>

\* Redis hands a message to who is subscribed at that moment.
Carries(e) ==
  LET t == news[e].of
  IN /\ published' = [published EXCEPT ![t] = Append(@, e)]
     /\ stream' = [s \in Streams |-> IF Listens(s) /\ stream[s].of = t
                                       THEN [stream[s] EXCEPT !.buf = Append(@, e)]
                                       ELSE stream[s]]

\* publish_event swallows every failure, and drops the event when there is no bus.
PublishEvent(e) == Carries(e) \/ UNCHANGED <<published, stream>>

\* Mutant of PublishesFirst: all handlers do.
PublishesAlways(e) == e \in News

\* The plate of a camera is published by ingest_alpr, then committed by get_db.
PublishesFirst(e) == e \in EarlyNews

PublishEarly(e) ==
  /\ news[e].step = "inserted" /\ PublishesFirst(e)
  /\ PublishEvent(e) /\ NewsGoes(e, "published")
  /\ UNCHANGED <<sseActive, lostConns>>

GetDbCommits(e) ==
  /\ news[e].step = "published"
  /\ news' = [news EXCEPT ![e].step = "ended", ![e].stored = TRUE]
  /\ UNCHANGED <<published, stream, sseActive, lostConns>>

\* Events of plugins and of edge batches, and the state of a camera's stream: the handler
\* commits, then publishes.
CommitFirst(e) ==
  /\ news[e].step = "inserted" /\ ~PublishesFirst(e)
  /\ news' = [news EXCEPT ![e].step = "committed", ![e].stored = TRUE]
  /\ UNCHANGED <<published, stream, sseActive, lostConns>>

PublishLate(e) ==
  /\ news[e].step = "committed"
  /\ PublishEvent(e) /\ NewsGoes(e, "ended")
  /\ UNCHANGED <<sseActive, lostConns>>

\* A commit that fails, a process that dies.
HandlerFails(e) ==
  /\ news[e].step \in {"inserted", "published", "committed"}
  /\ NewsGoes(e, "ended")
  /\ UNCHANGED <<published, stream, sseActive, lostConns>>

-----------------------------------------------------------------------------
(***************************************************************************)
(* A stream.  The limit is checked when the request arrives; the counter   *)
(* goes up when the generator has subscribed.                              *)
(***************************************************************************)
HasPlace == sseActive < MaxStreams

Admit(s, t) ==
  /\ stream[s] = NewStream /\ HasPlace
  /\ stream' = [stream EXCEPT ![s].step = "admitted", ![s].of = t]
  /\ UNCHANGED <<news, published, sseActive, lostConns>>

\* 503 or 401.
Refuse(s) ==
  /\ stream[s] = NewStream
  /\ StreamGoes(s, "ended")
  /\ UNCHANGED <<news, published, sseActive, lostConns>>

Subscribes(s) ==
  /\ stream[s].step = "admitted" /\ Cardinality(Connected) + lostConns < PoolSize
  /\ StreamGoes(s, "subscribing")
  /\ UNCHANGED <<news, published, sseActive, lostConns>>

StartsStream(s) ==
  /\ stream[s].step = "subscribing"
  /\ stream' = [stream EXCEPT ![s].step = "open", ![s].since = Len(published[stream[s].of])]
  /\ sseActive' = sseActive + 1
  /\ UNCHANGED <<news, published, lostConns>>

\* A browser that leaves before its generator runs, a pool without connections, a
\* SUBSCRIBE that raises: nothing was counted.  A cancellation in the middle of
\* SUBSCRIBE is not caught, and the connection stays out of the pool.
Stillborn(s) ==
  /\ stream[s].step \in {"admitted", "subscribing"}
  /\ StreamGoes(s, "ended")
  /\ lostConns' \in IF stream[s].step = "subscribing" THEN {lostConns, lostConns + 1}
                    ELSE {lostConns}
  /\ UNCHANGED <<news, published, sseActive>>

Yields(s) ==
  /\ Listens(s) /\ stream[s].buf # <<>>
  /\ stream' = [stream EXCEPT ![s].told = Append(@, Head(stream[s].buf)),
                              ![s].buf = Tail(@)]
  /\ UNCHANGED <<news, published, sseActive, lostConns>>

\* finally: after a disconnection, an error of Redis or a cancellation.
StopsCounting(s) ==
  /\ Listens(s)
  /\ sseActive' = sseActive - 1
  /\ stream' = [stream EXCEPT ![s].step = "closing", ![s].buf = <<>>]
  /\ UNCHANGED <<news, published, lostConns>>

\* A task that is being cancelled may not get as far as aclose.
Releases(s) ==
  /\ stream[s].step = "closing"
  /\ StreamGoes(s, "ended")
  /\ lostConns' \in {lostConns, lostConns + 1}
  /\ UNCHANGED <<news, published, sseActive>>

LiveNext ==
  \/ \E e \in News : \/ \E t \in Watchers : InsertNews(e, t)
                     \/ PublishEarly(e) \/ GetDbCommits(e) \/ CommitFirst(e)
                     \/ PublishLate(e) \/ HandlerFails(e)
  \/ \E s \in Streams : \/ \E t \in Watchers : Admit(s, t)
                        \/ Refuse(s) \/ Subscribes(s) \/ StartsStream(s) \/ Stillborn(s)
                        \/ Yields(s) \/ StopsCounting(s) \/ Releases(s)

LiveSpec == LiveInit /\ [][LiveNext]_liveVars

-----------------------------------------------------------------------------
\* Type invariant.
LiveTypeOK ==
  /\ news \in [News -> [step : {"new", "inserted", "published", "committed", "ended"},
                        of : Watchers \cup {NoWatcher}, stored : BOOLEAN]]
  /\ published \in [Watchers -> Seq(News)]
  /\ stream \in [Streams ->
       [step : {"new", "admitted", "subscribing", "open", "closing", "ended"},
        of : Watchers \cup {NoWatcher}, since : Nat, buf : Seq(News), told : Seq(News)]]
  /\ sseActive \in Nat /\ lostConns \in Nat

\* The counter is the number of streams that run, with at most a pool of them; what a
\* stream tells is what its tenant's channel has carried since it began, in order and
\* without a gap; and an event that was committed first can be read by who is told.
StreamsAreTrue ==
  /\ sseActive = Cardinality({s \in Streams : Listens(s)})
  /\ Cardinality(Connected) + lostConns <= PoolSize
  /\ \A s \in Streams :
       LET told == stream[s].told
       IN /\ Len(told) > 0 => told = SubSeq(published[stream[s].of], stream[s].since + 1,
                                            stream[s].since + Len(told))
          /\ \A i \in DOMAIN told : news[told[i]].of = stream[s].of
          /\ \A i \in DOMAIN told :
               told[i] \notin EarlyNews => news[told[i]].stored
=============================================================================
