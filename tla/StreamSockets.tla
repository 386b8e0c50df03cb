--------------------------- MODULE StreamSockets ---------------------------
(***************************************************************************)
(* The sockets of one API replica: /dashboard/ws/market and the manager    *)
(* that keeps the list of them.  The handler of a socket reads the         *)
(* analysis from Redis, sends it and sleeps; a broadcast sends a message   *)
(* to the sockets that were in the list when it began.  A client leaves at *)
(* any time, and nobody learns of it before the next send fails: then the  *)
(* handler or the broadcast, whichever comes first, drops the socket.      *)
(*                                                                         *)
(* The analyses are numbered in the order in which they are published (by  *)
(* MarketFeed; 0 is that of an empty Redis).  Nothing in the repository    *)
(* calls broadcast yet: the calls come from the environment.               *)
(*                                                                         *)
(* A definition marked `Bug` is a faulty variant of the one below it.      *)
(***************************************************************************)
EXTENDS Integers, SequencesExt

CONSTANTS
    Sockets,      \* the connections, numbered as clients open them
    Broadcasts,   \* the calls of broadcast, numbered as they begin
    MaxVersion    \* bound of the analyses that are published

ASSUME NumbersAssumption ==
    MaxVersion \in Nat /\ Sockets \subseteq Nat /\ Broadcasts \subseteq Nat

VARIABLES
    version,      \* the analysis in Redis
    client,       \* client[s]: whether the client is there
    pc,           \* pc[s]: the await of the handler of s
    latest,       \* latest[s]: the analysis that the handler of s has read
    shown,        \* shown[s]: the analysis the client was sent last
    list,         \* manager.active_connections
    stage,        \* stage[b]: whether the broadcast is under way
    recipients,   \* recipients[b]: the copy of the list it goes through
    position,     \* position[b]: its place in that copy
    told          \* told[b]: the sockets it has sent to

handlers == <<pc, latest, shown>>
broadcasts == <<stage, recipients, position, told>>
vars == <<version, client, handlers, list, broadcasts>>

Served == {s \in Sockets : pc[s] \in {"read", "send", "sleep"}}

\* disconnect: dropping a socket that is not in the list does nothing.
Dropped(s) == RemoveFirst(list, s)

-----------------------------------------------------------------------------
\* The worker publishes an analysis.
Publish ==
    /\ version < MaxVersion
    /\ version' = version + 1
    /\ UNCHANGED <<client, handlers, list, broadcasts>>

Arrive(s) ==
    /\ client[s] = "away"
    /\ \A o \in Sockets : client[o] = "away" => s <= o
    /\ client' = [client EXCEPT ![s] = "here"]
    /\ pc' = [pc EXCEPT ![s] = "accept"]
    /\ UNCHANGED <<version, latest, shown, list, broadcasts>>

Leave(s) ==
    /\ client[s] = "here"
    /\ client' = [client EXCEPT ![s] = "gone"]
    /\ UNCHANGED <<version, handlers, list, broadcasts>>

\* Bug: a handler that ends leaves the socket to the broadcasts.
EndKeepingSocket(s) ==
    /\ pc' = [pc EXCEPT ![s] = "done"]
    /\ client' = [client EXCEPT ![s] = "gone"]
    /\ UNCHANGED <<version, latest, shown, list, broadcasts>>

\* The handler drops the socket and ends; the server then closes it.
End(s) ==
    /\ pc' = [pc EXCEPT ![s] = "done"]
    /\ client' = [client EXCEPT ![s] = "gone"]
    /\ list' = Dropped(s)
    /\ UNCHANGED <<version, latest, shown, broadcasts>>

\* Bug: the socket is in the list before it is accepted.
AcceptListed(s) ==
    /\ pc[s] = "accept"
    /\ list' = Append(list, s)
    /\ pc' = [pc EXCEPT ![s] = IF client[s] = "here" THEN "read" ELSE "done"]
    /\ UNCHANGED <<version, client, latest, shown, broadcasts>>

\* connect: the socket is accepted and then put into the list.  When the client
\* has left already, accept fails outside of the try, or does not notice.
Accept(s) ==
    /\ pc[s] = "accept"
    /\ \/ /\ pc' = [pc EXCEPT ![s] = "read"]
          /\ list' = Append(list, s)
       \/ /\ client[s] = "gone"
          /\ pc' = [pc EXCEPT ![s] = "done"]
          /\ UNCHANGED list
    /\ UNCHANGED <<version, client, latest, shown, broadcasts>>

\* Bug: the analysis is read in the first round only.
ReadOnce(s) ==
    /\ pc[s] = "read"
    /\ \/ /\ pc' = [pc EXCEPT ![s] = "send"]
          /\ latest' = [latest EXCEPT ![s] = IF shown[s] = -1 THEN version ELSE shown[s]]
          /\ UNCHANGED <<version, client, shown, list, broadcasts>>
       \/ End(s)

\* get_market_analysis, which fails when Redis does.
Read(s) ==
    /\ pc[s] = "read"
    /\ \/ /\ pc' = [pc EXCEPT ![s] = "send"]
          /\ latest' = [latest EXCEPT ![s] = version]
          /\ UNCHANGED <<version, client, shown, list, broadcasts>>
       \/ End(s)

SendAnalysis(s) ==
    /\ pc[s] = "send"
    /\ \/ client[s] = "gone" /\ End(s)
       \/ /\ client[s] = "here"
          /\ shown' = [shown EXCEPT ![s] = latest[s]]
          /\ latest' = [latest EXCEPT ![s] = 0]   \* of no further use
          /\ pc' = [pc EXCEPT ![s] = "sleep"]
          /\ UNCHANGED <<version, client, list, broadcasts>>

Wake(s) ==
    /\ pc[s] = "sleep"
    /\ pc' = [pc EXCEPT ![s] = "read"]
    /\ UNCHANGED <<version, client, latest, shown, list, broadcasts>>

Serve(s) == Accept(s) \/ Read(s) \/ SendAnalysis(s) \/ Wake(s)

-----------------------------------------------------------------------------
Begin(b) ==
    /\ stage[b] = "idle"
    /\ \A o \in Broadcasts : stage[o] = "idle" => b <= o
    /\ stage' = [stage EXCEPT ![b] = "send"]
    /\ recipients' = [recipients EXCEPT ![b] = list]
    /\ UNCHANGED <<version, client, handlers, list, position, told>>

\* Bug: the broadcast goes through the list itself.
WayLive(b) == list

Way(b) == recipients[b]

\* send_text to the next socket.  A socket that fails is dropped, and the
\* broadcast goes on with the one after it.
Tell(b) ==
    /\ stage[b] = "send"
    /\ position[b] \in DOMAIN Way(b)
    /\ position' = [position EXCEPT ![b] = @ + 1]
    /\ LET s == Way(b)[position[b]]
       IN  \/ /\ client[s] = "here"
              /\ told' = [told EXCEPT ![b] = @ \cup {s}]
              /\ UNCHANGED list
           \/ /\ client[s] = "gone"
              /\ list' = Dropped(s)
              /\ UNCHANGED told
    /\ UNCHANGED <<version, client, handlers, stage, recipients>>

Return(b) ==
    /\ stage[b] = "send"
    /\ position[b] \notin DOMAIN Way(b)
    /\ stage' = [stage EXCEPT ![b] = "done"]
    /\ UNCHANGED <<version, client, handlers, list, recipients, position, told>>

Finished ==
    /\ version = MaxVersion
    /\ \A s \in Sockets : pc[s] = "done"
    /\ \A b \in Broadcasts : stage[b] = "done"
    /\ UNCHANGED vars

-----------------------------------------------------------------------------
Init ==
    /\ version = 0
    /\ client = [s \in Sockets |-> "away"]
    /\ pc = [s \in Sockets |-> "idle"]
    /\ latest = [s \in Sockets |-> 0]
    /\ shown = [s \in Sockets |-> -1]
    /\ list = <<>>
    /\ stage = [b \in Broadcasts |-> "idle"]
    /\ recipients = [b \in Broadcasts |-> <<>>]
    /\ position = [b \in Broadcasts |-> 1]
    /\ told = [b \in Broadcasts |-> {}]

Next ==
    \/ Publish \/ Finished
    \/ \E s \in Sockets : Arrive(s) \/ Leave(s) \/ Serve(s)
    \/ \E b \in Broadcasts : Begin(b) \/ Tell(b) \/ Return(b)

Spec == Init /\ [][Next]_vars

\* The event loop goes on with every handler; sleeps end.
FairSpec == Spec /\ \A s \in Sockets : WF_vars(Serve(s))

-----------------------------------------------------------------------------
(* Properties.                                                             *)

TypeOK ==
    /\ version \in 0 .. MaxVersion
    /\ client \in [Sockets -> {"away", "here", "gone"}]
    /\ pc \in [Sockets -> {"idle", "accept", "read", "send", "sleep", "done"}]
    /\ latest \in [Sockets -> 0 .. MaxVersion]
    /\ shown \in [Sockets -> -1 .. MaxVersion]
    /\ list \in Seq(Sockets) /\ IsInjective(list)
    /\ stage \in [Broadcasts -> {"idle", "send", "done"}]
    /\ recipients \in [Broadcasts -> Seq(Sockets)]
    /\ position \in [Broadcasts -> Nat]
    /\ \A b \in Broadcasts : position[b] \in 1 .. Len(recipients[b]) + 1
    /\ told \in [Broadcasts -> SUBSET Sockets]

\* Handlers and broadcasts that drop the same sockets leave a true list: what
\* is in it has a handler that will drop it, and no client that is still there
\* and is served has been dropped for the failure of another.
ListIsServed ==
    /\ ToSet(list) \subseteq Served
    /\ \A s \in Served : client[s] = "here" => s \in ToSet(list)

\* websocket_manager.py, "If connection is dead, we drop it": neither a dead
\* connection nor one that others drop meanwhile keeps a broadcast from the
\* rest of those it began with.
BroadcastReachesAll ==
    \A b \in Broadcasts : stage[b] = "done" =>
        \A s \in ToSet(recipients[b]) : s \in told[b] \/ client[s] = "gone"

\* A socket whose client has left does not stay in the list, though no message
\* is broadcast.
GoneSocketsAreDropped ==
    \A s \in Sockets : client[s] = "gone" ~> s \notin ToSet(list)

\* A client that stays is shown every analysis, or a later one.
LatestIsShown ==
    \A s \in Sockets, v \in 0 .. MaxVersion :
        version >= v /\ s \in Served ~> shown[s] >= v \/ client[s] = "gone"
=============================================================================
