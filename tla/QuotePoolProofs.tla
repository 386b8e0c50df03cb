-------------------------- MODULE QuotePoolProofs --------------------------
(***************************************************************************)
(* Theorems about QuotePool, for every number of requests, connections,    *)
(* threads and quotes and every pair of time-outs.                         *)
(***************************************************************************)
EXTENDS QuotePool, TotalsProofs

\* The time of a reader is that of its wait for a connection and that of its
\* fetch, and it waits for nothing else.
Clocks ==
    \A r \in Requests : IsReader(r) =>
        /\ pc[r] # "again"
        /\ pc[r] = "idle" => since[r] = 0
        /\ pc[r] = "wait" => since[r] = age[r]
        /\ pc[r] = "fetch" => age[r] <= QuoteTimeout /\ since[r] <= PoolTimeout + age[r]
        /\ since[r] <= PoolTimeout + QuoteTimeout

\* A work item that waits for a thread is one of a request that waits for it.
Items ==
    \A f \in Fetches : fetches[f] = "queued" =>
        pc[f[1]] = "fetch" /\ f \in FetchesOf(f[1])

IInv == TypeOK /\ Clocks /\ Items

-----------------------------------------------------------------------------
LEMMA FetchesType ==
    ASSUME TypeOK, NEW r \in Requests
    PROVE  /\ job[r].quotes \in Nat
           /\ FetchesOf(r) \subseteq Fetches
           /\ \A i \in 1 .. job[r].quotes : <<r, i>> \in Fetches
           /\ \A f \in Fetches : f[1] \in Requests
           /\ \A f \in FetchesOf(r) : f[1] = r
<1>1. job[r] \in Jobs /\ job[r].quotes \in Nat
    BY JobsAssumption DEF TypeOK
<1>2. FetchesOf(r) \subseteq Fetches
    <2> DEFINE Sets == {{q} \X (1 .. j.quotes) : q \in Requests, j \in Jobs}
    <2>1. \E q \in Requests, j \in Jobs : FetchesOf(r) = {q} \X (1 .. j.quotes)
        <3> USE <1>1
        <3> WITNESS r \in Requests, job[r] \in Jobs
        <3> QED BY DEF FetchesOf
    <2>2. FetchesOf(r) \in Sets
        BY <2>1
    <2>3. Fetches = UNION Sets
        BY DEF Fetches
    <2> HIDE DEF Sets
    <2> QED BY <2>2, <2>3
<1>3. \A i \in 1 .. job[r].quotes : <<r, i>> \in Fetches
    BY <1>2 DEF FetchesOf
<1>4. \A f \in Fetches : f[1] \in Requests
    BY DEF Fetches
<1>5. \A f \in FetchesOf(r) : f[1] = r
    BY DEF FetchesOf
<1> QED BY <1>1, <1>2, <1>3, <1>4, <1>5

\* Ending a request of which no work item waits for a thread.
LEMMA DoneKeeps ==
    ASSUME IInv, NEW r \in Requests, NEW how \in {"answered", "unpriced", "refused"},
           Done(r, how), UNCHANGED <<job, age, since, delayed, queue>>,
           fetches' \in [Fetches -> {"none", "queued", "running", "cancelled", "ended"}],
           \A f \in Fetches : fetches'[f] = "queued" => fetches[f] = "queued" /\ f[1] # r
    PROVE  IInv'
<1> USE DEF IInv
<1>1. TypeOK'
    BY DEF TypeOK, Done
<1>2. Clocks'
    BY DEF TypeOK, Clocks, Done, IsReader
<1>3. Items'
    BY FetchesType DEF TypeOK, Items, Done, FetchesOf
<1> QED BY <1>1, <1>2, <1>3

\* Between a fetch and the next, no work item of a request waits.
LEMMA NoItems ==
    ASSUME IInv, NEW r \in Requests,
           pc[r] # "fetch" \/ \A f \in FetchesOf(r) : fetches[f] # "queued"
    PROVE  \A f \in Fetches : fetches[f] = "queued" => f[1] # r
  BY DEF IInv, Items, FetchesOf

\* Ending a request without a word to the executor.
LEMMA EndKeeps ==
    ASSUME IInv, NEW r \in Requests, NEW how \in {"answered", "unpriced", "refused"},
           Done(r, how), UNCHANGED <<job, age, since, delayed, fetches, queue>>,
           pc[r] # "fetch" \/ \A f \in FetchesOf(r) : fetches[f] # "queued"
    PROVE  IInv'
<1>1. \A f \in Fetches : fetches[f] = "queued" => f[1] # r
    BY NoItems
<1>2. fetches' \in [Fetches -> {"none", "queued", "running", "cancelled", "ended"}]
    BY DEF IInv, TypeOK
<1> QED BY <1>1, <1>2, DoneKeeps

LEMMA FetchKeeps ==
    ASSUME IInv, NEW r \in Requests, Fetch(r),
           pc[r] = "idle" \/ pc[r] = "wait",
           IsReader(r) => since[r] <= PoolTimeout
    PROVE  IInv'
<1> USE DEF IInv
<1>1. /\ pc' = [pc EXCEPT ![r] = "fetch"]
      /\ age' = [age EXCEPT ![r] = 0]
      /\ UNCHANGED <<job, since, answer, delayed>>
    BY DEF Fetch, Rest
<1>2. queue' \in Seq(Fetches)
    <2> DEFINE new == [i \in 1 .. job[r].quotes |-> <<r, i>>]
    <2>1. new \in Seq(Fetches)
        BY FetchesType
    <2>2. queue' = queue \o new /\ queue \in Seq(Fetches)
        BY DEF Fetch, TypeOK
    <2> QED BY <2>1, <2>2
<1>3. TypeOK'
    BY <1>1, <1>2, LimitsAssumption DEF Fetch, TypeOK
<1>4. Clocks'
    BY <1>1, LimitsAssumption DEF TypeOK, Clocks, IsReader
<1>5. Items'
    BY <1>1, FetchesType DEF Fetch, TypeOK, Items, FetchesOf
<1> QED BY <1>3, <1>4, <1>5

LEMMA RestKeeps ==
    ASSUME IInv, NEW r \in Requests, NEW label \in {"wait", "again"}, Rest(r, label),
           delayed' \in [Requests -> BOOLEAN], UNCHANGED <<fetches, queue>>,
           pc[r] # "fetch" \/ \A f \in FetchesOf(r) : fetches[f] # "queued",
           IsReader(r) => label = "wait" /\ since[r] = 0
    PROVE  IInv'
<1> USE DEF IInv
<1>1. TypeOK'
    <2>1. 0 \in 0 .. PoolTimeout
        BY LimitsAssumption
    <2> QED BY <2>1 DEF TypeOK, Rest
<1>2. Clocks'
    BY LimitsAssumption DEF TypeOK, Clocks, Rest, IsReader
<1>3. Items'
    BY NoItems, FetchesType DEF TypeOK, Items, Rest, FetchesOf
<1> QED BY <1>1, <1>2, <1>3

-----------------------------------------------------------------------------
\* The invariant is kept, one step after the other.
LEMMA SendKeeps ==
    ASSUME IInv, NEW r \in Requests, Send(r)
    PROVE  IInv'
<1>1. pc[r] = "idle" /\ (IsReader(r) => since[r] = 0)
    BY DEF Send, IInv, Clocks
<1>2. CASE Rest(r, "wait") /\ UNCHANGED <<delayed, fetches, queue>>
    BY <1>1, <1>2, RestKeeps DEF IInv, TypeOK
<1>3. CASE Fetch(r)
    BY <1>1, <1>3, FetchKeeps, LimitsAssumption
<1> QED BY <1>2, <1>3 DEF Send

LEMMA ConnectKeeps ==
    ASSUME IInv, NEW r \in Requests, Connect(r)
    PROVE  IInv'
<1>1. pc[r] = "wait" /\ (IsReader(r) => since[r] <= PoolTimeout)
    BY DEF Connect, IInv, TypeOK, Clocks
<1>2. CASE Done(r, "answered") /\ UNCHANGED <<job, age, since, delayed, fetches, queue>>
    BY <1>1, <1>2, EndKeeps
<1>3. CASE Fetch(r)
    BY <1>1, <1>3, FetchKeeps
<1> QED BY <1>2, <1>3 DEF Connect

LEMMA ResumeKeeps ==
    ASSUME IInv, NEW r \in Requests, Resume(r)
    PROVE  IInv'
<1>1. /\ \A f \in FetchesOf(r) : fetches[f] # "queued"
      /\ UNCHANGED <<fetches, queue>>
    BY DEF Resume
<1>2. CASE Done(r, "answered") /\ UNCHANGED <<job, age, since, delayed>>
    BY <1>1, <1>2, EndKeeps
<1>3. CASE /\ job[r].kind = "add" /\ Rest(r, "again")
           /\ delayed' = [delayed EXCEPT ![r] = FALSE]
    <2>1. ~IsReader(r) /\ delayed' \in [Requests -> BOOLEAN]
        BY <1>3 DEF IsReader, IInv, TypeOK
    <2> QED BY <1>1, <1>3, <2>1, RestKeeps
<1> QED BY <1>2, <1>3 DEF Resume

LEMMA Connect2Keeps ==
    ASSUME IInv, NEW r \in Requests, Connect2(r)
    PROVE  IInv'
  BY EndKeeps DEF Connect2

LEMMA RefuseKeeps ==
    ASSUME IInv, NEW r \in Requests, RefuseConnection(r)
    PROVE  IInv'
  BY EndKeeps DEF RefuseConnection, WaitsForConnection

LEMMA GiveUpKeeps ==
    ASSUME IInv, NEW r \in Requests, GiveUp(r)
    PROVE  IInv'
<1>1. \A f \in Fetches : fetches'[f] =
        IF f \in FetchesOf(r) /\ fetches[f] = "queued" THEN "cancelled" ELSE fetches[f]
    BY DEF GiveUp
<1>2. fetches' \in [Fetches -> {"none", "queued", "running", "cancelled", "ended"}]
    BY DEF GiveUp, IInv, TypeOK
<1>3. \A f \in Fetches : fetches'[f] = "queued" => fetches[f] = "queued" /\ f[1] # r
    BY <1>1 DEF IInv, Items
<1> QED BY <1>2, <1>3, DoneKeeps DEF GiveUp

LEMMA HeadType ==
    ASSUME TypeOK, CanTakeFetch
    PROVE  Head(queue) \in Fetches /\ Tail(queue) \in Seq(Fetches)
  BY DEF TypeOK, CanTakeFetch

LEMMA ThreadsKeep ==
    ASSUME IInv, TakeFetch \/ \E f \in Fetches : EndFetch(f)
    PROVE  IInv'
<1> USE DEF IInv
<1>1. UNCHANGED <<pc, job, age, since, answer, delayed>>
    BY DEF TakeFetch, EndFetch
<1>2. /\ queue' \in Seq(Fetches)
      /\ fetches' \in [Fetches -> {"none", "queued", "running", "cancelled", "ended"}]
      /\ \A f \in Fetches : fetches'[f] = "queued" => fetches[f] = "queued"
    BY HeadType DEF TakeFetch, EndFetch, TypeOK
<1>3. TypeOK'
    BY <1>1, <1>2 DEF TypeOK
<1>4. Clocks'
    BY <1>1 DEF Clocks, IsReader
<1>5. Items'
    BY <1>1, <1>2 DEF Items, FetchesOf
<1> QED BY <1>3, <1>4, <1>5

\* Time does not pass a time-out that is due.
LEMMA TickKeeps ==
    ASSUME IInv, Tick
    PROVE  IInv'
<1> USE DEF IInv
<1>1. \A r \in Requests : ~Due(r)
    BY DEF Tick, CanHandle
<1>2. \A r \in Requests : age[r] \in 0 .. PoolTimeout /\ since[r] \in Nat
    BY DEF TypeOK
<1>3. ASSUME NEW r \in Requests, Counts(r)
      PROVE  /\ age[r] + 1 <= PoolTimeout
             /\ pc[r] = "fetch" => age[r] + 1 <= QuoteTimeout
    BY <1>1, <1>2, <1>3, LimitsAssumption DEF Counts, Due, WaitsForConnection, Clocks
<1>4. \A r \in Requests :
        /\ age'[r] = IF Counts(r) THEN age[r] + 1 ELSE age[r]
        /\ since'[r] = IF Counts(r) /\ IsReader(r) THEN since[r] + 1 ELSE since[r]
    BY DEF Tick
<1>5. age' \in [Requests -> 0 .. PoolTimeout]
    <2>1. \A r \in Requests : age'[r] \in 0 .. PoolTimeout
        BY <1>2, <1>3, <1>4, LimitsAssumption
    <2> QED BY <2>1 DEF Tick
<1>6. since' \in [Requests -> Nat]
    BY <1>2 DEF Tick
<1>7. delayed' \in [Requests -> BOOLEAN]
    BY DEF Tick, TypeOK
<1>8. TypeOK'
    BY <1>5, <1>6, <1>7 DEF Tick, TypeOK
<1>9. Clocks'
    <2> SUFFICES ASSUME NEW r \in Requests, IsReader(r)
                 PROVE  /\ pc[r] # "again"
                        /\ pc[r] = "idle" => since'[r] = 0
                        /\ pc[r] = "wait" => since'[r] = age'[r]
                        /\ pc[r] = "fetch" =>
                             age'[r] <= QuoteTimeout /\ since'[r] <= PoolTimeout + age'[r]
                        /\ since'[r] <= PoolTimeout + QuoteTimeout
        BY DEF Tick, Clocks, IsReader
    <2> QED BY <1>2, <1>3, <1>4, LimitsAssumption
            DEF Clocks, Counts, WaitsForConnection
<1>10. Items'
    BY DEF Tick, Items, FetchesOf
<1> QED BY <1>8, <1>9, <1>10

LEMMA InitInv == Init => IInv
<1> SUFFICES ASSUME Init PROVE IInv
    OBVIOUS
<1>1. TypeOK
    BY LimitsAssumption DEF Init, TypeOK
<1>2. Clocks
    BY LimitsAssumption DEF Init, Clocks
<1>3. Items
    BY DEF Init, Items
<1> QED BY <1>1, <1>2, <1>3 DEF IInv

LEMMA StepInv == IInv /\ [Next]_vars => IInv'
<1> SUFFICES ASSUME IInv, [Next]_vars PROVE IInv'
    OBVIOUS
<1>1. ASSUME NEW r \in Requests, Send(r) PROVE IInv'
    BY <1>1, SendKeeps
<1>2. ASSUME NEW r \in Requests, Handle(r) PROVE IInv'
    BY <1>2, ConnectKeeps, ResumeKeeps, Connect2Keeps, GiveUpKeeps, RefuseKeeps DEF Handle
<1>3. CASE TakeFetch \/ \E f \in Fetches : EndFetch(f)
    BY <1>3, ThreadsKeep
<1>4. CASE Tick
    BY <1>4, TickKeeps
<1>5. CASE UNCHANGED vars
    BY <1>5 DEF vars, IInv, TypeOK, Clocks, Items, IsReader, FetchesOf
<1> QED BY <1>1, <1>2, <1>3, <1>4, <1>5 DEF Next

LEMMA SpecInv == Spec => []IInv
  BY InitInv, StepInv, PTL DEF Spec

-----------------------------------------------------------------------------
\* Requests, waits and work items keep their types: no wait outlasts the
\* time-out of the pool.
THEOREM PoolTypes == Spec => []TypeOK
<1>1. IInv => TypeOK
    BY DEF IInv
<1> QED BY <1>1, SpecInv, PTL

\* GET /portfolio is answered within the time-outs of the pool and of wait_for
\* together, whatever the provider and the other requests do.
THEOREM ReadersAreInTime == Spec => []ReadersAnswerInTime
<1>1. IInv => ReadersAnswerInTime
    BY DEF IInv, Clocks, ReadersAnswerInTime
<1> QED BY <1>1, SpecInv, PTL

\* A thread never begins a fetch that its reader has given up.
THEOREM NoAbandonedStart == Spec => AbandonedFetchesNeverStart
<1> DEFINE Starts == \A f \in Fetches :
        fetches[f] # "running" /\ fetches'[f] = "running" => pc[f[1]] = "fetch"
<1>1. IInv /\ [Next]_vars => [Starts]_vars
    <2> SUFFICES ASSUME IInv, Next PROVE Starts
        BY DEF vars
    <2>1. ASSUME NEW r \in Requests, Send(r) \/ Handle(r) PROVE Starts
        BY <2>1 DEF Send, Handle, Connect, Resume, Connect2, GiveUp, RefuseConnection,
             Fetch
    <2>2. CASE TakeFetch
        BY <2>2, HeadType DEF TakeFetch, IInv, TypeOK, Items
    <2>3. ASSUME NEW f \in Fetches, EndFetch(f) PROVE Starts
        BY <2>3 DEF EndFetch, IInv, TypeOK
    <2>4. CASE Tick
        BY <2>4 DEF Tick
    <2> QED BY <2>1, <2>2, <2>3, <2>4 DEF Next
<1> QED BY <1>1, SpecInv, PTL DEF Spec, AbandonedFetchesNeverStart

-----------------------------------------------------------------------------
(* Who held the connections while a request waited for one.                *)

Active == {r \in Requests : pc[r] # "idle"}

\* The ticks during which o can have held a connection.
Hold(o) == IF pc[o] = "fetch" THEN age[o] ELSE QuoteTimeout
Holds(r) == [o \in Crowd(r) |-> Hold(o)]

\* A request that was refused waited for the whole time-out.
Ends == \A r \in Requests : answer[r] = "refused" => pc[r] = "done" /\ age[r] = PoolTimeout

\* A request for which only readers stood in the way: in each tick of its wait
\* each connection was held by one of them.
Share(r) ==
    (WaitsForConnection(r) \/ answer[r] = "refused") /\ ~delayed[r]
      => Connections * age[r] <= Total(Holds(r))

Shares == \A r \in Requests : Share(r)

CrowdInv == IInv /\ IsFiniteSet(Active) /\ Ends /\ Shares

\* The values of Holds are times, and there are finitely many.
LEMMA HoldsType ==
    ASSUME CrowdInv, NEW r \in Requests
    PROVE  /\ Crowd(r) \subseteq Active
           /\ IsFiniteSet(Crowd(r)) /\ Cardinality(Crowd(r)) \in Nat
           /\ \A o \in Crowd(r) : Hold(o) \in Nat /\ Hold(o) <= QuoteTimeout
           /\ Total(Holds(r)) \in Nat
           /\ Total(Holds(r)) <= Cardinality(Crowd(r)) * QuoteTimeout
<1>1. Crowd(r) \subseteq Active
    BY DEF Crowd, Active
<1>2. IsFiniteSet(Crowd(r)) /\ Cardinality(Crowd(r)) \in Nat
    BY <1>1, FS_Subset, FS_CardinalityType DEF CrowdInv
<1>3. \A o \in Crowd(r) : Hold(o) \in Nat /\ Hold(o) <= QuoteTimeout
    BY LimitsAssumption DEF CrowdInv, IInv, TypeOK, Clocks, Crowd, Hold
<1>4. PICK f : f = Holds(r)
    OBVIOUS
<1>5. DOMAIN f = Crowd(r) /\ \A o \in DOMAIN f : f[o] \in Nat /\ f[o] <= QuoteTimeout
    BY <1>3, <1>4 DEF Holds
<1>6. Total(f) \in Nat
    BY <1>2, <1>5, TotalType
<1>7. Total(f) <= Cardinality(Crowd(r)) * QuoteTimeout
    <2>1. QuoteTimeout \in Nat
        BY LimitsAssumption
    <2> QED BY <1>2, <1>5, <2>1, TotalIsBounded
<1> QED BY <1>1, <1>2, <1>3, <1>4, <1>6, <1>7

\* What every step but that of the clock does: a reader keeps its connection or
\* ends, and a wait for one begins anew or has lasted no longer than before.
Passes ==
    \A o \in Requests : IsReader(o) =>
        /\ pc[o] = "fetch" => \/ pc'[o] = "fetch" /\ age'[o] = age[o]
                              \/ pc'[o] = "done" /\ answer'[o] # "refused"
        /\ pc[o] = "done" => pc'[o] = "done" /\ answer'[o] = answer[o]

Begins ==
    \A r \in Requests :
        pc'[r] \in {"wait", "again"} \/ answer'[r] = "refused" =>
            \/ age'[r] = 0
            \/ /\ WaitsForConnection(r) \/ answer[r] = "refused"
               /\ age'[r] = age[r] /\ delayed'[r] = delayed[r]

LEMMA QuietKeeps ==
    ASSUME CrowdInv, IInv', IsFiniteSet(Active'), Ends', UNCHANGED job, Passes, Begins
    PROVE  CrowdInv'
<1>1. ASSUME NEW r \in Requests, pc'[r] \in {"wait", "again"} \/ answer'[r] = "refused",
             ~delayed'[r]
      PROVE  Connections * age'[r] <= Total(Holds(r)')
    <2>1. PICK g : g = Holds(r)'
        OBVIOUS
    <2>2. PICK f : f = Holds(r)
        OBVIOUS
    <2>3. DOMAIN f = Crowd(r) /\ \A o \in DOMAIN f : f[o] = Hold(o)
        BY <2>2 DEF Holds
    <2>4. DOMAIN g = Crowd(r)' /\ \A o \in DOMAIN g : g[o] = Hold(o)'
        BY <2>1 DEF Holds
    <2>5. IsFiniteSet(DOMAIN g) /\ \A o \in DOMAIN g : g[o] \in Nat
        <3>1. Crowd(r)' \subseteq Active'
            BY DEF Crowd, Active
        <3>2. \A o \in Crowd(r)' : Hold(o)' \in Nat
            BY LimitsAssumption DEF IInv, TypeOK, Crowd, Hold
        <3> QED BY <2>4, <3>1, <3>2, FS_Subset
    <2>6. DOMAIN f \subseteq DOMAIN g
        BY <2>3, <2>4 DEF Crowd, Passes, IsReader
    <2>7. ASSUME NEW o \in DOMAIN f PROVE f[o] \in Nat /\ f[o] <= g[o]
        <3>1. f[o] = Hold(o) /\ g[o] = Hold(o)' /\ o \in Crowd(r)
            BY <2>3, <2>4, <2>6, <2>7
        <3>2. Hold(o) \in Nat /\ Hold(o) <= QuoteTimeout
            BY <3>1, HoldsType
        <3> QED BY <3>1, <3>2, LimitsAssumption DEF Crowd, Hold, Passes
    <2>8. IsFiniteSet(DOMAIN f) /\ Total(f) \in Nat /\ Total(g) \in Nat
        BY <2>5, <2>6, <2>7, FS_Subset, TotalType
    <2>9. Total(f) <= Total(g)
        BY <2>5, <2>6, <2>7, TotalGrows
    <2>10. CASE age'[r] = 0
        BY <2>1, <2>8, <2>10, LimitsAssumption
    <2>11. CASE /\ WaitsForConnection(r) \/ answer[r] = "refused"
                /\ age'[r] = age[r] /\ delayed'[r] = delayed[r]
        <3>1. Connections * age[r] <= Total(f)
            BY <1>1, <2>2, <2>11 DEF CrowdInv, Shares, Share
        <3>2. age[r] \in Nat /\ Connections * age[r] \in Nat
            BY LimitsAssumption DEF CrowdInv, IInv, TypeOK
        <3> QED BY <2>1, <2>8, <2>9, <2>11, <3>1, <3>2
    <2> QED BY <1>1, <2>10, <2>11 DEF Begins
<1>2. Shares'
    BY <1>1 DEF Shares, Share, WaitsForConnection
<1> QED BY <1>2 DEF CrowdInv

\* A request that is served makes at most itself an active one.
LEMMA ActiveGrows ==
    ASSUME CrowdInv, NEW r \in Requests, \A o \in Requests \ {r} : pc'[o] = pc[o]
    PROVE  IsFiniteSet(Active')
<1>1. PICK S : S = Active
    OBVIOUS
<1>2. IsFiniteSet(S \cup {r})
    BY <1>1, FS_AddElement DEF CrowdInv
<1>3. Active' \subseteq S \cup {r}
    BY <1>1 DEF Active
<1> QED BY <1>2, <1>3, FS_Subset

LEMMA ServingKeeps ==
    ASSUME CrowdInv, NEW r \in Requests, Send(r) \/ Handle(r), IInv'
    PROVE  CrowdInv'
<1> USE DEF CrowdInv, IInv, TypeOK
<1>1. UNCHANGED job /\ \A o \in Requests \ {r} :
        pc'[o] = pc[o] /\ age'[o] = age[o] /\ answer'[o] = answer[o] /\ delayed'[o] = delayed[o]
    BY DEF Send, Handle, Connect, Resume, Connect2, GiveUp, RefuseConnection, Fetch, Rest,
           Done
<1>2. IsFiniteSet(Active')
    BY <1>1, ActiveGrows
<1>3. CASE Send(r)
    <2>1. /\ pc[r] = "idle" /\ pc'[r] \in {"wait", "fetch"}
          /\ age'[r] = 0 /\ answer'[r] = answer[r]
        BY <1>3 DEF Send, Fetch, Rest
    <2>2. Ends' /\ Passes /\ Begins
        BY <1>1, <2>1 DEF Ends, Passes, Begins, WaitsForConnection
    <2> QED BY <1>1, <1>2, <2>2, QuietKeeps
<1>4. CASE Handle(r)
    <2>1. pc[r] \in {"wait", "fetch", "again"}
        BY <1>4 DEF Handle, Connect, Resume, Connect2, GiveUp, RefuseConnection,
                    WaitsForConnection
    <2>2. CASE Done(r, "answered") \/ Done(r, "unpriced")
        <3>1. pc'[r] = "done" /\ answer'[r] # "refused"
            BY <2>2 DEF Done
        <3>2. Ends' /\ Passes /\ Begins
            BY <1>1, <2>1, <3>1 DEF Ends, Passes, Begins, WaitsForConnection
        <3> QED BY <1>1, <1>2, <3>2, QuietKeeps
    <2>3. CASE Fetch(r) /\ pc[r] = "wait"
        <3>1. pc'[r] = "fetch" /\ answer'[r] = answer[r]
            BY <2>3 DEF Fetch, Rest
        <3>2. Ends' /\ Passes /\ Begins
            BY <1>1, <2>1, <2>3, <3>1 DEF Ends, Passes, Begins, WaitsForConnection
        <3> QED BY <1>1, <1>2, <3>2, QuietKeeps
    <2>4. CASE job[r].kind = "add" /\ Rest(r, "again")
        <3>1. ~IsReader(r) /\ pc'[r] = "again" /\ age'[r] = 0 /\ answer'[r] = answer[r]
            BY <2>4 DEF Rest, IsReader
        <3>2. Ends' /\ Passes /\ Begins
            BY <1>1, <2>1, <3>1 DEF Ends, Passes, Begins, WaitsForConnection
        <3> QED BY <1>1, <1>2, <3>2, QuietKeeps
    <2>5. CASE RefuseConnection(r)
        <3>1. /\ WaitsForConnection(r) /\ age[r] = PoolTimeout
              /\ pc'[r] = "done" /\ age' = age /\ delayed' = delayed
            BY <2>5 DEF RefuseConnection, Due, WaitsForConnection, Done
        <3>2. Ends' /\ Passes /\ Begins
            BY <1>1, <2>1, <3>1 DEF Ends, Passes, Begins, WaitsForConnection
        <3> QED BY <1>1, <1>2, <3>2, QuietKeeps
    <2> QED BY <1>4, <2>2, <2>3, <2>4, <2>5
            DEF Handle, Connect, Resume, Connect2, GiveUp
<1> QED BY <1>3, <1>4

LEMMA WorkingKeeps ==
    ASSUME CrowdInv, TakeFetch \/ (\E f \in Fetches : EndFetch(f)) \/ UNCHANGED vars, IInv'
    PROVE  CrowdInv'
<1>1. UNCHANGED <<pc, job, age, answer, delayed>>
    BY DEF TakeFetch, EndFetch, vars
<1>2. IsFiniteSet(Active') /\ Ends' /\ Passes /\ Begins
    BY <1>1 DEF CrowdInv, Active, Ends, Passes, Begins, WaitsForConnection
<1> QED BY <1>1, <1>2, QuietKeeps

\* A tick for which a request waits that no trade stands in the way of: every
\* connection is held by a reader, and each of them has held it for one more.
LEMMA TickShares ==
    ASSUME CrowdInv, Tick, NEW r \in Requests, WaitsForConnection(r), ~delayed'[r], IInv'
    PROVE  Connections * age'[r] <= Total(Holds(r)')
<1> USE DEF CrowdInv, IInv, TypeOK
<1>1. age'[r] = age[r] + 1 /\ age[r] \in Nat
    BY DEF Tick, Counts
<1>2. ~delayed[r] /\ \A o \in Holding : IsReader(o)
    BY DEF Tick
<1>3. Connections * age[r] <= Total(Holds(r))
    BY <1>2 DEF Shares, Share
<1>4. PICK S : S = Holding
    OBVIOUS
<1>5. S \subseteq Crowd(r)
    BY <1>2, <1>4 DEF Holding, Crowd, WaitsForConnection
<1>6. IsFiniteSet(S) /\ Cardinality(S) \in Nat
    BY <1>5, HoldsType, FS_Subset, FS_CardinalityType
<1>7. Connections <= Cardinality(S)
    <2>1. ~(Cardinality(S) < Connections)
        BY <1>4 DEF Tick, CanHandle, FreeConnection
    <2> QED BY <1>6, <2>1, LimitsAssumption
<1>8. PICK f : f = Holds(r)
    OBVIOUS
<1>9. PICK g : g = Holds(r)'
    OBVIOUS
<1>10. DOMAIN f = Crowd(r) /\ \A o \in DOMAIN f : f[o] = Hold(o)
    BY <1>8 DEF Holds
<1>11. DOMAIN g = Crowd(r) /\ \A o \in DOMAIN g : g[o] = Hold(o)'
    BY <1>9 DEF Holds, Crowd, Tick, IsReader
<1>12. ASSUME NEW o \in DOMAIN f
       PROVE  /\ f[o] \in Nat /\ g[o] \in Nat /\ f[o] <= g[o]
              /\ o \in S => f[o] + 1 <= g[o]
    <2>1. f[o] = Hold(o) /\ g[o] = Hold(o)' /\ o \in Crowd(r) /\ Hold(o) \in Nat
        BY <1>10, <1>11, HoldsType
    <2>2. CASE pc[o] = "fetch"
        <3>1. Counts(o) /\ pc'[o] = "fetch"
            BY <2>1, <2>2 DEF Crowd, Counts, Tick
        <3>2. Hold(o) = age[o] /\ Hold(o)' = age[o] + 1
            BY <2>1, <2>2, <3>1 DEF Hold, Tick, Crowd
        <3> QED BY <2>1, <3>2
    <2>3. CASE pc[o] # "fetch"
        <3>1. Hold(o)' = Hold(o) /\ o \notin S
            BY <1>4, <2>1, <2>3 DEF Hold, Tick, Holding, Crowd
        <3> QED BY <2>1, <3>1
    <2> QED BY <2>2, <2>3
<1>13. Total(f) + Cardinality(S) <= Total(g)
    <2>1. IsFiniteSet(DOMAIN f) /\ DOMAIN g = DOMAIN f /\ S \in SUBSET DOMAIN f
        BY <1>5, <1>10, <1>11, HoldsType
    <2> QED BY <1>12, <2>1, TotalRises
<1>14. Total(f) \in Nat /\ Total(g) \in Nat
    <2>1. IsFiniteSet(DOMAIN f) /\ DOMAIN g = DOMAIN f
        BY <1>10, <1>11, HoldsType
    <2> QED BY <1>12, <2>1, TotalType
<1>15. Connections * (age[r] + 1) = Connections * age[r] + Connections
    BY <1>1, LimitsAssumption
<1>16. Connections * age[r] \in Nat /\ Connections \in Nat
    BY <1>1, LimitsAssumption
<1> QED BY <1>1, <1>3, <1>6, <1>7, <1>8, <1>9, <1>13, <1>14, <1>15, <1>16

LEMMA ClockKeeps ==
    ASSUME CrowdInv, Tick, IInv'
    PROVE  CrowdInv'
<1> USE DEF CrowdInv, IInv, TypeOK
<1>1. IsFiniteSet(Active')
    BY DEF Tick, Active
<1>2. Ends'
    BY DEF Ends, Tick, Counts, WaitsForConnection
<1>3. ASSUME NEW r \in Requests, pc'[r] \in {"wait", "again"} \/ answer'[r] = "refused",
             ~delayed'[r]
      PROVE  Connections * age'[r] <= Total(Holds(r)')
    <2>1. CASE WaitsForConnection(r)
        BY <1>3, <2>1, TickShares
    <2>2. CASE ~WaitsForConnection(r)
        <3>1. answer[r] = "refused" /\ ~delayed[r] /\ pc[r] = "done" /\ age'[r] = age[r]
            BY <1>3, <2>2 DEF Tick, Ends, Counts, WaitsForConnection
        <3>2. Connections * age[r] <= Total(Holds(r))
            BY <3>1 DEF Shares, Share
        <3>3. PICK f : f = Holds(r)
            OBVIOUS
        <3>4. PICK g : g = Holds(r)'
            OBVIOUS
        <3>5. DOMAIN f = Crowd(r) /\ DOMAIN g = Crowd(r)
            BY <3>3, <3>4 DEF Holds, Crowd, Tick, IsReader
        <3>6. ASSUME NEW o \in Crowd(r) PROVE f[o] \in Nat /\ g[o] \in Nat /\ f[o] <= g[o]
            <4>1. f[o] = Hold(o) /\ g[o] = Hold(o)' /\ Hold(o) \in Nat
                BY <3>3, <3>4, <3>5, <3>6, HoldsType DEF Holds
            <4> QED BY <4>1, <3>6, LimitsAssumption DEF Hold, Tick, Crowd
        <3>7. IsFiniteSet(Crowd(r))
            BY HoldsType
        <3>8. Total(f) <= Total(g) /\ Total(f) \in Nat /\ Total(g) \in Nat
            BY <3>5, <3>6, <3>7, TotalGrows, TotalType
        <3>9. Connections * age[r] \in Nat
            BY LimitsAssumption
        <3> QED BY <3>1, <3>2, <3>3, <3>4, <3>8, <3>9
    <2> QED BY <2>1, <2>2
<1>4. Shares'
    BY <1>3 DEF Shares, Share, WaitsForConnection
<1> QED BY <1>1, <1>2, <1>4

LEMMA InitCrowd == Init => CrowdInv
<1> SUFFICES ASSUME Init PROVE CrowdInv
    OBVIOUS
<1>1. Active = {}
    BY DEF Init, Active
<1>2. IsFiniteSet(Active)
    BY <1>1, FS_EmptySet
<1>3. Ends /\ Shares
    BY DEF Init, Ends, Shares, Share, WaitsForConnection
<1> QED BY <1>2, <1>3, InitInv DEF CrowdInv

LEMMA StepCrowd == CrowdInv /\ [Next]_vars => CrowdInv'
<1> SUFFICES ASSUME CrowdInv, [Next]_vars PROVE CrowdInv'
    OBVIOUS
<1>1. IInv'
    BY StepInv DEF CrowdInv
<1> QED BY <1>1, ServingKeeps, WorkingKeeps, ClockKeeps DEF Next

LEMMA SpecCrowd == Spec => []CrowdInv
  BY InitCrowd, StepCrowd, PTL DEF Spec

\* A request is answered "QueuePool limit reached" only because an unlimited
\* fetch held a connection while it waited, or after at least
\* Connections * PoolTimeout \div QuoteTimeout other readers got past the pool:
\* no connection leaks, and none is kept longer than its reader may fetch.
THEOREM RefusalsAreExplained == Spec => []RefusalsHaveHolders
<1>1. CrowdInv => RefusalsHaveHolders
    <2> SUFFICES ASSUME CrowdInv, NEW r \in Requests, answer[r] = "refused", ~delayed[r]
                 PROVE  Connections * PoolTimeout <= QuoteTimeout * Cardinality(Crowd(r))
        BY DEF RefusalsHaveHolders
    <2>1. Connections * PoolTimeout <= Total(Holds(r))
        BY DEF CrowdInv, Shares, Share, Ends
    <2>2. PICK n : n = Cardinality(Crowd(r))
        OBVIOUS
    <2>3. n \in Nat /\ Total(Holds(r)) \in Nat /\ Total(Holds(r)) <= n * QuoteTimeout
        BY <2>2, HoldsType
    <2>4. n * QuoteTimeout = QuoteTimeout * n /\ QuoteTimeout * n \in Nat
        BY <2>3, LimitsAssumption
    <2>5. Connections * PoolTimeout \in Nat
        BY LimitsAssumption
    <2> QED BY <2>1, <2>2, <2>3, <2>4, <2>5
<1> QED BY <1>1, SpecCrowd, PTL

-----------------------------------------------------------------------------
(* Nobody waits for nothing.                                               *)

\* A work item that waits for a thread is in the queue, and those of a request
\* that waits for its quotes are waited for, fetched or done.
InQueue(f) == \E i \in 1 .. Len(queue) : queue[i] = f
Tended ==
    /\ \A f \in Fetches : fetches[f] = "queued" => InQueue(f)
    /\ \A r \in Requests : pc[r] = "fetch" =>
          \A f \in FetchesOf(r) : fetches[f] \in {"queued", "running", "ended"}

\* A step that does not touch the executor and sends nobody to wait for it.
LEMMA UntouchedTended ==
    ASSUME Tended, UNCHANGED <<job, fetches, queue>>,
           \A r \in Requests : pc'[r] = "fetch" => pc[r] = "fetch"
    PROVE  Tended'
  BY DEF Tended, InQueue, FetchesOf

LEMMA FetchTended ==
    ASSUME IInv, Tended, NEW r \in Requests, Fetch(r)
    PROVE  Tended'
<1> USE DEF IInv, TypeOK
<1>1. PICK new : new = [i \in 1 .. job[r].quotes |-> <<r, i>>]
    OBVIOUS
<1>2. /\ new \in Seq(Fetches) /\ Len(new) = job[r].quotes
      /\ queue' = queue \o new /\ queue \in Seq(Fetches)
    <2>1. job[r].quotes \in Nat /\ \A i \in 1 .. job[r].quotes : <<r, i>> \in Fetches
        BY FetchesType
    <2>2. new \in Seq(Fetches) /\ Len(new) = job[r].quotes
        <3>1. PICK n : n = job[r].quotes
            OBVIOUS
        <3>2. n \in Nat /\ new = [i \in 1 .. n |-> <<r, i>>]
            BY <1>1, <2>1, <3>1
        <3>3. new \in [1 .. n -> Fetches]
            BY <2>1, <3>1, <3>2
        <3>4. new \in Seq(Fetches)
            BY <3>2, <3>3
        <3>5. Len(new) = n
            BY <3>2, <3>3
        <3> QED BY <3>1, <3>4, <3>5
    <2>3. queue' = queue \o new
        BY <1>1 DEF Fetch
    <2> QED BY <2>2, <2>3
<1>3. ASSUME NEW f \in Fetches, fetches'[f] = "queued" PROVE InQueue(f)'
    <2>1. CASE f \in FetchesOf(r)
        <3>1. PICK i \in 1 .. job[r].quotes : f = <<r, i>>
            BY <2>1 DEF FetchesOf
        <3>2. Len(queue) + i \in 1 .. Len(queue') /\ queue'[Len(queue) + i] = f
            BY <1>1, <1>2, <3>1, FetchesType
        <3> QED BY <3>2 DEF InQueue
    <2>2. CASE f \notin FetchesOf(r)
        <3>1. PICK i \in 1 .. Len(queue) : queue[i] = f
            BY <1>3, <2>2 DEF Fetch, Tended, InQueue
        <3>2. i \in 1 .. Len(queue') /\ queue'[i] = f
            BY <1>2, <3>1, FetchesType
        <3> QED BY <3>2 DEF InQueue
    <2> QED BY <2>1, <2>2
<1>4. ASSUME NEW o \in Requests, pc'[o] = "fetch", NEW f \in FetchesOf(o)'
      PROVE  fetches'[f] \in {"queued", "running", "ended"}
    <2>1. job' = job /\ f \in FetchesOf(o) /\ f \in Fetches /\ f[1] = o
        BY <1>4, FetchesType DEF Fetch, Rest, FetchesOf
    <2>2. CASE o = r
        BY <2>1, <2>2 DEF Fetch
    <2>3. CASE o # r
        <3>1. pc[o] = "fetch" /\ f \notin FetchesOf(r)
            BY <1>4, <2>1, <2>3, FetchesType DEF Fetch, Rest
        <3> QED BY <2>1, <3>1 DEF Fetch, Tended
    <2> QED BY <2>2, <2>3
<1> QED BY <1>3, <1>4 DEF Tended

LEMMA GiveUpTended ==
    ASSUME IInv, Tended, NEW r \in Requests, GiveUp(r)
    PROVE  Tended'
<1> USE DEF IInv, TypeOK
<1>1. ASSUME NEW f \in Fetches, fetches'[f] = "queued" PROVE InQueue(f)'
    BY <1>1 DEF GiveUp, Tended, InQueue
<1>2. ASSUME NEW o \in Requests, pc'[o] = "fetch", NEW f \in FetchesOf(o)'
      PROVE  fetches'[f] \in {"queued", "running", "ended"}
    <2>1. o # r /\ pc[o] = "fetch" /\ f \in FetchesOf(o)
        BY <1>2 DEF GiveUp, Done, FetchesOf
    <2>2. f \in Fetches /\ f \notin FetchesOf(r)
        BY <2>1, FetchesType
    <2> QED BY <2>1, <2>2 DEF GiveUp, Tended
<1> QED BY <1>1, <1>2 DEF Tended

LEMMA ServingTended ==
    ASSUME IInv, Tended, NEW r \in Requests, Send(r) \/ Handle(r)
    PROVE  Tended'
<1>1. CASE Fetch(r)
    BY <1>1, FetchTended
<1>2. CASE GiveUp(r)
    BY <1>2, GiveUpTended
<1>3. CASE ~Fetch(r) /\ ~GiveUp(r)
    <2>1. UNCHANGED <<job, fetches, queue>>
        BY <1>3 DEF Send, Handle, Connect, Resume, Connect2, RefuseConnection, Rest, Done
    <2>2. ASSUME NEW o \in Requests, pc'[o] = "fetch" PROVE pc[o] = "fetch"
        BY <1>3, <2>2 DEF Send, Handle, Connect, Resume, Connect2, RefuseConnection,
                          Rest, Done, IInv, TypeOK
    <2> QED BY <2>1, <2>2, UntouchedTended
<1> QED BY <1>1, <1>2, <1>3

LEMMA TakeTended ==
    ASSUME IInv, Tended, TakeFetch
    PROVE  Tended'
<1> USE DEF IInv, TypeOK
<1>1. /\ queue \in Seq(Fetches) /\ queue # <<>> /\ queue' = Tail(queue)
      /\ Head(queue) = queue[1] /\ queue[1] \in Fetches
    BY DEF TakeFetch, CanTakeFetch
<1>2. \A f \in Fetches :
        fetches'[f] = IF f = queue[1] /\ fetches[f] = "queued" THEN "running" ELSE fetches[f]
    BY <1>1 DEF TakeFetch
<1>3. ASSUME NEW f \in Fetches, fetches'[f] = "queued" PROVE InQueue(f)'
    <2>1. f # queue[1] /\ fetches[f] = "queued"
        BY <1>2, <1>3
    <2>2. PICK i \in 1 .. Len(queue) : queue[i] = f
        BY <2>1 DEF Tended, InQueue
    <2>3. i # 1
        BY <2>1, <2>2
    <2>4. i - 1 \in 1 .. Len(queue') /\ queue'[i - 1] = f
        BY <1>1, <2>2, <2>3
    <2> QED BY <2>4 DEF InQueue
<1>4. ASSUME NEW o \in Requests, pc'[o] = "fetch", NEW f \in FetchesOf(o)'
      PROVE  fetches'[f] \in {"queued", "running", "ended"}
    <2>1. pc[o] = "fetch" /\ f \in FetchesOf(o) /\ f \in Fetches
        BY <1>4, FetchesType DEF TakeFetch, FetchesOf
    <2> QED BY <1>2, <2>1 DEF Tended
<1> QED BY <1>3, <1>4 DEF Tended

LEMMA EndTended ==
    ASSUME IInv, Tended, NEW g \in Fetches, EndFetch(g)
    PROVE  Tended'
<1> USE DEF IInv, TypeOK
<1>1. UNCHANGED <<pc, job, queue>> /\ \A f \in Fetches :
        fetches'[f] = IF f = g THEN "ended" ELSE fetches[f]
    BY DEF EndFetch
<1>2. \A r \in Requests : FetchesOf(r)' = FetchesOf(r) /\ FetchesOf(r) \subseteq Fetches
    BY <1>1, FetchesType DEF FetchesOf
<1> QED BY <1>1, <1>2 DEF Tended, InQueue

LEMMA InitTended == Init => Tended
  BY DEF Init, Tended

LEMMA StepTended == IInv /\ Tended /\ [Next]_vars => Tended'
<1> SUFFICES ASSUME IInv, Tended, [Next]_vars PROVE Tended'
    OBVIOUS
<1>1. CASE Tick \/ UNCHANGED vars
    BY <1>1, UntouchedTended DEF Tick, vars
<1> QED BY <1>1, ServingTended, TakeTended, EndTended DEF Next

LEMMA SpecTended == Spec => []Tended
  BY InitTended, StepTended, SpecInv, PTL DEF Spec

\* The pool of connections and the pool of threads never wait for each other: a
\* replica that can do nothing while a request waits has a fetch at the provider.
THEOREM PoolsDoNotDeadlock == Spec => []OnlyTheProviderHoldsUp
<1>1. IInv /\ Tended => OnlyTheProviderHoldsUp
    <2> SUFFICES ASSUME IInv, Tended, ~CanTakeFetch,
                        \A r \in Requests : ~CanHandle(r),
                        NEW r \in Requests, pc[r] \notin {"idle", "done"}
                 PROVE  Running # {}
        BY DEF OnlyTheProviderHoldsUp
    <2>1. PICK o \in Requests : pc[o] = "fetch"
        <3>1. CASE WaitsForConnection(r)
            <4>1. ~(Cardinality(Holding) < Connections)
                BY <3>1 DEF CanHandle, FreeConnection
            <4>2. Holding # {}
                BY <4>1, FS_EmptySet, LimitsAssumption
            <4> QED BY <4>2 DEF Holding
        <3>2. CASE ~WaitsForConnection(r)
            BY <3>2 DEF IInv, TypeOK, WaitsForConnection
        <3> QED BY <3>1, <3>2
    <2>2. PICK f \in FetchesOf(o) : fetches[f] # "ended"
        BY <2>1 DEF CanHandle
    <2>3. f \in Fetches /\ fetches[f] \in {"queued", "running"}
        BY <2>1, <2>2, FetchesType DEF Tended, IInv
    <2>4. CASE fetches[f] = "running"
        BY <2>3, <2>4 DEF Running
    <2>5. CASE fetches[f] = "queued"
        <3>1. queue # <<>>
            BY <2>3, <2>5 DEF Tended, InQueue
        <3>2. ~(Cardinality(Running) < Threads)
            BY <3>1 DEF CanTakeFetch
        <3> QED BY <3>2, FS_EmptySet, LimitsAssumption
    <2> QED BY <2>3, <2>4, <2>5
<1> QED BY <1>1, SpecInv, SpecTended, PTL
=============================================================================
