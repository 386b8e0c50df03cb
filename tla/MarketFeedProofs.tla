--------------------------- MODULE MarketFeedProofs ---------------------------
(***************************************************************************)
(* Theorems about MarketFeed, for every watchlist, every number of         *)
(* messages, workers and lost workers: types, what the analysis is made    *)
(* of, and that only a run that overlaps another one brings back an older  *)
(* quote, and none older than its message.                                 *)
(***************************************************************************)
EXTENDS MarketFeed, TLAPS

Fetched(w, s) == quotes[w][s] \in Moments
Stored(s) == data[s] \in Moments
Sent(t) == message[t] # "unsent"

(***************************************************************************)
(* What a run holds: a task that was sent, one quote for each symbol, none *)
(* older than the task, and in its lists these quotes only.                *)
(***************************************************************************)
InTime(w, s) == sent[task[w]] <= quotes[w][s] /\ quotes[w][s] <= moment

Run(w) ==
    /\ pc[w] = "idle" => quotes[w] = NoQuotes
    /\ pc[w] \in {"idle", "fetch"} => movers[w] = {}
    /\ pc[w] # "idle" => task[w] \in Tasks /\ Sent(task[w])
    /\ pc[w] \in {"save", "ack"} => \A s \in Symbols : quotes[w][s] # Pending
    /\ \A s \in Symbols : Fetched(w, s) => InTime(w, s)
    /\ \A e \in movers[w] : e[2] = quotes[w][e[1]]

Runs == \A w \in Workers : Run(w)

\* What is published, and that nothing comes from the future.
Times ==
    /\ \A t \in Tasks : sent[t] <= moment
    /\ \A s \in Symbols : Stored(s) => data[s] <= moment
    /\ \A e \in Published : e[2] <= moment
    /\ analysis # Nothing => Sent(analysis.by)
    /\ AnalysisIsOfOneRun

\* A run that is alone: its quotes are at least as young as the stored ones and
\* the published ones.
Leading(w) ==
    /\ \A v \in Workers : pc[v] # "idle" => v = w
    /\ \A s \in Symbols : Fetched(w, s) =>
          /\ Stored(s) => data[s] <= quotes[w][s]
          /\ \A e \in Published : e[1] = s => e[2] <= quotes[w][s]

\* What is listed is stored; and until runs have overlapped, each run is alone
\* and no listed quote is replaced by an older one.
Listed(e) == Stored(e[1]) /\ (apart => e[2] <= data[e[1]])
Serial ==
    /\ \A w \in Workers : alone[w] => Leading(w)
    /\ apart => \A w \in Workers : pc[w] # "idle" => alone[w]
    /\ \A w \in Workers : \A e \in movers[w] : Listed(e)
    /\ \A e \in Published : Listed(e)

Inv == TypeOK /\ Runs /\ Times /\ Serial

LEMMA Constants ==
    /\ Moments \subseteq Nat /\ 0 \in Moments
    /\ Nothing \notin Moments /\ Pending \notin Moments /\ Nothing \notin Tasks
    /\ Nothing # Pending
    /\ \A i \in DOMAIN Watchlist : Watchlist[i] \in Symbols
    /\ Len(Watchlist) \in Nat /\ DOMAIN Watchlist = 1 .. Len(Watchlist)
  BY FeedAssumption DEF Moments, Symbols

\* What is listed of entries that are stored and of one run.
LEMMA Lists ==
    ASSUME NEW entries \in SUBSET Entries
    PROVE  /\ Rising(entries) \subseteq entries /\ Falling(entries) \subseteq entries
           /\ Rising(entries) \in SUBSET Entries /\ Falling(entries) \in SUBSET Entries
  BY DEF Rising, Falling

LEMMA PublishedType == TypeOK => Published \in SUBSET Entries
  BY DEF TypeOK, Published

-----------------------------------------------------------------------------
(* The environment: the market, beat, and a worker that takes a message.   *)

\* A quote is fetched only by a run that is under way.
LEMMA FetchedRuns ==
    ASSUME Runs, NEW w \in Workers, NEW s \in Symbols, Fetched(w, s)
    PROVE  pc[w] # "idle" /\ task[w] \in Tasks /\ Sent(task[w]) /\ InTime(w, s)
<1>1. NoQuotes[s] \notin Moments
    BY Constants DEF NoQuotes
<1> QED BY <1>1 DEF Runs, Run, Fetched

\* A run that is not touched stays what it is while time passes.
LEMMA OtherRun ==
    ASSUME Inv, NEW w \in Workers, moment \in Nat, moment' \in Nat, moment <= moment',
           pc'[w] = pc[w], task'[w] = task[w], quotes'[w] = quotes[w],
           movers'[w] = movers[w],
           \A t \in Tasks : Sent(t) => Sent(t)' /\ sent'[t] = sent[t]
    PROVE  Run(w)'
<1>1. ASSUME NEW s \in Symbols, Fetched(w, s)'
      PROVE  InTime(w, s)'
    <2>1. Fetched(w, s)
        BY <1>1 DEF Fetched
    <2>2. quotes[w][s] \in Nat /\ task[w] \in Tasks /\ Sent(task[w]) /\ InTime(w, s)
        BY <2>1, FetchedRuns, Constants DEF Fetched, Inv
    <2> QED BY <2>2 DEF InTime
<1> QED BY <1>1 DEF Inv, Runs, Run

LEMMA MoveInv ==
    ASSUME Inv, Move PROVE Inv'
<1>1. /\ moment' = moment + 1 /\ moment < MaxMoment /\ moment \in Nat
      /\ UNCHANGED <<message, sent, losses, pc, task, quotes, position, movers, data,
                     analysis, alone, apart>>
    BY Constants DEF Inv, TypeOK, Move, runs, histories
<1>2. TypeOK'
    BY <1>1, FeedAssumption DEF Inv, TypeOK, Moments
<1>3. Runs'
    <2>1. \A t \in Tasks : Sent(t) => Sent(t)'
        BY <1>1 DEF Sent
    <2> QED BY <1>1, <2>1, OtherRun DEF Runs
<1>4. Times'
    <2>1. ASSUME NEW t \in Tasks PROVE sent'[t] <= moment'
        <3>1. sent[t] \in Nat /\ sent[t] <= moment
            BY Constants DEF Inv, TypeOK, Times
        <3> QED BY <1>1, <3>1
    <2>2. ASSUME NEW s \in Symbols, Stored(s)' PROVE data'[s] <= moment'
        <3>1. data[s] \in Nat /\ data[s] <= moment
            BY <1>1, <2>2, Constants DEF Inv, Times, Stored
        <3> QED BY <1>1, <3>1
    <2>3. ASSUME NEW e \in Published' PROVE e[2] <= moment'
        <3>1. e \in Published /\ e[2] \in Nat /\ e[2] <= moment
            BY <1>1, PublishedType, Constants DEF Inv, Times, Entries, Published
        <3> QED BY <1>1, <3>1
    <2> QED BY <1>1, <2>1, <2>2, <2>3 DEF Inv, Times, Sent, AnalysisIsOfOneRun, Published
<1>5. Serial'
    BY <1>1 DEF Inv, Serial, Leading, Fetched, Stored, Listed, Published
<1> QED BY <1>2, <1>3, <1>4, <1>5 DEF Inv

LEMMA BeatInv ==
    ASSUME Inv, Beat PROVE Inv'
<1>1. PICK t \in Tasks :
        /\ message[t] = "unsent"
        /\ message' = [message EXCEPT ![t] = "queued"]
        /\ sent' = [sent EXCEPT ![t] = moment]
    BY DEF Beat
<1>2. /\ UNCHANGED <<moment, losses, pc, task, quotes, position, movers, data,
                     analysis, alone, apart>>
      /\ moment \in Nat
    BY Constants DEF Inv, TypeOK, Beat, runs, histories
<1>3. TypeOK'
    BY <1>1, <1>2 DEF Inv, TypeOK
<1>4. /\ \A o \in Tasks : Sent(o) => Sent(o)' /\ sent'[o] = sent[o]
      /\ \A o \in Tasks : sent'[o] \in {sent[o], moment}
    BY <1>1 DEF Inv, Sent, TypeOK
<1>5. Runs'
    BY <1>2, <1>4, OtherRun DEF Runs
<1>6. Times'
    <2>1. ASSUME NEW o \in Tasks PROVE sent'[o] <= moment'
        BY <1>2, <1>4 DEF Inv, Times
    <2>2. analysis # Nothing =>
            analysis.by \in Tasks /\ Sent(analysis.by)' /\ sent'[analysis.by] = sent[analysis.by]
        <3>1. analysis # Nothing => analysis.by \in Tasks
            BY DEF Inv, TypeOK
        <3> QED BY <1>2, <1>4, <3>1 DEF Inv, Times, Sent
    <2>3. AnalysisIsOfOneRun'
        BY <1>2, <2>2 DEF Inv, Times, AnalysisIsOfOneRun, Published
    <2> QED BY <1>2, <2>1, <2>2, <2>3 DEF Inv, Times, Stored, Sent, Published
<1>7. Serial'
    BY <1>2 DEF Inv, Serial, Leading, Fetched, Stored, Listed, Published
<1> QED BY <1>3, <1>5, <1>6, <1>7 DEF Inv

\* A step of a worker touches no other run, and takes no message back.
LEMMA WorkerRuns ==
    ASSUME Inv, NEW w \in Workers, UNCHANGED <<moment, sent>>,
           \A v \in Workers \ {w} : /\ pc'[v] = pc[v] /\ task'[v] = task[v]
                                    /\ quotes'[v] = quotes[v] /\ movers'[v] = movers[v],
           \A t \in Tasks : Sent(t) => Sent(t)',
           Run(w)'
    PROVE  Runs'
<1>1. moment \in Nat
    BY Constants DEF Inv, TypeOK
<1> QED BY <1>1, OtherRun DEF Runs

\* A step that neither stores nor publishes.
LEMMA QuietTimes ==
    ASSUME Inv, UNCHANGED <<moment, sent, data, analysis>>,
           \A t \in Tasks : Sent(t) => Sent(t)'
    PROVE  Times'
<1>1. analysis # Nothing => analysis.by \in Tasks
    BY DEF Inv, TypeOK
<1> QED BY <1>1 DEF Inv, Times, Stored, AnalysisIsOfOneRun, Published

LEMMA ReceiveInv ==
    ASSUME Inv, NEW w \in Workers, Receive(w) PROVE Inv'
<1>1. PICK t \in Tasks :
        /\ message[t] = "queued"
        /\ message' = [message EXCEPT ![t] = "running"]
        /\ task' = [task EXCEPT ![w] = t]
    BY DEF Receive
<1>2. /\ pc[w] = "idle" /\ pc' = [pc EXCEPT ![w] = "fetch"]
      /\ \A v \in Workers : alone'[v] => v = w /\ \A u \in Workers : pc[u] = "idle"
      /\ apart' => apart /\ \A u \in Workers : pc[u] = "idle"
      /\ apart' => alone'[w]
      /\ alone' \in [Workers -> BOOLEAN] /\ apart' \in BOOLEAN
      /\ UNCHANGED <<moment, sent, losses, quotes, position, movers, data, analysis>>
    BY DEF Receive
<1>3. TypeOK'
    BY <1>1, <1>2 DEF Inv, TypeOK
<1>4. \A o \in Tasks : Sent(o) => Sent(o)'
    BY <1>1 DEF Inv, Sent, TypeOK
<1>5. \A v \in Workers \ {w} : pc'[v] = pc[v] /\ task'[v] = task[v]
    BY <1>1, <1>2 DEF Inv, TypeOK
<1>6. Sent(t)' /\ task'[w] = t /\ pc'[w] = "fetch"
    BY <1>1, <1>2 DEF Inv, Sent, TypeOK
<1>7. \A s \in Symbols : ~Fetched(w, s)'
    BY <1>2, FetchedRuns DEF Inv, Fetched
<1>8. movers'[w] = {}
    BY <1>2 DEF Inv, Runs, Run
<1>9. Run(w)'
    BY <1>6, <1>7, <1>8 DEF Run
<1>10. Runs'
    BY <1>2, <1>4, <1>5, <1>9, WorkerRuns
<1>11. Times'
    BY <1>2, <1>4, QuietTimes
<1>12. Serial'
    <2>1. ASSUME NEW v \in Workers, alone'[v] PROVE Leading(v)'
        BY <1>2, <1>5, <1>7, <2>1 DEF Leading
    <2>2. ASSUME apart', NEW v \in Workers, pc'[v] # "idle" PROVE alone'[v]
        BY <1>2, <1>5, <2>2
    <2>3. \A e : Listed(e) => Listed(e)'
        BY <1>2 DEF Listed, Stored
    <2> QED BY <1>2, <2>1, <2>2, <2>3 DEF Inv, Serial, Published
<1> QED BY <1>3, <1>10, <1>11, <1>12 DEF Inv

-----------------------------------------------------------------------------
(* The run itself.                                                         *)

LEMMA FetchInv ==
    ASSUME Inv, NEW w \in Workers, FetchQuote(w) PROVE Inv'
<1>1. /\ pc[w] = "fetch"
      /\ UNCHANGED <<moment, message, sent, losses, task, position, movers, data,
                     analysis, alone, apart>>
    BY DEF FetchQuote, histories
<1>2. \A o \in Tasks : Sent(o) => Sent(o)'
    BY <1>1 DEF Sent
<1>3. Times'
    BY <1>1, <1>2, QuietTimes
<1>4. moment \in Nat /\ moment \in Moments
    BY Constants DEF Inv, TypeOK
<1>5. task[w] \in Tasks /\ Sent(task[w]) /\ movers[w] = {}
    BY <1>1 DEF Inv, Runs, Run
<1>6. ASSUME NEW s \in Symbols, NEW q \in {moment, Nothing},
             quotes' = [quotes EXCEPT ![w][s] = q], UNCHANGED pc
      PROVE  Inv'
    <2>1. quotes' \in [Workers -> [Symbols -> Moments \cup {Nothing, Pending}]]
        BY <1>4, <1>6 DEF Inv, TypeOK
    <2>2. TypeOK'
        BY <1>1, <1>6, <2>1 DEF Inv, TypeOK
    <2>3. /\ \A v \in Workers \ {w} : quotes'[v] = quotes[v]
          /\ \A x \in Symbols \ {s} : quotes'[w][x] = quotes[w][x]
          /\ quotes'[w][s] = q
        BY <1>6 DEF Inv, TypeOK
    <2>4. sent[task[w]] <= moment
        BY <1>5 DEF Inv, Times
    <2>5. ASSUME NEW x \in Symbols, Fetched(w, x)'
          PROVE  InTime(w, x)'
        <3>1. CASE x = s
            <4>1. q = moment
                BY <2>3, <2>5, <3>1, Constants DEF Fetched
            <4> QED BY <1>1, <1>4, <2>3, <2>4, <3>1, <4>1 DEF InTime
        <3>2. CASE x # s
            <4>1. Fetched(w, x)
                BY <2>3, <2>5, <3>2 DEF Fetched
            <4> QED BY <1>1, <2>3, <3>2, <4>1, FetchedRuns DEF Inv, InTime
        <3> QED BY <3>1, <3>2
    <2>6. Run(w)'
        BY <1>1, <1>2, <1>5, <1>6, <2>5 DEF Run
    <2>7. Runs'
        BY <1>1, <1>2, <1>6, <2>3, <2>6, WorkerRuns
    <2>8. Serial'
        <3>1. ASSUME NEW v \in Workers, alone[v], NEW x \in Symbols, Fetched(v, x)'
              PROVE  /\ Stored(x) => data[x] <= quotes'[v][x]
                     /\ \A e \in Published : e[1] = x => e[2] <= quotes'[v][x]
            <4>1. CASE v = w /\ x = s
                <5>1. q = moment
                    BY <2>3, <3>1, <4>1, Constants DEF Fetched
                <5> QED BY <2>3, <3>1, <4>1, <5>1 DEF Inv, Times
            <4>2. CASE ~(v = w /\ x = s)
                <5>1. quotes'[v][x] = quotes[v][x]
                    BY <2>3, <4>2
                <5> QED BY <3>1, <5>1 DEF Inv, Serial, Leading, Fetched
            <4> QED BY <4>1, <4>2
        <3>2. ASSUME NEW v \in Workers, alone[v] PROVE Leading(v)'
            BY <1>1, <1>6, <3>1, <3>2 DEF Inv, Serial, Leading, Stored, Published
        <3> QED BY <1>1, <1>6, <3>2 DEF Inv, Serial, Stored, Listed, Published
    <2> QED BY <1>3, <2>2, <2>7, <2>8 DEF Inv
<1>7. CASE /\ \A s \in Symbols : quotes[w][s] # Pending
           /\ pc' = [pc EXCEPT ![w] = "save"] /\ UNCHANGED quotes
    <2>1. TypeOK'
        BY <1>1, <1>7 DEF Inv, TypeOK
    <2>2. pc'[w] = "save" /\ \A v \in Workers \ {w} : pc'[v] = pc[v]
        BY <1>7 DEF Inv, TypeOK
    <2>3. Run(w)'
        BY <1>1, <1>2, <1>5, <1>7, <2>2 DEF Inv, Runs, Run, Fetched, InTime
    <2>4. Runs'
        BY <1>1, <1>2, <1>7, <2>2, <2>3, WorkerRuns
    <2>5. Serial'
        BY <1>1, <1>7, <2>2 DEF Inv, Serial, Leading, Fetched, Stored, Listed, Published
    <2> QED BY <1>3, <2>1, <2>4, <2>5 DEF Inv
<1> QED BY <1>6, <1>7 DEF FetchQuote

\* A step of the loop over the symbols: what it may change.
LEMMA SaveCases ==
    ASSUME Inv, NEW w \in Workers, SaveNext(w)
    PROVE  /\ pc[w] = "save" /\ position[w] \in DOMAIN Watchlist
           /\ position' = [position EXCEPT ![w] = @ + 1]
           /\ UNCHANGED <<moment, message, sent, losses, pc, task, quotes,
                       analysis, alone, apart>>
           /\ \/ UNCHANGED <<data, movers>>
              \/ \E s \in Symbols :
                    /\ Fetched(w, s)
                    /\ data' = [data EXCEPT ![s] = quotes[w][s]]
                    /\ \E new \in SUBSET {Entry(w, s)} :
                         movers' = [movers EXCEPT ![w] = @ \cup new]
<1>1. /\ pc[w] = "save" /\ position[w] \in DOMAIN Watchlist
      /\ Watchlist[position[w]] \in Symbols
    BY Constants DEF SaveNext
<1>2. \A s \in Symbols : quotes[w][s] # Nothing => Fetched(w, s)
    BY <1>1 DEF Inv, TypeOK, Runs, Run, Fetched
<1>3. \A s \in Symbols : Rising({Entry(w, s)}) \cup Falling({Entry(w, s)}) \subseteq {Entry(w, s)}
    BY DEF Rising, Falling
<1>4. CASE UNCHANGED <<data, movers>>
    BY <1>1, <1>4 DEF SaveNext, histories
<1>5. ASSUME NEW s \in Symbols, s = Watchlist[position[w]], quotes[w][s] # Nothing,
             data' = [data EXCEPT ![s] = quotes[w][s]],
             \/ UNCHANGED movers
             \/ movers' = [movers EXCEPT ![w] =
                  @ \cup Rising({Entry(w, s)}) \cup Falling({Entry(w, s)})]
      PROVE  /\ Fetched(w, s)
             /\ data' = [data EXCEPT ![s] = quotes[w][s]]
             /\ \E new \in SUBSET {Entry(w, s)} :
                  movers' = [movers EXCEPT ![w] = @ \cup new]
    <2>1. CASE UNCHANGED movers
        <3> DEFINE none == {}
        <3>1. none \in SUBSET {Entry(w, s)} /\ movers[w] \cup none = movers[w]
            OBVIOUS
        <3>2. movers' = [movers EXCEPT ![w] = @ \cup none]
            BY <2>1, <3>1 DEF Inv, TypeOK
        <3> HIDE DEF none
        <3> QED BY <1>2, <1>5, <3>1, <3>2
    <2>2. CASE movers' = [movers EXCEPT ![w] =
                  @ \cup Rising({Entry(w, s)}) \cup Falling({Entry(w, s)})]
        <3> DEFINE new == Rising({Entry(w, s)}) \cup Falling({Entry(w, s)})
        <3>1. new \in SUBSET {Entry(w, s)}
            BY <1>3
        <3>2. movers' = [movers EXCEPT ![w] = @ \cup new]
            BY <2>2
        <3> QED BY <1>2, <1>5, <3>1, <3>2
    <2> QED BY <1>5, <2>1, <2>2
<1> QED BY <1>1, <1>4, <1>5 DEF SaveNext, histories

LEMMA SaveInv ==
    ASSUME Inv, NEW w \in Workers, SaveNext(w) PROVE Inv'
<1>1. /\ pc[w] = "save" /\ position[w] \in DOMAIN Watchlist
      /\ position' = [position EXCEPT ![w] = @ + 1]
      /\ UNCHANGED <<moment, message, sent, losses, pc, task, quotes,
                       analysis, alone, apart>>
    BY SaveCases
<1>2. position' \in [Workers -> 1 .. Len(Watchlist) + 1]
    <2>1. position[w] \in 1 .. Len(Watchlist)
        BY <1>1, Constants
    <2>2. position[w] + 1 \in 1 .. Len(Watchlist) + 1
        BY <2>1, Constants
    <2> QED BY <1>1, <2>2 DEF Inv, TypeOK
<1>3. \A t \in Tasks : Sent(t) => Sent(t)'
    BY <1>1 DEF Sent
<1>4. CASE UNCHANGED <<data, movers>>
    <2>1. TypeOK'
        BY <1>1, <1>2, <1>4 DEF Inv, TypeOK
    <2>2. Run(w)'
        BY <1>1, <1>3, <1>4 DEF Inv, Runs, Run, Fetched, InTime
    <2>3. Runs'
        BY <1>1, <1>3, <1>4, <2>2, WorkerRuns
    <2>4. Times'
        BY <1>1, <1>3, <1>4, QuietTimes
    <2>5. Serial'
        BY <1>1, <1>4 DEF Inv, Serial, Leading, Fetched, Stored, Listed, Published
    <2> QED BY <2>1, <2>3, <2>4, <2>5 DEF Inv
<1>5. ASSUME NEW s \in Symbols, Fetched(w, s), data' = [data EXCEPT ![s] = quotes[w][s]],
             NEW new \in SUBSET {Entry(w, s)},
             movers' = [movers EXCEPT ![w] = @ \cup new]
      PROVE  Inv'
    <2>1. /\ data'[s] = quotes[w][s]
          /\ \A x \in Symbols \ {s} : data'[x] = data[x]
          /\ movers'[w] = movers[w] \cup new
          /\ \A v \in Workers \ {w} : movers'[v] = movers[v]
        BY <1>5 DEF Inv, TypeOK
    <2>2. Entry(w, s) \in Entries /\ Entry(w, s)[1] = s /\ Entry(w, s)[2] = quotes[w][s]
        BY <1>5 DEF Entry, Entries, Fetched
    <2>3. /\ InTime(w, s) /\ quotes[w][s] \in Moments
          /\ quotes[w][s] \in Nat /\ quotes[w][s] <= quotes[w][s]
        <3>1. InTime(w, s) /\ quotes[w][s] \in Moments
            BY <1>5, FetchedRuns DEF Inv, Fetched
        <3>2. quotes[w][s] \in Nat
            BY <3>1, Constants
        <3> QED BY <3>1, <3>2
    <2>4. TypeOK'
        <3>1. data' \in [Symbols -> Moments \cup {Nothing}]
            BY <1>5, <2>3 DEF Inv, TypeOK
        <3>2. movers' \in [Workers -> SUBSET Entries]
            BY <1>5, <2>2 DEF Inv, TypeOK
        <3> QED BY <1>1, <1>2, <3>1, <3>2 DEF Inv, TypeOK
    <2>5. Run(w)'
        <3>1. \A e \in movers'[w] : e[2] = quotes'[w][e[1]]
            BY <1>1, <2>1, <2>2 DEF Inv, Runs, Run
        <3> QED BY <1>1, <1>3, <3>1 DEF Inv, Runs, Run, Fetched, InTime
    <2>6. Runs'
        BY <1>1, <1>3, <2>1, <2>5, WorkerRuns
    <2>7. Times'
        <3>1. \A x \in Symbols : Stored(x)' => data'[x] <= moment'
            BY <1>1, <2>1, <2>3 DEF Inv, Times, Stored, InTime
        <3> QED BY <1>1, <1>3, <3>1 DEF Inv, Times, Sent, AnalysisIsOfOneRun, Published
    <2>8. ASSUME NEW v \in Workers, alone[v] PROVE Leading(v)'
        <3>1. v = w /\ Leading(w)
            BY <1>1, <2>8 DEF Inv, Serial, Leading
        <3>2. ASSUME NEW x \in Symbols, Fetched(w, x), Stored(x)'
              PROVE  data'[x] <= quotes[w][x]
            <4>1. CASE x = s
                BY <2>1, <2>3, <4>1
            <4>2. CASE x # s
                BY <2>1, <3>1, <3>2, <4>2 DEF Leading, Stored
            <4> QED BY <4>1, <4>2
        <3> QED BY <1>1, <3>1, <3>2 DEF Leading, Fetched, Published
    <2>9. Serial'
        <3>1. ASSUME NEW x \in Symbols, Stored(x)
              PROVE  /\ Stored(x)' /\ data[x] \in Nat /\ data'[x] \in Nat
                     /\ apart => data[x] <= data'[x]
            <4>1. data[x] \in Nat
                BY <3>1, Constants DEF Stored
            <4>2. CASE x = s
                <5>1. apart => data[s] <= quotes[w][s]
                    BY <1>1, <1>5, <3>1, <4>2 DEF Inv, Serial, Leading
                <5> QED BY <2>1, <2>3, <4>1, <4>2, <5>1, Constants DEF Stored
            <4>3. CASE x # s
                BY <2>1, <3>1, <4>1, <4>3 DEF Stored
            <4> QED BY <4>2, <4>3
        <3>2. ASSUME NEW e \in Entries, Listed(e)
              PROVE  Listed(e)'
            <4>1. e[1] \in Symbols /\ e[2] \in Nat
                BY Constants DEF Entries
            <4> QED BY <1>1, <3>1, <3>2, <4>1 DEF Listed
        <3>3. ASSUME NEW e \in Entries, e = Entry(w, s) PROVE Listed(e)'
            <4>1. e[1] = s /\ e[2] = data'[s]
                BY <2>1, <2>2, <3>3
            <4> QED BY <2>1, <2>3, <4>1 DEF Listed, Stored
        <3>4. ASSUME NEW v \in Workers, NEW e \in movers'[v] PROVE Listed(e)'
            <4>1. e \in movers[v] \/ e = Entry(w, s)
                BY <2>1
            <4>2. movers[v] \subseteq Entries
                BY DEF Inv, TypeOK
            <4> QED BY <2>2, <3>2, <3>3, <4>1, <4>2 DEF Inv, Serial
        <3>5. ASSUME NEW e \in Published PROVE Listed(e)'
            BY <3>2, PublishedType DEF Inv, Serial
        <3>6. Published' = Published
            BY <1>1 DEF Published
        <3> QED BY <1>1, <2>8, <3>4, <3>5, <3>6 DEF Inv, Serial
    <2> QED BY <2>4, <2>6, <2>7, <2>9 DEF Inv
<1> QED BY <1>4, <1>5, SaveCases

LEMMA PublishInv ==
    ASSUME Inv, NEW w \in Workers, Publish(w) PROVE Inv'
<1>1. /\ pc[w] = "save" /\ pc' = [pc EXCEPT ![w] = "ack"]
      /\ UNCHANGED <<moment, message, sent, losses, task, quotes, position, movers,
                     data, alone, apart>>
    BY DEF Publish, histories
<1>2. pc'[w] = "ack" /\ \A v \in Workers \ {w} : pc'[v] = pc[v]
    BY <1>1 DEF Inv, TypeOK
<1>3. \A t \in Tasks : Sent(t) => Sent(t)'
    BY <1>1 DEF Sent
<1>4. Runs'
    <2>1. Run(w)'
        BY <1>1, <1>2, <1>3 DEF Inv, Runs, Run, Fetched, InTime
    <2> QED BY <1>1, <1>2, <1>3, <2>1, WorkerRuns
<1>5. /\ movers[w] \in SUBSET Entries
      /\ task[w] \in Tasks /\ Sent(task[w])
      /\ \A e \in movers[w] : e[2] = quotes[w][e[1]]
    BY <1>1 DEF Inv, TypeOK, Runs, Run
<1>6. CASE analysis' = [gainers |-> Rising(movers[w]), losers |-> Falling(movers[w]),
                        by |-> task[w]]
    <2>1. analysis' \in [gainers : SUBSET Entries, losers : SUBSET Entries, by : Tasks]
        BY <1>5, <1>6, Lists
    <2>2. TypeOK'
        BY <1>1, <2>1 DEF Inv, TypeOK
    <2>3. Published' \subseteq movers[w] /\ analysis'.by = task[w]
        BY <1>5, <1>6, Lists DEF Published
    <2>4. ASSUME NEW e \in Published' PROVE sent'[analysis'.by] <= e[2]
        <3>1. e \in movers[w] /\ e[1] \in Symbols /\ e[2] \in Moments
            BY <1>5, <2>3, <2>4 DEF Entries
        <3>2. Fetched(w, e[1])
            BY <1>5, <3>1 DEF Fetched
        <3> QED BY <1>1, <1>5, <2>3, <3>1, <3>2, FetchedRuns DEF Inv, InTime
    <2>5. ASSUME NEW e \in Published', NEW f \in Published', e[1] = f[1]
          PROVE  e = f
        BY <1>5, <2>3, <2>5 DEF Entries
    <2>6. ASSUME NEW e \in Published'
          PROVE  /\ e[1] \in Symbols /\ e[2] = quotes[w][e[1]] /\ e[2] \in Nat
                 /\ e[2] <= moment
        <3>1. e \in movers[w] /\ e[1] \in Symbols /\ e[2] \in Moments
            BY <1>5, <2>3, <2>6 DEF Entries
        <3>2. Fetched(w, e[1])
            BY <1>5, <3>1 DEF Fetched
        <3> QED BY <1>5, <3>1, <3>2, FetchedRuns, Constants DEF Inv, InTime
    <2>7. Times'
        BY <1>1, <1>3, <1>5, <2>3, <2>4, <2>5, <2>6 DEF Inv, Times, Stored, AnalysisIsOfOneRun
    <2>8. ASSUME NEW v \in Workers, alone[v] PROVE Leading(v)'
        <3>1. v = w /\ Leading(w)
            BY <1>1, <2>8 DEF Inv, Serial, Leading
        <3>2. \A e \in Published' : e[2] <= quotes[w][e[1]]
            BY <2>6
        <3> QED BY <1>1, <1>2, <3>1, <3>2 DEF Leading, Fetched, Stored
    <2>9. Serial'
        BY <1>1, <1>2, <2>3, <2>8 DEF Inv, Serial, Stored, Listed
    <2> QED BY <1>4, <2>2, <2>7, <2>9 DEF Inv
<1>7. CASE UNCHANGED analysis
    <2>1. TypeOK'
        BY <1>1, <1>7 DEF Inv, TypeOK
    <2>2. Times'
        BY <1>1, <1>3, <1>7, QuietTimes
    <2>3. Serial'
        BY <1>1, <1>2, <1>7 DEF Inv, Serial, Leading, Fetched, Stored, Listed, Published
    <2> QED BY <1>4, <2>1, <2>2, <2>3 DEF Inv
<1> QED BY <1>6, <1>7 DEF Publish

LEMMA EndInv ==
    ASSUME Inv, NEW w \in Workers, NEW place \in {"queued", "done"}, End(w, place),
           losses' \in 0 .. MaxLosses
    PROVE  Inv'
<1>1. /\ message' = [message EXCEPT ![task[w]] = place]
      /\ pc' = [pc EXCEPT ![w] = "idle"]
      /\ task' = [task EXCEPT ![w] = Nothing]
      /\ quotes' = [quotes EXCEPT ![w] = NoQuotes]
      /\ position' = [position EXCEPT ![w] = 1]
      /\ movers' = [movers EXCEPT ![w] = {}]
      /\ alone' = [alone EXCEPT ![w] = FALSE]
      /\ UNCHANGED <<moment, sent, data, analysis, apart>>
    BY DEF End
<1>2. TypeOK'
    <2>1. NoQuotes \in [Symbols -> Moments \cup {Nothing, Pending}]
        BY DEF NoQuotes
    <2>2. 1 \in 1 .. Len(Watchlist) + 1
        BY Constants
    <2> QED BY <1>1, <2>1, <2>2 DEF Inv, TypeOK
<1>3. /\ pc'[w] = "idle" /\ quotes'[w] = NoQuotes /\ movers'[w] = {}
      /\ \A v \in Workers \ {w} : /\ pc'[v] = pc[v] /\ task'[v] = task[v]
                                  /\ quotes'[v] = quotes[v] /\ movers'[v] = movers[v]
                                  /\ alone'[v] = alone[v]
      /\ ~alone'[w]
    BY <1>1 DEF Inv, TypeOK
<1>4. \A t \in Tasks : Sent(t) => Sent(t)'
    BY <1>1 DEF Inv, TypeOK, Sent
<1>5. \A s \in Symbols : ~Fetched(w, s)'
    BY <1>3, Constants DEF Fetched, NoQuotes
<1>6. Run(w)'
    BY <1>3, <1>5 DEF Run
<1>7. Runs'
    BY <1>1, <1>3, <1>4, <1>6, WorkerRuns
<1>8. Times'
    BY <1>1, <1>4, QuietTimes
<1>9. Serial'
    <2>1. \A v \in Workers : \A s \in Symbols : Fetched(v, s)' => Fetched(v, s) /\ v # w
        BY <1>3, <1>5 DEF Fetched
    <2>2. Published' = Published
        BY <1>1 DEF Published
    <2>3. ASSUME NEW v \in Workers, alone'[v] PROVE Leading(v)'
        <3>1. v # w /\ Leading(v)
            BY <1>3, <2>3 DEF Inv, Serial
        <3> QED BY <1>1, <1>3, <2>1, <2>2, <3>1 DEF Leading, Stored
    <2> QED BY <1>1, <1>3, <2>2, <2>3 DEF Inv, Serial, Stored, Listed
<1> QED BY <1>2, <1>7, <1>8, <1>9 DEF Inv

LEMMA NextInv == Inv /\ [Next]_vars => Inv'
<1> SUFFICES ASSUME Inv, [Next]_vars PROVE Inv'
    OBVIOUS
<1>1. ASSUME NEW w \in Workers, Work(w) PROVE Inv'
    <2>1. CASE Acknowledge(w)
        BY <2>1, EndInv DEF Acknowledge, Inv, TypeOK
    <2> QED BY <1>1, <2>1, ReceiveInv, FetchInv, SaveInv, PublishInv DEF Work
<1>2. ASSUME NEW w \in Workers, TimeOut(w) PROVE Inv'
    BY <1>2, EndInv DEF TimeOut, Inv, TypeOK
<1>3. ASSUME NEW w \in Workers, Lose(w) PROVE Inv'
    <2>1. losses' \in 0 .. MaxLosses
        BY <1>3, FeedAssumption DEF Lose, Inv, TypeOK
    <2> QED BY <1>3, <2>1, EndInv DEF Lose
<1>4. CASE UNCHANGED vars
    BY <1>4 DEF vars, runs, histories, Inv, TypeOK, Runs, Run, Times, Serial, Leading, Sent, Stored,
                Fetched,
                InTime, Listed, AnalysisIsOfOneRun, Published
<1> QED BY <1>1, <1>2, <1>3, <1>4, MoveInv, BeatInv DEF Next, Finished

LEMMA InitInv == Init => Inv
<1> SUFFICES ASSUME Init PROVE Inv
    OBVIOUS
<1>1. TypeOK
    BY Constants, FeedAssumption DEF Init, TypeOK, NoData, NoQuotes
<1>2. \A w \in Workers, s \in Symbols : ~Fetched(w, s)
    BY Constants DEF Init, Fetched, NoQuotes
<1>3. Runs
    BY <1>2 DEF Init, Runs, Run
<1>4. \A s \in Symbols : ~Stored(s)
    BY Constants DEF Init, Stored, NoData
<1>5. Published = {}
    BY DEF Init, Published
<1>6. Times
    BY <1>4, <1>5 DEF Init, Times, AnalysisIsOfOneRun
<1>7. Serial
    BY <1>2, <1>5 DEF Init, Serial
<1> QED BY <1>1, <1>3, <1>6, <1>7 DEF Inv

LEMMA FeedInvariant == Spec => []Inv
  BY InitInv, NextInv, PTL DEF Spec

-----------------------------------------------------------------------------
(* The theorems.                                                           *)

\* Keys, analysis and the locals of the runs hold what the code puts there.
THEOREM FeedTypes == Spec => []TypeOK
<1>1. Inv => TypeOK
    BY DEF Inv
<1> QED BY <1>1, FeedInvariant, PTL

\* However runs overlap, time out and are repeated, the analysis is what one run
\* has fetched after its message was sent, each symbol once.
THEOREM OneRunIsPublished == Spec => []AnalysisIsOfOneRun
<1>1. Inv => AnalysisIsOfOneRun
    BY DEF Inv, Times
<1> QED BY <1>1, FeedInvariant, PTL

\* The dashboard finds the key of each symbol it lists, whatever fails and
\* overlaps, and until runs have overlapped with that quote or a later one.
THEOREM WhatIsListedIsStored == Spec => []ListedSymbolsAreStored
<1>1. Inv => ListedSymbolsAreStored
    BY Constants DEF Inv, Serial, Listed, Stored, ListedSymbolsAreStored
<1> QED BY <1>1, FeedInvariant, PTL

\* What the steps that write go by.
LEMMA Younger ==
    ASSUME Inv
    PROVE  /\ \A e, f \in Published : e[1] = f[1] => e[2] <= f[2]
           /\ \A s \in Symbols : data[s] = Nothing \/ (Stored(s) /\ data[s] <= data[s])
<1>1. /\ \A e, f \in Published : e[1] = f[1] => e = f
      /\ \A e \in Published : e[2] \in Nat
      /\ \A s \in Symbols : data[s] = Nothing \/ (Stored(s) /\ data[s] \in Nat)
    BY PublishedType, Constants DEF Inv, Times, AnalysisIsOfOneRun, TypeOK, Entries, Stored
<1> QED BY <1>1

\* A run stores nothing older than its message, and nothing older than what is
\* there unless it overlaps.
LEMMA StepOfKeys ==
    ASSUME Inv, [Next]_vars, NEW x \in Symbols PROVE KeyStep(x)
<1>1. CASE data' = data
    BY <1>1, Younger, Constants DEF KeyStep, Stored
<1>2. ASSUME NEW w \in Workers, SaveNext(w) PROVE KeyStep(x)
    <2>1. CASE UNCHANGED data
        BY <1>1, <2>1
    <2>2. ASSUME NEW s \in Symbols, Fetched(w, s), data' = [data EXCEPT ![s] = quotes[w][s]]
          PROVE  KeyStep(x)
        <3>1. data'[s] = quotes[w][s] /\ \A y \in Symbols \ {s} : data'[y] = data[y]
            BY <2>2 DEF Inv, TypeOK
        <3>2. CASE x # s
            BY <3>1, <3>2, Younger, Constants DEF KeyStep, Stored
        <3>3. CASE x = s /\ alone[w]
            <4>1. data[x] # Nothing => data[x] <= quotes[w][x]
                BY <2>2, <3>3, Younger DEF Inv, Serial, Leading
            <4> QED BY <2>2, <3>1, <3>3, <4>1, Constants DEF KeyStep, Fetched
        <3>4. CASE x = s /\ ~alone[w]
            <4>1. pc[w] = "save" /\ InTime(w, s)
                BY <1>2, <2>2, SaveCases, FetchedRuns DEF Inv
            <4> QED BY <3>1, <3>4, <4>1 DEF KeyStep, InTime
        <3> QED BY <3>2, <3>3, <3>4
    <2> QED BY <1>2, <2>1, <2>2, SaveCases
<1>3. ASSUME NEW w \in Workers, Work(w) \/ TimeOut(w) \/ Lose(w), ~SaveNext(w)
      PROVE  data' = data
    BY <1>3 DEF Work, Receive, FetchQuote, Publish, Acknowledge, TimeOut, Lose, End
<1>4. ASSUME Move \/ Beat \/ Finished \/ UNCHANGED vars
      PROVE  data' = data
    BY <1>4 DEF Move, Beat, Finished, vars
<1> QED BY <1>1, <1>2, <1>3, <1>4 DEF Next

\* A run publishes nothing older than its message, and nothing older than what is
\* there unless it overlaps.
LEMMA StepOfAnalysis ==
    ASSUME Inv, [Next]_vars PROVE AnalysisStep
<1>1. CASE analysis' = analysis
    BY <1>1, Younger DEF AnalysisStep, GoesForward, Published
<1>2. ASSUME NEW w \in Workers, Publish(w), ~(analysis' = analysis) PROVE AnalysisStep
    <2>1. /\ pc[w] = "save"
          /\ analysis' = [gainers |-> Rising(movers[w]), losers |-> Falling(movers[w]),
                          by |-> task[w]]
        BY <1>2 DEF Publish
    <2>2. movers[w] \in SUBSET Entries /\ \A e \in movers[w] : e[2] = quotes[w][e[1]]
        BY DEF Inv, TypeOK, Runs, Run
    <2>3. Published' \subseteq movers[w] /\ analysis'.by = task[w]
        BY <2>1, <2>2, Lists DEF Published
    <2>4. ASSUME NEW f \in Published'
          PROVE  /\ f[1] \in Symbols /\ f[2] = quotes[w][f[1]]
                 /\ Fetched(w, f[1]) /\ sent[task[w]] <= f[2]
        <3>1. f \in movers[w] /\ f[1] \in Symbols /\ f[2] \in Moments
            BY <2>2, <2>3, <2>4 DEF Entries
        <3>2. f[2] = quotes[w][f[1]] /\ Fetched(w, f[1])
            BY <2>2, <3>1 DEF Fetched
        <3> QED BY <3>1, <3>2, FetchedRuns DEF Inv, InTime
    <2>5. CASE alone[w]
        <3>1. ASSUME NEW e \in Published, NEW f \in Published', e[1] = f[1]
              PROVE  e[2] <= f[2]
            BY <2>4, <2>5, <3>1 DEF Inv, Serial, Leading
        <3> QED BY <3>1 DEF AnalysisStep, GoesForward
    <2>6. CASE ~alone[w]
        BY <2>1, <2>3, <2>4, <2>6 DEF AnalysisStep
    <2> QED BY <2>5, <2>6
<1>3. ASSUME NEW w \in Workers, Work(w) \/ TimeOut(w) \/ Lose(w), ~Publish(w)
      PROVE  analysis' = analysis
    BY <1>3 DEF Work, Receive, FetchQuote, SaveNext, Acknowledge, TimeOut, Lose, End
<1>4. ASSUME Move \/ Beat \/ Finished \/ UNCHANGED vars
      PROVE  analysis' = analysis
    BY <1>4 DEF Move, Beat, Finished, vars
<1> QED BY <1>1, <1>2, <1>3, <1>4 DEF Next

\* Only a run that overlaps publishes an older quote than the one before, and none
\* older than its message, whatever runs fail, time out or are repeated.
THEOREM AnalysisGoesForward == Spec => AnalysisGoesBackInOverlaps
<1>1. Inv /\ [Next]_vars => [AnalysisStep]_vars
    BY StepOfAnalysis
<1> QED BY <1>1, FeedInvariant, PTL DEF Spec, AnalysisGoesBackInOverlaps

\* Only a run that overlaps takes a key back to an older quote, and to none older
\* than its message; no key goes away.
THEOREM DataGoesForward == Spec => DataGoesBackInOverlaps
<1>1. Inv /\ [Next]_vars => [\A s \in Symbols : KeyStep(s)]_vars
    BY StepOfKeys
<1> QED BY <1>1, FeedInvariant, PTL DEF Spec, DataGoesBackInOverlaps
=============================================================================
