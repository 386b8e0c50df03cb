----------------------------- MODULE PriceAlerts -----------------------------
(***************************************************************************)
(* The price alerts (PriceAlertService and PriceAlertRepository): users    *)
(* create and delete them, and evaluate_price_change triggers the active   *)
(* ones of a symbol that a price has reached.  Nothing in the repository   *)
(* but its tests calls evaluate_price_change: its caller is external, and  *)
(* any number of calls may overlap.                                        *)
(*                                                                         *)
(* Every await is a step; a call is named like a request.  `alerts` is the *)
(* table.  The moment triggered_at is represented by the call that wrote   *)
(* it, an alert by the request that inserted it.                           *)
(*                                                                         *)
(* A definition marked `Bug` is a faulty variant of the one below it.      *)
(***************************************************************************)
EXTENDS Integers, FiniteSets

CONSTANTS
    Requests,      \* requests of users and calls of evaluate_price_change
    Jobs,          \* their payloads
    Users, Symbols,
    Canonical,     \* Canonical[s] is s.strip().upper()
    Blank,         \* the canonical form of a symbol of spaces
    MaxAlerts,     \* MAX_ALERTS_PER_USER, 10 in the code
    Connections,   \* connections of all pools
    Opening,       \* the alerts at the start
    Never          \* triggered_at of an alert that is not triggered

Conditions == {"ABOVE", "BELOW"}

ASSUME LimitsAssumption ==
    MaxAlerts \in Nat \ {0} /\ Connections \in Nat \ {0}

\* What the schema PriceAlertCreate and the callers let through.
ASSUME JobsAssumption ==
    /\ \A j \in Jobs :
        /\ j.kind \in {"create", "delete", "evaluate"}
        /\ j.kind # "delete" => j.symbol \in DOMAIN Canonical /\ j.price \in Nat \ {0}
        /\ j.kind # "evaluate" => j.user \in Users
        /\ j.kind = "create" => j.condition \in Conditions
    /\ \A s \in DOMAIN Canonical : Canonical[s] \in Symbols \cup {Blank}

Ids == Requests \cup {a.id : a \in Opening}
Alerts ==
    [id : Ids, user : Users, symbol : Symbols, price : Nat \ {0},
     condition : Conditions, triggered : BOOLEAN, at : Requests \cup {Never}]

\* The table starts with active alerts, within the limit of each user.
ASSUME OpeningAssumption ==
    /\ Opening \subseteq Alerts
    /\ IsFiniteSet(Opening)
    /\ Never \notin Requests
    /\ \A a \in Opening : a.id \notin Requests /\ a.at = Never /\ ~a.triggered
    /\ \A a, b \in Opening : a.id = b.id => a = b
    /\ \A u \in Users : Cardinality({a \in Opening : a.user = u}) <= MaxAlerts

VARIABLES
    pc,       \* pc[r]: the next await of r
    job,      \* job[r]: the payload of r
    batch,    \* batch[r]: the alerts r is about to write or has written
    status,   \* status[r]: the answer, 0 when none; 200 is a return of a call
    alerts    \* market.price_alerts

vars == <<pc, job, batch, status, alerts>>

Triggered(a, r) == [a EXCEPT !.triggered = TRUE, !.at = r]

PCs == {"idle", "count", "insert", "refresh", "get", "delete", "select", "mark",
        "reply", "done"}

Symbol(r) == Canonical[job[r].symbol]

\* Bug: the count is read in a session of its own.
InTransactionOnWrites(r) == pc[r] \in {"delete", "mark"}

\* Bug: the connection is given back after the selection.
InTransactionUnlessMarking(r) == pc[r] \in {"insert", "delete"}

\* A session holds a connection from its first statement to its commit.
InTransaction(r) == pc[r] \in {"insert", "delete", "mark"}
FreeConnection == Cardinality({r \in Requests : InTransaction(r)}) < Connections

-----------------------------------------------------------------------------
Goto(r, label) ==
    /\ pc' = [pc EXCEPT ![r] = label]
    /\ UNCHANGED <<job, status>>

Answer(r, code) ==
    /\ pc' = [pc EXCEPT ![r] = "done"]
    /\ status' = [status EXCEPT ![r] = code]
    /\ UNCHANGED <<job, batch>>

Refuse(r, code) == Answer(r, code) /\ UNCHANGED alerts

\* A commit is confirmed, or it takes effect and the confirmation is lost.
Committed(r, label) ==
    \/ Goto(r, label) /\ UNCHANGED batch
    \/ Answer(r, 500)

Send(r) ==
    /\ pc[r] = "idle"
    /\ \/ job[r].kind = "create" /\ Symbol(r) = Blank /\ Refuse(r, 400)
       \/ /\ job[r].kind = "create" /\ Symbol(r) # Blank
          /\ Goto(r, "count") /\ UNCHANGED <<batch, alerts>>
       \/ /\ job[r].kind = "delete"
          /\ Goto(r, "get") /\ UNCHANGED <<batch, alerts>>
       \/ /\ job[r].kind = "evaluate"
          /\ Goto(r, "select") /\ UNCHANGED <<batch, alerts>>

ActiveAlerts(u) == {a \in alerts : a.user = u /\ ~a.triggered}

CountAlerts(r) ==
    /\ pc[r] = "count"
    /\ FreeConnection
    /\ LET full == Cardinality(ActiveAlerts(job[r].user)) >= MaxAlerts
       IN  \/ full /\ Refuse(r, 400)
           \/ ~full /\ Goto(r, "insert") /\ UNCHANGED <<batch, alerts>>

NewAlert(r) ==
    [id |-> r, user |-> job[r].user, symbol |-> Symbol(r), price |-> job[r].price,
     condition |-> job[r].condition, triggered |-> FALSE, at |-> Never]

InsertAlert(r) ==
    /\ pc[r] = "insert"
    /\ alerts' = alerts \cup {NewAlert(r)}
    /\ Committed(r, "refresh")

\* The row is read again, whether or not it has been triggered since.
Refresh(r) ==
    /\ pc[r] = "refresh"
    /\ FreeConnection
    /\ \/ (\A a \in alerts : a.id # r) /\ Refuse(r, 500)
       \/ (\E a \in alerts : a.id = r) /\ Refuse(r, 201)

GetAlert(r) ==
    /\ pc[r] = "get"
    /\ FreeConnection
    /\ \/ (\A a \in alerts : a.id # job[r].alert) /\ Refuse(r, 404)
       \/ \E a \in alerts :
            /\ a.id = job[r].alert
            /\ \/ a.user # job[r].user /\ Refuse(r, 403)
               \/ a.user = job[r].user /\ Goto(r, "delete") /\ UNCHANGED <<batch, alerts>>

\* A DELETE of a row that is gone is only a warning.
DeleteAlert(r) ==
    /\ pc[r] = "delete"
    /\ alerts' = {a \in alerts : a.id # job[r].alert}
    /\ Committed(r, "reply")

\* Bug: the condition of the alert is not looked at.
HitFromEitherSide(a, price) == price >= a.price \/ price <= a.price

Hit(a, price) ==
    \/ a.condition = "ABOVE" /\ price >= a.price
    \/ a.condition = "BELOW" /\ price <= a.price

\* Bug: triggered alerts are selected again.
SelectAny(r) == {a \in alerts : a.symbol = Symbol(r)}

\* get_active_alerts_by_symbol.
SelectActive(r) == {a \in alerts : a.symbol = Symbol(r) /\ ~a.triggered}

Evaluate(r) ==
    /\ pc[r] = "select"
    /\ FreeConnection
    /\ LET hits == {a \in SelectActive(r) : Hit(a, job[r].price)}
       IN  \/ hits = {} /\ Refuse(r, 200)
           \/ /\ hits # {}
              /\ batch' = [batch EXCEPT ![r] = {a.id : a \in hits}]
              /\ Goto(r, "mark")
              /\ UNCHANGED alerts

\* Bug: the objects of the session are merged, those that were deleted too.
MergeTriggered(r) ==
    /\ pc[r] = "mark"
    /\ alerts' = {a \in alerts : a.id \notin batch[r]} \cup
                 {[a EXCEPT !.triggered = TRUE, !.at = r] :
                    a \in {x \in Opening : x.id \in batch[r]}}
    /\ Committed(r, "reply")

\* Bug: the error of a deleted alert is logged, and the batch is rolled back.
MarkTriggeredUnlessStale(r) ==
    /\ pc[r] = "mark"
    /\ LET stale == \E i \in batch[r] : \A a \in alerts : a.id # i
       IN  alerts' = {IF ~stale /\ a.id \in batch[r] THEN Triggered(a, r) ELSE a :
                        a \in alerts}
    /\ Committed(r, "reply")

\* mark_triggered sends one UPDATE by primary key, or one executemany for
\* several alerts.  The rows it changes are looked at by a lone UPDATE only: it
\* fails when the alert has been deleted, an executemany passes over it.
MarkTriggered(r) ==
    /\ pc[r] = "mark"
    /\ LET gone == {i \in batch[r] : \A a \in alerts : a.id # i}
       IN  \/ gone # {} /\ Cardinality(batch[r]) = 1 /\ Refuse(r, 500)
           \/ /\ gone = {} \/ Cardinality(batch[r]) > 1
              /\ alerts' = {IF a.id \in batch[r] THEN Triggered(a, r) ELSE a : a \in alerts}
              /\ Committed(r, "reply")

\* An evaluation ends with an email for each alert that has an attribute
\* user_email.  The model PriceAlert has none, so that nothing is sent.
Reply(r) ==
    /\ pc[r] = "reply"
    /\ Refuse(r, IF job[r].kind = "delete" THEN 204 ELSE 200)

\* A statement fails, the connection is lost, or none is free for 30 seconds.
DatabaseError(r) ==
    /\ pc[r] \in {"count", "insert", "refresh", "get", "delete", "select", "mark"}
    /\ Refuse(r, 500)

Crash(r) ==
    /\ pc[r] \notin {"idle", "done"}
    /\ Refuse(r, 0)

Step(r) ==
    \/ CountAlerts(r) \/ InsertAlert(r) \/ Refresh(r) \/ GetAlert(r)
    \/ DeleteAlert(r) \/ Evaluate(r) \/ MarkTriggered(r) \/ Reply(r)

Finished == (\A r \in Requests : pc[r] = "done") /\ UNCHANGED vars

-----------------------------------------------------------------------------
Init ==
    /\ pc = [r \in Requests |-> "idle"]
    /\ job \in [Requests -> Jobs]
    /\ batch = [r \in Requests |-> {}]
    /\ status = [r \in Requests |-> 0]
    /\ alerts = Opening

Next ==
    \/ \E r \in Requests : Send(r) \/ Step(r) \/ DatabaseError(r) \/ Crash(r)
    \/ Finished

Spec == Init /\ [][Next]_vars

-----------------------------------------------------------------------------
(* Properties.                                                             *)

TypeOK ==
    /\ pc \in [Requests -> PCs]
    /\ job \in [Requests -> Jobs]
    /\ batch \in [Requests -> SUBSET Ids]
    /\ status \in [Requests -> {0, 200, 201, 204, 400, 403, 404, 500}]
    /\ alerts \subseteq Alerts

\* The check of the limit races, but a request that has passed it holds a
\* connection until its insert: the overrun is bounded by the connections.
ActiveAlertsAreBounded ==
    \A u \in Users : Cardinality(ActiveAlerts(u)) < MaxAlerts + Connections

\* An evaluation that still holds an alert its user has deleted does not bring
\* it back: a row is new only in the insert of its own request.
DeletedAlertsStayDeleted ==
    [][\A a \in alerts' :
          (\A b \in alerts : b.id # a.id) => a.id \in {r \in Requests : pc[r] = "insert"}
      ]_vars

\* A triggered alert was reached, from the side its user asked for, by the
\* price of the call that stamped it.
TriggeredAlertsWereReached ==
    \A a \in alerts : a.triggered =>
        /\ a.at \in Requests
        /\ job[a.at].kind = "evaluate"
        /\ Symbol(a.at) = a.symbol
        /\ IF a.condition = "ABOVE" THEN job[a.at].price >= a.price
           ELSE job[a.at].price <= a.price

\* What a call returns as triggered is triggered in the table, unless its user
\* has deleted it: a deletion that races the call does not undo the others.
ReturnedAlertsAreTriggered ==
    \A r \in Requests : job[r].kind = "evaluate" /\ status[r] = 200 =>
        \A a \in alerts : a.id \in batch[r] => a.triggered

\* An alert that a call has returned is not returned by a call that selects after
\* it.  Calls that have selected before may return it too.
AlertsFireOnce ==
    [][\A r, o \in Requests :
          /\ job[r].kind = "evaluate" /\ status[r] = 200
          /\ pc[o] = "select"
          => batch'[o] \cap batch[r] = {}
      ]_vars

\* Calls that overlap select the same active alert, and each returns it, to be
\* announced.  Each holds a connection from its selection to its commit: no alert
\* is announced more often than there are connections, over all calls ever made.
Told(i) ==
    {r \in Requests : job[r].kind = "evaluate" /\ status[r] = 200 /\ i \in batch[r]}
AnnouncementsAreBounded == \A i \in Ids : Cardinality(Told(i)) <= Connections
=============================================================================
