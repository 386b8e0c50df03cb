-------------------------- MODULE PriceAlertsProofs --------------------------
(***************************************************************************)
(* Theorems about PriceAlerts, for every set of requests and calls, every  *)
(* limit and every number of connections: types, what a triggered alert    *)
(* and a returned one are, deletion, and the bounds on the overrun and on  *)
(* the number of calls that return an alert.                               *)
(***************************************************************************)
EXTENDS PriceAlerts, FiniteSetTheorems, TLAPS

Codes == {0, 200, 201, 204, 400, 403, 404, 500}

-----------------------------------------------------------------------------
(* Types, and what a control point says of the payload.                    *)

Paths ==
    \A r \in Requests :
        /\ pc[r] \in {"count", "insert", "refresh"} => job[r].kind = "create"
        /\ pc[r] \in {"count", "insert"} => Symbol(r) \in Symbols
        /\ pc[r] \in {"get", "delete"} => job[r].kind = "delete"
        /\ pc[r] \in {"select", "mark"} => job[r].kind = "evaluate"
        /\ pc[r] = "reply" => job[r].kind \in {"delete", "evaluate"}
        /\ pc[r] \notin {"mark", "reply", "done"} => batch[r] = {}
        /\ pc[r] # "done" => status[r] = 0

TypeInv == TypeOK /\ Paths

LEMMA JobType ==
    ASSUME TypeOK, NEW r \in Requests
    PROVE  /\ job[r].kind \in {"create", "delete", "evaluate"}
           /\ job[r].kind # "delete" =>
                Symbol(r) \in Symbols \cup {Blank} /\ job[r].price \in Nat \ {0}
           /\ job[r].kind = "create" =>
                job[r].user \in Users /\ job[r].condition \in Conditions
<1>1. job[r] \in Jobs
    BY DEF TypeOK
<1> QED BY <1>1, JobsAssumption DEF Symbol

\* Ending a request keeps the types, whatever rows it leaves.
LEMMA AnswerType ==
    ASSUME TypeInv, NEW r \in Requests, NEW code \in Codes, Answer(r, code),
           alerts' \subseteq Alerts
    PROVE  TypeInv'
<1>1. TypeOK'
    BY DEF TypeInv, TypeOK, Answer, PCs, Codes
<1>2. Paths'
    BY DEF TypeInv, TypeOK, Paths, Answer, Symbol
<1> QED BY <1>1, <1>2 DEF TypeInv

LEMMA RefuseType ==
    ASSUME TypeInv, NEW r \in Requests, NEW code \in Codes, Refuse(r, code)
    PROVE  TypeInv'
  BY AnswerType DEF Refuse, TypeInv, TypeOK

\* Going on keeps them when the label fits the payload.
LEMMA GotoType ==
    ASSUME TypeInv, NEW r \in Requests, NEW label \in PCs, Goto(r, label),
           label # "done", alerts' \subseteq Alerts,
           \/ batch' = batch
           \/ \E B \in SUBSET Ids : batch' = [batch EXCEPT ![r] = B],
           label \in {"count", "insert", "refresh"} => job[r].kind = "create",
           label \in {"count", "insert"} => Symbol(r) \in Symbols,
           label \in {"get", "delete"} => job[r].kind = "delete",
           label \in {"select", "mark"} => job[r].kind = "evaluate",
           label = "reply" => job[r].kind \in {"delete", "evaluate"},
           label \notin {"mark", "reply"} => batch' = batch /\ batch[r] = {},
           status[r] = 0
    PROVE  TypeInv'
<1>1. pc' = [pc EXCEPT ![r] = label] /\ job' = job /\ status' = status
    BY DEF Goto
<1>2. batch' \in [Requests -> SUBSET Ids]
    BY DEF TypeInv, TypeOK
<1>3. TypeOK'
    BY <1>1, <1>2 DEF TypeInv, TypeOK
<1>4. pc'[r] = label
    BY <1>1 DEF TypeInv, TypeOK
<1>5. \A o \in Requests \ {r} : pc'[o] = pc[o] /\ batch'[o] = batch[o]
    BY <1>1 DEF TypeInv, TypeOK
<1>6. Paths'
    BY <1>1, <1>4, <1>5 DEF TypeInv, Paths, Symbol
<1> QED BY <1>3, <1>6 DEF TypeInv

LEMMA CommittedType ==
    ASSUME TypeInv, NEW r \in Requests, Committed(r, "reply"), alerts' \subseteq Alerts,
           job[r].kind \in {"delete", "evaluate"}, pc[r] # "done"
    PROVE  TypeInv'
<1>1. status[r] = 0
    BY DEF TypeInv, Paths
<1>2. CASE Goto(r, "reply") /\ UNCHANGED batch
    BY <1>1, <1>2, GotoType DEF PCs
<1>3. CASE Answer(r, 500)
    BY <1>3, AnswerType DEF Codes
<1> QED BY <1>2, <1>3 DEF Committed

LEMMA RowsType ==
    ASSUME TypeInv, NEW r \in Requests
    PROVE  /\ pc[r] = "insert" => NewAlert(r) \in Alerts
           /\ \A a \in alerts : Triggered(a, r) \in Alerts
<1>1. ASSUME pc[r] = "insert" PROVE NewAlert(r) \in Alerts
    BY <1>1, JobType DEF TypeInv, Paths, NewAlert, Alerts, Ids
<1>2. ASSUME NEW a \in alerts PROVE Triggered(a, r) \in Alerts
    <2>1. a \in Alerts
        BY DEF TypeInv, TypeOK
    <2> QED BY <2>1 DEF Triggered, Alerts
<1> QED BY <1>1, <1>2

LEMMA SendType ==
    ASSUME TypeInv, NEW r \in Requests, Send(r)
    PROVE  TypeInv'
<1>1. pc[r] = "idle" /\ batch[r] = {} /\ status[r] = 0
    BY DEF Send, TypeInv, Paths
<1>2. CASE Refuse(r, 400)
    BY <1>2, RefuseType DEF Codes
<1>3. ASSUME NEW label \in {"count", "get", "select"}, Goto(r, label),
             UNCHANGED <<batch, alerts>>,
             label = "count" => job[r].kind = "create" /\ Symbol(r) # Blank,
             label = "get" => job[r].kind = "delete",
             label = "select" => job[r].kind = "evaluate"
      PROVE  TypeInv'
    <2>1. label = "count" => Symbol(r) \in Symbols
        BY <1>3, JobType DEF TypeInv
    <2> QED BY <1>1, <1>3, <2>1, GotoType DEF PCs, TypeInv, TypeOK
<1> QED BY <1>2, <1>3 DEF Send

LEMMA InsertType ==
    ASSUME TypeInv, NEW r \in Requests, InsertAlert(r)
    PROVE  TypeInv'
<1>1. /\ pc[r] = "insert" /\ job[r].kind = "create" /\ batch[r] = {}
      /\ status[r] = 0
    BY DEF InsertAlert, TypeInv, Paths
<1>2. alerts' \subseteq Alerts
    <2>1. NewAlert(r) \in Alerts
        BY <1>1, RowsType
    <2> QED BY <2>1 DEF InsertAlert, TypeInv, TypeOK
<1>3. CASE Goto(r, "refresh") /\ UNCHANGED batch
    BY <1>1, <1>2, <1>3, GotoType DEF PCs
<1>4. CASE Answer(r, 500)
    BY <1>2, <1>4, AnswerType DEF Codes
<1> QED BY <1>3, <1>4 DEF InsertAlert, Committed

LEMMA StepType ==
    ASSUME TypeInv, NEW r \in Requests, Step(r)
    PROVE  TypeInv'
<1> USE DEF TypeInv
<1>1. CASE CountAlerts(r)
    <2>1. /\ pc[r] = "count" /\ batch[r] = {} /\ status[r] = 0
          /\ job[r].kind = "create" /\ Symbol(r) \in Symbols
        BY <1>1 DEF CountAlerts, Paths
    <2>2. CASE Refuse(r, 400)
        BY <2>2, RefuseType DEF Codes
    <2>3. CASE Goto(r, "insert") /\ UNCHANGED <<batch, alerts>>
        BY <2>1, <2>3, GotoType DEF PCs, TypeOK
    <2> QED BY <1>1, <2>2, <2>3 DEF CountAlerts
<1>2. CASE InsertAlert(r)
    BY <1>2, InsertType
<1>3. CASE Refresh(r)
    BY <1>3, RefuseType DEF Refresh, Codes
<1>4. CASE GetAlert(r)
    <2>1. /\ pc[r] = "get" /\ batch[r] = {} /\ status[r] = 0
          /\ job[r].kind = "delete"
        BY <1>4 DEF GetAlert, Paths
    <2>2. ASSUME NEW code \in {403, 404}, Refuse(r, code) PROVE TypeInv'
        BY <2>2, RefuseType DEF Codes
    <2>3. CASE Goto(r, "delete") /\ UNCHANGED <<batch, alerts>>
        BY <2>1, <2>3, GotoType DEF PCs, TypeOK
    <2> QED BY <1>4, <2>2, <2>3 DEF GetAlert
<1>5. CASE DeleteAlert(r)
    BY <1>5, CommittedType DEF DeleteAlert, Paths, TypeOK
<1>6. CASE Evaluate(r)
    <2>1. pc[r] = "select" /\ status[r] = 0 /\ job[r].kind = "evaluate"
        BY <1>6 DEF Evaluate, Paths
    <2>2. CASE Refuse(r, 200)
        BY <2>2, RefuseType DEF Codes
    <2>3. ASSUME NEW hits \in SUBSET alerts,
                 batch' = [batch EXCEPT ![r] = {a.id : a \in hits}],
                 Goto(r, "mark"), UNCHANGED alerts
          PROVE  TypeInv'
        <3>1. {a.id : a \in hits} \in SUBSET Ids
            BY DEF TypeOK, Alerts
        <3> QED BY <2>1, <2>3, <3>1, GotoType DEF PCs, TypeOK
    <2> QED BY <1>6, <2>2, <2>3 DEF Evaluate, SelectActive
<1>7. CASE MarkTriggered(r)
    <2>1. pc[r] = "mark" /\ job[r].kind = "evaluate"
        BY <1>7 DEF MarkTriggered, Paths
    <2>2. CASE Refuse(r, 500)
        BY <2>2, RefuseType DEF Codes
    <2>3. CASE /\ alerts' = {IF a.id \in batch[r] THEN Triggered(a, r) ELSE a : a \in alerts}
               /\ Committed(r, "reply")
        <3>1. alerts' \subseteq Alerts
            BY <2>3, RowsType DEF TypeOK
        <3> QED BY <2>1, <2>3, <3>1, CommittedType
    <2> QED BY <1>7, <2>2, <2>3 DEF MarkTriggered
<1>8. CASE Reply(r)
    BY <1>8, RefuseType DEF Reply, Codes
<1> QED BY <1>1, <1>2, <1>3, <1>4, <1>5, <1>6, <1>7, <1>8 DEF Step

LEMMA NextType == TypeInv /\ [Next]_vars => TypeInv'
<1> SUFFICES ASSUME TypeInv, [Next]_vars PROVE TypeInv'
    OBVIOUS
<1>1. ASSUME NEW r \in Requests, Send(r) PROVE TypeInv'
    BY <1>1, SendType
<1>2. ASSUME NEW r \in Requests, Step(r) PROVE TypeInv'
    BY <1>2, StepType
<1>3. ASSUME NEW r \in Requests, DatabaseError(r) \/ Crash(r) PROVE TypeInv'
    BY <1>3, RefuseType DEF DatabaseError, Crash, Codes
<1>4. CASE UNCHANGED vars
    BY <1>4 DEF vars, TypeInv, TypeOK, Paths, Symbol
<1> QED BY <1>1, <1>2, <1>3, <1>4 DEF Next, Finished

LEMMA InitType == Init => TypeInv
<1> SUFFICES ASSUME Init PROVE TypeInv
    OBVIOUS
<1>1. TypeOK
    BY OpeningAssumption DEF Init, TypeOK, PCs
<1>2. Paths
    BY DEF Init, Paths
<1> QED BY <1>1, <1>2 DEF TypeInv

LEMMA TypesAreCorrect == Spec => []TypeInv
  BY InitType, NextType, PTL DEF Spec

\* Every row of the table and every local of a request has the type of its
\* column or variable.
THEOREM AlertTypes == Spec => []TypeOK
<1>1. TypeInv => TypeOK
    BY DEF TypeInv
<1> QED BY <1>1, TypesAreCorrect, PTL

-----------------------------------------------------------------------------
(* What a triggered alert is.  A call has chosen the alerts it marks some  *)
(* time ago; they are still what they were, because an id is inserted but  *)
(* once, and no step changes a row otherwise than by triggering it.        *)

Born(i) == i \in Requests => pc[i] \notin {"idle", "count", "insert"}

Reaches(r, a) ==
    /\ job[r].kind = "evaluate"
    /\ Symbol(r) = a.symbol
    /\ IF a.condition = "ABOVE" THEN job[r].price >= a.price
       ELSE job[r].price <= a.price

IsMarked(r) == \A a \in alerts : a.id \in batch[r] => a.triggered

Stored ==
    /\ \A a \in alerts : Born(a.id)
    /\ \A a, b \in alerts : a.id = b.id => a = b
    /\ \A r \in Requests : \A i \in batch[r] : Born(i)
    /\ \A r \in Requests : pc[r] = "mark" =>
          \A a \in alerts : a.id \in batch[r] => Reaches(r, a)
    /\ \A r \in Requests :
          job[r].kind = "evaluate" /\ (pc[r] = "reply" \/ status[r] = 200) => IsMarked(r)
    /\ \A a \in alerts : a.triggered => a.at \in Requests /\ Reaches(a.at, a)

\* A step that inserts no row, changes none and chooses none.
LEMMA QuietStored ==
    ASSUME TypeInv, Stored, NEW r \in Requests, alerts' \subseteq alerts,
           UNCHANGED <<job, batch>>,
           \A o \in Requests \ {r} : pc'[o] = pc[o] /\ status'[o] = status[o],
           pc[r] \notin {"idle", "count", "insert"} =>
              pc'[r] \notin {"idle", "count", "insert"},
           pc'[r] # "mark",
           job[r].kind = "evaluate" /\ (pc'[r] = "reply" \/ status'[r] = 200) => IsMarked(r)
    PROVE  Stored'
<1>1. \A i : Born(i) => Born(i)'
    BY DEF Born
<1>2. \A o, a : Reaches(o, a)' <=> Reaches(o, a)
    BY DEF Reaches, Symbol
<1>3. \A o \in Requests : IsMarked(o) => IsMarked(o)'
    BY DEF IsMarked
<1>4. \A a \in alerts' : Born(a.id)'
    BY <1>1 DEF Stored
<1>5. \A a, b \in alerts' : a.id = b.id => a = b
    BY DEF Stored
<1>6. \A o \in Requests : \A i \in batch'[o] : Born(i)'
    BY <1>1 DEF Stored
<1>7. \A o \in Requests : pc'[o] = "mark" =>
        \A a \in alerts' : a.id \in batch'[o] => Reaches(o, a)'
    BY <1>2 DEF Stored
<1>8. \A o \in Requests :
        job'[o].kind = "evaluate" /\ (pc'[o] = "reply" \/ status'[o] = 200) => IsMarked(o)'
    BY <1>3 DEF Stored
<1>9. \A a \in alerts' : a.triggered => a.at \in Requests /\ Reaches(a.at, a)'
    BY <1>2 DEF Stored
<1> QED BY <1>4, <1>5, <1>6, <1>7, <1>8, <1>9 DEF Stored

LEMMA AnswerStored ==
    ASSUME TypeInv, Stored, NEW r \in Requests, NEW code, Answer(r, code),
           alerts' \subseteq alerts,
           job[r].kind = "evaluate" /\ code = 200 => IsMarked(r)
    PROVE  Stored'
<1>1. /\ pc'[r] = "done" /\ status'[r] = code
      /\ \A o \in Requests \ {r} : pc'[o] = pc[o] /\ status'[o] = status[o]
      /\ UNCHANGED <<job, batch>>
    BY DEF Answer, TypeInv, TypeOK
<1> QED BY <1>1, QuietStored

LEMMA GotoStored ==
    ASSUME TypeInv, Stored, NEW r \in Requests, NEW label \in PCs, Goto(r, label),
           UNCHANGED batch, alerts' \subseteq alerts, status[r] = 0,
           pc[r] \notin {"idle", "count", "insert"} =>
              label \notin {"idle", "count", "insert"},
           label # "mark", label = "reply" => job[r].kind = "delete"
    PROVE  Stored'
<1>1. /\ pc'[r] = label /\ status'[r] = 0
      /\ \A o \in Requests \ {r} : pc'[o] = pc[o] /\ status'[o] = status[o]
      /\ UNCHANGED <<job, batch>>
    BY DEF Goto, TypeInv, TypeOK
<1> QED BY <1>1, QuietStored

LEMMA InsertStored ==
    ASSUME TypeInv, Stored, NEW r \in Requests, InsertAlert(r)
    PROVE  Stored'
<1>1. /\ pc[r] = "insert" /\ job[r].kind = "create" /\ status[r] = 0
      /\ alerts' = alerts \cup {NewAlert(r)}
    BY DEF InsertAlert, TypeInv, Paths
<1>2. /\ pc'[r] \in {"refresh", "done"}
      /\ \A o \in Requests \ {r} : pc'[o] = pc[o] /\ status'[o] = status[o]
      /\ UNCHANGED <<job, batch>>
    BY DEF InsertAlert, Committed, Goto, Answer, TypeInv, TypeOK
<1>3. ~Born(r)
    BY <1>1 DEF Born
<1>4. /\ \A a \in alerts : a.id # r
      /\ \A o \in Requests : r \notin batch[o]
    BY <1>3 DEF Stored
<1>5. NewAlert(r).id = r /\ ~NewAlert(r).triggered
    BY DEF NewAlert
<1>6. \A i : Born(i) => Born(i)'
    BY <1>2 DEF Born
<1>7. Born(r)'
    BY <1>2 DEF Born
<1>8. \A o, a : Reaches(o, a)' <=> Reaches(o, a)
    BY <1>2 DEF Reaches, Symbol
<1>9. \A a \in alerts' : Born(a.id)'
    BY <1>1, <1>5, <1>6, <1>7 DEF Stored
<1>10. \A a, b \in alerts' : a.id = b.id => a = b
    BY <1>1, <1>4, <1>5 DEF Stored
<1>11. \A o \in Requests : \A i \in batch'[o] : Born(i)'
    BY <1>2, <1>6 DEF Stored
<1>12. \A o \in Requests : pc'[o] = "mark" =>
         \A a \in alerts' : a.id \in batch'[o] => Reaches(o, a)'
    BY <1>1, <1>2, <1>4, <1>5, <1>8 DEF Stored
<1>13. \A o \in Requests :
         job'[o].kind = "evaluate" /\ (pc'[o] = "reply" \/ status'[o] = 200) => IsMarked(o)'
    BY <1>1, <1>2, <1>4, <1>5 DEF Stored, IsMarked
<1>14. \A a \in alerts' : a.triggered => a.at \in Requests /\ Reaches(a.at, a)'
    BY <1>1, <1>5, <1>8 DEF Stored
<1> QED BY <1>9, <1>10, <1>11, <1>12, <1>13, <1>14 DEF Stored

\* The alerts that are chosen are there, and the price reaches them.
LEMMA ChooseStored ==
    ASSUME TypeInv, Stored, NEW r \in Requests, pc[r] = "select",
           batch' = [batch EXCEPT ![r] =
              {a.id : a \in {x \in SelectActive(r) : Hit(x, job[r].price)}}],
           Goto(r, "mark"), UNCHANGED alerts
    PROVE  Stored'
<1> DEFINE hits == {a \in SelectActive(r) : Hit(a, job[r].price)}
<1>1. /\ pc'[r] = "mark" /\ job[r].kind = "evaluate" /\ status[r] = 0
      /\ \A o \in Requests \ {r} : pc'[o] = pc[o] /\ batch'[o] = batch[o]
      /\ UNCHANGED <<job, status, alerts>>
      /\ batch'[r] = {a.id : a \in hits}
    BY DEF Goto, TypeInv, TypeOK, Paths
<1>2. hits \subseteq alerts
    BY DEF SelectActive
<1>3. \A a \in hits : Reaches(r, a)
    BY <1>1, <1>2 DEF SelectActive, Hit, Reaches, TypeInv, TypeOK, Alerts, Conditions
<1> HIDE DEF hits
<1>4. \A i : Born(i) => Born(i)'
    BY <1>1 DEF Born
<1>5. \A o, a : Reaches(o, a)' <=> Reaches(o, a)
    BY <1>1 DEF Reaches, Symbol
<1>6. \A a \in alerts' : Born(a.id)'
    BY <1>1, <1>4 DEF Stored
<1>7. \A a, b \in alerts' : a.id = b.id => a = b
    BY <1>1 DEF Stored
<1>8. \A o \in Requests : \A i \in batch'[o] : Born(i)'
    BY <1>1, <1>2, <1>4 DEF Stored
<1>9. \A a \in alerts : a.id \in batch'[r] => Reaches(r, a)
    BY <1>1, <1>2, <1>3 DEF Stored
<1>10. \A o \in Requests : pc'[o] = "mark" =>
         \A a \in alerts' : a.id \in batch'[o] => Reaches(o, a)'
    BY <1>1, <1>5, <1>9 DEF Stored
<1>11. \A o \in Requests :
         job'[o].kind = "evaluate" /\ (pc'[o] = "reply" \/ status'[o] = 200) => IsMarked(o)'
    BY <1>1 DEF Stored, IsMarked
<1>12. \A a \in alerts' : a.triggered => a.at \in Requests /\ Reaches(a.at, a)'
    BY <1>1, <1>5 DEF Stored
<1> QED BY <1>6, <1>7, <1>8, <1>10, <1>11, <1>12 DEF Stored

LEMMA MarkStored ==
    ASSUME TypeInv, Stored, NEW r \in Requests, pc[r] = "mark",
           alerts' = {IF a.id \in batch[r] THEN Triggered(a, r) ELSE a : a \in alerts},
           Committed(r, "reply")
    PROVE  Stored'
<1>1. /\ pc'[r] \in {"reply", "done"} /\ job[r].kind = "evaluate"
      /\ \A o \in Requests \ {r} : pc'[o] = pc[o] /\ status'[o] = status[o]
      /\ UNCHANGED <<job, batch>>
    BY DEF Committed, Goto, Answer, TypeInv, TypeOK, Paths
<1>2. \A a \in alerts :
        /\ Triggered(a, r).id = a.id /\ Triggered(a, r).symbol = a.symbol
        /\ Triggered(a, r).condition = a.condition /\ Triggered(a, r).price = a.price
        /\ Triggered(a, r).triggered /\ Triggered(a, r).at = r
    <2> SUFFICES ASSUME NEW a \in alerts
                 PROVE  /\ Triggered(a, r).id = a.id
                        /\ Triggered(a, r).symbol = a.symbol
                        /\ Triggered(a, r).condition = a.condition
                        /\ Triggered(a, r).price = a.price
                        /\ Triggered(a, r).triggered
                        /\ Triggered(a, r).at = r
        OBVIOUS
    <2>1. a \in Alerts
        BY DEF TypeInv, TypeOK
    <2> QED BY <2>1 DEF Triggered, Alerts
<1>3. \A b \in alerts' : \E a \in alerts :
        \/ b = a /\ a.id \notin batch[r]
        \/ b = Triggered(a, r) /\ a.id \in batch[r]
    OBVIOUS
<1>4. \A i : Born(i) => Born(i)'
    BY <1>1 DEF Born
<1>5. \A o, a : Reaches(o, a)' <=> Reaches(o, a)
    BY <1>1 DEF Reaches, Symbol
<1>6. \A o : \A a \in alerts : Reaches(o, a) => Reaches(o, Triggered(a, r))
    BY <1>2 DEF Reaches
<1>7. \A a \in alerts' : Born(a.id)'
    BY <1>2, <1>3, <1>4 DEF Stored
<1>8. \A a, b \in alerts' : a.id = b.id => a = b
    BY <1>2, <1>3 DEF Stored
<1>9. \A o \in Requests : \A i \in batch'[o] : Born(i)'
    BY <1>1, <1>4 DEF Stored
<1>10. \A o \in Requests : pc'[o] = "mark" =>
         \A a \in alerts' : a.id \in batch'[o] => Reaches(o, a)'
    BY <1>1, <1>2, <1>3, <1>5, <1>6 DEF Stored
<1>11. \A o \in Requests : IsMarked(o) => IsMarked(o)'
    BY <1>1, <1>2, <1>3 DEF IsMarked
<1>12. IsMarked(r)'
    BY <1>1, <1>2, <1>3 DEF IsMarked
<1>13. \A o \in Requests :
         job'[o].kind = "evaluate" /\ (pc'[o] = "reply" \/ status'[o] = 200) => IsMarked(o)'
    BY <1>1, <1>11, <1>12 DEF Stored
<1>14. \A a \in alerts : a.id \in batch[r] => Reaches(r, a)
    BY DEF Stored
<1>15. \A a \in alerts' : a.triggered => a.at \in Requests /\ Reaches(a.at, a)'
    BY <1>2, <1>3, <1>5, <1>6, <1>14 DEF Stored
<1> QED BY <1>7, <1>8, <1>9, <1>10, <1>13, <1>15 DEF Stored

LEMMA StepStored ==
    ASSUME TypeInv, Stored, NEW r \in Requests, Step(r)
    PROVE  Stored'
<1>1. CASE CountAlerts(r)
    <2>1. /\ pc[r] = "count" /\ status[r] = 0 /\ job[r].kind = "create"
        BY <1>1 DEF CountAlerts, TypeInv, Paths
    <2>2. CASE Refuse(r, 400)
        BY <2>1, <2>2, AnswerStored DEF Refuse
    <2>3. CASE Goto(r, "insert") /\ UNCHANGED <<batch, alerts>>
        BY <2>1, <2>3, GotoStored DEF PCs
    <2> QED BY <1>1, <2>2, <2>3 DEF CountAlerts
<1>2. CASE InsertAlert(r)
    BY <1>2, InsertStored
<1>3. CASE Refresh(r)
    <2>1. job[r].kind # "evaluate"
        BY <1>3 DEF Refresh, TypeInv, Paths
    <2> QED BY <1>3, <2>1, AnswerStored DEF Refresh, Refuse
<1>4. CASE GetAlert(r)
    <2>1. pc[r] = "get" /\ status[r] = 0 /\ job[r].kind = "delete"
        BY <1>4 DEF GetAlert, TypeInv, Paths
    <2>2. ASSUME NEW code, Refuse(r, code) PROVE Stored'
        BY <2>1, <2>2, AnswerStored DEF Refuse
    <2>3. CASE Goto(r, "delete") /\ UNCHANGED <<batch, alerts>>
        BY <2>1, <2>3, GotoStored DEF PCs
    <2> QED BY <1>4, <2>2, <2>3 DEF GetAlert
<1>5. CASE DeleteAlert(r)
    <2>1. /\ pc[r] = "delete" /\ status[r] = 0 /\ job[r].kind = "delete"
          /\ alerts' \subseteq alerts
        BY <1>5 DEF DeleteAlert, TypeInv, Paths
    <2>2. CASE Answer(r, 500)
        BY <2>1, <2>2, AnswerStored
    <2>3. CASE Goto(r, "reply") /\ UNCHANGED batch
        BY <2>1, <2>3, GotoStored DEF PCs
    <2> QED BY <1>5, <2>2, <2>3 DEF DeleteAlert, Committed
<1>6. CASE Evaluate(r)
    <2>1. pc[r] = "select" /\ batch[r] = {}
        BY <1>6 DEF Evaluate, TypeInv, Paths
    <2>2. CASE Refuse(r, 200)
        <3>1. IsMarked(r)
            BY <2>1 DEF IsMarked
        <3> QED BY <2>2, <3>1, AnswerStored DEF Refuse
    <2> QED BY <1>6, <2>1, <2>2, ChooseStored DEF Evaluate
<1>7. CASE MarkTriggered(r)
    <2>1. pc[r] = "mark"
        BY <1>7 DEF MarkTriggered
    <2>2. CASE Refuse(r, 500)
        BY <2>2, AnswerStored DEF Refuse
    <2> QED BY <1>7, <2>1, <2>2, MarkStored DEF MarkTriggered
<1>8. CASE Reply(r)
    <2>1. job[r].kind = "evaluate" => IsMarked(r)
        BY <1>8 DEF Reply, Stored
    <2>2. PICK code \in {200, 204} : Refuse(r, code)
        BY <1>8 DEF Reply
    <2> QED BY <2>1, <2>2, AnswerStored DEF Refuse
<1> QED BY <1>1, <1>2, <1>3, <1>4, <1>5, <1>6, <1>7, <1>8 DEF Step

LEMMA NextStored == TypeInv /\ Stored /\ [Next]_vars => Stored'
<1> SUFFICES ASSUME TypeInv, Stored, [Next]_vars PROVE Stored'
    OBVIOUS
<1>1. ASSUME NEW r \in Requests, Send(r) PROVE Stored'
    <2>1. pc[r] = "idle" /\ status[r] = 0
        BY <1>1 DEF Send, TypeInv, Paths
    <2>2. CASE Refuse(r, 400)
        BY <2>2, AnswerStored DEF Refuse
    <2>3. ASSUME NEW label \in {"count", "get", "select"}, Goto(r, label),
                 UNCHANGED <<batch, alerts>>
          PROVE  Stored'
        BY <2>1, <2>3, GotoStored DEF PCs
    <2> QED BY <1>1, <2>2, <2>3 DEF Send
<1>2. ASSUME NEW r \in Requests, Step(r) PROVE Stored'
    BY <1>2, StepStored
<1>3. ASSUME NEW r \in Requests, DatabaseError(r) \/ Crash(r) PROVE Stored'
    <2>1. PICK code \in {0, 500} : Refuse(r, code)
        BY <1>3 DEF DatabaseError, Crash
    <2> QED BY <2>1, AnswerStored DEF Refuse
<1>4. CASE UNCHANGED vars
    BY <1>4 DEF vars, Stored, Born, Reaches, IsMarked, Symbol
<1> QED BY <1>1, <1>2, <1>3, <1>4 DEF Next, Finished

LEMMA InitStored == Init => Stored
<1> SUFFICES ASSUME Init PROVE Stored
    OBVIOUS
<1>1. /\ \A a \in alerts : a.id \notin Requests /\ ~a.triggered
      /\ \A a, b \in alerts : a.id = b.id => a = b
    BY OpeningAssumption DEF Init
<1> QED BY <1>1 DEF Init, Stored, Born

LEMMA AlertsAreStored == Spec => [](TypeInv /\ Stored)
<1>1. Init => TypeInv /\ Stored
    BY InitType, InitStored
<1>2. TypeInv /\ Stored /\ [Next]_vars => (TypeInv /\ Stored)'
    BY NextType, NextStored
<1> QED BY <1>1, <1>2, PTL DEF Spec

\* Whatever was created, deleted or evaluated since its selection, a triggered
\* alert was reached by the price of the call that stamped it.
THEOREM TriggersAreReached == Spec => []TriggeredAlertsWereReached
<1>1. Stored => TriggeredAlertsWereReached
    BY DEF Stored, Reaches, TriggeredAlertsWereReached
<1> QED BY <1>1, AlertsAreStored, PTL

\* What a call answers as triggered is triggered in the table, or deleted.
THEOREM ReturnsAreTriggered == Spec => []ReturnedAlertsAreTriggered
<1>1. Stored => ReturnedAlertsAreTriggered
    BY DEF Stored, IsMarked, ReturnedAlertsAreTriggered
<1> QED BY <1>1, AlertsAreStored, PTL

\* No evaluation chooses an alert that another one has returned.
THEOREM EachFiresOnce == Spec => AlertsFireOnce
<1>1. ASSUME TypeInv, Stored, [Next]_vars, NEW r \in Requests, NEW o \in Requests,
             job[r].kind = "evaluate", status[r] = 200, pc[o] = "select"
      PROVE  batch'[o] \cap batch[r] = {}
    <2>1. IsMarked(r) /\ batch[o] = {}
        BY <1>1 DEF Stored, TypeInv, Paths
    <2>2. ASSUME NEW i \in batch'[o]
          PROVE  i \notin batch[r]
        <3>1. PICK a \in SelectActive(o) : i = a.id
            <4>1. ASSUME NEW q \in Requests, Send(q) \/ Step(q) \/ DatabaseError(q) \/ Crash(q)
                  PROVE  UNCHANGED batch \/ (q = o /\ Evaluate(q) /\ ~UNCHANGED batch)
                         \/ (q # o /\ batch'[o] = batch[o])
                BY <1>1, <4>1 DEF Send, Step, CountAlerts, InsertAlert, Refresh, GetAlert,
                   DeleteAlert, Evaluate, MarkTriggered, Reply, DatabaseError, Crash,
                   Refuse, Answer, Committed, TypeInv, TypeOK
            <4>2. UNCHANGED batch \/ batch'[o] = batch[o] \/ Evaluate(o)
                BY <1>1, <4>1 DEF Next, Finished, vars
            <4>3. Evaluate(o)
                BY <2>1, <4>2
            <4>4. batch' = batch
                  \/ batch' = [batch EXCEPT ![o] =
                        {a.id : a \in {x \in SelectActive(o) : Hit(x, job[o].price)}}]
                BY <4>3 DEF Evaluate, Refuse, Answer
            <4>5. batch'[o] = {a.id : a \in {x \in SelectActive(o) : Hit(x, job[o].price)}}
                <5>1. batch' # batch
                    BY <2>1, <2>2
                <5> QED BY <1>1, <4>4, <5>1 DEF TypeInv, TypeOK
            <4> QED BY <2>2, <4>5
        <3>2. a \in alerts /\ ~a.triggered
            BY DEF SelectActive
        <3> QED BY <2>1, <3>1, <3>2 DEF IsMarked
    <2> QED BY <2>2
<1>2. TypeInv /\ Stored /\ [Next]_vars =>
        [\A r, o \in Requests :
            /\ job[r].kind = "evaluate" /\ status[r] = 200
            /\ pc[o] = "select"
            => batch'[o] \cap batch[r] = {}]_vars
    BY <1>1
<1> QED BY <1>2, AlertsAreStored, PTL DEF Spec, AlertsFireOnce

-----------------------------------------------------------------------------
(* Rows of the table.  A row is inserted only by its own request, and an   *)
(* UPDATE inserts none.                                                    *)

\* However evaluations and deletions race, no deleted alert comes back.
THEOREM DeletionsLast == Spec => DeletedAlertsStayDeleted
<1> DEFINE NoneComesBack ==
        \A a \in alerts' : (\A b \in alerts : b.id # a.id) =>
            a.id \in {r \in Requests : pc[r] = "insert"}
<1>1. ASSUME TypeInv, [Next]_vars PROVE NoneComesBack
    <2>1. ASSUME alerts' \subseteq alerts PROVE NoneComesBack
        BY <2>1
    <2>2. ASSUME NEW r \in Requests, InsertAlert(r) PROVE NoneComesBack
        BY <2>2 DEF InsertAlert, NewAlert
    <2>3. ASSUME NEW r \in Requests, MarkTriggered(r) PROVE NoneComesBack
        <3>1. CASE Refuse(r, 500)
            BY <2>1, <3>1 DEF Refuse
        <3>2. CASE alerts' = {IF a.id \in batch[r] THEN Triggered(a, r) ELSE a : a \in alerts}
            <4>1. ASSUME NEW a \in alerts PROVE Triggered(a, r).id = a.id
                <5>1. a \in Alerts
                    BY <1>1 DEF TypeInv, TypeOK
                <5> QED BY <5>1 DEF Triggered, Alerts
            <4> QED BY <3>2, <4>1
        <3> QED BY <2>3, <3>1, <3>2 DEF MarkTriggered
    <2>4. ASSUME NEW r \in Requests, Send(r) \/ Step(r) \/ DatabaseError(r) \/ Crash(r),
                 ~InsertAlert(r), ~MarkTriggered(r)
          PROVE  alerts' \subseteq alerts
        BY <2>4 DEF Send, Step, CountAlerts, Refresh, GetAlert, DeleteAlert, Evaluate,
                    Reply, DatabaseError, Crash, Refuse
    <2>5. CASE UNCHANGED vars
        BY <2>1, <2>5 DEF vars
    <2> QED BY <1>1, <2>1, <2>2, <2>3, <2>4, <2>5 DEF Next, Finished
<1>2. TypeInv /\ [Next]_vars => [NoneComesBack]_vars
    BY <1>1
<1> QED BY <1>2, TypesAreCorrect, PTL DEF Spec, DeletedAlertsStayDeleted

-----------------------------------------------------------------------------
(* The overrun of the limit.  The creations that have passed the check and *)
(* have not inserted yet hold a connection each.                           *)

Sessions == {r \in Requests : InTransaction(r)}

Pool == IsFiniteSet(Sessions) /\ Cardinality(Sessions) <= Connections

Approved(u) == {r \in Requests : pc[r] = "insert" /\ job[r].user = u}

\* The active alerts of a user and the creations that have passed the check.
Room ==
    /\ IsFiniteSet(alerts)
    /\ \A u \in Users :
        Cardinality(ActiveAlerts(u)) + Cardinality(Approved(u)) < MaxAlerts + Connections

LEMMA OneMore ==
    ASSUME NEW S, NEW x, IsFiniteSet(S)
    PROVE  /\ IsFiniteSet(S \cup {x})
           /\ Cardinality(S \cup {x}) \in Nat
           /\ Cardinality(S \cup {x}) <= Cardinality(S) + 1
<1>1. Cardinality(S) \in Nat
    BY FS_CardinalityType
<1>2. /\ IsFiniteSet(S \cup {x})
      /\ Cardinality(S \cup {x}) \in {Cardinality(S), Cardinality(S) + 1}
    BY FS_AddElement
<1> QED BY <1>1, <1>2

LEMMA ApprovedAreSessions ==
    ASSUME NEW u
    PROVE  Approved(u) \subseteq Sessions
  BY DEF Approved, Sessions, InTransaction

LEMMA RoomIsFinite ==
    ASSUME Room, Pool, NEW u \in Users
    PROVE  /\ IsFiniteSet(ActiveAlerts(u)) /\ IsFiniteSet(Approved(u))
           /\ Cardinality(ActiveAlerts(u)) \in Nat /\ Cardinality(Approved(u)) \in Nat
  BY FS_Subset, FS_CardinalityType, ApprovedAreSessions DEF Room, Pool, ActiveAlerts

\* A step of r that opens a transaction finds a free connection.
LEMMA PoolStep ==
    ASSUME Pool, NEW r \in Requests, \A o \in Requests \ {r} : pc'[o] = pc[o],
           InTransaction(r)' => InTransaction(r) \/ FreeConnection
    PROVE  Pool'
<1>1. Sessions' \subseteq Sessions \cup {r}
    BY DEF Sessions, InTransaction
<1>2. CASE InTransaction(r)' /\ ~InTransaction(r)
    <2>1. IsFiniteSet(Sessions) /\ Cardinality(Sessions) < Connections
        BY <1>2 DEF Pool, FreeConnection, Sessions
    <2>2. /\ IsFiniteSet(Sessions \cup {r})
          /\ Cardinality(Sessions \cup {r}) <= Cardinality(Sessions) + 1
        BY <2>1, OneMore
    <2>3. /\ IsFiniteSet(Sessions')
          /\ Cardinality(Sessions') <= Cardinality(Sessions \cup {r})
        BY <1>1, <2>2, FS_Subset
    <2>4. /\ Cardinality(Sessions) \in Nat
          /\ Cardinality(Sessions') \in Nat
          /\ Cardinality(Sessions \cup {r}) \in Nat
        BY <2>1, <2>2, <2>3, FS_CardinalityType
    <2> QED BY <2>1, <2>2, <2>3, <2>4, LimitsAssumption DEF Pool
<1>3. CASE InTransaction(r)' => InTransaction(r)
    <2>1. Sessions' \subseteq Sessions
        BY <1>3 DEF Sessions, InTransaction
    <2>2. IsFiniteSet(Sessions') /\ Cardinality(Sessions') <= Cardinality(Sessions)
        BY <2>1, FS_Subset DEF Pool
    <2>3. Cardinality(Sessions) \in Nat /\ Cardinality(Sessions') \in Nat
        BY <2>2, FS_CardinalityType DEF Pool
    <2> QED BY <2>2, <2>3, LimitsAssumption DEF Pool
<1> QED BY <1>2, <1>3

\* A step that adds no active alert, and that approves r at most when there is room.
LEMMA QuietRoom ==
    ASSUME Room, Pool, Pool', NEW r \in Requests, UNCHANGED job, IsFiniteSet(alerts'),
           \A u \in Users : ActiveAlerts(u)' \subseteq ActiveAlerts(u),
           \A o \in Requests \ {r} : pc'[o] = pc[o],
           \A u \in Users : r \in Approved(u)' =>
              r \in Approved(u) \/ Cardinality(ActiveAlerts(u)) < MaxAlerts
    PROVE  Room'
<1>1. ASSUME NEW u \in Users
      PROVE  Cardinality(ActiveAlerts(u)') + Cardinality(Approved(u)')
                < MaxAlerts + Connections
    <2>1. /\ IsFiniteSet(ActiveAlerts(u)) /\ IsFiniteSet(Approved(u))
          /\ Cardinality(ActiveAlerts(u)) \in Nat /\ Cardinality(Approved(u)) \in Nat
        BY RoomIsFinite
    <2>2. ActiveAlerts(u)' \subseteq ActiveAlerts(u)
        OBVIOUS
    <2>3. /\ Cardinality(ActiveAlerts(u)') \in Nat
          /\ Cardinality(ActiveAlerts(u)') <= Cardinality(ActiveAlerts(u))
        BY <2>1, <2>2, FS_Subset, FS_CardinalityType
    <2>4. CASE r \in Approved(u)' /\ r \notin Approved(u)
        <3>1. Approved(u)' \subseteq Sessions'
            BY DEF Approved, Sessions, InTransaction
        <3>2. IsFiniteSet(Sessions') /\ Cardinality(Sessions') <= Connections
            BY DEF Pool
        <3>3. /\ Cardinality(Approved(u)') \in Nat
              /\ Cardinality(Approved(u)') <= Connections
            BY <3>1, <3>2, FS_Subset, FS_CardinalityType, LimitsAssumption
        <3>4. Cardinality(ActiveAlerts(u)) < MaxAlerts
            BY <2>4
        <3> QED BY <2>1, <2>3, <3>3, <3>4, LimitsAssumption
    <2>5. CASE r \in Approved(u)' => r \in Approved(u)
        <3>1. Approved(u)' \subseteq Approved(u)
            BY <2>5 DEF Approved
        <3>2. /\ Cardinality(Approved(u)') \in Nat
              /\ Cardinality(Approved(u)') <= Cardinality(Approved(u))
            BY <2>1, <3>1, FS_Subset, FS_CardinalityType
        <3> QED BY <2>1, <2>3, <3>2, LimitsAssumption DEF Room
    <2> QED BY <2>4, <2>5
<1> QED BY <1>1 DEF Room

\* An insert moves r from the approved creations to the active alerts.
LEMMA InsertRoom ==
    ASSUME TypeInv, Room, Pool, NEW r \in Requests, InsertAlert(r)
    PROVE  Pool' /\ Room'
<1>1. /\ pc[r] = "insert" /\ pc'[r] \in {"refresh", "done"}
      /\ \A o \in Requests \ {r} : pc'[o] = pc[o]
      /\ UNCHANGED job
      /\ alerts' = alerts \cup {NewAlert(r)}
    BY DEF InsertAlert, Committed, Goto, Answer, TypeInv, TypeOK
<1>2. Pool'
    BY <1>1, PoolStep DEF InTransaction
<1>3. IsFiniteSet(alerts')
    BY <1>1, FS_AddElement DEF Room
<1>4. NewAlert(r).user = job[r].user /\ ~NewAlert(r).triggered
    BY DEF NewAlert
<1>5. ASSUME NEW u \in Users
      PROVE  Cardinality(ActiveAlerts(u)') + Cardinality(Approved(u)')
                < MaxAlerts + Connections
    <2>1. /\ IsFiniteSet(ActiveAlerts(u)) /\ IsFiniteSet(Approved(u))
          /\ Cardinality(ActiveAlerts(u)) \in Nat /\ Cardinality(Approved(u)) \in Nat
        BY RoomIsFinite
    <2>2. CASE job[r].user = u
        <3>1. ActiveAlerts(u)' = ActiveAlerts(u) \cup {NewAlert(r)}
            BY <1>1, <1>4, <2>2 DEF ActiveAlerts
        <3>2. r \in Approved(u) /\ Approved(u)' = Approved(u) \ {r}
            BY <1>1, <2>2 DEF Approved
        <3>3. /\ Cardinality(ActiveAlerts(u)') \in Nat
              /\ Cardinality(ActiveAlerts(u)') <= Cardinality(ActiveAlerts(u)) + 1
            BY <2>1, <3>1, OneMore
        <3>4. Cardinality(Approved(u)') = Cardinality(Approved(u)) - 1
            BY <2>1, <3>2, FS_RemoveElement
        <3> QED BY <2>1, <3>3, <3>4, LimitsAssumption DEF Room
    <2>3. CASE job[r].user # u
        <3>1. ActiveAlerts(u)' = ActiveAlerts(u)
            BY <1>1, <1>4, <2>3 DEF ActiveAlerts
        <3>2. Approved(u)' = Approved(u)
            BY <1>1, <2>3 DEF Approved
        <3> QED BY <3>1, <3>2 DEF Room
    <2> QED BY <2>2, <2>3
<1>6. Room'
    BY <1>3, <1>5 DEF Room
<1> QED BY <1>2, <1>6

\* Ending a request approves none.
LEMMA AnswerRoom ==
    ASSUME TypeInv, Pool, Room, NEW r \in Requests, NEW code, Answer(r, code),
           IsFiniteSet(alerts'), \A u \in Users : ActiveAlerts(u)' \subseteq ActiveAlerts(u)
    PROVE  Pool' /\ Room'
<1>1. /\ pc'[r] = "done"
      /\ \A o \in Requests \ {r} : pc'[o] = pc[o]
      /\ UNCHANGED job
    BY DEF Answer, TypeInv, TypeOK
<1>2. Pool'
    BY <1>1, PoolStep DEF InTransaction
<1>3. \A u : r \notin Approved(u)'
    BY <1>1 DEF Approved
<1> QED BY <1>1, <1>2, <1>3, QuietRoom

LEMMA RefuseRoom ==
    ASSUME TypeInv, Pool, Room, NEW r \in Requests, NEW code, Refuse(r, code)
    PROVE  Pool' /\ Room'
  BY AnswerRoom DEF Refuse, ActiveAlerts, Room

LEMMA GotoRoom ==
    ASSUME TypeInv, Pool, Room, NEW r \in Requests, NEW label \in PCs, Goto(r, label),
           IsFiniteSet(alerts'), \A u \in Users : ActiveAlerts(u)' \subseteq ActiveAlerts(u),
           label \in {"insert", "delete", "mark"} => FreeConnection,
           label = "insert" => Cardinality(ActiveAlerts(job[r].user)) < MaxAlerts
    PROVE  Pool' /\ Room'
<1>1. /\ pc'[r] = label
      /\ \A o \in Requests \ {r} : pc'[o] = pc[o]
      /\ UNCHANGED job
    BY DEF Goto, TypeInv, TypeOK
<1>2. Pool'
    BY <1>1, PoolStep DEF InTransaction
<1>3. ASSUME NEW u \in Users, r \in Approved(u)'
      PROVE  Cardinality(ActiveAlerts(u)) < MaxAlerts
    BY <1>1, <1>3 DEF Approved
<1> QED BY <1>1, <1>2, <1>3, QuietRoom

\* A commit that takes effect, confirmed or not.
LEMMA CommittedRoom ==
    ASSUME TypeInv, Pool, Room, NEW r \in Requests, Committed(r, "reply"),
           IsFiniteSet(alerts'), \A u \in Users : ActiveAlerts(u)' \subseteq ActiveAlerts(u)
    PROVE  Pool' /\ Room'
  BY AnswerRoom, GotoRoom DEF Committed, PCs

LEMMA StepRoom ==
    ASSUME TypeInv, Pool, Room, NEW r \in Requests, Step(r)
    PROVE  Pool' /\ Room'
<1>1. ASSUME NEW label \in PCs, Goto(r, label), UNCHANGED alerts, FreeConnection,
             label = "insert" => Cardinality(ActiveAlerts(job[r].user)) < MaxAlerts
      PROVE  Pool' /\ Room'
    BY <1>1, GotoRoom DEF ActiveAlerts, Room
<1>2. CASE CountAlerts(r)
    <2>1. job[r].user \in Users
        BY <1>2, JobType DEF CountAlerts, TypeInv, Paths
    <2>2. Cardinality(ActiveAlerts(job[r].user)) \in Nat
        BY <2>1, RoomIsFinite
    <2>3. CASE /\ Cardinality(ActiveAlerts(job[r].user)) < MaxAlerts
               /\ Goto(r, "insert") /\ UNCHANGED <<batch, alerts>>
        BY <1>1, <1>2, <2>3 DEF CountAlerts, PCs
    <2>4. CASE Refuse(r, 400)
        BY <2>4, RefuseRoom
    <2> QED BY <1>2, <2>2, <2>3, <2>4, LimitsAssumption DEF CountAlerts
<1>3. CASE InsertAlert(r)
    BY <1>3, InsertRoom
<1>4. CASE Refresh(r) \/ Reply(r)
    <2>1. PICK code \in Codes : Refuse(r, code)
        BY <1>4 DEF Refresh, Reply, Codes
    <2> QED BY <2>1, RefuseRoom
<1>5. CASE GetAlert(r)
    <2>1. CASE \E code \in Codes : Refuse(r, code)
        BY <2>1, RefuseRoom
    <2>2. CASE Goto(r, "delete") /\ UNCHANGED <<batch, alerts>>
        BY <1>1, <1>5, <2>2 DEF GetAlert, PCs
    <2> QED BY <1>5, <2>1, <2>2 DEF GetAlert, Codes
<1>6. CASE DeleteAlert(r)
    <2>1. alerts' \subseteq alerts
        BY <1>6 DEF DeleteAlert
    <2>2. IsFiniteSet(alerts')
        BY <2>1, FS_Subset DEF Room
    <2>3. \A u \in Users : ActiveAlerts(u)' \subseteq ActiveAlerts(u)
        BY <2>1 DEF ActiveAlerts
    <2> QED BY <1>6, <2>2, <2>3, CommittedRoom DEF DeleteAlert
<1>7. CASE Evaluate(r)
    <2>1. CASE Refuse(r, 200)
        BY <2>1, RefuseRoom
    <2>2. CASE Goto(r, "mark") /\ UNCHANGED alerts
        BY <1>1, <1>7, <2>2 DEF Evaluate, PCs
    <2> QED BY <1>7, <2>1, <2>2 DEF Evaluate
<1>8. CASE MarkTriggered(r)
    <2>1. CASE Refuse(r, 500)
        BY <2>1, RefuseRoom
    <2>2. CASE /\ alerts' = {IF a.id \in batch[r] THEN Triggered(a, r) ELSE a : a \in alerts}
               /\ Committed(r, "reply")
        <3>1. IsFiniteSet(alerts')
            <4> DEFINE f == [a \in alerts |->
                               IF a.id \in batch[r] THEN Triggered(a, r) ELSE a]
            <4>1. f \in Surjection(alerts, alerts')
                BY <2>2 DEF Surjection
            <4> QED BY <4>1, FS_Surjection DEF Room
        <3>2. ASSUME NEW a \in alerts PROVE Triggered(a, r).triggered
            <4>1. a \in Alerts
                BY DEF TypeInv, TypeOK
            <4> QED BY <4>1 DEF Triggered, Alerts
        <3>3. \A u \in Users : ActiveAlerts(u)' \subseteq ActiveAlerts(u)
            BY <2>2, <3>2 DEF ActiveAlerts
        <3> QED BY <2>2, <3>1, <3>3, CommittedRoom
    <2> QED BY <1>8, <2>1, <2>2 DEF MarkTriggered
<1> QED BY <1>2, <1>3, <1>4, <1>5, <1>6, <1>7, <1>8 DEF Step

LEMMA NextRoom == TypeInv /\ Pool /\ Room /\ [Next]_vars => Pool' /\ Room'
<1> SUFFICES ASSUME TypeInv, Pool, Room, [Next]_vars PROVE Pool' /\ Room'
    OBVIOUS
<1>1. ASSUME NEW r \in Requests, Send(r) PROVE Pool' /\ Room'
    <2>1. CASE Refuse(r, 400)
        BY <2>1, RefuseRoom
    <2>2. ASSUME NEW label \in {"count", "get", "select"}, Goto(r, label), UNCHANGED alerts
          PROVE  Pool' /\ Room'
        BY <2>2, GotoRoom DEF ActiveAlerts, Room, PCs
    <2> QED BY <1>1, <2>1, <2>2 DEF Send
<1>2. ASSUME NEW r \in Requests, Step(r) PROVE Pool' /\ Room'
    BY <1>2, StepRoom
<1>3. ASSUME NEW r \in Requests, DatabaseError(r) \/ Crash(r) PROVE Pool' /\ Room'
    BY <1>3, RefuseRoom DEF DatabaseError, Crash
<1>4. CASE UNCHANGED vars
    BY <1>4 DEF vars, Pool, Sessions, InTransaction, Room, ActiveAlerts, Approved
<1> QED BY <1>1, <1>2, <1>3, <1>4 DEF Next, Finished

LEMMA InitRoom == Init => Pool /\ Room
<1> SUFFICES ASSUME Init PROVE Pool /\ Room
    OBVIOUS
<1>1. Sessions = {} /\ \A u : Approved(u) = {}
    BY DEF Init, Sessions, InTransaction, Approved
<1>2. Pool
    BY <1>1, FS_EmptySet, LimitsAssumption DEF Pool
<1>3. ASSUME NEW u \in Users
      PROVE  Cardinality(ActiveAlerts(u)) + Cardinality(Approved(u)) < MaxAlerts + Connections
    <2> DEFINE Opened == {a \in Opening : a.user = u}
    <2>1. IsFiniteSet(Opened) /\ Cardinality(Opened) <= MaxAlerts
        BY OpeningAssumption, FS_Subset
    <2>2. ActiveAlerts(u) \subseteq Opened
        BY DEF Init, ActiveAlerts
    <2> HIDE DEF Opened
    <2>3. /\ Cardinality(ActiveAlerts(u)) <= Cardinality(Opened)
          /\ Cardinality(ActiveAlerts(u)) \in Nat /\ Cardinality(Opened) \in Nat
        BY <2>1, <2>2, FS_Subset, FS_CardinalityType
    <2>4. Cardinality(Approved(u)) = 0
        BY <1>1, FS_EmptySet
    <2> QED BY <2>1, <2>3, <2>4, LimitsAssumption
<1>4. IsFiniteSet(alerts)
    BY OpeningAssumption DEF Init
<1> QED BY <1>2, <1>3, <1>4 DEF Room

\* The check of the limit races, but a user never has as many active alerts as
\* the limit and the connections make together.
THEOREM OverrunIsBounded == Spec => []ActiveAlertsAreBounded
<1> DEFINE Inv == TypeInv /\ Pool /\ Room
<1>1. Init => Inv
    BY InitType, InitRoom
<1>2. Inv /\ [Next]_vars => Inv'
    BY NextType, NextRoom
<1>3. Inv => ActiveAlertsAreBounded
    <2> SUFFICES ASSUME Inv, NEW u \in Users
                 PROVE  Cardinality(ActiveAlerts(u)) < MaxAlerts + Connections
        BY DEF ActiveAlertsAreBounded
    <2>1. Cardinality(ActiveAlerts(u)) \in Nat /\ Cardinality(Approved(u)) \in Nat
        BY RoomIsFinite
    <2> QED BY <2>1, LimitsAssumption DEF Room
<1> QED BY <1>1, <1>2, <1>3, PTL DEF Spec
-----------------------------------------------------------------------------
(* The number of announcements.  A call that selects an alert finds it      *)
(* active, so nobody has been told of it: whoever holds it is a call that   *)
(* holds a connection, too.                                                 *)

Holders(i) ==
    {r \in Requests : /\ job[r].kind = "evaluate" /\ i \in batch[r]
                      /\ pc[r] \in {"mark", "reply"} \/ status[r] = 200}

FewHolders ==
    \A i : IsFiniteSet(Holders(i)) /\ Cardinality(Holders(i)) <= Connections

\* A step that gives r no alert to hold.
LEMMA QuietHolders ==
    ASSUME FewHolders, NEW r \in Requests, UNCHANGED <<job, batch>>,
           \A o \in Requests \ {r} : pc'[o] = pc[o] /\ status'[o] = status[o],
           job[r].kind = "evaluate" /\ batch[r] # {}
               /\ (pc'[r] \in {"mark", "reply"} \/ status'[r] = 200)
             => pc[r] \in {"mark", "reply"} \/ status[r] = 200
    PROVE  FewHolders'
<1> SUFFICES ASSUME NEW i
             PROVE  IsFiniteSet(Holders(i)') /\ Cardinality(Holders(i)') <= Connections
    BY DEF FewHolders
<1>1. Holders(i)' \subseteq Holders(i)
    BY DEF Holders
<1>2. IsFiniteSet(Holders(i)) /\ Cardinality(Holders(i)) <= Connections
    BY DEF FewHolders
<1>3. IsFiniteSet(Holders(i)') /\ Cardinality(Holders(i)') <= Cardinality(Holders(i))
    BY <1>1, <1>2, FS_Subset
<1> QED BY <1>2, <1>3, FS_CardinalityType, LimitsAssumption

LEMMA EvaluateHolders ==
    ASSUME TypeInv, Stored, Pool', FewHolders, NEW r \in Requests, pc[r] = "select",
           batch' = [batch EXCEPT ![r] =
              {a.id : a \in {x \in SelectActive(r) : Hit(x, job[r].price)}}],
           Goto(r, "mark")
    PROVE  FewHolders'
<1> SUFFICES ASSUME NEW i
             PROVE  IsFiniteSet(Holders(i)') /\ Cardinality(Holders(i)') <= Connections
    BY DEF FewHolders
<1>1. /\ pc'[r] = "mark" /\ UNCHANGED <<job, status>>
      /\ \A o \in Requests \ {r} : pc'[o] = pc[o] /\ batch'[o] = batch[o]
      /\ batch'[r] = {a.id : a \in {x \in SelectActive(r) : Hit(x, job[r].price)}}
    BY DEF Goto, TypeInv, TypeOK
<1>2. CASE i \in batch'[r]
    <2>1. PICK a \in alerts : a.id = i /\ ~a.triggered
        BY <1>1, <1>2 DEF SelectActive
    <2>2. \A o \in Requests \ {r} : o \in Holders(i)' => pc'[o] = "mark"
        BY <1>1, <2>1 DEF Holders, Stored, IsMarked
    <2>3. Holders(i)' \subseteq Sessions'
        BY <1>1, <2>2 DEF Holders, Sessions, InTransaction
    <2>4. IsFiniteSet(Sessions') /\ Cardinality(Sessions') <= Connections
        BY DEF Pool
    <2>5. IsFiniteSet(Holders(i)') /\ Cardinality(Holders(i)') <= Cardinality(Sessions')
        BY <2>3, <2>4, FS_Subset
    <2> QED BY <2>4, <2>5, FS_CardinalityType, LimitsAssumption
<1>3. CASE i \notin batch'[r]
    <2>1. Holders(i)' \subseteq Holders(i)
        BY <1>1, <1>3 DEF Holders
    <2>2. IsFiniteSet(Holders(i)) /\ Cardinality(Holders(i)) <= Connections
        BY DEF FewHolders
    <2>3. IsFiniteSet(Holders(i)') /\ Cardinality(Holders(i)') <= Cardinality(Holders(i))
        BY <2>1, <2>2, FS_Subset
    <2> QED BY <2>2, <2>3, FS_CardinalityType, LimitsAssumption
<1> QED BY <1>2, <1>3

LEMMA AnswerHolders ==
    ASSUME TypeInv, FewHolders, NEW r \in Requests, NEW code, Answer(r, code),
           code = 200 => pc[r] = "reply" \/ batch[r] = {}
    PROVE  FewHolders'
<1>1. /\ pc'[r] = "done" /\ status'[r] = code /\ UNCHANGED <<job, batch>>
      /\ \A o \in Requests \ {r} : pc'[o] = pc[o] /\ status'[o] = status[o]
    BY DEF Answer, TypeInv, TypeOK
<1> QED BY <1>1, QuietHolders

LEMMA GotoHolders ==
    ASSUME TypeInv, FewHolders, NEW r \in Requests, NEW label, Goto(r, label),
           UNCHANGED batch, label # "mark",
           label = "reply" => job[r].kind # "evaluate" \/ pc[r] = "mark"
    PROVE  FewHolders'
<1>1. /\ pc'[r] = label /\ UNCHANGED <<job, batch, status>>
      /\ \A o \in Requests \ {r} : pc'[o] = pc[o]
    BY DEF Goto, TypeInv, TypeOK
<1> QED BY <1>1, QuietHolders

LEMMA StepHolders ==
    ASSUME TypeInv, Stored, Pool', FewHolders, [Next]_vars
    PROVE  FewHolders'
<1>1. ASSUME NEW r \in Requests, NEW code, Refuse(r, code),
             code = 200 => pc[r] = "reply" \/ batch[r] = {}
      PROVE  FewHolders'
    BY <1>1, AnswerHolders DEF Refuse
<1>2. ASSUME NEW r \in Requests,
             Send(r) \/ CountAlerts(r) \/ Refresh(r) \/ GetAlert(r)
      PROVE  FewHolders'
    BY <1>1, <1>2, GotoHolders DEF Send, CountAlerts, Refresh, GetAlert
<1>3. ASSUME NEW r \in Requests,
             InsertAlert(r) \/ DeleteAlert(r) \/ MarkTriggered(r)
      PROVE  FewHolders'
    <2>1. ASSUME NEW label, Committed(r, label), label # "mark",
                 label = "reply" => job[r].kind # "evaluate" \/ pc[r] = "mark"
          PROVE  FewHolders'
        <3>1. CASE Answer(r, 500)
            BY <3>1, AnswerHolders
        <3>2. CASE Goto(r, label) /\ UNCHANGED batch
            BY <2>1, <3>2, GotoHolders
        <3> QED BY <2>1, <3>1, <3>2 DEF Committed
    <2>2. pc[r] = "delete" => job[r].kind = "delete"
        BY DEF TypeInv, Paths
    <2>3. CASE InsertAlert(r)
        BY <2>1, <2>3 DEF InsertAlert
    <2>4. CASE DeleteAlert(r)
        <3>1. job[r].kind # "evaluate" /\ Committed(r, "reply")
            BY <2>2, <2>4 DEF DeleteAlert, TypeInv, Paths
        <3> QED BY <2>1, <3>1
    <2>5. CASE MarkTriggered(r)
        BY <1>1, <2>1, <2>5 DEF MarkTriggered
    <2> QED BY <1>3, <2>3, <2>4, <2>5
<1>4. ASSUME NEW r \in Requests, Evaluate(r)
      PROVE  FewHolders'
    <2>1. pc[r] = "select" /\ batch[r] = {}
        BY <1>4 DEF Evaluate, TypeInv, Paths
    <2> QED BY <1>1, <1>4, <2>1, EvaluateHolders DEF Evaluate
<1>5. ASSUME NEW r \in Requests, Reply(r) \/ DatabaseError(r) \/ Crash(r)
      PROVE  FewHolders'
    <2>1. CASE Reply(r)
        <3>1. PICK code \in {200, 204} : Refuse(r, code) /\ pc[r] = "reply"
            BY <2>1 DEF Reply
        <3> QED BY <1>1, <3>1
    <2>2. CASE DatabaseError(r) \/ Crash(r)
        <3>1. PICK code \in {0, 500} : Refuse(r, code)
            BY <2>2 DEF DatabaseError, Crash
        <3> QED BY <1>1, <3>1
    <2> QED BY <1>5, <2>1, <2>2
<1>6. CASE UNCHANGED vars
    <2>1. ASSUME NEW i PROVE Holders(i)' = Holders(i)
        BY <1>6 DEF vars, Holders
    <2> QED BY <2>1 DEF FewHolders
<1> QED BY <1>2, <1>3, <1>4, <1>5, <1>6 DEF Next, Step, Finished

LEMMA InitHolders == Init => FewHolders
<1> SUFFICES ASSUME Init, NEW i
             PROVE  IsFiniteSet(Holders(i)) /\ Cardinality(Holders(i)) <= Connections
    BY DEF FewHolders
<1>1. Holders(i) = {}
    BY DEF Init, Holders
<1> QED BY <1>1, FS_EmptySet, LimitsAssumption

\* However many evaluations of a symbol overlap, no more calls than there are
\* connections return an alert as triggered, over its whole life.
THEOREM AnnouncementsAreFew == Spec => []AnnouncementsAreBounded
<1>1. FewHolders => AnnouncementsAreBounded
    <2> SUFFICES ASSUME FewHolders, NEW i \in Ids
                 PROVE  Cardinality(Told(i)) <= Connections
        BY DEF AnnouncementsAreBounded
    <2>1. Told(i) \subseteq Holders(i)
        BY DEF Told, Holders
    <2>2. IsFiniteSet(Holders(i)) /\ Cardinality(Holders(i)) <= Connections
        BY DEF FewHolders
    <2>3. IsFiniteSet(Told(i)) /\ Cardinality(Told(i)) <= Cardinality(Holders(i))
        BY <2>1, <2>2, FS_Subset
    <2> QED BY <2>2, <2>3, FS_CardinalityType, LimitsAssumption
<1>2. TypeInv /\ Pool /\ Room /\ [Next]_vars => Pool' /\ Room'
    BY NextRoom
<1>3. TypeInv /\ Stored /\ Pool' /\ FewHolders /\ [Next]_vars => FewHolders'
    BY StepHolders
<1> QED BY <1>1, <1>2, <1>3, InitRoom, InitHolders, AlertsAreStored, PTL DEF Spec
=============================================================================
