------------------------ MODULE StreamSocketsProofs ------------------------
(***************************************************************************)
(* Theorems about StreamSockets, for every number of sockets, broadcasts   *)
(* and analyses: the list is true, and a broadcast reaches those who stay. *)
(***************************************************************************)
EXTENDS StreamSockets, SequenceTheorems, TLAPS

-----------------------------------------------------------------------------
(* The list.  What is in it is there once, so that removing the first      *)
(* occurrence of a socket removes it.                                      *)

LEMMA RemoveAtParts ==
    ASSUME NEW S, NEW q \in Seq(S), NEW i \in 1 .. Len(q)
    PROVE  /\ RemoveAt(q, i) \in Seq(S)
           /\ Len(RemoveAt(q, i)) = Len(q) - 1
           /\ \A j \in 1 .. Len(q) - 1 :
                RemoveAt(q, i)[j] = IF j < i THEN q[j] ELSE q[j + 1]
<1> DEFINE p == SubSeq(q, 1, i - 1)
           t == SubSeq(q, i + 1, Len(q))
<1>1. Len(q) \in Nat /\ \A j \in 1 .. Len(q) : q[j] \in S
    BY LenProperties, ElementOfSeq
<1>2. /\ p \in Seq(S) /\ Len(p) = i - 1
      /\ \A j \in 1 .. i - 1 : p[j] = q[j]
    <2>1. /\ p \in Seq(S)
          /\ Len(p) = IF 1 <= i - 1 THEN i - 1 - 1 + 1 ELSE 0
          /\ \A j \in 1 .. i - 1 - 1 + 1 : p[j] = q[1 + j - 1]
        BY <1>1, SubSeqProperties
    <2> QED BY <1>1, <2>1
<1>3. /\ t \in Seq(S) /\ Len(t) = Len(q) - i
      /\ \A j \in 1 .. Len(q) - i : t[j] = q[i + j]
    <2>1. /\ t \in Seq(S)
          /\ Len(t) = IF i + 1 <= Len(q) THEN Len(q) - (i + 1) + 1 ELSE 0
          /\ \A j \in 1 .. Len(q) - (i + 1) + 1 : t[j] = q[(i + 1) + j - 1]
        BY <1>1, SubSeqProperties
    <2> QED BY <1>1, <2>1
<1>4. /\ p \o t \in Seq(S)
      /\ Len(p \o t) = Len(p) + Len(t)
      /\ \A j \in 1 .. Len(p) + Len(t) :
           (p \o t)[j] = IF j <= Len(p) THEN p[j] ELSE t[j - Len(p)]
    BY <1>2, <1>3, ConcatProperties
<1>5. RemoveAt(q, i) = p \o t
    BY DEF RemoveAt
<1> HIDE DEF p, t
<1>6. Len(p \o t) = Len(q) - 1 /\ Len(p) + Len(t) = Len(q) - 1
    BY <1>1, <1>2, <1>3, <1>4
<1>7. ASSUME NEW j \in 1 .. Len(q) - 1
      PROVE  (p \o t)[j] = IF j < i THEN q[j] ELSE q[j + 1]
    <2>1. (p \o t)[j] = IF j <= i - 1 THEN p[j] ELSE t[j - (i - 1)]
        BY <1>2, <1>4, <1>6
    <2>2. CASE j < i
        BY <1>1, <1>2, <2>1, <2>2
    <2>3. CASE ~(j < i)
        <3>1. j - (i - 1) \in 1 .. Len(q) - i /\ i + (j - (i - 1)) = j + 1
            BY <1>1, <2>3
        <3>2. t[j - (i - 1)] = q[i + (j - (i - 1))]
            BY <1>3, <3>1
        <3> QED BY <1>1, <2>1, <2>3, <3>1, <3>2
    <2> QED BY <2>2, <2>3
<1> QED BY <1>4, <1>5, <1>6, <1>7

LEMMA RemoveOnly ==
    ASSUME NEW S, NEW q \in Seq(S), IsInjective(q), NEW x
    PROVE  /\ RemoveFirst(q, x) \in Seq(S)
           /\ IsInjective(RemoveFirst(q, x))
           /\ ToSet(RemoveFirst(q, x)) = ToSet(q) \ {x}
<1>1. Len(q) \in Nat /\ DOMAIN q = 1 .. Len(q)
    BY LenProperties
<1>2. CASE ~\E i \in 1 .. Len(q) : q[i] = x
    BY <1>1, <1>2 DEF RemoveFirst, ToSet
<1>3. CASE \E i \in 1 .. Len(q) : q[i] = x
    <2>1. PICK i \in 1 .. Len(q) : q[i] = x
        BY <1>3
    <2>2. {j \in 1 .. Len(q) : q[j] = x} = {i}
        BY <1>1, <2>1 DEF IsInjective
    <2>3. SelectInSeq(q, LAMBDA v : v = x) = Min({i})
        BY <2>2 DEF SelectInSeq
    <2>4. Min({i}) = i
        BY <2>1 DEF Min
    <2> DEFINE rest == RemoveAt(q, i)
    <2>5. RemoveFirst(q, x) = rest
        BY <1>3, <2>3, <2>4 DEF RemoveFirst
    <2>6. /\ rest \in Seq(S) /\ Len(rest) = Len(q) - 1
          /\ \A j \in 1 .. Len(q) - 1 : rest[j] = IF j < i THEN q[j] ELSE q[j + 1]
        BY RemoveAtParts
    <2>7. DOMAIN rest = 1 .. Len(q) - 1
        BY <2>6, LenProperties
    <2> HIDE DEF rest
    <2>8. IsInjective(rest)
        BY <1>1, <2>6, <2>7 DEF IsInjective
    <2>9. ASSUME NEW j \in DOMAIN rest PROVE rest[j] \in ToSet(q) \ {x}
        <3>1. CASE j < i
            BY <1>1, <2>1, <2>6, <2>7, <3>1 DEF IsInjective, ToSet
        <3>2. CASE ~(j < i)
            BY <1>1, <2>1, <2>6, <2>7, <3>2 DEF IsInjective, ToSet
        <3> QED BY <3>1, <3>2
    <2>10. ASSUME NEW k \in 1 .. Len(q), k # i PROVE q[k] \in ToSet(rest)
        <3>1. CASE k < i
            <4>1. k \in 1 .. Len(q) - 1 /\ rest[k] = q[k]
                BY <1>1, <2>6, <3>1
            <4> QED BY <2>7, <4>1 DEF ToSet
        <3>2. CASE k > i
            <4>1. k - 1 \in 1 .. Len(q) - 1 /\ rest[k - 1] = q[k]
                BY <1>1, <2>6, <3>2
            <4> QED BY <2>7, <4>1 DEF ToSet
        <3> QED BY <1>1, <2>10, <3>1, <3>2
    <2>11. ToSet(rest) = ToSet(q) \ {x}
        BY <1>1, <2>1, <2>9, <2>10 DEF ToSet
    <2> QED BY <2>5, <2>6, <2>8, <2>11
<1> QED BY <1>2, <1>3

LEMMA AppendOnly ==
    ASSUME NEW S, NEW q \in Seq(S), IsInjective(q), NEW x \in S, x \notin ToSet(q)
    PROVE  /\ Append(q, x) \in Seq(S)
           /\ IsInjective(Append(q, x))
           /\ ToSet(Append(q, x)) = ToSet(q) \cup {x}
<1> DEFINE more == Append(q, x)
<1>1. Len(q) \in Nat /\ DOMAIN q = 1 .. Len(q)
    BY LenProperties
<1>2. /\ more \in Seq(S) /\ Len(more) = Len(q) + 1 /\ more[Len(q) + 1] = x
      /\ \A j \in 1 .. Len(q) : more[j] = q[j]
    BY AppendProperties
<1>3. DOMAIN more = 1 .. Len(q) + 1
    BY <1>2, LenProperties
<1> HIDE DEF more
<1>4. IsInjective(more)
    BY <1>1, <1>2, <1>3 DEF IsInjective, ToSet
<1>5. ToSet(more) \subseteq ToSet(q) \cup {x}
    BY <1>1, <1>2, <1>3 DEF ToSet
<1>6. ToSet(q) \cup {x} \subseteq ToSet(more)
    <2>1. \A j \in 1 .. Len(q) : j \in DOMAIN more
        BY <1>1, <1>3
    <2>2. Len(q) + 1 \in DOMAIN more
        BY <1>1, <1>3
    <2> QED BY <1>1, <1>2, <2>1, <2>2 DEF ToSet
<1> QED BY <1>2, <1>4, <1>5, <1>6 DEF more

-----------------------------------------------------------------------------
(* Types and the list.  A socket is put into the list while it is not      *)
(* served yet, and so is not in it: the list stays without repetitions.    *)

Begun ==
    /\ \A s \in Sockets : client[s] = "away" => pc[s] = "idle"
    /\ \A b \in Broadcasts : stage[b] = "idle" => position[b] = 1

Inv == TypeOK /\ Begun /\ ListIsServed

LEMMA Drops ==
    ASSUME TypeOK, NEW s
    PROVE  /\ Dropped(s) \in Seq(Sockets) /\ IsInjective(Dropped(s))
           /\ ToSet(Dropped(s)) = ToSet(list) \ {s}
  BY RemoveOnly DEF Dropped, TypeOK

LEMMA AcceptAppends ==
    ASSUME Inv, NEW s \in Sockets, pc[s] = "accept"
    PROVE  /\ Append(list, s) \in Seq(Sockets) /\ IsInjective(Append(list, s))
           /\ ToSet(Append(list, s)) = ToSet(list) \cup {s}
<1>1. s \notin ToSet(list)
    BY DEF Inv, ListIsServed, Served
<1> QED BY <1>1, AppendOnly DEF Inv, TypeOK

LEMMA EndInv ==
    ASSUME Inv, NEW s \in Sockets, End(s)
    PROVE  Inv'
<1>1. /\ list' \in Seq(Sockets) /\ IsInjective(list')
      /\ ToSet(list') = ToSet(list) \ {s}
    BY Drops DEF Inv, End
<1>2. TypeOK'
    BY <1>1 DEF Inv, TypeOK, End, broadcasts
<1>3. Begun'
    BY DEF Inv, TypeOK, Begun, End, broadcasts
<1>4. Served' = Served \ {s} /\ Served \subseteq Sockets
    BY DEF Inv, TypeOK, Served, End
<1>5. \A o \in Sockets : client'[o] = "here" => client[o] = "here"
    BY DEF Inv, TypeOK, End
<1>6. ListIsServed'
    BY <1>1, <1>4, <1>5 DEF Inv, ListIsServed
<1> QED BY <1>2, <1>3, <1>6 DEF Inv

LEMMA AcceptInv ==
    ASSUME Inv, NEW s \in Sockets, Accept(s)
    PROVE  Inv'
<1>1. /\ list' \in Seq(Sockets) /\ IsInjective(list')
      /\ ToSet(list') = IF pc'[s] = "read" THEN ToSet(list) \cup {s} ELSE ToSet(list)
      /\ pc'[s] = "done" => client[s] = "gone"
      /\ pc' = [pc EXCEPT ![s] = "read"] \/ pc' = [pc EXCEPT ![s] = "done"]
    BY AcceptAppends DEF Inv, TypeOK, Accept
<1>2. TypeOK'
    BY <1>1 DEF Inv, TypeOK, Accept, broadcasts
<1>3. Begun'
    BY <1>1 DEF Inv, TypeOK, Begun, Accept, broadcasts
<1>4. Served' = IF pc'[s] = "read" THEN Served \cup {s} ELSE Served
    BY <1>1 DEF Inv, TypeOK, Served, Accept
<1>5. client' = client /\ pc'[s] \in {"read", "done"}
    BY <1>1 DEF Inv, TypeOK, Accept
<1>6. ListIsServed'
    <2>1. CASE pc'[s] = "read"
        BY <1>1, <1>4, <1>5, <2>1 DEF Inv, ListIsServed
    <2>2. CASE pc'[s] = "done"
        BY <1>1, <1>4, <1>5, <2>2 DEF Inv, ListIsServed
    <2> QED BY <1>5, <2>1, <2>2
<1> QED BY <1>2, <1>3, <1>6 DEF Inv

\* A step of a handler that goes on with its client.
LEMMA ServeInv ==
    ASSUME Inv, NEW s \in Sockets, NEW label \in {"read", "send", "sleep"},
           pc[s] \in {"read", "send", "sleep"}, pc' = [pc EXCEPT ![s] = label],
           latest' \in [Sockets -> 0 .. MaxVersion],
           shown' \in [Sockets -> -1 .. MaxVersion],
           UNCHANGED <<version, client, list, broadcasts>>
    PROVE  Inv'
<1>1. TypeOK'
    BY DEF Inv, TypeOK, broadcasts
<1>2. Begun' /\ Served' = Served
    BY DEF Inv, TypeOK, Begun, Served, broadcasts
<1> QED BY <1>1, <1>2 DEF Inv, ListIsServed

LEMMA TellInv ==
    ASSUME Inv, NEW b \in Broadcasts, Tell(b)
    PROVE  Inv'
<1> DEFINE s == recipients[b][position[b]]
<1>1. s \in Sockets /\ position[b] \in 1 .. Len(recipients[b])
    BY LenProperties, ElementOfSeq DEF Inv, TypeOK, Tell, Way
<1>2. \/ /\ list' = list
         /\ told' = [told EXCEPT ![b] = @ \cup {s}]
      \/ /\ client[s] = "gone"
         /\ list' = Dropped(s)
         /\ told' = told
    BY DEF Tell, Way
<1> HIDE DEF s
<1>3. /\ list' \in Seq(Sockets) /\ IsInjective(list')
      /\ \/ ToSet(list') = ToSet(list)
         \/ client[s] = "gone" /\ ToSet(list') = ToSet(list) \ {s}
    BY <1>2, Drops DEF Inv, TypeOK
<1>4. told' \in [Broadcasts -> SUBSET Sockets]
    <2>1. told \in [Broadcasts -> SUBSET Sockets]
        BY DEF Inv, TypeOK
    <2>2. CASE told' = told
        BY <2>1, <2>2
    <2>3. CASE told' = [told EXCEPT ![b] = @ \cup {s}]
        BY <1>1, <2>1, <2>3
    <2> QED BY <1>2, <2>2, <2>3
<1>5. /\ position' \in [Broadcasts -> Nat]
      /\ \A o \in Broadcasts : position'[o] \in 1 .. Len(recipients[o]) + 1
    <2>1. position' = [position EXCEPT ![b] = @ + 1]
        BY DEF Tell
    <2>2. /\ position \in [Broadcasts -> Nat]
          /\ \A o \in Broadcasts :
                Len(recipients[o]) \in Nat /\ position[o] \in 1 .. Len(recipients[o]) + 1
        BY LenProperties DEF Inv, TypeOK
    <2> QED BY <1>1, <2>1, <2>2
<1>6. UNCHANGED <<version, client, handlers, stage, recipients>>
    BY DEF Tell
<1>7. TypeOK'
    BY <1>3, <1>4, <1>5, <1>6 DEF Inv, TypeOK, handlers
<1>8. Begun'
    BY <1>6 DEF Inv, TypeOK, Begun, Tell, handlers
<1>9. Served' = Served
    BY <1>6 DEF Served, handlers
<1>10. ListIsServed'
    BY <1>3, <1>6, <1>9 DEF Inv, ListIsServed, Served
<1> QED BY <1>7, <1>8, <1>10 DEF Inv

LEMMA InvStep == Inv /\ [Next]_vars => Inv'
<1> SUFFICES ASSUME Inv, [Next]_vars PROVE Inv'
    OBVIOUS
<1> USE DEF Inv
<1>1. CASE Publish
    BY <1>1, NumbersAssumption DEF Publish, TypeOK, Begun, ListIsServed, Served,
       handlers, broadcasts
<1>2. ASSUME NEW s \in Sockets, Arrive(s) PROVE Inv'
    BY <1>2 DEF Arrive, TypeOK, Begun, ListIsServed, Served, handlers, broadcasts
<1>3. ASSUME NEW s \in Sockets, Leave(s) PROVE Inv'
    BY <1>3 DEF Leave, TypeOK, Begun, ListIsServed, Served, handlers, broadcasts
<1>4. ASSUME NEW s \in Sockets, Accept(s) PROVE Inv'
    BY <1>4, AcceptInv
<1>5. ASSUME NEW s \in Sockets, Read(s) PROVE Inv'
    <2>1. CASE End(s)
        BY <2>1, EndInv
    <2>2. CASE ~End(s)
        <3>1. /\ pc[s] = "read" /\ pc' = [pc EXCEPT ![s] = "send"]
              /\ latest' = [latest EXCEPT ![s] = version]
              /\ UNCHANGED <<version, client, shown, list, broadcasts>>
            BY <1>5, <2>2 DEF Read
        <3>2. latest' \in [Sockets -> 0 .. MaxVersion] /\ shown' \in [Sockets -> -1 .. MaxVersion]
            BY <3>1 DEF TypeOK
        <3> QED BY <3>1, <3>2, ServeInv
    <2> QED BY <2>1, <2>2
<1>6. ASSUME NEW s \in Sockets, SendAnalysis(s) PROVE Inv'
    <2>1. CASE End(s)
        BY <2>1, EndInv
    <2>2. CASE ~End(s)
        <3>1. /\ pc[s] = "send" /\ pc' = [pc EXCEPT ![s] = "sleep"]
              /\ shown' = [shown EXCEPT ![s] = latest[s]]
              /\ latest' = [latest EXCEPT ![s] = 0]
              /\ UNCHANGED <<version, client, list, broadcasts>>
            BY <1>6, <2>2 DEF SendAnalysis
        <3>2. latest' \in [Sockets -> 0 .. MaxVersion] /\ shown' \in [Sockets -> -1 .. MaxVersion]
            BY <3>1, NumbersAssumption DEF TypeOK
        <3> QED BY <3>1, <3>2, ServeInv
    <2> QED BY <2>1, <2>2
<1>7. ASSUME NEW s \in Sockets, Wake(s) PROVE Inv'
    BY <1>7, ServeInv DEF Wake, TypeOK
<1>8. ASSUME NEW b \in Broadcasts, Begin(b) PROVE Inv'
    BY <1>8 DEF Begin, TypeOK, Begun, ListIsServed, Served, handlers
<1>9. ASSUME NEW b \in Broadcasts, Tell(b) PROVE Inv'
    BY <1>9, TellInv
<1>10. ASSUME NEW b \in Broadcasts, Return(b) PROVE Inv'
    BY <1>10 DEF Return, TypeOK, Begun, ListIsServed, Served, handlers
<1>11. CASE UNCHANGED vars
    BY <1>11 DEF vars, TypeOK, Begun, ListIsServed, Served, handlers, broadcasts
<1> QED BY <1>1, <1>2, <1>3, <1>4, <1>5, <1>6, <1>7, <1>8, <1>9, <1>10, <1>11
        DEF Next, Serve, Finished

LEMMA InitInv == Init => Inv
<1> SUFFICES ASSUME Init PROVE Inv
    OBVIOUS
<1>1. list = <<>> /\ ToSet(list) = {} /\ IsInjective(list) /\ Served = {}
    BY DEF Init, ToSet, IsInjective, Served
<1>2. TypeOK
    BY <1>1, NumbersAssumption DEF Init, TypeOK
<1>3. Begun /\ ListIsServed
    BY <1>1 DEF Init, Begun, ListIsServed
<1> QED BY <1>2, <1>3 DEF Inv

LEMMA InvIsKept == Spec => []Inv
  BY InitInv, InvStep, PTL DEF Spec

\* The list holds each socket once, and every place of a broadcast is in its copy.
THEOREM SocketTypes == Spec => []TypeOK
<1>1. Inv => TypeOK
    BY DEF Inv
<1> QED BY <1>1, InvIsKept, PTL

\* Whatever handlers and broadcasts drop at once, the list holds only sockets
\* that are served, and all of those whose clients are there.
THEOREM TheListIsTrue == Spec => []ListIsServed
<1>1. Inv => ListIsServed
    BY DEF Inv
<1> QED BY <1>1, InvIsKept, PTL

-----------------------------------------------------------------------------
(* A broadcast.  Of the copy it goes through, it has sent to those before  *)
(* its place, or they are gone; who is gone does not come back.            *)

Passed(b) ==
    \A i \in 1 .. position[b] - 1 :
        recipients[b][i] \in told[b] \/ client[recipients[b][i]] = "gone"

Progress ==
    /\ \A b \in Broadcasts : Passed(b)
    /\ \A b \in Broadcasts :
          stage[b] = "done" => position[b] = Len(recipients[b]) + 1

LEMMA GoneStayGone ==
    ASSUME Inv, [Next]_vars, NEW s, client[s] = "gone", s \in Sockets
    PROVE  client'[s] = "gone"
<1>1. ASSUME NEW o \in Sockets, Arrive(o) \/ Leave(o) \/ Serve(o) PROVE client'[s] = "gone"
    BY <1>1 DEF Inv, TypeOK, Arrive, Leave, Serve, Accept, Read, SendAnalysis, Wake, End
<1>2. ASSUME NEW b \in Broadcasts, Begin(b) \/ Tell(b) \/ Return(b) PROVE client' = client
    BY <1>2 DEF Begin, Tell, Return
<1>3. CASE Publish \/ Finished \/ UNCHANGED vars
    BY <1>3 DEF Publish, Finished, vars
<1> QED BY <1>1, <1>2, <1>3 DEF Next

\* Steps of others leave a broadcast what it has done.
LEMMA QuietProgress ==
    ASSUME Inv, [Next]_vars, NEW b \in Broadcasts, Passed(b),
           recipients'[b] = recipients[b], position'[b] = position[b],
           told'[b] = told[b]
    PROVE  Passed(b)'
<1>1. \A i \in 1 .. position[b] - 1 : recipients[b][i] \in Sockets
    <2>1. position[b] - 1 <= Len(recipients[b])
        BY LenProperties DEF Inv, TypeOK
    <2> QED BY <2>1, ElementOfSeq, LenProperties DEF Inv, TypeOK
<1> QED BY <1>1, GoneStayGone DEF Passed

LEMMA TellProgress ==
    ASSUME Inv, [Next]_vars, NEW b \in Broadcasts, Tell(b), Passed(b)
    PROVE  Passed(b)'
<1> DEFINE s == recipients[b][position[b]]
<1>1. /\ position'[b] = position[b] + 1 /\ position[b] \in Nat \ {0}
      /\ position[b] <= Len(recipients[b])
      /\ recipients' = recipients /\ client' = client
    BY LenProperties DEF Tell, Way, Inv, TypeOK
<1>2. s \in told'[b] \/ client'[s] = "gone"
    BY <1>1 DEF Tell, Way, Inv, TypeOK
<1>3. told[b] \subseteq told'[b]
    BY DEF Tell, Inv, TypeOK
<1> HIDE DEF s
<1>4. ASSUME NEW i \in 1 .. position'[b] - 1
      PROVE  recipients'[b][i] \in told'[b] \/ client'[recipients'[b][i]] = "gone"
    <2>1. CASE i = position[b]
        BY <1>1, <1>2, <2>1 DEF s
    <2>2. CASE i # position[b]
        <3>1. i \in 1 .. position[b] - 1
            BY <1>1, <2>2
        <3> QED BY <1>1, <1>3, <3>1 DEF Passed
    <2> QED BY <2>1, <2>2
<1> QED BY <1>4 DEF Passed

LEMMA ProgressStep == Inv /\ Progress /\ [Next]_vars => Progress'
<1> SUFFICES ASSUME Inv, Progress, [Next]_vars, NEW b \in Broadcasts
             PROVE  /\ Passed(b)'
                    /\ stage'[b] = "done" => position'[b] = Len(recipients'[b]) + 1
    BY DEF Progress
<1>1. /\ Passed(b)
      /\ stage[b] = "done" => position[b] = Len(recipients[b]) + 1
      /\ stage[b] = "idle" => position[b] = 1
      /\ position[b] \in 1 .. Len(recipients[b]) + 1 /\ Len(recipients[b]) \in Nat
      /\ DOMAIN recipients[b] = 1 .. Len(recipients[b])
    BY LenProperties DEF Progress, Inv, Begun, TypeOK
<1>2. CASE UNCHANGED broadcasts
    <2>1. UNCHANGED <<stage, recipients, position, told>>
        BY <1>2 DEF broadcasts
    <2> QED BY <1>1, <2>1, QuietProgress
<1>3. ASSUME NEW o \in Broadcasts \ {b}, Begin(o) \/ Tell(o) \/ Return(o)
      PROVE  UNCHANGED <<stage[b], recipients[b], position[b], told[b]>>
    BY <1>3 DEF Begin, Tell, Return, Inv, TypeOK
<1>4. CASE Begin(b)
    <2>1. stage'[b] = "send" /\ position'[b] = 1
        BY <1>1, <1>4 DEF Begin, Inv, TypeOK
    <2> QED BY <2>1 DEF Passed
<1>5. CASE Tell(b)
    <2>1. stage'[b] = "send"
        BY <1>5 DEF Tell
    <2> QED BY <1>1, <1>5, <2>1, TellProgress
<1>6. CASE Return(b)
    <2>1. UNCHANGED <<client, recipients, position, told>>
        BY <1>6 DEF Return, handlers
    <2>2. position[b] \notin 1 .. Len(recipients[b])
        BY <1>1, <1>6 DEF Return, Way
    <2> QED BY <1>1, <2>1, <2>2 DEF Passed
<1>7. CASE \E o \in Broadcasts \ {b} : Begin(o) \/ Tell(o) \/ Return(o)
    BY <1>1, <1>3, <1>7, QuietProgress
<1>8. ASSUME NEW s \in Sockets, Arrive(s) \/ Leave(s) \/ Serve(s)
      PROVE  UNCHANGED broadcasts
    BY <1>8 DEF Arrive, Leave, Serve, Accept, Read, SendAnalysis, Wake, End
<1>9. Publish \/ Finished \/ UNCHANGED vars => UNCHANGED broadcasts
    BY DEF Publish, Finished, vars
<1> QED BY <1>2, <1>4, <1>5, <1>6, <1>7, <1>8, <1>9 DEF Next

LEMMA InitProgress == Init => Progress
  BY DEF Init, Progress, Passed

\* A broadcast that has ended has sent to all it began with, except to those who
\* had gone, whatever was dropped from the list meanwhile.
THEOREM BroadcastsReachAll == Spec => []BroadcastReachesAll
<1>1. Inv /\ Progress => BroadcastReachesAll
    <2> SUFFICES ASSUME Inv, Progress, NEW b \in Broadcasts, stage[b] = "done",
                        NEW i \in DOMAIN recipients[b]
                 PROVE  recipients[b][i] \in told[b] \/ client[recipients[b][i]] = "gone"
        BY DEF BroadcastReachesAll, ToSet
    <2>1. i \in 1 .. position[b] - 1
        BY LenProperties DEF Progress, Inv, TypeOK
    <2> QED BY <2>1 DEF Progress, Passed
<1> QED BY <1>1, InitProgress, ProgressStep, InvIsKept, PTL DEF Spec
=============================================================================
