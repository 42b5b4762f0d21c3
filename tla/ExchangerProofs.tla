--------------------------- MODULE ExchangerProofs --------------------------
(***************************************************************************)
(* Proofs about the TCP exchange, for any world size and any number of      *)
(* repeated calls: nodes that have finished hold each other's data of the   *)
(* calls that succeeded, the received map is complete when it is collected, *)
(* and no client is left with a stream nobody holds.                        *)
(***************************************************************************)
EXTENDS Exchanger, FiniteSetTheorems, TLAPS

\* Past serving: the call connects, or has connected, to the greater ranks.
Past(i) == pc[i] \in {"connecting", "connect_read", "connect_write", "done", "connect_panic"}
Linked(i) == pc[i] \in {"connect_read", "connect_write"}

\* Where each call stands: a server holds a stream and data of lower ranks only, a client the
\* stream of its current call to its target.
PlaceAt(i) ==
  /\ pc[i] = "serve_read" => stream[i] # NoStream
  /\ pc[i] \in {"serving", "serve_read"} => \A j \in Ranks : i <= j => received[i][j] = NoData
  /\ Linked(i) => stream[i] = <<i, target[i], try[i]>> /\ target[i] < WorldSize
  /\ pc[i] \notin {"serve_read", "connect_read", "connect_write"} => stream[i] = NoStream
  /\ Past(i) => i < target[i]
  /\ pc[i] \in {"done", "connect_panic"} => target[i] = WorldSize
  /\ pc[i] # "out" => try[i] > 0
  /\ pc[i] # "serve_panic"
PlaceInv == \A i \in Ranks : PlaceAt(i)

\* What each call has received behind the serving loop: everything of the lower ranks, and
\* of the greater ones as far as its target.
MapAt(i) ==
  \A j \in Ranks :
    /\ Past(i) /\ j < i => received[i][j] # NoData
    /\ Past(i) /\ i < j =>
         (received[i][j] # NoData <=> j < target[i] \/ (j = target[i] /\ pc[i] = "connect_write"))
MapInv == \A i \in Ranks : MapAt(i)

\* A stream exists only once its client has connected it.
Opened(s) ==
  LET i == s[1]
  IN  \/ s[3] < try[i]
      \/ /\ s[3] = try[i]
         /\ pc[i] = "failed" \/ (Past(i) /\ (s[2] < target[i] \/ (s[2] = target[i] /\ Linked(i))))

\* Streams in a backlog lead to its node, and those of one client are in the order of its calls.
StreamInv ==
  /\ \A m \in down : Opened(m[1])
  /\ \A j \in Ranks :
       /\ \A k \in 1..Len(backlog[j]) : Opened(backlog[j][k]) /\ backlog[j][k][2] = j
       /\ \A k, l \in 1..Len(backlog[j]) :
            k < l /\ backlog[j][k][1] = backlog[j][l][1] => backlog[j][k][3] < backlog[j][l][3]

Waits(j, i) == pc[j] = "serve_read" /\ stream[j][1] = i

\* Node j has sent d to the current call of client i.  If d is of the current call of j, then
\* j reads from that client's stream or has its data; if not, j has nothing from i.
Met(i, j, d) ==
  /\ d[1] = j /\ d[2] <= try[j]
  /\ \A k \in 1..Len(backlog[j]) : backlog[j][k][1] # i
  /\ pc[j] # "failed" =>
       /\ d[2] = try[j] =>
            \/ pc[j] = "serve_read" /\ stream[j] = <<i, j, try[i]>>
            \/ received[j][i] = <<i, try[i]>> /\ ~Waits(j, i)
       /\ d[2] < try[j] => received[j][i] = NoData /\ ~Waits(j, i)

\* Everything a client has been sent in its current call was sent like that.
MetInv ==
  \A i, j \in Ranks : i < j =>
    /\ Past(i) /\ received[i][j] # NoData => Met(i, j, received[i][j])
    /\ pc[i] = "connect_read" /\ target[i] = j =>
         \A m \in down : m[1] = stream[i] => Met(i, j, m[2])

IInv ==
  TypeOK /\ PlaceInv /\ MapInv /\ StreamInv /\ MetInv /\ StreamsHeld /\ ConnectNeverPanics

-----------------------------------------------------------------------------
(* Types.                                                                  *)

\* Data and streams are tuples, and no tuple of theirs is the empty one.
LEMMA Tuples ==
  /\ \A d \in AnyData : d # NoData /\ d[1] \in Ranks /\ d[2] \in 1..MaxTries /\ d = <<d[1], d[2]>>
  /\ \A s \in Streams : /\ s # NoStream /\ s[1] \in Ranks /\ s[2] \in Ranks /\ s[3] \in 1..MaxTries
                        /\ s = <<s[1], s[2], s[3]>>
  /\ \A r \in Ranks, t \in 1..MaxTries : <<r, t>> \in AnyData
  /\ \A q, r \in Ranks, t \in 1..MaxTries : <<q, r, t>> \in Streams
<1>1. ASSUME NEW d \in AnyData PROVE d # NoData
  BY DEF AnyData, NoData
<1>2. ASSUME NEW s \in Streams PROVE s # NoStream
  <2>1. PICK q \in Ranks, r \in Ranks, t \in 1..MaxTries : s = <<q, r, t>>
    BY DEF Streams
  <2>2. Len(<<q, r, t>>) = 3 /\ Len(<< >>) = 0
    OBVIOUS
  <2> QED
    BY <2>1, <2>2 DEF NoStream
<1> QED
  BY <1>1, <1>2 DEF AnyData, Streams

\* Ranks are numbers below the world size.
LEMMA RankFacts ==
  /\ WorldSize \in Nat /\ MaxTries \in Nat
  /\ \A i \in Ranks : i \in Nat /\ i < WorldSize
  /\ \A i \in Nat : i < WorldSize => i \in Ranks
  BY ExchangerAssumption DEF Ranks

\* A call that has begun has a number, and its data is data.
LEMMA CallNumber ==
  ASSUME TypeOK, PlaceInv, NEW i \in Ranks, pc[i] # "out"
  PROVE  try[i] \in 1..MaxTries /\ Data(i) \in AnyData
<1>1. try[i] \in 1..MaxTries
  BY RankFacts DEF TypeOK, PlaceInv, PlaceAt
<1> QED
  BY <1>1, Tuples DEF Data

\* Dropping the listener keeps the types of the port.
LEMMA DropListenerTypes ==
  ASSUME TypeOK, NEW i \in Ranks, DropListener(i)
  PROVE  listening' \in [Ranks -> BOOLEAN] /\ backlog' \in [Ranks -> Seq(Streams)]
<1>1. << >> \in Seq(Streams)
  OBVIOUS
<1>2. backlog' \in [Ranks -> Seq(Streams)]
  BY <1>1 DEF DropListener, TypeOK
<1>3. listening' \in [Ranks -> BOOLEAN]
  BY DEF DropListener, TypeOK
<1> QED
  BY <1>2, <1>3

\* A backlog holds streams.
LEMMA BacklogStreams ==
  ASSUME TypeOK, NEW i \in Ranks
  PROVE  /\ backlog[i] \in Seq(Streams) /\ ToSet(backlog[i]) \subseteq Streams
         /\ ToSet(backlog[i]) = {backlog[i][k] : k \in 1..Len(backlog[i])}
         /\ backlog[i] # << >> => /\ Head(backlog[i]) = backlog[i][1]
                                  /\ Head(backlog[i]) \in Streams
                                  /\ Tail(backlog[i]) \in Seq(Streams)
                                  /\ Len(Tail(backlog[i])) = Len(backlog[i]) - 1
                                  /\ Len(backlog[i]) >= 1
                                  /\ \A k \in 1..(Len(backlog[i]) - 1) :
                                       Tail(backlog[i])[k] = backlog[i][k + 1]
<1>1. backlog[i] \in Seq(Streams)
  BY DEF TypeOK
<1> QED
  BY <1>1 DEF ToSet

\* The types are kept by every step.
LEMMA NextTypes ==
  ASSUME TypeOK, PlaceInv, [Next]_vars
  PROVE  TypeOK'
<1> USE RankFacts, Tuples
<1> DEFINE Pcs == {"out", "serving", "serve_read", "connecting", "connect_read",
                   "connect_write", "done", "failed", "serve_panic", "connect_panic"}
<1>1. ASSUME NEW i \in Ranks, NEW l \in Pcs, Goto(i, l) PROVE pc' \in [Ranks -> Pcs]
  BY <1>1 DEF Goto, TypeOK
<1>2. ASSUME NEW i \in Ranks, Bind(i) PROVE TypeOK'
  <2>1. try' \in [Ranks -> 0..MaxTries]
    <3>1. try[i] + 1 \in 0..MaxTries
      BY <1>2, ExchangerAssumption DEF Bind, MayCall, TypeOK
    <3> QED
      BY <1>2, <3>1 DEF Bind, TypeOK
  <2>2. received' \in [Ranks -> [Ranks -> AnyData \cup {NoData}]]
    <3>1. empty_map(i) \in [Ranks -> AnyData \cup {NoData}]
      BY DEF empty_map
    <3> QED
      BY <3>1, <1>2 DEF Bind, TypeOK
  <2>3. listening' \in [Ranks -> BOOLEAN]
    BY <1>2 DEF Bind, TypeOK
  <2> QED
    BY <2>1, <2>2, <2>3, <1>1, <1>2 DEF Bind, TypeOK, netVars
<1>3. ASSUME NEW i \in Ranks, BindFails(i) PROVE TypeOK'
  <2>1. try' \in [Ranks -> 0..MaxTries]
    <3>1. try[i] + 1 \in 0..MaxTries
      BY <1>3, ExchangerAssumption DEF BindFails, MayCall, TypeOK
    <3> QED
      BY <1>3, <3>1 DEF BindFails, TypeOK
  <2> QED
    BY <2>1, <1>1, <1>3 DEF BindFails, TypeOK, netVars, portVars
<1>4. ASSUME NEW i \in Ranks, Abort(i) PROVE TypeOK'
  <2>1. stream' \in [Ranks -> Streams \cup {NoStream}]
    BY <1>4 DEF Abort, TypeOK
  <2>2. listening' \in [Ranks -> BOOLEAN] /\ backlog' \in [Ranks -> Seq(Streams)]
    BY <1>4, DropListenerTypes DEF Abort
  <2>3. stream[i] \in Streams \cup {NoStream}
    BY DEF TypeOK
  <2>4. closed_c' \in SUBSET Streams /\ closed_s' \in SUBSET Streams
    BY <1>4, <2>3, BacklogStreams DEF Abort, TypeOK
  <2> QED
    BY <2>1, <2>2, <2>4, <1>1, <1>4 DEF Abort, TypeOK
<1>5. ASSUME NEW i \in Ranks, Accept(i) PROVE TypeOK'
  <2>1. Head(backlog[i]) \in Streams /\ Tail(backlog[i]) \in Seq(Streams)
    BY <1>5, BacklogStreams DEF Accept
  <2>2. Data(i) \in AnyData
    BY <1>5, CallNumber DEF Accept, StillServing
  <2>3. stream' \in [Ranks -> Streams \cup {NoStream}]
    BY <1>5, <2>1 DEF Accept, TypeOK
  <2>4. backlog' \in [Ranks -> Seq(Streams)]
    BY <1>5, <2>1 DEF Accept, TypeOK
  <2>5. down' \in SUBSET (Streams \X AnyData)
    <3>1. <<Head(backlog[i]), Data(i)>> \in Streams \X AnyData
      BY <2>1, <2>2
    <3> QED
      BY <3>1, <1>5 DEF Accept, TypeOK
  <2> QED
    BY <2>3, <2>4, <2>5, <1>1, <1>5 DEF Accept, TypeOK
<1>6. ASSUME NEW i \in Ranks, NEW r, NEW d \in AnyData, NEW range \in SUBSET Ranks,
             received' = [received EXCEPT ![i] = insert_if_valid(i, r, d, range)]
      PROVE  received' \in [Ranks -> [Ranks -> AnyData \cup {NoData}]]
  <2>1. received[i] \in [Ranks -> AnyData \cup {NoData}]
    BY DEF TypeOK
  <2>2. insert_if_valid(i, r, d, range) \in [Ranks -> AnyData \cup {NoData}]
    BY <2>1 DEF insert_if_valid
  <2> QED
    BY <1>6, <2>2 DEF TypeOK
<1>7. ASSUME NEW i \in Ranks, ServeRead(i) PROVE TypeOK'
  <2>1. stream[i] \in Streams
    BY <1>7 DEF ServeRead, TypeOK
  <2>2. Message(stream[i]) \in AnyData
    BY <2>1 DEF Message
  <2>3. LowerRanks(i) \in SUBSET Ranks
    BY DEF LowerRanks
  <2>4. received' \in [Ranks -> [Ranks -> AnyData \cup {NoData}]]
    BY <1>6, <1>7, <2>2, <2>3 DEF ServeRead
  <2>5. stream' \in [Ranks -> Streams \cup {NoStream}]
    BY <1>7 DEF ServeRead, TypeOK
  <2>6. pc' \in [Ranks -> Pcs]
    BY <1>1, <1>7 DEF ServeRead
  <2>7. up' \in SUBSET Streams /\ closed_s' \in SUBSET Streams
    BY <1>7, <2>1 DEF ServeRead, TypeOK
  <2> QED
    BY <2>4, <2>5, <2>6, <2>7, <1>7 DEF ServeRead, TypeOK, portVars
<1>8. ASSUME NEW i \in Ranks, ServeDone(i) PROVE TypeOK'
  <2>1. listening' \in [Ranks -> BOOLEAN] /\ backlog' \in [Ranks -> Seq(Streams)]
    BY <1>8, DropListenerTypes DEF ServeDone
  <2>2. target' \in [Ranks -> 0..WorldSize]
    BY <1>8 DEF ServeDone, TypeOK
  <2>3. closed_s' \in SUBSET Streams
    BY <1>8, BacklogStreams DEF ServeDone, TypeOK
  <2> QED
    BY <2>1, <2>2, <2>3, <1>1, <1>8 DEF ServeDone, TypeOK
<1>9. ASSUME NEW i \in Ranks, Connect(i) PROVE TypeOK'
  <2>1. target[i] \in Ranks /\ try[i] \in 1..MaxTries
    <3>1. pc[i] # "out" /\ target[i] < WorldSize
      BY <1>9 DEF Connect
    <3>2. target[i] \in Nat
      BY DEF TypeOK
    <3> QED
      BY <3>1, <3>2, CallNumber
  <2>2. <<i, target[i], try[i]>> \in Streams
    BY <2>1
  <2>3. stream' \in [Ranks -> Streams \cup {NoStream}]
    BY <1>9, <2>2 DEF Connect, TypeOK
  <2>4. PICK j \in Ranks : backlog' = [backlog EXCEPT ![j] = Append(@, <<i, target[i], try[i]>>)]
    BY <1>9 DEF Connect
  <2>5. backlog' \in [Ranks -> Seq(Streams)]
    <3>1. Append(backlog[j], <<i, target[i], try[i]>>) \in Seq(Streams)
      BY <2>2 DEF TypeOK
    <3> QED
      BY <2>4, <3>1 DEF TypeOK
  <2> QED
    BY <2>3, <2>5, <1>1, <1>9 DEF Connect, TypeOK, netVars
<1>10. ASSUME NEW i \in Ranks, ConnectRead(i) PROVE TypeOK'
  <2>1. PICK m \in down : /\ down' = down \ {m}
                          /\ received' = [received EXCEPT ![i] =
                               insert_if_valid(i, m[2][1], m[2], GreaterRanks(i))]
    BY <1>10 DEF ConnectRead
  <2>2. m[2] \in AnyData
    BY <2>1 DEF TypeOK
  <2>3. GreaterRanks(i) \in SUBSET Ranks
    BY DEF GreaterRanks
  <2>4. received' \in [Ranks -> [Ranks -> AnyData \cup {NoData}]]
    BY <1>6, <2>1, <2>2, <2>3
  <2> QED
    BY <2>1, <2>4, <1>1, <1>10 DEF ConnectRead, TypeOK, portVars
<1>11. ASSUME NEW i \in Ranks, ConnectWrite(i) PROVE TypeOK'
  <2>1. stream[i] \in Streams /\ target[i] < WorldSize
    <3>1. stream[i] = <<i, target[i], try[i]>> /\ target[i] < WorldSize
      BY <1>11 DEF ConnectWrite, PlaceInv, PlaceAt, Linked
    <3>2. target[i] \in Ranks /\ try[i] \in 1..MaxTries
      <4>1. pc[i] # "out"
        BY <1>11 DEF ConnectWrite
      <4>2. target[i] \in Nat
        BY DEF TypeOK
      <4> QED
        BY <3>1, <4>1, <4>2, CallNumber
    <3> QED
      BY <3>1, <3>2
  <2>2. target' \in [Ranks -> 0..WorldSize]
    <3>1. target' = [target EXCEPT ![i] = target[i] + 1]
      BY <1>11 DEF ConnectWrite
    <3>2. target[i] \in Nat
      BY DEF TypeOK
    <3>3. target[i] + 1 \in 0..WorldSize
      BY <2>1, <3>2
    <3> QED
      BY <3>1, <3>3 DEF TypeOK
  <2>3. stream' \in [Ranks -> Streams \cup {NoStream}]
    BY <1>11 DEF ConnectWrite, TypeOK
  <2> QED
    BY <2>1, <2>2, <2>3, <1>1, <1>11 DEF ConnectWrite, TypeOK, portVars
<1>12. ASSUME NEW i \in Ranks, Collect(i) PROVE TypeOK'
  BY <1>1, <1>12 DEF Collect, TypeOK, portVars, netVars
<1>13. ASSUME UNCHANGED vars PROVE TypeOK'
  BY <1>13 DEF vars, portVars, netVars, TypeOK
<1> QED
  BY <1>2, <1>3, <1>4, <1>5, <1>7, <1>8, <1>9, <1>10, <1>11, <1>12, <1>13
     DEF Next, exchange_all, ServeReadFails, ConnectReadFails, ConnectWriteFails, Timeout, Over

-----------------------------------------------------------------------------
(* What each step changes, node by node.                                   *)

\* A step of node i leaves the calls of the others alone.
Others(i) ==
  \A j \in Ranks : j # i =>
    /\ pc'[j] = pc[j] /\ stream'[j] = stream[j] /\ target'[j] = target[j]
    /\ try'[j] = try[j] /\ received'[j] = received[j]

\* It leaves their backlogs alone as well, unless it connects.
OtherBacklogs(i) == \A j \in Ranks : j # i => backlog'[j] = backlog[j]

\* Binding the port starts a new call.
LEMMA BindEffect ==
  ASSUME TypeOK, NEW i \in Ranks, Bind(i)
  PROVE  /\ Others(i) /\ UNCHANGED <<backlog, down, closed_s, target, stream>>
         /\ pc[i] \in {"out", "failed"} /\ pc'[i] = "serving" /\ try'[i] = try[i] + 1
         /\ \A j \in Ranks : received'[i][j] = NoData
  BY DEF TypeOK, Bind, MayCall, Goto, empty_map, Others, netVars

\* A failed bind only counts the call.
LEMMA BindFailsEffect ==
  ASSUME TypeOK, NEW i \in Ranks, BindFails(i)
  PROVE  /\ Others(i) /\ UNCHANGED <<backlog, down, closed_s, target, stream, received>>
         /\ pc[i] \in {"out", "failed"} /\ pc'[i] = "failed" /\ try'[i] = try[i] + 1
  BY DEF TypeOK, BindFails, MayCall, Goto, Others, netVars, portVars

\* A call that fails closes the server's ends it holds.
LEMMA AbortEffect ==
  ASSUME TypeOK, NEW i \in Ranks, Abort(i)
  PROVE  /\ Others(i) /\ OtherBacklogs(i) /\ UNCHANGED <<down, target, received, try>>
         /\ pc'[i] = "failed" /\ stream'[i] = NoStream /\ backlog'[i] = << >>
         /\ closed_s \subseteq closed_s'
         /\ \A s \in Streams : s \in ToSet(backlog[i]) \/ (s = stream[i] /\ s[1] # i) => s \in closed_s'
<1>1. Others(i) /\ OtherBacklogs(i)
  BY DEF TypeOK, Abort, Goto, DropListener, Others, OtherBacklogs
<1>2. pc'[i] = "failed" /\ stream'[i] = NoStream /\ backlog'[i] = << >>
  BY DEF TypeOK, Abort, Goto, DropListener
<1>3. ASSUME NEW s \in Streams, s \in ToSet(backlog[i]) \/ (s = stream[i] /\ s[1] # i)
      PROVE  s \in closed_s'
  BY <1>3, Tuples DEF Abort
<1> QED
  BY <1>1, <1>2, <1>3 DEF Abort

\* Accepting moves the first stream of the backlog into the hands of the server.
LEMMA AcceptEffect ==
  ASSUME TypeOK, NEW i \in Ranks, Accept(i)
  PROVE  /\ Others(i) /\ OtherBacklogs(i) /\ UNCHANGED <<closed_s, target, received, try>>
         /\ pc[i] = "serving" /\ pc'[i] = "serve_read"
         /\ Len(backlog[i]) >= 1 /\ backlog[i][1] \in Streams /\ stream'[i] = backlog[i][1]
         /\ Len(backlog'[i]) = Len(backlog[i]) - 1
         /\ \A k \in 1..Len(backlog'[i]) : k + 1 \in 1..Len(backlog[i])
                                           /\ backlog'[i][k] = backlog[i][k + 1]
         /\ down' = down \cup {<<backlog[i][1], <<i, try[i]>>>>}
<1>1. Others(i) /\ OtherBacklogs(i)
  BY DEF TypeOK, Accept, Goto, Others, OtherBacklogs
<1>2. /\ pc[i] = "serving" /\ pc'[i] = "serve_read" /\ backlog[i] # << >>
      /\ stream'[i] = Head(backlog[i]) /\ backlog'[i] = Tail(backlog[i])
      /\ down' = down \cup {<<Head(backlog[i]), <<i, try[i]>>>>}
      /\ UNCHANGED <<closed_s, target, received, try>>
  BY DEF TypeOK, Accept, StillServing, Goto, Data
<1>3. Len(backlog[i]) \in Nat
  BY BacklogStreams
<1>4. ASSUME NEW k \in 1..Len(backlog'[i])
      PROVE  k + 1 \in 1..Len(backlog[i]) /\ backlog'[i][k] = backlog[i][k + 1]
  BY <1>2, <1>3, BacklogStreams
<1> QED
  BY <1>1, <1>2, <1>4, BacklogStreams

\* Reading from a client enters its data under its rank.
LEMMA ServeReadEffect ==
  ASSUME TypeOK, NEW i \in Ranks, ServeRead(i)
  PROVE  /\ Others(i) /\ UNCHANGED <<backlog, target, try, down>>
         /\ pc[i] = "serve_read" /\ pc'[i] = "serving"
         /\ stream[i] \in Streams /\ stream'[i] = NoStream
         /\ closed_s' = closed_s \cup {stream[i]}
         /\ stream[i][1] < i => received'[i][stream[i][1]] = <<stream[i][1], stream[i][3]>>
         /\ \A j \in Ranks : j >= i \/ j # stream[i][1] => received'[i][j] = received[i][j]
<1>1. Others(i)
  BY DEF TypeOK, ServeRead, Goto, Others
<1>2. /\ pc[i] = "serve_read" /\ pc'[i] = "serving" /\ stream[i] \in Streams
      /\ stream'[i] = NoStream /\ closed_s' = closed_s \cup {stream[i]}
      /\ UNCHANGED <<backlog, target, try, down>>
  BY DEF TypeOK, ServeRead, Goto, portVars
<1>3. received[i] \in [Ranks -> AnyData \cup {NoData}]
  BY DEF TypeOK
<1>4. received'[i] = insert_if_valid(i, stream[i][1], <<stream[i][1], stream[i][3]>>, LowerRanks(i))
  BY DEF TypeOK, ServeRead, Message
<1>5. stream[i][1] \in Ranks
  BY <1>2, Tuples
<1>6. stream[i][1] \in LowerRanks(i) <=> stream[i][1] < i
  BY <1>5, RankFacts DEF LowerRanks
<1>7. stream[i][1] < i => received'[i][stream[i][1]] = <<stream[i][1], stream[i][3]>>
  BY <1>3, <1>4, <1>5, <1>6 DEF insert_if_valid
<1>8. ASSUME NEW j \in Ranks, j >= i \/ j # stream[i][1]
      PROVE  received'[i][j] = received[i][j]
  BY <1>3, <1>4, <1>5, <1>6, <1>8, RankFacts DEF insert_if_valid
<1> QED
  BY <1>1, <1>2, <1>7, <1>8

\* As many data as there are lower ranks, and of lower ranks only, are the data of them all.
LEMMA CountIsCoverage ==
  ASSUME TypeOK, PlaceInv, NEW i \in Ranks, pc[i] = "serving", ~StillServing(i)
  PROVE  ReceivedFrom(i, LowerRanks(i)) = LowerRanks(i)
<1>1. ReceivedFrom(i, Ranks) \subseteq LowerRanks(i)
  <2>1. \A j \in Ranks : i <= j => received[i][j] = NoData
    BY DEF PlaceInv, PlaceAt
  <2> QED
    BY <2>1, RankFacts DEF ReceivedFrom, LowerRanks
<1>2. IsFiniteSet(LowerRanks(i)) /\ Cardinality(LowerRanks(i)) \in Nat
  <2>1. IsFiniteSet(LowerRanks(i))
    BY RankFacts, FS_Interval DEF LowerRanks
  <2> QED
    BY <2>1, FS_CardinalityType
<1>3. /\ IsFiniteSet(ReceivedFrom(i, Ranks))
      /\ Cardinality(ReceivedFrom(i, Ranks)) <= Cardinality(LowerRanks(i))
      /\ Cardinality(ReceivedFrom(i, Ranks)) = Cardinality(LowerRanks(i))
           => ReceivedFrom(i, Ranks) = LowerRanks(i)
  BY <1>1, <1>2, FS_Subset
<1>4. Cardinality(ReceivedFrom(i, Ranks)) \in Nat
  BY <1>3, FS_CardinalityType
<1>5. ReceivedFrom(i, Ranks) = LowerRanks(i)
  BY <1>2, <1>3, <1>4 DEF StillServing
<1> QED
  BY <1>5 DEF ReceivedFrom

\* The end of serving drops the listener; every lower rank has been received.
LEMMA ServeDoneEffect ==
  ASSUME TypeOK, PlaceInv, NEW i \in Ranks, ServeDone(i)
  PROVE  /\ Others(i) /\ OtherBacklogs(i) /\ UNCHANGED <<down, received, try, stream>>
         /\ pc[i] = "serving" /\ pc'[i] = "connecting" /\ target'[i] = i + 1
         /\ backlog'[i] = << >> /\ closed_s' = closed_s \cup ToSet(backlog[i])
         /\ \A j \in Ranks : j < i => received[i][j] # NoData
<1>1. Others(i) /\ OtherBacklogs(i)
  BY DEF TypeOK, ServeDone, Goto, DropListener, Others, OtherBacklogs
<1>2. /\ pc[i] = "serving" /\ pc'[i] = "connecting" /\ target'[i] = i + 1 /\ backlog'[i] = << >>
      /\ closed_s' = closed_s \cup ToSet(backlog[i]) /\ UNCHANGED <<down, received, try, stream>>
  <2>1. ReceivedFrom(i, LowerRanks(i)) = LowerRanks(i)
    BY CountIsCoverage DEF ServeDone
  <2> QED
    BY <2>1 DEF TypeOK, ServeDone, Goto, DropListener
<1>3. ASSUME NEW j \in Ranks, j < i PROVE received[i][j] # NoData
  <2>1. j \in LowerRanks(i)
    BY <1>3, RankFacts DEF LowerRanks
  <2> QED
    BY <2>1, CountIsCoverage DEF ServeDone, ReceivedFrom
<1> QED
  BY <1>1, <1>2, <1>3

\* Connecting makes a stream of the current call to the target.
LEMMA ConnectPlace ==
  ASSUME TypeOK, NEW i \in Ranks, Connect(i)
  PROVE  /\ Others(i) /\ UNCHANGED <<down, received, try, target, closed_s>>
         /\ pc[i] = "connecting" /\ pc'[i] = "connect_read"
         /\ target[i] \in Ranks /\ target[i] < WorldSize
         /\ stream'[i] = <<i, target[i], try[i]>>
<1>1. Others(i)
  BY DEF TypeOK, Connect, Goto, Others
<1>2. /\ pc[i] = "connecting" /\ pc'[i] = "connect_read" /\ target[i] < WorldSize
      /\ stream'[i] = <<i, target[i], try[i]>>
      /\ UNCHANGED <<down, received, try, target, closed_s>>
  BY DEF TypeOK, Connect, Goto, netVars
<1>3. target[i] \in Ranks
  <2>1. target[i] \in Nat
    BY RankFacts DEF TypeOK
  <2> QED
    BY <1>2, <2>1, RankFacts
<1> QED
  BY <1>1, <1>2, <1>3

\* If every node has an address of its own, the stream is at the end of the target's backlog.
LEMMA ConnectEffect ==
  ASSUME TypeOK, OwnAddresses, NEW i \in Ranks, Connect(i)
  PROVE  /\ \A j \in Ranks : j # target[i] => backlog'[j] = backlog[j]
         /\ Len(backlog[target[i]]) \in Nat
         /\ Len(backlog'[target[i]]) = Len(backlog[target[i]]) + 1
         /\ \A k \in 1..Len(backlog[target[i]]) : backlog'[target[i]][k] = backlog[target[i]][k]
         /\ backlog'[target[i]][Len(backlog'[target[i]])] = <<i, target[i], try[i]>>
<1>1. target[i] \in Ranks
  BY ConnectPlace
<1>2. backlog' = [backlog EXCEPT ![target[i]] = Append(backlog[target[i]], <<i, target[i], try[i]>>)]
  <2>1. PICK j \in Ranks :
          /\ SameAddress(j, target[i])
          /\ backlog' = [backlog EXCEPT ![j] = Append(@, <<i, target[i], try[i]>>)]
    BY DEF Connect
  <2>2. j = target[i]
    BY <2>1 DEF SameAddress, OwnAddresses
  <2> QED
    BY <2>1, <2>2
<1>3. backlog \in [Ranks -> Seq(Streams)]
  BY DEF TypeOK
<1>4. backlog'[target[i]] = Append(backlog[target[i]], <<i, target[i], try[i]>>)
  BY <1>1, <1>2, <1>3
<1>5. \A j \in Ranks : j # target[i] => backlog'[j] = backlog[j]
  BY <1>1, <1>2, <1>3
<1>6. backlog[target[i]] \in Seq(Streams)
  BY <1>1, <1>3
<1> QED
  BY <1>4, <1>5, <1>6

\* Reading from a server enters its data under the rank it names.
LEMMA ConnectReadEffect ==
  ASSUME TypeOK, NEW i \in Ranks, ConnectRead(i)
  PROVE  /\ Others(i) /\ UNCHANGED <<backlog, target, try, stream, closed_s>>
         /\ pc[i] = "connect_read" /\ pc'[i] = "connect_write" /\ down' \subseteq down
         /\ \E m \in down :
              /\ m[1] = stream[i] /\ m[2] \in AnyData
              /\ i < m[2][1] => received'[i][m[2][1]] = m[2]
              /\ \A j \in Ranks : j <= i \/ j # m[2][1] => received'[i][j] = received[i][j]
<1>1. Others(i)
  BY DEF TypeOK, ConnectRead, Goto, Others
<1>2. /\ pc[i] = "connect_read" /\ pc'[i] = "connect_write"
      /\ UNCHANGED <<backlog, target, try, stream, closed_s>>
  BY DEF TypeOK, ConnectRead, Goto, portVars
<1>3. PICK m \in down : /\ m[1] = stream[i] /\ down' = down \ {m}
                        /\ received' = [received EXCEPT ![i] =
                             insert_if_valid(i, m[2][1], m[2], GreaterRanks(i))]
  BY DEF ConnectRead
<1>4. m[2] \in AnyData /\ m[2][1] \in Ranks
  BY Tuples DEF TypeOK
<1>5. received[i] \in [Ranks -> AnyData \cup {NoData}]
      /\ received'[i] = insert_if_valid(i, m[2][1], m[2], GreaterRanks(i))
  BY <1>3 DEF TypeOK
<1>6. m[2][1] \in GreaterRanks(i) <=> i < m[2][1]
  BY <1>4, RankFacts DEF GreaterRanks
<1>7. i < m[2][1] => received'[i][m[2][1]] = m[2]
  BY <1>4, <1>5, <1>6 DEF insert_if_valid
<1>8. ASSUME NEW j \in Ranks, j <= i \/ j # m[2][1] PROVE received'[i][j] = received[i][j]
  BY <1>4, <1>5, <1>6, <1>8, RankFacts DEF insert_if_valid
<1> QED
  BY <1>1, <1>2, <1>3, <1>4, <1>7, <1>8

\* Writing closes the client's stream and moves on to the next rank.
LEMMA ConnectWriteEffect ==
  ASSUME TypeOK, NEW i \in Ranks, ConnectWrite(i)
  PROVE  /\ Others(i) /\ UNCHANGED <<backlog, try, received, down, closed_s>>
         /\ pc[i] = "connect_write" /\ pc'[i] = "connecting"
         /\ target'[i] = target[i] + 1 /\ stream'[i] = NoStream
  BY DEF TypeOK, ConnectWrite, Goto, Others, portVars

\* Collecting ends the call.
LEMMA CollectEffect ==
  ASSUME TypeOK, NEW i \in Ranks, Collect(i)
  PROVE  /\ Others(i) /\ UNCHANGED <<backlog, try, received, down, closed_s, stream, target>>
         /\ pc[i] = "connecting" /\ target[i] = WorldSize
         /\ pc'[i] \in {"done", "connect_panic"}
         /\ (\A j \in Ranks : i < j => received[i][j] # NoData) => pc'[i] = "done"
<1>1. /\ Others(i) /\ UNCHANGED <<backlog, try, received, down, closed_s, stream, target>>
      /\ pc[i] = "connecting" /\ target[i] = WorldSize
      /\ pc'[i] = IF ReceivedFrom(i, GreaterRanks(i)) = GreaterRanks(i) THEN "done" ELSE "connect_panic"
  BY DEF TypeOK, Collect, Goto, Others, portVars, netVars
<1>2. (\A j \in Ranks : i < j => received[i][j] # NoData)
         => ReceivedFrom(i, GreaterRanks(i)) = GreaterRanks(i)
  BY RankFacts DEF ReceivedFrom, GreaterRanks
<1> QED
  BY <1>1, <1>2

-----------------------------------------------------------------------------
(* Where the calls stand and what they have received.                      *)

Acts(i) ==
  \/ Bind(i) \/ BindFails(i) \/ (pc[i] # "out" /\ Abort(i))
  \/ Accept(i) \/ ServeRead(i) \/ ServeDone(i)
  \/ Connect(i) \/ ConnectRead(i) \/ ConnectWrite(i) \/ Collect(i)

\* Every step is one of these of some node, or changes nothing.
LEMMA NextActs == [Next]_vars => (\E i \in Ranks : Acts(i)) \/ UNCHANGED vars
  BY DEF Next, exchange_all, ServeReadFails, ConnectReadFails, ConnectWriteFails, Timeout,
         Suspended, StillServing, Over, Acts

\* Whoever acts, the others stay where they are.
LEMMA ActsOthers ==
  ASSUME TypeOK, PlaceInv, NEW i \in Ranks, Acts(i)
  PROVE  Others(i)
  BY BindEffect, BindFailsEffect, AbortEffect, AcceptEffect, ServeReadEffect, ServeDoneEffect,
     ConnectPlace, ConnectReadEffect, ConnectWriteEffect, CollectEffect DEF Acts

\* The node that acts is where its call says.
LEMMA PlaceStep ==
  ASSUME TypeOK, PlaceInv, NEW i \in Ranks, Acts(i)
  PROVE  PlaceInv'
<1>1. ASSUME NEW j \in Ranks, j # i PROVE PlaceAt(j)'
  <2>1. PlaceAt(j)
    BY DEF PlaceInv
  <2> QED
    BY <1>1, <2>1, ActsOthers DEF Others, PlaceAt, Linked, Past
<1>2. PlaceAt(i)'
  <2> USE RankFacts DEF PlaceAt, Linked, Past
  <2>1. PlaceAt(i)
    BY DEF PlaceInv
  <2>2. try[i] \in Nat /\ target[i] \in Nat /\ i \in Nat
    BY DEF TypeOK
  <2>3. CASE Bind(i)
    BY <2>1, <2>2, <2>3, BindEffect
  <2>4. CASE BindFails(i)
    BY <2>1, <2>2, <2>4, BindFailsEffect
  <2>5. CASE pc[i] # "out" /\ Abort(i)
    BY <2>1, <2>2, <2>5, AbortEffect
  <2>6. CASE Accept(i)
    <3>1. /\ pc[i] = "serving" /\ pc'[i] = "serve_read" /\ try' = try
          /\ stream'[i] = backlog[i][1] /\ backlog[i][1] \in Streams /\ received' = received
      BY <2>6, AcceptEffect
    <3>2. backlog[i][1] # NoStream
      BY <3>1, Tuples
    <3> QED
      BY <2>1, <3>1, <3>2
  <2>7. CASE ServeRead(i)
    BY <2>1, <2>2, <2>7, ServeReadEffect
  <2>8. CASE ServeDone(i)
    BY <2>1, <2>2, <2>8, ServeDoneEffect
  <2>9. CASE Connect(i)
    BY <2>1, <2>2, <2>9, ConnectPlace
  <2>10. CASE ConnectRead(i)
    BY <2>1, <2>2, <2>10, ConnectReadEffect
  <2>11. CASE ConnectWrite(i)
    BY <2>1, <2>2, <2>11, ConnectWriteEffect
  <2>12. CASE Collect(i)
    BY <2>1, <2>2, <2>12, CollectEffect
  <2> QED
    BY <2>3, <2>4, <2>5, <2>6, <2>7, <2>8, <2>9, <2>10, <2>11, <2>12 DEF Acts
<1> QED
  BY <1>1, <1>2 DEF PlaceInv

\* The map of the node that acts is as full as it should be.
LEMMA MapStep ==
  ASSUME TypeOK, PlaceInv, MapInv, MetInv, NEW i \in Ranks, Acts(i)
  PROVE  MapInv'
<1>1. ASSUME NEW j \in Ranks, j # i PROVE MapAt(j)'
  <2>1. MapAt(j)
    BY DEF MapInv
  <2> QED
    BY <1>1, <2>1, ActsOthers DEF Others, MapAt, Past
<1>2. MapAt(i)'
  <2>1. MapAt(i)
    BY DEF MapInv
  <2>2. target[i] \in Nat /\ i \in Nat /\ WorldSize \in Nat
    BY RankFacts DEF TypeOK
  <2>3. \A j \in Ranks : j \in Nat /\ j < WorldSize
    BY RankFacts
  <2>4. PlaceAt(i)
    BY DEF PlaceInv
  <2>5. CASE Bind(i)
    BY <2>5, BindEffect DEF MapAt, Past
  <2>6. CASE BindFails(i) \/ Abort(i)
    BY <2>6, BindFailsEffect, AbortEffect DEF MapAt, Past
  <2>7. CASE Accept(i)
    BY <2>1, <2>7, AcceptEffect DEF MapAt, Past
  <2>8. CASE ServeRead(i)
    <3>1. pc[i] = "serve_read" /\ pc'[i] = "serving"
      BY <2>8, ServeReadEffect
    <3> QED
      BY <3>1 DEF MapAt, Past
  <2>9. CASE ServeDone(i)
    <3>1. \A j \in Ranks : i < j => received[i][j] = NoData
      BY <2>2, <2>3, <2>4, <2>9, ServeDoneEffect DEF PlaceAt
    <3> QED
      BY <2>2, <2>3, <2>9, <3>1, ServeDoneEffect DEF MapAt, Past
  <2>10. CASE Connect(i)
    BY <2>1, <2>10, ConnectPlace DEF MapAt, Past
  <2>11. CASE ConnectRead(i)
    <3>1. PICK m \in down :
              /\ m[1] = stream[i] /\ m[2] \in AnyData
              /\ i < m[2][1] => received'[i][m[2][1]] = m[2]
              /\ \A j \in Ranks : j <= i \/ j # m[2][1] => received'[i][j] = received[i][j]
      BY <2>11, ConnectReadEffect
    <3>2. pc[i] = "connect_read" /\ pc'[i] = "connect_write" /\ target'[i] = target[i]
      BY <2>11, ConnectReadEffect
    <3>3. i < target[i] /\ target[i] \in Ranks
      BY <3>2, <2>2, <2>4, RankFacts DEF PlaceAt, Past, Linked
    <3>4. m[2][1] = target[i] /\ m[2] # NoData
      BY <3>1, <3>2, <3>3, Tuples DEF MetInv, Met
    <3>5. received'[i][target[i]] # NoData
      BY <3>1, <3>3, <3>4
    <3> QED
      BY <2>1, <2>2, <2>3, <3>1, <3>2, <3>3, <3>4, <3>5 DEF MapAt, Past
  <2>12. CASE ConnectWrite(i)
    <3>1. /\ pc[i] = "connect_write" /\ pc'[i] = "connecting"
          /\ target'[i] = target[i] + 1 /\ received' = received
      BY <2>12, ConnectWriteEffect
    <3>2. Past(i) /\ Past(i)' /\ pc'[i] \notin {"serving", "serve_read", "connect_write"}
      BY <3>1 DEF Past
    <3>3. ASSUME NEW j \in Ranks
          PROVE  /\ j < i => received[i][j] # NoData
                 /\ i < j => (received[i][j] # NoData <=> j < target[i] \/ j = target[i])
      BY <2>1, <3>1, <3>2 DEF MapAt
    <3>4. ASSUME NEW j \in Ranks
          PROVE  j < target[i] \/ j = target[i] <=> j < target[i] + 1
      BY <2>2, <2>3
    <3> QED
      BY <3>1, <3>2, <3>3, <3>4 DEF MapAt
  <2>13. CASE Collect(i)
    BY <2>1, <2>2, <2>3, <2>13, CollectEffect DEF MapAt, Past
  <2> QED
    BY <2>5, <2>6, <2>7, <2>8, <2>9, <2>10, <2>11, <2>12, <2>13 DEF Acts
<1> QED
  BY <1>1, <1>2 DEF MapInv

-----------------------------------------------------------------------------
(* Streams.                                                                *)

\* Opened, after the step.
OpenedAfter(s) ==
  \/ s[3] < try'[s[1]]
  \/ /\ s[3] = try'[s[1]]
     /\ \/ pc'[s[1]] = "failed"
        \/ /\ pc'[s[1]] \in {"connecting", "connect_read", "connect_write", "done", "connect_panic"}
           /\ \/ s[2] < target'[s[1]]
              \/ s[2] = target'[s[1]] /\ pc'[s[1]] \in {"connect_read", "connect_write"}

\* A stream that has been connected stays so.
LEMMA OpenedKept ==
  ASSUME TypeOK, PlaceInv, NEW i \in Ranks, Acts(i), NEW s \in Streams, Opened(s)
  PROVE  OpenedAfter(s)
<1>1. /\ s[1] \in Ranks /\ s[2] \in Nat /\ s[3] \in Nat /\ try[s[1]] \in Nat /\ target[s[1]] \in Nat
      /\ i \in Nat
  BY Tuples, RankFacts DEF TypeOK
<1>2. CASE s[1] # i
  BY <1>1, <1>2, ActsOthers DEF Others, Opened, OpenedAfter, Past, Linked
<1>3. CASE s[1] = i
  <2> USE <1>1, <1>3 DEF Opened, OpenedAfter, Past, Linked
  <2>1. CASE Bind(i) \/ BindFails(i)
    BY <2>1, BindEffect, BindFailsEffect
  <2>2. CASE Abort(i)
    BY <2>2, AbortEffect
  <2>3. CASE Accept(i) \/ ServeRead(i)
    BY <2>3, AcceptEffect, ServeReadEffect
  <2>4. CASE ServeDone(i)
    BY <2>4, ServeDoneEffect
  <2>5. CASE Connect(i)
    BY <2>5, ConnectPlace
  <2>6. CASE ConnectRead(i)
    BY <2>6, ConnectReadEffect
  <2>7. CASE ConnectWrite(i)
    BY <2>7, ConnectWriteEffect
  <2>8. CASE Collect(i)
    BY <2>8, CollectEffect
  <2> QED
    BY <2>1, <2>2, <2>3, <2>4, <2>5, <2>6, <2>7, <2>8 DEF Acts
<1> QED
  BY <1>2, <1>3

\* The streams of a backlog, one node at a time.
BacklogAt(j) ==
  /\ \A k \in 1..Len(backlog[j]) : Opened(backlog[j][k]) /\ backlog[j][k][2] = j
  /\ \A k, l \in 1..Len(backlog[j]) :
       k < l /\ backlog[j][k][1] = backlog[j][l][1] => backlog[j][k][3] < backlog[j][l][3]

\* A backlog is in order after the step if its streams have been connected by then.
LEMMA BacklogAfter ==
  ASSUME NEW j,
         \A k \in 1..Len(backlog'[j]) : OpenedAfter(backlog'[j][k]) /\ backlog'[j][k][2] = j,
         \A k, l \in 1..Len(backlog'[j]) :
           k < l /\ backlog'[j][k][1] = backlog'[j][l][1] => backlog'[j][k][3] < backlog'[j][l][3]
  PROVE  BacklogAt(j)'
<1>1. ASSUME NEW k \in 1..Len(backlog'[j]) PROVE Opened(backlog[j][k])' /\ backlog'[j][k][2] = j
  BY DEF Opened, OpenedAfter, Past, Linked
<1> QED
  BY <1>1 DEF BacklogAt

\* A backlog that the step leaves alone, or empties, stays in order.
LEMMA BacklogKept ==
  ASSUME TypeOK, PlaceInv, StreamInv, NEW i \in Ranks, Acts(i), NEW j \in Ranks,
         backlog'[j] = backlog[j] \/ backlog'[j] = << >>
  PROVE  BacklogAt(j)'
<1>1. CASE backlog'[j] = << >>
  BY <1>1 DEF BacklogAt
<1>2. CASE backlog'[j] = backlog[j]
  <2>1. \A k \in 1..Len(backlog[j]) : backlog[j][k] \in Streams
    BY BacklogStreams
  <2>2. \A k \in 1..Len(backlog[j]) : OpenedAfter(backlog[j][k])
    BY <2>1, OpenedKept DEF StreamInv
  <2> QED
    BY <1>2, <2>2, BacklogAfter, SMTT(30) DEF StreamInv, BacklogAt
<1> QED
  BY <1>1, <1>2

\* Messages sent before the step are still on streams that exist.
LEMMA DownKept ==
  ASSUME TypeOK, PlaceInv, StreamInv, NEW i \in Ranks, Acts(i), NEW m \in down
  PROVE  OpenedAfter(m[1])
<1>1. m[1] \in Streams /\ Opened(m[1])
  BY DEF TypeOK, StreamInv
<1> QED
  BY <1>1, OpenedKept

\* Streams are only put into backlogs in order, and only messages on streams are sent.
LEMMA StreamStep ==
  ASSUME TypeOK, OwnAddresses, PlaceInv, StreamInv, NEW i \in Ranks, Acts(i)
  PROVE  StreamInv'
<1>1. SUFFICES /\ \A m \in down' : OpenedAfter(m[1])
               /\ \A j \in Ranks : BacklogAt(j)'
  BY DEF StreamInv, BacklogAt, OpenedAfter, Opened, Past, Linked
<1>2. CASE Accept(i)
  <2>1. /\ backlog[i][1] \in Streams /\ Len(backlog[i]) >= 1 /\ Len(backlog[i]) \in Nat
        /\ down' = down \cup {<<backlog[i][1], <<i, try[i]>>>>}
        /\ Len(backlog'[i]) = Len(backlog[i]) - 1
        /\ \A k \in 1..Len(backlog'[i]) : k + 1 \in 1..Len(backlog[i])
                                           /\ backlog'[i][k] = backlog[i][k + 1]
    BY <1>2, AcceptEffect, BacklogStreams
  <2>2. \A k \in 1..Len(backlog[i]) : backlog[i][k] \in Streams
    BY BacklogStreams
  <2>3. \A k \in 1..Len(backlog[i]) : OpenedAfter(backlog[i][k]) /\ backlog[i][k][2] = i
    BY <2>2, OpenedKept DEF StreamInv
  <2>4. \A m \in down' : OpenedAfter(m[1])
    BY <2>1, <2>3, DownKept
  <2>5. \A k \in 1..Len(backlog'[i]) : OpenedAfter(backlog'[i][k]) /\ backlog'[i][k][2] = i
    BY <2>1, <2>3
  <2>6. ASSUME NEW k \in 1..Len(backlog'[i]), NEW l \in 1..Len(backlog'[i]),
               k < l, backlog'[i][k][1] = backlog'[i][l][1]
        PROVE  backlog'[i][k][3] < backlog'[i][l][3]
    <3>1. k + 1 \in 1..Len(backlog[i]) /\ l + 1 \in 1..Len(backlog[i]) /\ k + 1 < l + 1
      BY <2>1, <2>6
    <3>2. backlog'[i][k] = backlog[i][k + 1] /\ backlog'[i][l] = backlog[i][l + 1]
      BY <2>1
    <3> QED
      BY <2>6, <3>1, <3>2 DEF StreamInv
  <2>7. BacklogAt(i)'
    BY <2>5, <2>6, BacklogAfter
  <2>8. ASSUME NEW j \in Ranks, j # i PROVE BacklogAt(j)'
    BY <1>2, <2>8, AcceptEffect, BacklogKept DEF OtherBacklogs
  <2> QED
    BY <2>4, <2>7, <2>8
<1>3. CASE Connect(i)
  <2> DEFINE t == target[i]
             s == <<i, t, try[i]>>
             n == Len(backlog[t])
  <2>1. /\ t \in Ranks /\ n \in Nat /\ Len(backlog'[t]) = n + 1
        /\ \A k \in 1..n : backlog'[t][k] = backlog[t][k]
        /\ backlog'[t][n + 1] = s
        /\ pc[i] = "connecting" /\ pc'[i] = "connect_read"
        /\ UNCHANGED <<down, try, target>>
    BY <1>3, ConnectPlace, ConnectEffect
  <2>2. \A k \in 1..n : backlog[t][k] \in Streams
    BY <2>1, BacklogStreams
  <2>3. \A k \in 1..n : /\ OpenedAfter(backlog[t][k]) /\ backlog[t][k][2] = t
                        /\ backlog[t][k][1] = i => backlog[t][k][3] < try[i]
    <3>1. SUFFICES ASSUME NEW k \in 1..n
                   PROVE  /\ OpenedAfter(backlog[t][k]) /\ backlog[t][k][2] = t
                          /\ backlog[t][k][1] = i => backlog[t][k][3] < try[i]
      OBVIOUS
    <3>2. Opened(backlog[t][k]) /\ backlog[t][k][2] = t /\ backlog[t][k] \in Streams
      BY <2>1, <2>2 DEF StreamInv
    <3>3. OpenedAfter(backlog[t][k])
      BY <3>2, OpenedKept
    <3>4. t \in Nat
      BY <2>1, RankFacts
    <3>5. backlog[t][k][1] = i => backlog[t][k][3] < try[i]
      BY <3>2, <3>4, <2>1 DEF Opened, Past, Linked
    <3> QED
      BY <3>2, <3>3, <3>5
  <2>4. OpenedAfter(s)
    <3>1. s[1] = i /\ s[2] = t /\ s[3] = try[i]
      OBVIOUS
    <3>2. /\ try'[i] = try[i] /\ target'[i] = t /\ pc'[i] = "connect_read"
      BY <2>1
    <3> HIDE DEF s, t
    <3> QED
      BY <3>1, <3>2 DEF OpenedAfter, Past, Linked
  <2>5. \A k \in 1..Len(backlog'[t]) : OpenedAfter(backlog'[t][k]) /\ backlog'[t][k][2] = t
    <3>1. s[2] = t
      OBVIOUS
    <3> HIDE DEF s, n, t
    <3> SUFFICES ASSUME NEW k \in 1..Len(backlog'[t])
                 PROVE  OpenedAfter(backlog'[t][k]) /\ backlog'[t][k][2] = t
      OBVIOUS
    <3>2. CASE k = n + 1
      BY <3>1, <3>2, <2>1, <2>4
    <3>3. CASE k \in 1..n
      BY <3>3, <2>1, <2>3
    <3> QED
      BY <2>1, <3>2, <3>3
  <2>6. ASSUME NEW k \in 1..Len(backlog'[t]), NEW l \in 1..Len(backlog'[t]),
               k < l, backlog'[t][k][1] = backlog'[t][l][1]
        PROVE  backlog'[t][k][3] < backlog'[t][l][3]
    <3>1. s[1] = i /\ s[3] = try[i]
      OBVIOUS
    <3> HIDE DEF s
    <3>2. k \in 1..n
      BY <2>1, <2>6
    <3>3. CASE l = n + 1
      BY <3>1, <3>2, <3>3, <2>1, <2>3, <2>6
    <3>4. CASE l \in 1..n
      BY <3>2, <3>4, <2>1, <2>6 DEF StreamInv
    <3> QED
      BY <2>1, <3>3, <3>4
  <2>7. ASSUME NEW j \in Ranks PROVE BacklogAt(j)'
    <3>1. CASE j # t
      BY <1>3, <3>1, ConnectPlace, ConnectEffect, BacklogKept
    <3>2. CASE j = t
      <4>1. \A k \in 1..Len(backlog'[j]) : OpenedAfter(backlog'[j][k]) /\ backlog'[j][k][2] = j
        BY <3>2, <2>5
      <4>2. \A k, l \in 1..Len(backlog'[j]) :
              k < l /\ backlog'[j][k][1] = backlog'[j][l][1]
                => backlog'[j][k][3] < backlog'[j][l][3]
        BY <3>2, <2>6
      <4> QED
        BY <4>1, <4>2, BacklogAfter
    <3> QED
      BY <3>1, <3>2
  <2> QED
    BY <2>1, <2>7, DownKept
<1>4. CASE ~Accept(i) /\ ~Connect(i)
  <2>1. /\ down' \subseteq down
        /\ \A j \in Ranks : backlog'[j] = backlog[j] \/ backlog'[j] = << >>
    BY <1>4, BindEffect, BindFailsEffect, AbortEffect, ServeReadEffect, ServeDoneEffect,
       ConnectReadEffect, ConnectWriteEffect, CollectEffect DEF Acts, OtherBacklogs
  <2> QED
    BY <2>1, BacklogKept, DownKept
<1> QED
  BY <1>2, <1>3, <1>4

-----------------------------------------------------------------------------
(* What a client has been sent, and what its server has of it.             *)

\* Met, after the step.
MetAfter(i, j, d) ==
  /\ d[1] = j /\ d[2] <= try'[j]
  /\ \A k \in 1..Len(backlog'[j]) : backlog'[j][k][1] # i
  /\ pc'[j] # "failed" =>
       /\ d[2] = try'[j] =>
            \/ pc'[j] = "serve_read" /\ stream'[j] = <<i, j, try'[i]>>
            \/ /\ received'[j][i] = <<i, try'[i]>>
               /\ ~(pc'[j] = "serve_read" /\ stream'[j][1] = i)
       /\ d[2] < try'[j] =>
            /\ received'[j][i] = NoData
            /\ ~(pc'[j] = "serve_read" /\ stream'[j][1] = i)

\* Nothing changes for a client if its server and the backlog of that are left alone.
LEMMA MetKept ==
  ASSUME NEW i, NEW j, NEW d, Met(i, j, d), try'[i] = try[i],
         pc'[j] = pc[j], stream'[j] = stream[j], try'[j] = try[j],
         received'[j][i] = received[j][i],
         \A k \in 1..Len(backlog'[j]) : backlog'[j][k][1] # i
  PROVE  MetAfter(i, j, d)
<1>1. d[1] = j /\ d[2] <= try'[j]
  BY DEF Met
<1>2. ASSUME pc'[j] # "failed", d[2] = try'[j]
      PROVE  \/ pc'[j] = "serve_read" /\ stream'[j] = <<i, j, try'[i]>>
             \/ /\ received'[j][i] = <<i, try'[i]>>
                /\ ~(pc'[j] = "serve_read" /\ stream'[j][1] = i)
  BY <1>2 DEF Met, Waits
<1>3. ASSUME pc'[j] # "failed", d[2] < try'[j]
      PROVE  /\ received'[j][i] = NoData
             /\ ~(pc'[j] = "serve_read" /\ stream'[j][1] = i)
  BY <1>3 DEF Met, Waits
<1> QED
  BY <1>1, <1>2, <1>3, Zenon DEF MetAfter

\* Whatever the server does next, it reads from the client it has sent its data to, fails,
\* or begins a new call with nothing from that client.
LEMMA ServerStep ==
  ASSUME TypeOK, OwnAddresses, PlaceInv, NEW j \in Ranks, Acts(j), NEW i \in Ranks, i < j,
         NEW d \in AnyData, Met(i, j, d)
  PROVE  MetAfter(i, j, d)
<1>1. try[j] \in Nat /\ d[2] \in Nat /\ i \in Nat /\ j \in Nat /\ i # j
  <2>1. try[j] \in 0..MaxTries
    BY DEF TypeOK
  <2>2. d[2] \in 1..MaxTries
    BY Tuples
  <2> QED
    BY <2>1, <2>2, RankFacts
<1>2. try'[i] = try[i]
  BY <1>1, ActsOthers DEF Others
<1>3. d[1] = j /\ d[2] <= try[j] /\ \A k \in 1..Len(backlog[j]) : backlog[j][k][1] # i
  BY DEF Met
<1>4. CASE Bind(j)
  BY <1>1, <1>2, <1>3, <1>4, BindEffect DEF MetAfter
<1>5. CASE BindFails(j)
  BY <1>1, <1>2, <1>3, <1>5, BindFailsEffect DEF MetAfter
<1>6. CASE Abort(j)
  <2>1. try'[j] = try[j] /\ backlog'[j] = << >> /\ pc'[j] = "failed"
    BY <1>6, AbortEffect
  <2> QED
    BY <1>3, <2>1 DEF MetAfter
<1>7. CASE Accept(j)
  <2>1. /\ pc[j] = "serving" /\ pc'[j] = "serve_read" /\ stream'[j] = backlog[j][1]
        /\ try'[j] = try[j] /\ received'[j] = received[j] /\ Len(backlog[j]) >= 1
        /\ Len(backlog[j]) \in Nat
        /\ \A k \in 1..Len(backlog'[j]) : k + 1 \in 1..Len(backlog[j])
                                           /\ backlog'[j][k] = backlog[j][k + 1]
    BY <1>7, AcceptEffect, BacklogStreams
  <2>2. stream'[j][1] # i
    BY <1>3, <2>1
  <2>3. \A k \in 1..Len(backlog'[j]) : backlog'[j][k][1] # i
    BY <1>3, <2>1
  <2>4. /\ d[2] = try[j] => received[j][i] = <<i, try[i]>>
        /\ d[2] < try[j] => received[j][i] = NoData
    BY <2>1 DEF Met
  <2> QED
    BY <1>2, <1>3, <2>1, <2>2, <2>3, <2>4 DEF MetAfter
<1>8. CASE ServeRead(j)
  <2>1. /\ pc[j] = "serve_read" /\ pc'[j] = "serving"
        /\ backlog'[j] = backlog[j] /\ try'[j] = try[j]
        /\ stream[j][1] < j => received'[j][stream[j][1]] = <<stream[j][1], stream[j][3]>>
        /\ i # stream[j][1] => received'[j][i] = received[j][i]
    BY <1>8, ServeReadEffect
  <2>2. d[2] = try[j] => received'[j][i] = <<i, try[i]>>
    <3>1. SUFFICES ASSUME d[2] = try[j] PROVE received'[j][i] = <<i, try[i]>>
      OBVIOUS
    <3>2. CASE stream[j] = <<i, j, try[i]>>
      BY <2>1, <3>2
    <3>3. CASE received[j][i] = <<i, try[i]>> /\ ~Waits(j, i)
      BY <2>1, <3>3 DEF Waits
    <3> QED
      BY <2>1, <3>1, <3>2, <3>3 DEF Met
  <2>3. d[2] < try[j] => received'[j][i] = NoData
    BY <2>1 DEF Met, Waits
  <2> QED
    BY <1>2, <1>3, <2>1, <2>2, <2>3 DEF MetAfter
<1>9. ASSUME pc[j] \notin {"failed", "serve_read"}, pc'[j] # "serve_read", try'[j] = try[j],
             received'[j][i] = received[j][i], backlog'[j] = backlog[j] \/ backlog'[j] = << >>
      PROVE  MetAfter(i, j, d)
  BY <1>2, <1>3, <1>9 DEF Met, MetAfter
<1>10. CASE ServeDone(j)
  BY <1>9, <1>10, ServeDoneEffect
<1>11. CASE Connect(j)
  <2>1. j # target[j]
    BY <1>1, <1>11, ConnectPlace, ConnectEffect DEF PlaceInv, PlaceAt, Past
  <2> QED
    BY <1>9, <1>11, <2>1, ConnectPlace, ConnectEffect
<1>12. CASE ConnectRead(j)
  <2>1. received'[j][i] = received[j][i]
    BY <1>1, <1>12, ConnectReadEffect
  <2> QED
    BY <1>9, <1>12, <2>1, ConnectReadEffect
<1>13. CASE ConnectWrite(j)
  BY <1>9, <1>13, ConnectWriteEffect
<1>14. CASE Collect(j)
  BY <1>9, <1>14, CollectEffect
<1> QED
  BY <1>4, <1>5, <1>6, <1>7, <1>8, <1>10, <1>11, <1>12, <1>13, <1>14 DEF Acts

\* The two parts of MetInv for client i and server j, after the step.
HasAfter(i, j) ==
  pc'[i] \in {"connecting", "connect_read", "connect_write", "done", "connect_panic"} =>
    (received'[i][j] # NoData => MetAfter(i, j, received'[i][j]))
SentAfter(i, j) ==
  pc'[i] = "connect_read" /\ target'[i] = j =>
    \A m \in down' : m[1] = stream'[i] => MetAfter(i, j, m[2])

\* MetInv after the step is just that for every pair.
LEMMA MetInvAfter ==
  ASSUME \A i, j \in Ranks : i < j => HasAfter(i, j) /\ SentAfter(i, j)
  PROVE  MetInv'
<1>1. ASSUME NEW i \in Ranks, NEW j \in Ranks, i < j
      PROVE  (Past(i) /\ received[i][j] # NoData => Met(i, j, received[i][j]))'
  <2>1. HasAfter(i, j)
    BY <1>1
  <2> QED
    BY <2>1 DEF HasAfter, Past, Met, MetAfter, Waits
<1>2. ASSUME NEW i \in Ranks, NEW j \in Ranks, i < j
      PROVE  (pc[i] = "connect_read" /\ target[i] = j =>
                \A m \in down : m[1] = stream[i] => Met(i, j, m[2]))'
  <2>1. SentAfter(i, j)
    BY <1>2
  <2> QED
    BY <2>1 DEF SentAfter, Met, MetAfter, Waits
<1> QED
  BY <1>1, <1>2 DEF MetInv

\* The server of the pair acts.
LEMMA MetServer ==
  ASSUME TypeOK, OwnAddresses, PlaceInv, StreamInv, MetInv, NEW j \in Ranks, Acts(j), NEW i \in Ranks, i < j
  PROVE  HasAfter(i, j) /\ SentAfter(i, j)
<1>1. /\ i # j /\ i \in Nat /\ j \in Nat
      /\ pc'[i] = pc[i] /\ stream'[i] = stream[i] /\ target'[i] = target[i]
      /\ try'[i] = try[i] /\ received'[i] = received[i]
  BY RankFacts, ActsOthers DEF Others
<1>2. HasAfter(i, j)
  <2>1. SUFFICES ASSUME Past(i), received[i][j] # NoData PROVE MetAfter(i, j, received[i][j])
    BY <1>1 DEF HasAfter, Past
  <2>2. received[i][j] \in AnyData
    BY <2>1 DEF TypeOK
  <2>3. Met(i, j, received[i][j])
    BY <2>1 DEF MetInv
  <2> QED
    BY <2>2, <2>3, ServerStep
<1>3. SentAfter(i, j)
  <2>1. SUFFICES ASSUME pc[i] = "connect_read", target[i] = j,
                        NEW m \in down', m[1] = stream[i]
                 PROVE  MetAfter(i, j, m[2])
    BY <1>1 DEF SentAfter
  <2>2. CASE m \in down
    <3>1. m[2] \in AnyData
      BY <2>2 DEF TypeOK
    <3>2. Met(i, j, m[2])
      BY <2>1, <2>2 DEF MetInv
    <3> QED
      BY <3>1, <3>2, ServerStep
  <2>3. CASE m \notin down
    <3>1. Accept(j)
      BY <2>1, <2>3, BindEffect, BindFailsEffect, AbortEffect, ServeReadEffect, ServeDoneEffect,
         ConnectPlace, ConnectReadEffect, ConnectWriteEffect, CollectEffect DEF Acts
    <3>2. /\ pc'[j] = "serve_read" /\ stream'[j] = backlog[j][1] /\ try'[j] = try[j]
          /\ Len(backlog[j]) >= 1 /\ Len(backlog[j]) \in Nat
          /\ down' = down \cup {<<backlog[j][1], <<j, try[j]>>>>}
          /\ \A k \in 1..Len(backlog'[j]) : k + 1 \in 1..Len(backlog[j])
                                            /\ backlog'[j][k] = backlog[j][k + 1]
      <4>1. Len(backlog[j]) \in Nat
        BY BacklogStreams
      <4> QED
        BY <3>1, <4>1, AcceptEffect, Zenon
    <3>3. m = <<backlog[j][1], <<j, try[j]>>>>
      BY <2>1, <2>3, <3>2
    <3>4. m[2] = <<j, try[j]>> /\ m[1] = backlog[j][1]
      BY <3>3
    <3>5. backlog[j][1] = <<i, j, try[i]>>
      BY <2>1, <3>4 DEF PlaceInv, PlaceAt, Linked
    <3>6. backlog[j][1][1] = i /\ backlog[j][1][3] = try[i]
      BY <3>5
    <3>7. ASSUME NEW k \in 1..Len(backlog'[j]) PROVE backlog'[j][k][1] # i
      <4>1. SUFFICES ASSUME backlog[j][k + 1][1] = i PROVE FALSE
        BY <3>2, <3>7
      <4>2. 1 \in 1..Len(backlog[j]) /\ k + 1 \in 1..Len(backlog[j]) /\ 1 < k + 1
        BY <3>2, <3>7
      <4>3. backlog[j][1][3] < backlog[j][k + 1][3]
        BY <3>6, <4>1, <4>2 DEF StreamInv
      <4>4. backlog[j][k + 1] \in Streams /\ Opened(backlog[j][k + 1])
        BY <4>2, BacklogStreams DEF StreamInv
      <4>5. backlog[j][k + 1][3] \in Nat /\ try[i] \in Nat
        BY <4>4, Tuples, RankFacts, SMTT(30) DEF TypeOK
      <4>6. backlog[j][k + 1][3] <= try[i]
        BY <4>1, <4>4, <4>5 DEF Opened
      <4> QED
        BY <3>6, <4>3, <4>5, <4>6
    <3>8. try[j] \in Nat
      BY RankFacts DEF TypeOK
    <3>9. m[2][1] = j /\ m[2][2] = try[j]
      BY <3>4
    <3> QED
      BY <1>1, <3>2, <3>5, <3>7, <3>8, <3>9 DEF MetAfter
  <2> QED
    BY <2>2, <2>3
<1> QED
  BY <1>2, <1>3

\* The client of the pair acts.
LEMMA MetClient ==
  ASSUME TypeOK, OwnAddresses, PlaceInv, MapInv, StreamInv, MetInv, NEW i \in Ranks, Acts(i),
         NEW j \in Ranks, i < j
  PROVE  HasAfter(i, j) /\ SentAfter(i, j)
<1>1. /\ i # j /\ i \in Nat /\ j \in Nat
      /\ pc'[j] = pc[j] /\ stream'[j] = stream[j] /\ try'[j] = try[j] /\ received'[j] = received[j]
  BY RankFacts, ActsOthers DEF Others
<1>2. MapAt(i) /\ PlaceAt(i)
  BY DEF MapInv, PlaceInv
<1>3. ASSUME NEW d, Met(i, j, d), try'[i] = try[i], backlog'[j] = backlog[j]
      PROVE  MetAfter(i, j, d)
  BY <1>1, <1>3, MetKept DEF Met
<1>4. CASE Bind(i) \/ BindFails(i) \/ Abort(i) \/ Accept(i) \/ ServeRead(i)
  <2>1. pc'[i] \in {"serving", "serve_read", "failed"}
    BY <1>4, BindEffect, BindFailsEffect, AbortEffect, AcceptEffect, ServeReadEffect
  <2> QED
    BY <2>1 DEF HasAfter, SentAfter
<1>5. CASE ServeDone(i)
  <2>1. pc[i] = "serving" /\ pc'[i] = "connecting" /\ received'[i] = received[i]
    BY <1>5, ServeDoneEffect
  <2>2. received[i][j] = NoData
    BY <1>1, <1>2, <2>1 DEF PlaceAt
  <2> QED
    BY <2>1, <2>2 DEF HasAfter, SentAfter
<1>6. CASE Connect(i)
  <2>1. /\ pc[i] = "connecting" /\ pc'[i] = "connect_read" /\ received'[i] = received[i]
        /\ target'[i] = target[i] /\ try'[i] = try[i] /\ down' = down
        /\ stream'[i] = <<i, target[i], try[i]>> /\ target[i] \in Nat
        /\ j # target[i] => backlog'[j] = backlog[j]
    BY <1>6, ConnectPlace, ConnectEffect, RankFacts
  <2>2. HasAfter(i, j)
    <3>1. SUFFICES ASSUME received[i][j] # NoData PROVE MetAfter(i, j, received[i][j])
      BY <2>1 DEF HasAfter
    <3>2. j # target[i]
      BY <1>1, <1>2, <2>1, <3>1 DEF MapAt, Past
    <3>3. Met(i, j, received[i][j])
      BY <2>1, <3>1 DEF MetInv, Past
    <3> QED
      BY <1>3, <2>1, <3>2, <3>3
  <2>3. SentAfter(i, j)
    <3>1. SUFFICES ASSUME target[i] = j, NEW m \in down, m[1] = <<i, j, try[i]>> PROVE FALSE
      BY <2>1 DEF SentAfter
    <3>2. m[1][1] = i /\ m[1][2] = j /\ m[1][3] = try[i]
      BY <3>1
    <3>3. try[i] \in Nat
      BY RankFacts DEF TypeOK
    <3>4. Opened(m[1])
      BY DEF StreamInv
    <3> QED
      BY <1>1, <2>1, <3>1, <3>2, <3>3, <3>4 DEF Opened, Past, Linked
  <2> QED
    BY <2>2, <2>3
<1>7. CASE ConnectRead(i)
  <2>1. /\ pc[i] = "connect_read" /\ pc'[i] = "connect_write"
        /\ backlog'[j] = backlog[j] /\ try'[i] = try[i]
    BY <1>7, ConnectReadEffect
  <2>2. PICK m \in down :
          /\ m[1] = stream[i] /\ m[2] \in AnyData
          /\ i < m[2][1] => received'[i][m[2][1]] = m[2]
          /\ \A k \in Ranks : k <= i \/ k # m[2][1] => received'[i][k] = received[i][k]
    BY <1>7, ConnectReadEffect
  <2>3. HasAfter(i, j)
    <3>1. SUFFICES ASSUME received'[i][j] # NoData PROVE MetAfter(i, j, received'[i][j])
      BY DEF HasAfter
    <3>2. CASE j = m[2][1]
      <4>1. received'[i][j] = m[2]
        BY <2>2, <3>2
      <4>2. target[i] \in Ranks /\ i < target[i]
        <5>1. target[i] \in Nat /\ target[i] < WorldSize /\ i < target[i]
          BY <1>2, <2>1, RankFacts DEF TypeOK, PlaceAt, Linked, Past
        <5> QED
          BY <5>1, RankFacts
      <4>3. Met(i, target[i], m[2])
        BY <2>1, <2>2, <4>2 DEF MetInv
      <4>4. Met(i, j, m[2])
        BY <3>2, <4>3 DEF Met
      <4> QED
        BY <1>3, <2>1, <4>1, <4>4
    <3>3. CASE j # m[2][1]
      <4>1. received'[i][j] = received[i][j]
        BY <2>2, <3>3
      <4>2. Met(i, j, received[i][j])
        BY <2>1, <3>1, <4>1 DEF MetInv, Past
      <4> QED
        BY <1>3, <2>1, <4>1, <4>2
    <3> QED
      BY <3>2, <3>3
  <2> QED
    BY <2>1, <2>3 DEF SentAfter
<1>8. CASE ConnectWrite(i) \/ Collect(i)
  <2>1. /\ Past(i) /\ pc'[i] # "connect_read" /\ received'[i] = received[i]
        /\ backlog'[j] = backlog[j] /\ try'[i] = try[i]
    BY <1>8, ConnectWriteEffect, CollectEffect DEF Past
  <2>2. HasAfter(i, j)
    <3>1. SUFFICES ASSUME received[i][j] # NoData PROVE MetAfter(i, j, received[i][j])
      BY <2>1 DEF HasAfter
    <3>2. Met(i, j, received[i][j])
      BY <2>1, <3>1 DEF MetInv
    <3> QED
      BY <1>3, <2>1, <3>2
  <2> QED
    BY <2>1, <2>2 DEF SentAfter
<1> QED
  BY <1>4, <1>5, <1>6, <1>7, <1>8 DEF Acts

\* Somebody else acts.
LEMMA MetOther ==
  ASSUME TypeOK, OwnAddresses, PlaceInv, StreamInv, MetInv, NEW a \in Ranks, Acts(a),
         NEW i \in Ranks, NEW j \in Ranks, i < j, a # i, a # j
  PROVE  HasAfter(i, j) /\ SentAfter(i, j)
<1>1. /\ pc'[i] = pc[i] /\ stream'[i] = stream[i] /\ target'[i] = target[i]
      /\ try'[i] = try[i] /\ received'[i] = received[i]
      /\ pc'[j] = pc[j] /\ stream'[j] = stream[j] /\ try'[j] = try[j] /\ received'[j] = received[j]
  BY ActsOthers DEF Others
<1>2. ASSUME NEW d, Met(i, j, d) PROVE MetAfter(i, j, d)
  <2>1. \A k \in 1..Len(backlog[j]) : backlog[j][k][1] # i
    BY <1>2 DEF Met
  <2>2. \A k \in 1..Len(backlog'[j]) : backlog'[j][k][1] # i
    <3>1. CASE backlog'[j] = backlog[j]
      BY <2>1, <3>1
    <3>2. CASE Connect(a) /\ target[a] = j
      <4>1. /\ Len(backlog[j]) \in Nat /\ Len(backlog'[j]) = Len(backlog[j]) + 1
            /\ \A k \in 1..Len(backlog[j]) : backlog'[j][k] = backlog[j][k]
            /\ backlog'[j][Len(backlog'[j])] = <<a, j, try[a]>>
        BY <3>2, ConnectPlace, ConnectEffect
      <4>2. SUFFICES ASSUME NEW k \in 1..Len(backlog'[j]) PROVE backlog'[j][k][1] # i
        OBVIOUS
      <4>3. CASE k = Len(backlog'[j])
        BY <4>1, <4>3
      <4>4. CASE k \in 1..Len(backlog[j])
        BY <2>1, <4>1, <4>4
      <4> QED
        BY <4>1, <4>3, <4>4
    <3> QED
      BY <3>1, <3>2, BindEffect, BindFailsEffect, AbortEffect, AcceptEffect, ServeReadEffect,
         ServeDoneEffect, ConnectPlace, ConnectEffect, ConnectReadEffect, ConnectWriteEffect, CollectEffect
         DEF Acts, OtherBacklogs
  <2> QED
    BY <1>1, <1>2, <2>2, MetKept
<1>3. HasAfter(i, j)
  <2>1. SUFFICES ASSUME Past(i), received[i][j] # NoData PROVE MetAfter(i, j, received[i][j])
    BY <1>1 DEF HasAfter, Past
  <2> QED
    BY <1>2, <2>1 DEF MetInv
<1>4. SentAfter(i, j)
  <2>1. SUFFICES ASSUME pc[i] = "connect_read", target[i] = j,
                        NEW m \in down', m[1] = stream[i]
                 PROVE  MetAfter(i, j, m[2])
    BY <1>1 DEF SentAfter
  <2>2. CASE m \in down
    BY <1>2, <2>1, <2>2 DEF MetInv
  <2>3. CASE m \notin down
    <3>1. Accept(a)
      BY <2>1, <2>3, BindEffect, BindFailsEffect, AbortEffect, ServeReadEffect, ServeDoneEffect,
         ConnectPlace, ConnectReadEffect, ConnectWriteEffect, CollectEffect DEF Acts
    <3>2. m = <<backlog[a][1], <<a, try[a]>>>> /\ 1 \in 1..Len(backlog[a])
      BY <2>1, <2>3, <3>1, AcceptEffect, BacklogStreams
    <3>3. m[1][2] = a
      BY <3>2 DEF StreamInv
    <3>4. m[1] = <<i, j, try[i]>>
      BY <2>1 DEF PlaceInv, PlaceAt, Linked
    <3> QED
      BY <3>3, <3>4
  <2> QED
    BY <2>2, <2>3
<1> QED
  BY <1>3, <1>4

-----------------------------------------------------------------------------
(* Who holds the server's end of a stream.                                 *)

\* Somebody holds the stream of client i, after the step.
HeldAfter(i) ==
  pc'[i] \in {"connect_read", "connect_write"} =>
    \/ stream'[i] \in closed_s'
    \/ \E k \in 1..Len(backlog'[target'[i]]) : backlog'[target'[i]][k] = stream'[i]
    \/ stream'[target'[i]] = stream'[i]

\* That is StreamsHeld for every client.
LEMMA HeldEnough ==
  ASSUME TypeOK', \A i \in Ranks : HeldAfter(i) /\ (Linked(i)' => target'[i] \in Ranks)
  PROVE  StreamsHeld'
<1>1. SUFFICES ASSUME NEW i \in Ranks, Linked(i)'
               PROVE  \/ stream'[i] \in closed_s'
                      \/ stream'[i] \in ToSet(backlog'[target'[i]])
                      \/ stream'[target'[i]] = stream'[i]
  BY DEF StreamsHeld, Linked
<1>2. target'[i] \in Ranks
  BY <1>1
<1>3. backlog'[target'[i]] \in Seq(Streams)
  BY <1>2 DEF TypeOK
<1>4. DOMAIN (backlog'[target'[i]]) = 1..Len(backlog'[target'[i]])
  BY <1>3
<1> QED
  BY <1>1, <1>4 DEF HeldAfter, Linked, ToSet

\* No step takes the server's end of a stream out of all hands.
LEMMA HeldStep ==
  ASSUME TypeOK, OwnAddresses, PlaceInv, StreamsHeld, NEW a \in Ranks, Acts(a), NEW i \in Ranks
  PROVE  HeldAfter(i)
<1>1. SUFFICES ASSUME pc'[i] \in {"connect_read", "connect_write"}
               PROVE  \/ stream'[i] \in closed_s'
                      \/ \E k \in 1..Len(backlog'[target'[i]]) : backlog'[target'[i]][k] = stream'[i]
                      \/ stream'[target'[i]] = stream'[i]
  BY DEF HeldAfter
<1>2. closed_s \subseteq closed_s'
  BY BindEffect, BindFailsEffect, AbortEffect, AcceptEffect, ServeReadEffect, ServeDoneEffect,
     ConnectPlace, ConnectEffect, ConnectReadEffect, ConnectWriteEffect, CollectEffect DEF Acts
<1>3. ASSUME Linked(i)
      PROVE  /\ target[i] \in Ranks /\ i < target[i] /\ stream[i] = <<i, target[i], try[i]>>
             /\ stream[i] \in Streams
             /\ \/ stream[i] \in closed_s
                \/ \E k \in 1..Len(backlog[target[i]]) : backlog[target[i]][k] = stream[i]
                \/ stream[target[i]] = stream[i]
  <2>1. PlaceAt(i) /\ target[i] \in Nat
    BY RankFacts DEF PlaceInv, TypeOK
  <2>2. target[i] \in Ranks /\ i < target[i] /\ stream[i] = <<i, target[i], try[i]>>
    BY <1>3, <2>1, RankFacts DEF PlaceAt, Linked, Past
  <2>3. try[i] \in 1..MaxTries
    BY <1>3, CallNumber DEF Linked
  <2>4. stream[i] \in Streams
    BY <2>2, <2>3, Tuples
  <2>5. \/ stream[i] \in closed_s
        \/ stream[i] \in ToSet(backlog[target[i]])
        \/ stream[target[i]] = stream[i]
    BY <1>3 DEF StreamsHeld, Linked
  <2>6. ToSet(backlog[target[i]]) = {backlog[target[i]][k] : k \in 1..Len(backlog[target[i]])}
    BY <2>2, BacklogStreams
  <2> QED
    BY <2>2, <2>4, <2>5, <2>6
<1>4. CASE a = i /\ Connect(i)
  <2>1. target[i] \in Ranks /\ target'[i] = target[i] /\ stream'[i] = <<i, target[i], try[i]>>
    BY <1>4, ConnectPlace, ConnectEffect
  <2>2. /\ Len(backlog'[target[i]]) = Len(backlog[target[i]]) + 1
        /\ Len(backlog[target[i]]) \in Nat
        /\ backlog'[target[i]][Len(backlog'[target[i]])] = <<i, target[i], try[i]>>
    BY <1>4, ConnectPlace, ConnectEffect
  <2>3. Len(backlog'[target[i]]) \in 1..Len(backlog'[target[i]])
    BY <2>2
  <2> QED
    BY <2>1, <2>2, <2>3
<1>5. CASE a = i /\ ~Connect(i)
  <2>1. ConnectRead(i)
    BY <1>1, <1>5, BindEffect, BindFailsEffect, AbortEffect, AcceptEffect, ServeReadEffect,
       ServeDoneEffect, ConnectWriteEffect, CollectEffect DEF Acts
  <2>2. Linked(i) /\ target'[i] = target[i] /\ UNCHANGED <<backlog, stream>>
    BY <2>1, ConnectReadEffect DEF Linked
  <2> QED
    BY <1>2, <1>3, <2>2
<1>6. CASE a # i
  <2> DEFINE t == target[i]
             s == stream[i]
  <2>1. target'[i] = t /\ stream'[i] = s /\ pc'[i] = pc[i]
    BY <1>6, ActsOthers DEF Others
  <2>2. /\ t \in Ranks /\ i < t /\ s = <<i, t, try[i]>> /\ s \in Streams
        /\ \/ s \in closed_s
           \/ \E k \in 1..Len(backlog[t]) : backlog[t][k] = s
           \/ stream[t] = s
    BY <1>1, <1>3, <2>1 DEF Linked
  <2>3. s[1] = i /\ s[2] = t /\ s # NoStream /\ i # t
    BY <2>2, Tuples, RankFacts
  <2> HIDE DEF t, s
  <2>4. SUFFICES \/ s \in closed_s'
                 \/ \E k \in 1..Len(backlog'[t]) : backlog'[t][k] = s
                 \/ stream'[t] = s
    BY <2>1
  <2>5. CASE s \in closed_s
    BY <1>2, <2>5
  <2>6. CASE \E k \in 1..Len(backlog[t]) : backlog[t][k] = s
    <3>1. PICK k \in 1..Len(backlog[t]) : backlog[t][k] = s
      BY <2>6
    <3>2. CASE backlog'[t] = backlog[t]
      BY <3>1, <3>2
    <3>3. CASE Connect(a) /\ target[a] = t
      <4>1. /\ Len(backlog[t]) \in Nat /\ Len(backlog'[t]) = Len(backlog[t]) + 1
            /\ backlog'[t][k] = backlog[t][k]
        BY <3>1, <3>3, ConnectPlace, ConnectEffect
      <4>2. k \in 1..Len(backlog'[t])
        BY <4>1
      <4> QED
        BY <3>1, <4>1, <4>2
    <3>4. CASE a = t /\ Accept(t)
      <4>1. /\ stream'[t] = backlog[t][1] /\ Len(backlog'[t]) = Len(backlog[t]) - 1
            /\ \A l \in 1..Len(backlog'[t]) : backlog'[t][l] = backlog[t][l + 1]
        BY <2>2, <3>4, AcceptEffect
      <4>2. Len(backlog[t]) \in Nat
        BY <2>2, BacklogStreams
      <4>3. CASE k = 1
        BY <3>1, <4>1, <4>3
      <4>4. CASE k # 1
        <5>1. k - 1 \in 1..Len(backlog'[t]) /\ (k - 1) + 1 = k
          BY <4>1, <4>2, <4>4
        <5> QED
          BY <3>1, <4>1, <5>1
      <4> QED
        BY <4>3, <4>4
    <3>5. CASE a = t /\ (Abort(t) \/ ServeDone(t))
      <4>1. s \in ToSet(backlog[t])
        <5>1. ToSet(backlog[t]) = {backlog[t][l] : l \in 1..Len(backlog[t])}
          BY <2>2, BacklogStreams
        <5> QED
          BY <3>1, <5>1
      <4> QED
        BY <2>2, <3>5, <4>1, AbortEffect, ServeDoneEffect
    <3> QED
      BY <2>2, <3>2, <3>3, <3>4, <3>5, BindEffect, BindFailsEffect, AbortEffect, AcceptEffect,
         ServeReadEffect, ServeDoneEffect, ConnectPlace, ConnectEffect, ConnectReadEffect, ConnectWriteEffect,
         CollectEffect DEF Acts, OtherBacklogs
  <2>7. CASE stream[t] = s
    <3>1. CASE a # t
      BY <2>2, <2>7, <3>1, ActsOthers DEF Others
    <3>2. CASE a = t
      <4>1. pc[t] = "serve_read"
        <5>1. PlaceAt(t)
          BY <2>2 DEF PlaceInv
        <5>2. pc[t] \in {"serve_read", "connect_read", "connect_write"}
          BY <5>1, <2>3, <2>7 DEF PlaceAt
        <5>3. ~Linked(t)
          <6>1. SUFFICES ASSUME Linked(t) PROVE FALSE
            OBVIOUS
          <6>2. stream[t] = <<t, target[t], try[t]>>
            BY <5>1, <6>1 DEF PlaceAt
          <6> QED
            BY <2>3, <2>7, <6>2
        <5> QED
          BY <5>2, <5>3 DEF Linked
      <4>2. Abort(t) \/ ServeRead(t)
        BY <2>2, <3>2, <4>1, BindEffect, BindFailsEffect, AcceptEffect, ServeDoneEffect,
           ConnectPlace, ConnectEffect, ConnectReadEffect, ConnectWriteEffect, CollectEffect DEF Acts
      <4> QED
        BY <2>2, <2>3, <2>7, <4>2, AbortEffect, ServeReadEffect
    <3> QED
      BY <3>1, <3>2
  <2> QED
    BY <2>2, <2>5, <2>6, <2>7
<1> QED
  BY <1>4, <1>5, <1>6

-----------------------------------------------------------------------------
(* The invariant, and the theorems.                                        *)

\* The invariant holds before any call.
LEMMA InitIInv == Init => IInv
<1> SUFFICES ASSUME Init PROVE IInv
  OBVIOUS
<1>1. TypeOK
  <2>1. backlog \in [Ranks -> Seq(Streams)]
    BY DEF Init
  <2>2. received \in [Ranks -> [Ranks -> AnyData \cup {NoData}]]
    BY DEF Init
  <2>3. shared \in SUBSET Ranks /\ faults \in SUBSET Ranks /\ listening \in [Ranks -> BOOLEAN]
    BY ExchangerAssumption DEF Init
  <2> QED
    BY <2>1, <2>2, <2>3, RankFacts DEF Init, TypeOK
<1>2. \A i \in Ranks : pc[i] = "out" /\ stream[i] = NoStream /\ backlog[i] = << >>
  BY DEF Init
<1>3. PlaceInv
  BY <1>2 DEF PlaceInv, PlaceAt, Linked, Past
<1>4. MapInv
  BY <1>2 DEF MapInv, MapAt, Past
<1>5. StreamInv
  BY <1>2 DEF StreamInv, Init
<1>6. MetInv
  BY <1>2 DEF MetInv, Past
<1>7. StreamsHeld /\ ConnectNeverPanics
  BY <1>2 DEF StreamsHeld, ConnectNeverPanics
<1> QED
  BY <1>1, <1>3, <1>4, <1>5, <1>6, <1>7 DEF IInv

\* Every step preserves the invariant.
LEMMA NextIInv == OwnAddresses /\ IInv /\ [Next]_vars => IInv'
<1> SUFFICES ASSUME OwnAddresses, IInv, [Next]_vars PROVE IInv'
  OBVIOUS
<1> USE DEF IInv
<1>1. CASE UNCHANGED vars
  <2>1. TypeOK'
    BY <1>1 DEF TypeOK, vars, portVars, netVars
  <2>2. PlaceInv' /\ MapInv'
    BY <1>1 DEF PlaceInv, PlaceAt, MapInv, MapAt, Past, Linked, vars
  <2>3. StreamInv'
    BY <1>1 DEF StreamInv, Opened, Past, Linked, vars, portVars, netVars
  <2>4. MetInv'
    BY <1>1 DEF MetInv, Met, Waits, Past, vars, portVars, netVars
  <2>5. StreamsHeld' /\ ConnectNeverPanics'
    BY <1>1 DEF StreamsHeld, ConnectNeverPanics, OwnAddresses, ToSet, vars, portVars, netVars
  <2> QED
    BY <2>1, <2>2, <2>3, <2>4, <2>5
<1>2. ASSUME NEW a \in Ranks, Acts(a) PROVE IInv'
  <2>1. TypeOK'
    BY NextTypes
  <2>2. PlaceInv' /\ MapInv' /\ StreamInv'
    BY <1>2, PlaceStep, MapStep, StreamStep
  <2>3. MetInv'
    <3>1. ASSUME NEW i \in Ranks, NEW j \in Ranks, i < j PROVE HasAfter(i, j) /\ SentAfter(i, j)
      BY <1>2, <3>1, MetServer, MetClient, MetOther
    <3> QED
      BY <3>1, MetInvAfter
  <2>4. StreamsHeld'
    <3>1. ASSUME NEW i \in Ranks, Linked(i)' PROVE target'[i] \in Ranks
      <4>1. target'[i] \in Nat
        BY <2>1, RankFacts DEF TypeOK
      <4>2. target'[i] < WorldSize
        BY <2>2, <3>1 DEF PlaceInv, PlaceAt
      <4> QED
        BY <4>1, <4>2, RankFacts
    <3> QED
      BY <1>2, <2>1, <3>1, HeldStep, HeldEnough
  <2>5. ConnectNeverPanics'
    <3>1. ASSUME NEW j \in Ranks, j # a PROVE pc'[j] # "connect_panic"
      BY <1>2, <3>1, ActsOthers DEF Others, ConnectNeverPanics
    <3>2. pc'[a] # "connect_panic"
      <4>1. CASE Collect(a)
        <5>1. pc[a] = "connecting" /\ target[a] = WorldSize
          BY <4>1, CollectEffect
        <5>2. \A j \in Ranks : a < j => received[a][j] # NoData
          BY <5>1, RankFacts DEF MapInv, MapAt, Past
        <5> QED
          BY <4>1, <5>2, CollectEffect
      <4>2. CASE ~Collect(a)
        BY <1>2, <4>2, BindEffect, BindFailsEffect, AbortEffect, AcceptEffect, ServeReadEffect,
           ServeDoneEffect, ConnectPlace, ConnectEffect, ConnectReadEffect, ConnectWriteEffect DEF Acts
      <4> QED
        BY <4>1, <4>2
    <3> QED
      BY <3>1, <3>2 DEF ConnectNeverPanics
  <2> QED
    BY <2>1, <2>2, <2>3, <2>4, <2>5
<1> QED
  BY <1>1, <1>2, NextActs

\* Who shares an address is settled before the first call.
LEMMA AddressesStay == [Next]_vars => shared' = shared
<1> SUFFICES ASSUME [Next]_vars PROVE shared' = shared
  OBVIOUS
<1>1. CASE UNCHANGED vars
  BY <1>1 DEF vars, netVars
<1>2. ASSUME NEW i \in Ranks, Bind(i) \/ BindFails(i) \/ Connect(i) \/ Collect(i) PROVE shared' = shared
  BY <1>2 DEF Bind, BindFails, Connect, Collect, netVars
<1>3. ASSUME NEW i \in Ranks, Abort(i) PROVE shared' = shared
  BY <1>3 DEF Abort
<1>4. ASSUME NEW i \in Ranks,
             Accept(i) \/ ServeRead(i) \/ ServeDone(i) \/ ConnectRead(i) \/ ConnectWrite(i)
      PROVE  shared' = shared
  BY <1>4 DEF Accept, ServeRead, ServeDone, ConnectRead, ConnectWrite
<1> QED
  BY <1>1, <1>2, <1>3, <1>4
     DEF Next, exchange_all, Timeout, ServeReadFails, ConnectReadFails, ConnectWriteFails, Over

\* The inductive invariant holds in every behaviour of nodes with their own addresses.
LEMMA InvariantHolds == Spec => [](OwnAddresses => IInv)
<1>1. Init => (OwnAddresses => IInv)
  BY InitIInv
<1>2. (OwnAddresses => IInv) /\ [Next]_vars => (OwnAddresses => IInv)'
  BY NextIInv, AddressesStay DEF OwnAddresses
<1> QED
  BY <1>1, <1>2, PTL DEF Spec

\* Types and places are kept whoever shares an address.
LEMMA PlacesHold == Spec => [](TypeOK /\ PlaceInv)
<1>1. Init => TypeOK /\ PlaceInv
  BY InitIInv DEF IInv
<1>2. TypeOK /\ PlaceInv /\ [Next]_vars => (TypeOK /\ PlaceInv)'
  <2> SUFFICES ASSUME TypeOK, PlaceInv, [Next]_vars PROVE TypeOK' /\ PlaceInv'
    OBVIOUS
  <2>1. TypeOK'
    BY NextTypes
  <2>2. ASSUME UNCHANGED vars PROVE PlaceInv'
    BY <2>2 DEF PlaceInv, PlaceAt, Past, Linked, vars
  <2> QED
    BY <2>1, <2>2, NextActs, PlaceStep
<1> QED
  BY <1>1, <1>2, PTL DEF Spec

\* The variables of the nodes, their ports and their streams keep their types, also when
\* nodes share an address.
THEOREM TypeCorrect == Spec => []TypeOK
  BY PlacesHold, PTL

\* A count is enough for the serving loop: whoever connects to the port of a node, for any
\* number of nodes of the same address, repeated calls and failures, the ranks received when
\* the loop ends are the lower ranks, and the expect behind it does not panic.
THEOREM CountIsEnough == Spec => []ServeNeverPanics
<1>1. TypeOK /\ PlaceInv => ServeNeverPanics
  BY DEF PlaceInv, PlaceAt, ServeNeverPanics
<1> QED
  BY <1>1, PlacesHold, PTL

\* Nodes that have finished hold each other's data of the very calls that succeeded, for
\* any number of nodes of different addresses, failures and repeated calls.
THEOREM FinishedNodesAgree == Spec => []Agreement
<1>1. ASSUME IInv, NEW i \in Ranks, NEW j \in Ranks, i < j, pc[i] = "done", pc[j] = "done"
      PROVE  received[i][j] = Data(j) /\ received[j][i] = Data(i)
  <2>1. received[i][j] # NoData
    <3>1. target[i] = WorldSize
      BY <1>1 DEF IInv, PlaceInv, PlaceAt
    <3> QED
      BY <1>1, <3>1, RankFacts DEF IInv, MapInv, MapAt, Past
  <2>2. received[j][i] # NoData
    BY <1>1 DEF IInv, MapInv, MapAt, Past
  <2>3. Met(i, j, received[i][j])
    BY <1>1, <2>1 DEF IInv, MetInv, Past
  <2>4. received[i][j] \in AnyData /\ try[j] \in Nat
    BY <1>1, <2>1, RankFacts DEF IInv, TypeOK
  <2>5. received[i][j][2] \in Nat /\ received[i][j] = <<received[i][j][1], received[i][j][2]>>
    BY <2>4, Tuples, RankFacts
  <2>6. received[i][j][1] = j /\ received[i][j][2] = try[j]
    BY <1>1, <2>2, <2>3, <2>4, <2>5 DEF Met
  <2>7. received[j][i] = <<i, try[i]>>
    BY <1>1, <2>3, <2>6 DEF Met
  <2> QED
    BY <2>5, <2>6, <2>7 DEF Data
<1>2. (OwnAddresses => IInv) => Agreement
  BY <1>1, RankFacts DEF Agreement
<1> QED
  BY <1>2, InvariantHolds, PTL

\* The expect behind the connecting loop does not panic if every node has an address of its
\* own, for any number of nodes, failures and repeated calls: the streams that the loop
\* counts have brought the data of the greater ranks.
THEOREM MapIsComplete == Spec => []ConnectNeverPanics
<1>1. (OwnAddresses => IInv) => ConnectNeverPanics
  BY DEF IInv, ConnectNeverPanics
<1> QED
  BY <1>1, InvariantHolds, PTL

\* No client is orphaned: the server's end of its stream is in a backlog, in the server's
\* hands, or closed.
THEOREM NoClientOrphaned == Spec => []StreamsHeld
<1>1. (OwnAddresses => IInv) => StreamsHeld
  BY DEF IInv, StreamsHeld
<1> QED
  BY <1>1, InvariantHolds, PTL
=============================================================================
