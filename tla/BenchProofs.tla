---------------------------- MODULE BenchProofs ----------------------------
(***************************************************************************)
(* Theorems about BenchRounds, for every number of rounds, samples,        *)
(* waiting connections and faults.                                         *)
(***************************************************************************)
EXTENDS BenchProperties, TLAPS

HasFinished(l) == \E i \in DOMAIN l.to["server"] : l.to["server"][i] = "CF"

\* The client is through with the round of connection k: it did not and will
\* not open another one for it.
Done(k) ==
    /\ links[k].round < ClientDone
    /\ \A j \in DOMAIN links : k < j => links[k].round < links[j].round

\* A board has a connection only for a round that is still to be counted.
Running ==
    /\ server.at # "idle" => server.round < TOTAL_ROUNDS
    /\ client.at # "idle" =>
           /\ client.conn = Len(links)
           /\ links[client.conn].round = client.round
           /\ client.round < TOTAL_ROUNDS

\* From the client's Finished on, the round of a connection is done.
FinishedIsDone ==
    \A k \in DOMAIN links :
        \/ HasFinished(links[k])
        \/ links[k].counted
        \/ server.at = "ack" /\ server.conn = k
        => Done(k)

\* Connections are served in the order in which they were opened.
Fifo ==
    /\ \A i, j \in DOMAIN backlog : i < j => backlog[i] < backlog[j]
    /\ server.at # "idle" => \A i \in DOMAIN backlog : server.conn < backlog[i]

\* No connection the server serves or has still to serve is for a round it
\* has counted.
ServerBehind ==
    /\ server.round <= ClientDone
    /\ server.at # "idle" => server.round <= links[server.conn].round
    /\ \A i \in DOMAIN backlog : server.round <= links[backlog[i]].round

BenchInv ==
    /\ TypeOK
    /\ Running
    /\ FinishedIsDone
    /\ Fifo
    /\ ServerBehind
    /\ StatsOfAllRounds

-----------------------------------------------------------------------------
(* What the operations of Link do to a connection.                         *)

\* l is what has become of k's connection: nothing was put that is a CF.
Moved(k, l) ==
    /\ l \in Connections
    /\ l.round = k.round
    /\ l.counted = k.counted
    /\ HasFinished(l) => HasFinished(k)

LEMMA TakenMoves ==
    ASSUME NEW l \in Connections, NEW e \in End, Available(l, e)
    PROVE  Moved(l, Taken(l, e))
<1>1. l.to[e] \in Seq(Records) /\ l.to[e] # <<>>
  BY DEF Connections, Available
<1>2. /\ Tail(l.to[e]) \in Seq(Records)
      /\ \A i \in DOMAIN Tail(l.to[e]) :
             i + 1 \in DOMAIN l.to[e] /\ Tail(l.to[e])[i] = l.to[e][i + 1]
  BY <1>1
<1>3. HasFinished(Taken(l, e)) => HasFinished(l)
  BY <1>2 DEF Taken, HasFinished, Connections, End
<1> QED
  BY <1>2, <1>3 DEF Moved, Taken, Connections

LEMMA PutMoves ==
    ASSUME NEW l \in Connections, NEW e \in End, NEW r \in Records, r # "CF"
    PROVE  Moved(l, Put(l, e, r))
<1>1. Other(e) \in End /\ l.to[Other(e)] \in Seq(Records)
  BY DEF Other, End, Connections
<1>2. /\ Append(l.to[Other(e)], r) \in Seq(Records)
      /\ \A i \in DOMAIN Append(l.to[Other(e)], r) :
             \/ Append(l.to[Other(e)], r)[i] = r
             \/ i \in DOMAIN l.to[Other(e)]
                /\ Append(l.to[Other(e)], r)[i] = l.to[Other(e)][i]
  BY <1>1
<1>3. HasFinished(Put(l, e, r)) => HasFinished(l)
  BY <1>1, <1>2 DEF Put, HasFinished, Connections, End
<1> QED
  BY <1>1, <1>2, <1>3 DEF Moved, Put, Connections

LEMMA StoppedMoves ==
    ASSUME NEW l \in Connections, NEW e \in End
    PROVE  Moved(l, Stopped(l, e))
<1>1. <<>> \in Seq(Records) /\ DOMAIN <<>> = {}
  OBVIOUS
<1>2. HasFinished(Stopped(l, e)) => HasFinished(l)
  BY <1>1 DEF Stopped, HasFinished, Connections, End
<1> QED
  BY <1>1, <1>2 DEF Moved, Stopped, Connections

LEMMA MovedOn ==
    ASSUME NEW k, NEW l, NEW m, Moved(k, l), Moved(l, m)
    PROVE  Moved(k, m)
BY DEF Moved

LEMMA CutMoves ==
    ASSUME NEW l \in Connections
    PROVE  Moved(l, Cut(l))
<1>1. Moved(l, Stopped(l, "client"))
  BY StoppedMoves DEF End
<1> QED
  BY <1>1, StoppedMoves, MovedOn DEF Cut, Moved, End

LEMMA ShutDownMoves ==
    ASSUME NEW l \in Connections, NEW e \in End
    PROVE  Moved(l, ShutDown(l, e))
<1>1. Moved(l, Put(l, e, "notify"))
  BY PutMoves DEF Records
<1> QED
  BY <1>1, StoppedMoves, MovedOn DEF ShutDown, Moved

LEMMA OpenedConnection ==
    ASSUME NEW r \in 0 .. TOTAL_ROUNDS
    PROVE  /\ Connection(r) \in Connections
           /\ ~HasFinished(Connection(r))
<1>1. Opened("CH").to \in [End -> Seq(Records)]
  <2>1. <<>> \in Seq(Records) /\ <<"CH">> \in Seq(Records)
    BY DEF Records
  <2> QED
    BY <2>1 DEF Opened, End
<1>2. Opened("CH").up \in [End -> BOOLEAN]
  BY DEF Opened, End
<1>3. ~HasFinished(Connection(r))
  <2>1. Connection(r).to["server"] = <<"CH">>
    BY DEF Connection, Opened, End
  <2> QED
    BY <2>1 DEF HasFinished
<1> QED
  BY <1>1, <1>2, <1>3 DEF Connection, Connections

-----------------------------------------------------------------------------
(* The invariant holds initially, and parts of it that every step keeps.   *)

LEMMA BenchInit == Init => BenchInv
BY BenchRoundsAssumption
   DEF Init, BenchInv, TypeOK, Running, FinishedIsDone, Fifo, ServerBehind,
       StatsOfAllRounds, ClientDone, NoConn, Least

LEMMA FaultsBounded ==
    ASSUME TypeOK, Fault \/ UNCHANGED faults
    PROVE  faults' \in 0 .. MaxFaults
BY BenchRoundsAssumption DEF TypeOK, Fault

\* One connection becomes l.
LEMMA LinksMoved ==
    ASSUME links \in Seq(Connections),
           NEW k \in DOMAIN links, NEW l \in Connections,
           l.round = links[k].round,
           links' = [links EXCEPT ![k] = l]
    PROVE  /\ links' \in Seq(Connections)
           /\ Len(links') = Len(links) /\ DOMAIN links' = DOMAIN links
           /\ \A j \in DOMAIN links : links'[j].round = links[j].round
           /\ links'[k] = l
           /\ \A j \in DOMAIN links \ {k} : links'[j] = links[j]
OBVIOUS

LEMMA RoundType ==
    ASSUME links \in Seq(Connections), NEW j \in DOMAIN links
    PROVE  links[j] \in Connections /\ links[j].round \in Nat
<1>1. links[j] \in Connections
  OBVIOUS
<1> QED
  BY <1>1, BenchRoundsAssumption DEF Connections

LEMMA DoneKept ==
    ASSUME links \in Seq(Connections), DOMAIN links' = DOMAIN links,
           \A j \in DOMAIN links : links'[j].round = links[j].round,
           ClientDone \in Nat, ClientDone' \in Nat, ClientDone <= ClientDone',
           NEW k \in DOMAIN links, Done(k)
    PROVE  Done(k)'
<1>1. \A j \in DOMAIN links : links[j].round \in Nat
  BY RoundType
<1> QED
  BY <1>1 DEF Done

LEMMA DoneType == TypeOK => ClientDone \in Nat
BY BenchRoundsAssumption DEF TypeOK, ClientDone

\* Where a step changes one connection, it may only make it finished, counted
\* or acknowledged if its round is done.
LEMMA FinishedKept ==
    ASSUME BenchInv, TypeOK',
           NEW k \in DOMAIN links, NEW l \in Connections,
           l.round = links[k].round,
           links' = [links EXCEPT ![k] = l],
           HasFinished(l) \/ l.counted => Done(k) \/ Done(k)',
           ClientDone <= ClientDone',
           server'.at = "ack" =>
               \/ server' = server
               \/ server'.conn = k /\ (Done(k) \/ Done(k)')
    PROVE  FinishedIsDone'
<1>1. /\ DOMAIN links' = DOMAIN links
      /\ \A j \in DOMAIN links : links'[j].round = links[j].round
      /\ links'[k] = l
      /\ \A j \in DOMAIN links \ {k} : links'[j] = links[j]
  BY LinksMoved DEF BenchInv, TypeOK
<1>2. \A j \in DOMAIN links : Done(j) => Done(j)'
  <2>1. links \in Seq(Connections)
    BY DEF BenchInv, TypeOK
  <2>2. ClientDone \in Nat /\ ClientDone' \in Nat
    <3>1. client.round \in Nat /\ client'.round \in Nat
      BY BenchRoundsAssumption DEF BenchInv, TypeOK
    <3> QED
      BY <3>1 DEF ClientDone
  <2> QED
    BY <1>1, <2>1, <2>2, DoneKept
<1> SUFFICES ASSUME NEW j \in DOMAIN links,
                    \/ HasFinished(links'[j])
                    \/ links'[j].counted
                    \/ server'.at = "ack" /\ server'.conn = j
             PROVE  Done(j)'
  BY <1>1 DEF FinishedIsDone, HasFinished
<1>3. CASE server'.at = "ack" /\ server'.conn = j
  BY <1>2, <1>3 DEF BenchInv, FinishedIsDone
<1>4. CASE j = k /\ (HasFinished(l) \/ l.counted)
  BY <1>2, <1>4
<1>5. CASE j # k /\ (HasFinished(links[j]) \/ links[j].counted)
  BY <1>2, <1>5 DEF BenchInv, FinishedIsDone
<1> QED
  BY <1>1, <1>3, <1>4, <1>5

\* A connection that only moved is no more finished or counted than before.
LEMMA MovedKept ==
    ASSUME BenchInv,
           NEW k \in DOMAIN links, NEW l, Moved(links[k], l)
    PROVE  HasFinished(l) \/ l.counted => Done(k)
BY DEF BenchInv, FinishedIsDone, Moved

LEMMA ServedType ==
    ASSUME TypeOK, server.at # "idle"
    PROVE  server.conn \in DOMAIN links /\ Served \in Connections
BY DEF TypeOK, NoConn, Served

LEMMA MineType ==
    ASSUME TypeOK, client.at # "idle"
    PROVE  /\ client.conn = Len(links) /\ client.conn \in DOMAIN links
           /\ Mine \in Connections
<1>1. client.conn = Len(links) /\ Len(links) \in Nat /\ client.conn # 0
  BY DEF TypeOK, NoConn
<1> QED
  BY <1>1 DEF TypeOK, Mine

-----------------------------------------------------------------------------
(* The server's steps.                                                     *)

LEMMA AcceptInv == BenchInv /\ Accept => BenchInv'
<1> SUFFICES ASSUME BenchInv, Accept PROVE BenchInv'
  OBVIOUS
<1> USE DEF BenchInv
<1>1. /\ backlog \in Seq(DOMAIN links) /\ backlog # <<>>
      /\ 1 \in DOMAIN backlog /\ Head(backlog) = backlog[1]
      /\ Head(backlog) \in DOMAIN links
      /\ backlog' = Tail(backlog) /\ backlog' \in Seq(DOMAIN links)
      /\ \A i \in DOMAIN backlog' :
             i + 1 \in DOMAIN backlog /\ backlog'[i] = backlog[i + 1]
  BY DEF Accept, TypeOK
<1>2. /\ links \in Seq(Connections) /\ Len(links) \in Nat
      /\ 0 \notin DOMAIN links
  BY DEF TypeOK
<1>3. \/ server' = server /\ server.at = "idle"
      \/ server' = [server EXCEPT !.at = "accepting", !.conn = Head(backlog)]
  BY DEF Accept
<1>4. TypeOK'
  BY <1>1, <1>2, <1>3 DEF Accept, TypeOK, NoConn
<1>5. Running'
  BY <1>3 DEF Accept, Running, TypeOK
<1>6. FinishedIsDone'
  BY <1>3 DEF Accept, FinishedIsDone, Done, ClientDone, TypeOK
<1>7. Fifo'
  <2>1. \A i \in DOMAIN backlog' : i \in Nat /\ 1 < i + 1
    BY <1>1
  <2>2. \A i \in DOMAIN backlog' : backlog[1] < backlog'[i]
    BY <1>1, <2>1 DEF Fifo
  <2>3. \A i, j \in DOMAIN backlog' : i < j => backlog'[i] < backlog'[j]
    BY <1>1, <2>1 DEF Fifo
  <2>4. server'.at # "idle" => server'.conn = backlog[1]
    BY <1>1, <1>3 DEF TypeOK
  <2> QED
    BY <2>2, <2>3, <2>4 DEF Fifo
<1>8. ServerBehind'
  BY <1>1, <1>3 DEF Accept, ServerBehind, TypeOK, ClientDone
<1>9. StatsOfAllRounds'
  BY DEF Accept, StatsOfAllRounds
<1> QED
  BY <1>4, <1>5, <1>6, <1>7, <1>8, <1>9

\* The server lets go of its connection without counting it.
LEMMA LeavesInv ==
    ASSUME BenchInv, server.at # "idle",
           NEW l, Moved(Served, l),
           ServerLeaves(l, server.round),
           UNCHANGED <<backlog, client>>, faults' \in 0 .. MaxFaults
    PROVE  BenchInv'
<1> USE DEF BenchInv
<1> DEFINE k == server.conn
           m == ShutDown(l, "server")
<1>1. k \in DOMAIN links /\ Served \in Connections /\ Served = links[k]
  BY ServedType DEF Served
<1>2. Moved(links[k], m)
  BY <1>1, ShutDownMoves, MovedOn DEF Moved, End
<1>3. /\ links' = [links EXCEPT ![k] = m]
      /\ server' = [at |-> "idle", conn |-> NoConn, round |-> server.round]
  BY DEF ServerLeaves
<1>4. /\ links' \in Seq(Connections)
      /\ Len(links') = Len(links) /\ DOMAIN links' = DOMAIN links
      /\ \A j \in DOMAIN links : links'[j].round = links[j].round
  BY <1>1, <1>2, <1>3, LinksMoved DEF TypeOK, Moved
<1>5. TypeOK'
  BY <1>3, <1>4 DEF TypeOK, NoConn
<1>6. Running'
  BY <1>3, <1>4, MineType DEF Running
<1>7. FinishedIsDone'
  <2>1. HasFinished(m) \/ m.counted => Done(k)
    BY <1>1, <1>2, MovedKept
  <2>2. ClientDone <= ClientDone' /\ server'.at # "ack"
    BY <1>3, DoneType DEF ClientDone
  <2> QED
    BY <1>1, <1>2, <1>3, <1>5, <2>1, <2>2, FinishedKept DEF Moved
<1>8. Fifo' /\ StatsOfAllRounds'
  BY <1>3 DEF Fifo, StatsOfAllRounds
<1>9. ServerBehind'
  BY <1>3, <1>4 DEF ServerBehind, ClientDone, TypeOK
<1> QED
  BY <1>5, <1>6, <1>7, <1>8, <1>9

LEMMA HandshakeFailsInv == BenchInv /\ HandshakeFails => BenchInv'
<1> SUFFICES ASSUME BenchInv, HandshakeFails PROVE BenchInv'
  OBVIOUS
<1>1. server.at # "idle" /\ Served \in Connections
  BY ServedType DEF HandshakeFails, BenchInv
<1>2. faults' \in 0 .. MaxFaults
  BY FaultsBounded DEF HandshakeFails, Fails, BenchInv
<1>3. Moved(Served, Served)
  BY <1>1 DEF Moved
<1> QED
  BY <1>1, <1>2, <1>3, LeavesInv DEF HandshakeFails

\* The server goes on with its connection: k becomes l, and the next read is at.
LEMMA GoesOnInv ==
    ASSUME BenchInv, server.at # "idle",
           NEW l \in Connections, l.round = Served.round,
           NEW at \in {"finished", "ack"},
           HasFinished(l) \/ l.counted \/ at = "ack" => Done(server.conn),
           links' = [links EXCEPT ![server.conn] = l],
           server' = [server EXCEPT !.at = at],
           UNCHANGED <<backlog, client>>, faults' \in 0 .. MaxFaults
    PROVE  BenchInv'
<1> USE DEF BenchInv
<1> DEFINE k == server.conn
<1>1. k \in DOMAIN links /\ Served = links[k]
  BY ServedType DEF Served
<1>2. /\ links' \in Seq(Connections)
      /\ Len(links') = Len(links) /\ DOMAIN links' = DOMAIN links
      /\ \A j \in DOMAIN links : links'[j].round = links[j].round
  BY <1>1, LinksMoved DEF TypeOK
<1>3. /\ server'.at = at /\ at # "idle"
      /\ server'.conn = k /\ server'.round = server.round
  BY DEF TypeOK
<1>4. TypeOK'
  BY <1>2 DEF TypeOK, NoConn
<1>5. Running'
  BY <1>2, <1>3, MineType DEF Running
<1>6. FinishedIsDone'
  <2>1. ClientDone <= ClientDone'
    BY DoneType DEF ClientDone
  <2> QED
    BY <1>1, <1>3, <1>4, <2>1, FinishedKept
<1>7. Fifo' /\ StatsOfAllRounds'
  BY <1>3 DEF Fifo, StatsOfAllRounds
<1>8. ServerBehind'
  BY <1>1, <1>2, <1>3 DEF ServerBehind, ClientDone, TypeOK
<1> QED
  BY <1>4, <1>5, <1>6, <1>7, <1>8

LEMMA AcceptHelloInv == BenchInv /\ AcceptHello => BenchInv'
<1> SUFFICES ASSUME BenchInv, AcceptHello PROVE BenchInv'
  OBVIOUS
<1> DEFINE l == Taken(Served, "server")
<1>1. /\ server.at = "accepting" /\ Served \in Connections /\ Served = links[server.conn]
      /\ server.conn \in DOMAIN links
  BY ServedType DEF AcceptHello, BenchInv, Served
<1>2. faults' \in 0 .. MaxFaults
  BY FaultsBounded DEF AcceptHello, Arrives, BenchInv
<1>3. Moved(Served, l)
  BY <1>1, TakenMoves DEF AcceptHello, Arrives, End
<1>4. CASE Connected(l, "server")
  <2> DEFINE m == Put(l, "server", "SF")
  <2>1. Moved(Served, m)
    BY <1>3, PutMoves, MovedOn DEF Moved, End, Records
  <2>2. HasFinished(m) \/ m.counted => Done(server.conn)
    BY <1>1, <2>1, MovedKept
  <2>3. /\ links' = [links EXCEPT ![server.conn] = m]
        /\ server' = [server EXCEPT !.at = "finished"]
    BY <1>4 DEF AcceptHello
  <2> QED
    BY <1>1, <1>2, <2>1, <2>2, <2>3, GoesOnInv DEF AcceptHello, Moved
<1>5. CASE ~Connected(l, "server")
  BY <1>1, <1>2, <1>3, <1>5, LeavesInv DEF AcceptHello
<1> QED
  BY <1>4, <1>5

LEMMA AcceptFinishedInv == BenchInv /\ AcceptFinished => BenchInv'
<1> SUFFICES ASSUME BenchInv, AcceptFinished PROVE BenchInv'
  OBVIOUS
<1> DEFINE k == server.conn
           m == Put(Taken(Served, "server"), "server", "OK")
<1>1. /\ server.at = "finished" /\ Served \in Connections /\ Served = links[k]
      /\ k \in DOMAIN links
      /\ Available(Served, "server") /\ First(Served, "server") = "CF"
  BY ServedType DEF AcceptFinished, Arrives, BenchInv, Served
<1>2. faults' \in 0 .. MaxFaults
  BY FaultsBounded DEF AcceptFinished, Arrives, BenchInv
<1>3. Moved(Served, m)
  <2>1. Moved(Served, Taken(Served, "server"))
    BY <1>1, TakenMoves DEF End
  <2> QED
    BY <2>1, PutMoves, MovedOn DEF Moved, End, Records
<1>4. HasFinished(Served)
  <2>1. Served.to["server"] \in Seq(Records) /\ Served.to["server"] # <<>>
    BY <1>1 DEF Connections, End, Available
  <2> QED
    BY <1>1, <2>1 DEF HasFinished, First
<1>5. Done(k)
  BY <1>1, <1>4 DEF BenchInv, FinishedIsDone
<1>6. /\ links' = [links EXCEPT ![k] = m]
      /\ server' = [server EXCEPT !.at = "ack"]
  BY <1>1 DEF AcceptFinished
<1> QED
  BY <1>1, <1>2, <1>3, <1>5, <1>6, GoesOnInv DEF AcceptFinished, Moved

\* The server counts its connection's round.
LEMMA RoundEndsInv == BenchInv /\ RoundEnds => BenchInv'
<1> SUFFICES ASSUME BenchInv, RoundEnds PROVE BenchInv'
  OBVIOUS
<1> USE DEF BenchInv
<1> DEFINE k == server.conn
<1>1. /\ server.at = "ack" /\ k \in DOMAIN links
      /\ Served \in Connections /\ Served = links[k]
  BY ServedType DEF RoundEnds, Served
<1>2. faults' \in 0 .. MaxFaults
  BY FaultsBounded DEF RoundEnds, Arrives, Fails
<1>3. ServerLeaves([Served EXCEPT !.counted = TRUE], server.round + 1)
  BY DEF RoundEnds
<1> DEFINE l == [Served EXCEPT !.counted = TRUE]
           m == ShutDown(l, "server")
<1>4. l \in Connections /\ l.round = Served.round
  BY <1>1 DEF Connections
<1>5. m \in Connections /\ m.round = Served.round
  BY <1>4, ShutDownMoves DEF Moved, End
<1>6. /\ links' = [links EXCEPT ![k] = m]
      /\ server' = [at |-> "idle", conn |-> NoConn, round |-> server.round + 1]
  BY <1>3 DEF ServerLeaves
<1>7. Done(k)
  BY <1>1 DEF FinishedIsDone
<1>8. /\ links' \in Seq(Connections)
      /\ Len(links') = Len(links) /\ DOMAIN links' = DOMAIN links
      /\ \A j \in DOMAIN links : links'[j].round = links[j].round
  BY <1>1, <1>5, <1>6, LinksMoved DEF TypeOK
<1>9. UNCHANGED <<backlog, client>>
  BY DEF RoundEnds
<1>10. TypeOK'
  BY <1>1, <1>2, <1>6, <1>8, <1>9, BenchRoundsAssumption DEF TypeOK, NoConn, Running
<1>11. Running'
  BY <1>6, <1>8, <1>9, MineType DEF Running
<1>12. FinishedIsDone'
  <2>1. ClientDone <= ClientDone' /\ server'.at # "ack"
    BY <1>6, <1>9, DoneType DEF ClientDone
  <2> QED
    BY <1>1, <1>5, <1>6, <1>7, <1>10, <2>1, FinishedKept
<1>13. Fifo' /\ StatsOfAllRounds'
  BY <1>6, <1>9 DEF Fifo, StatsOfAllRounds
<1>14. ServerBehind'
  <2>1. /\ server.round \in Nat /\ links[k].round \in Nat /\ ClientDone \in Nat
        /\ server.round <= links[k].round /\ links[k].round < ClientDone
    BY <1>1, <1>7, RoundType, DoneType, BenchRoundsAssumption
       DEF ServerBehind, Done, TypeOK
  <2>2. ASSUME NEW i \in DOMAIN backlog
        PROVE  server.round + 1 <= links[backlog[i]].round
    <3>1. backlog[i] \in DOMAIN links /\ k < backlog[i]
      BY <1>1 DEF Fifo, TypeOK
    <3>2. links[k].round < links[backlog[i]].round /\ links[backlog[i]].round \in Nat
      BY <1>7, <3>1, RoundType DEF Done, TypeOK
    <3> QED
      BY <2>1, <3>2
  <2>3. ClientDone' = ClientDone /\ server'.round = server.round + 1
    BY <1>6, <1>9 DEF ClientDone
  <2>4. \A i \in DOMAIN backlog : backlog[i] \in DOMAIN links
    BY DEF TypeOK
  <2>5. server'.round <= ClientDone' /\ server'.at = "idle"
    BY <1>6, <2>1, <2>3
  <2>6. \A i \in DOMAIN backlog' : server'.round <= links'[backlog'[i]].round
    BY <1>8, <1>9, <2>2, <2>3, <2>4
  <2> QED
    BY <2>5, <2>6 DEF ServerBehind
<1> QED
  BY <1>10, <1>11, <1>12, <1>13, <1>14

-----------------------------------------------------------------------------
(* The client's steps, and the network's.                                  *)

LEMMA ConnectInv == BenchInv /\ Connect => BenchInv'
<1> SUFFICES ASSUME BenchInv, Connect PROVE BenchInv'
  OBVIOUS
<1> USE DEF BenchInv
<1> DEFINE n == Len(links) + 1
           l == Connection(client.round)
<1>1. /\ links \in Seq(Connections) /\ Len(links) \in Nat
      /\ DOMAIN links = 1 .. Len(links)
      /\ client.round \in Nat /\ server.round \in Nat
  BY BenchRoundsAssumption DEF TypeOK
<1>2. l \in Connections /\ ~HasFinished(l) /\ l.round = client.round /\ ~l.counted
  <2>1. client.round \in 0 .. TOTAL_ROUNDS
    BY <1>1, BenchRoundsAssumption DEF Connect
  <2> QED
    BY <2>1, OpenedConnection DEF Connection
<1>3. /\ links' = Append(links, l)
      /\ links' \in Seq(Connections) /\ Len(links') = n /\ DOMAIN links' = 1 .. n
      /\ links'[n] = l
      /\ \A j \in DOMAIN links : links'[j] = links[j]
  BY <1>1, <1>2 DEF Connect
<1>4. /\ backlog \in Seq(DOMAIN links)
      /\ backlog' = Append(backlog, n) /\ Len(backlog') = Len(backlog) + 1
      /\ Len(backlog) \in Nat
      /\ DOMAIN backlog' = 1 .. Len(backlog) + 1
      /\ DOMAIN backlog = 1 .. Len(backlog)
      /\ backlog'[Len(backlog) + 1] = n
      /\ \A i \in DOMAIN backlog : backlog'[i] = backlog[i] /\ backlog[i] \in DOMAIN links
  BY <1>3 DEF Connect, TypeOK
<1>5. /\ client' = [client EXCEPT !.at = "flight", !.conn = n]
      /\ client.at = "idle" /\ client.round < TOTAL_ROUNDS
      /\ UNCHANGED <<server, faults>>
  BY <1>3 DEF Connect
<1>6. /\ client'.at = "flight" /\ client'.conn = n /\ client'.round = client.round
      /\ client'.samples = client.samples /\ client'.prints = client.prints
      /\ ClientDone = client.round /\ ClientDone' = client.round
  BY <1>5 DEF TypeOK, ClientDone
<1>7. TypeOK'
  <2>1. backlog' \in Seq(DOMAIN links')
    BY <1>1, <1>3, <1>4
  <2>2. client' \in [at : {"idle", "flight", "ok"}, conn : {NoConn, Len(links')},
                     round : 0 .. TOTAL_ROUNDS + 1, samples : 0 .. MaxSamples, prints : Nat]
    BY <1>3, <1>5 DEF TypeOK
  <2>3. server.conn \in {NoConn} \cup DOMAIN links'
    BY <1>1, <1>3 DEF TypeOK
  <2> QED
    BY <1>1, <1>3, <1>5, <1>6, <2>1, <2>2, <2>3 DEF TypeOK, NoConn
<1>8. Running'
  BY <1>2, <1>3, <1>5, <1>6 DEF Running
<1>9. FinishedIsDone'
  <2> SUFFICES ASSUME NEW k \in DOMAIN links',
                      \/ HasFinished(links'[k])
                      \/ links'[k].counted
                      \/ server.at = "ack" /\ server.conn = k
               PROVE  Done(k)'
    BY <1>5 DEF FinishedIsDone, HasFinished
  <2>1. k # n
    <3>1. server.at = "ack" => server.conn \in DOMAIN links
      BY ServedType
    <3> QED
      BY <1>1, <1>2, <1>3, <3>1
  <2>2. k \in DOMAIN links
    BY <1>1, <1>3, <2>1
  <2>3. Done(k)
    BY <1>3, <2>2 DEF FinishedIsDone
  <2>4. ASSUME NEW j \in DOMAIN links', k < j PROVE links'[k].round < links'[j].round
    <3>1. CASE j = n
      BY <1>2, <1>3, <1>6, <2>2, <2>3, <3>1 DEF Done
    <3>2. CASE j # n
      BY <1>1, <1>3, <2>2, <2>3, <2>4, <3>2 DEF Done
    <3> QED
      BY <3>1, <3>2
  <2> QED
    BY <1>3, <1>6, <2>2, <2>3, <2>4 DEF Done
<1>10. Fifo'
  <2>1. \A i \in DOMAIN backlog : backlog[i] < n
    BY <1>1, <1>4
  <2>2. \A i, j \in DOMAIN backlog' : i < j => backlog'[i] < backlog'[j]
    BY <1>4, <2>1 DEF Fifo
  <2>3. server.at # "idle" => server.conn < n
    BY <1>1, ServedType
  <2> QED
    BY <1>4, <1>5, <2>2, <2>3 DEF Fifo
<1>11. ServerBehind'
  <2>1. server.round <= client.round
    BY <1>6 DEF ServerBehind
  <2>2. server.at # "idle" => server.conn \in DOMAIN links
    BY ServedType
  <2> QED
    BY <1>2, <1>3, <1>4, <1>5, <1>6, <2>1, <2>2 DEF ServerBehind
<1>12. StatsOfAllRounds'
  BY <1>6 DEF StatsOfAllRounds
<1> QED
  BY <1>7, <1>8, <1>9, <1>10, <1>11, <1>12

\* The client is through with its connection; l is what is left of it, and the
\* counters are those of next.
LEMMA ClientLeavesInv ==
    ASSUME BenchInv, client.at # "idle",
           NEW l, Moved(Mine, l), ClientLeaves(l),
           NEW next \in [at : {"idle"}, conn : {NoConn}, round : 0 .. TOTAL_ROUNDS,
                         samples : 0 .. MaxSamples, prints : Nat],
           client' = next,
           ClientDone <= next.round, StatsOfAllRounds',
           UNCHANGED <<backlog, server>>, faults' \in 0 .. MaxFaults
    PROVE  BenchInv'
<1> USE DEF BenchInv
<1> DEFINE k == client.conn
           m == ShutDown(l, "client")
<1>1. k \in DOMAIN links /\ Mine \in Connections /\ Mine = links[k]
  BY MineType DEF Mine
<1>2. Moved(links[k], m)
  BY <1>1, ShutDownMoves, MovedOn DEF Moved, End
<1>3. links' = [links EXCEPT ![k] = m]
  BY DEF ClientLeaves
<1>4. /\ links' \in Seq(Connections)
      /\ Len(links') = Len(links) /\ DOMAIN links' = DOMAIN links
      /\ \A j \in DOMAIN links : links'[j].round = links[j].round
  BY <1>1, <1>2, <1>3, LinksMoved DEF TypeOK, Moved
<1>5. next.at = "idle" /\ next.conn = NoConn /\ next.round \in Nat
  BY BenchRoundsAssumption
<1>6. TypeOK'
  <2>1. next \in [at : {"idle", "flight", "ok"}, conn : {NoConn, Len(links')},
                  round : 0 .. TOTAL_ROUNDS + 1, samples : 0 .. MaxSamples, prints : Nat]
    BY BenchRoundsAssumption
  <2> QED
    BY <1>4, <1>5, <2>1 DEF TypeOK
<1>7. Running'
  BY <1>5 DEF Running
<1>8. ClientDone \in Nat /\ ClientDone' = next.round
  BY <1>5, DoneType DEF ClientDone
<1>9. FinishedIsDone'
  <2>1. HasFinished(m) \/ m.counted => Done(k)
    BY <1>1, <1>2, MovedKept
  <2> QED
    BY <1>1, <1>2, <1>3, <1>6, <1>8, <2>1, FinishedKept DEF Moved
<1>10. Fifo'
  BY DEF Fifo
<1>11. ServerBehind'
  <2>1. server.round <= next.round
    BY <1>5, <1>8, BenchRoundsAssumption DEF ServerBehind, TypeOK
  <2>2. server.at # "idle" => server.conn \in DOMAIN links
    BY ServedType
  <2>3. \A i \in DOMAIN backlog : backlog[i] \in DOMAIN links
    BY DEF TypeOK
  <2> QED
    BY <1>4, <1>8, <2>1, <2>2, <2>3 DEF ServerBehind
<1> QED
  BY <1>6, <1>7, <1>9, <1>10, <1>11

\* A round that failed: its number stays.
LEMMA RoundFailsInv ==
    ASSUME BenchInv, client.at = "flight",
           NEW l, Moved(Mine, l), RoundFails(l),
           UNCHANGED <<backlog, server>>, faults' \in 0 .. MaxFaults
    PROVE  BenchInv'
<1> DEFINE next == [client EXCEPT !.at = "idle", !.conn = NoConn]
<1>1. /\ next \in [at : {"idle"}, conn : {NoConn}, round : 0 .. TOTAL_ROUNDS,
                   samples : 0 .. MaxSamples, prints : Nat]
      /\ client' = next /\ next.round = client.round
      /\ next.samples = client.samples /\ next.prints = client.prints
  <2>1. client.round \in Nat /\ client.round < TOTAL_ROUNDS
    BY BenchRoundsAssumption DEF BenchInv, TypeOK, Running
  <2>2. client' = next
    BY DEF RoundFails
  <2>3. client.round \in 0 .. TOTAL_ROUNDS
    BY <2>1, BenchRoundsAssumption
  <2> QED
    BY <2>1, <2>2, <2>3 DEF BenchInv, TypeOK
<1>2. StatsOfAllRounds'
  BY <1>1 DEF BenchInv, StatsOfAllRounds
<1>3. ClientDone <= next.round
  BY <1>1, DoneType DEF BenchInv, ClientDone
<1> QED
  BY <1>1, <1>2, <1>3, ClientLeavesInv DEF RoundFails

LEMMA ConnectFailsInv == BenchInv /\ ConnectFails => BenchInv'
<1> SUFFICES ASSUME BenchInv, ConnectFails PROVE BenchInv'
  OBVIOUS
<1>1. Moved(Mine, Mine)
  BY MineType DEF ConnectFails, BenchInv, Moved
<1>2. faults' \in 0 .. MaxFaults
  BY FaultsBounded DEF ConnectFails, Fails, BenchInv
<1> QED
  BY <1>1, <1>2, RoundFailsInv DEF ConnectFails

\* The client's Finished: from here on its round is done.
LEMMA ConnectFinishedInv == BenchInv /\ ConnectFinished => BenchInv'
<1> SUFFICES ASSUME BenchInv, ConnectFinished PROVE BenchInv'
  OBVIOUS
<1> USE DEF BenchInv
<1>0. PICK k : k = client.conn
  OBVIOUS
<1> DEFINE l == Taken(Mine, "client")
           m == Put(l, "client", "CF")
<1>1. /\ client.at = "flight" /\ k = Len(links) /\ k \in DOMAIN links
      /\ Mine \in Connections /\ Mine = links[k] /\ links[k].round = client.round
      /\ client.round < TOTAL_ROUNDS /\ client.round \in Nat
  BY <1>0, MineType, BenchRoundsAssumption DEF ConnectFinished, Mine, Running, TypeOK
<1>2. faults' \in 0 .. MaxFaults
  BY FaultsBounded DEF ConnectFinished, Arrives
<1>3. Moved(Mine, l)
  BY <1>1, TakenMoves DEF ConnectFinished, Arrives, End
<1>4. CASE ~Connected(l, "client")
  BY <1>1, <1>2, <1>3, <1>4, RoundFailsInv DEF ConnectFinished
<1>5. CASE Connected(l, "client")
  <2>1. m \in Connections /\ m.round = links[k].round
    <3>1. /\ l \in Connections /\ l.round = links[k].round
          /\ Append(l.to["server"], "CF") \in Seq(Records)
      BY <1>1, <1>3 DEF Moved, Connections, End, Records
    <3> QED
      BY <3>1 DEF Put, Connections, Other, End
  <2>2. /\ links' = [links EXCEPT ![k] = m]
        /\ client' = [client EXCEPT !.at = "ok"]
        /\ UNCHANGED <<backlog, server>>
    BY <1>0, <1>5 DEF ConnectFinished
  <2>3. /\ links' \in Seq(Connections)
        /\ Len(links') = Len(links) /\ DOMAIN links' = DOMAIN links
        /\ \A j \in DOMAIN links : links'[j].round = links[j].round
    BY <1>1, <2>1, <2>2, LinksMoved DEF TypeOK
  <2>4. /\ client'.at = "ok" /\ client'.conn = k /\ client'.round = client.round
        /\ client'.samples = client.samples /\ client'.prints = client.prints
        /\ ClientDone = client.round /\ ClientDone' = client.round + 1
    BY <1>0, <1>1, <2>2 DEF TypeOK, ClientDone
  <2>5. TypeOK'
    BY <1>1, <1>2, <2>2, <2>3, <2>4 DEF TypeOK, NoConn
  <2>6. Running'
    BY <1>1, <2>2, <2>3, <2>4 DEF Running
  <2>7. FinishedIsDone'
    <3>1. Done(k)'
      BY <1>1, <2>3, <2>4 DEF Done, TypeOK
    <3>2. ClientDone <= ClientDone' /\ server' = server
      BY <1>1, <2>2, <2>4
    <3> HIDE DEF m
    <3> QED
      BY <1>1, <2>1, <2>2, <2>5, <3>1, <3>2, FinishedKept
  <2>8. Fifo' /\ StatsOfAllRounds'
    BY <2>2, <2>4 DEF Fifo, StatsOfAllRounds
  <2>9. ServerBehind'
    <3>1. server.round <= ClientDone'
      BY <1>1, <2>4, BenchRoundsAssumption DEF ServerBehind, TypeOK
    <3>2. server.at # "idle" => server.conn \in DOMAIN links
      BY ServedType
    <3>3. \A i \in DOMAIN backlog : backlog[i] \in DOMAIN links
      BY DEF TypeOK
    <3> QED
      BY <2>2, <2>3, <3>1, <3>2, <3>3 DEF ServerBehind
  <2> QED
    BY <2>5, <2>6, <2>7, <2>8, <2>9
<1> QED
  BY <1>4, <1>5

\* The samples of the rounds done so far, as StatsOfAllRounds states them.
LEMMA SampledNext ==
    ASSUME NEW r \in Nat, r < TOTAL_ROUNDS,
           NEW n \in 0 .. MaxSamples,
           n = IF r = 0 THEN 0 ELSE Least(Least(r, TOTAL_ROUNDS) - 1, MaxSamples)
    PROVE  /\ Sampled(r, n) \in 0 .. MaxSamples
           /\ Sampled(r, n) = Least(Least(r + 1, TOTAL_ROUNDS) - 1, MaxSamples)
BY BenchRoundsAssumption DEF Sampled, Least

LEMMA RoundSucceedsInv == BenchInv /\ RoundSucceeds => BenchInv'
<1> SUFFICES ASSUME BenchInv, RoundSucceeds PROVE BenchInv'
  OBVIOUS
<1> USE DEF BenchInv
<1>1. client.at = "ok" /\ Mine \in Connections
  BY MineType DEF RoundSucceeds
<1>2. faults' \in 0 .. MaxFaults
  BY FaultsBounded DEF RoundSucceeds, Arrives, Fails
<1>3. \E l : Moved(Mine, l) /\ ClientLeaves(l)
  <2>1. CASE /\ Arrives(Mine, "client", "OK")
             /\ ClientLeaves(Put(Taken(Mine, "client"), "client", "ACK"))
    <3>1. Moved(Mine, Taken(Mine, "client"))
      BY <1>1, <2>1, TakenMoves DEF Arrives, End
    <3>2. Moved(Mine, Put(Taken(Mine, "client"), "client", "ACK"))
      BY <3>1, PutMoves, MovedOn DEF Moved, End, Records
    <3> QED
      BY <2>1, <3>2
  <2>2. CASE ClientLeaves(Put(Mine, "client", "ACK"))
    <3>1. Moved(Mine, Put(Mine, "client", "ACK"))
      BY <1>1, PutMoves DEF End, Records
    <3> QED
      BY <2>2, <3>1
  <2> QED
    BY <2>1, <2>2 DEF RoundSucceeds
<1> DEFINE next == [client EXCEPT !.at = "idle", !.conn = NoConn, !.round = @ + 1,
                                  !.samples = Sampled(client.round, @)]
<1>4. /\ client.round \in Nat /\ client.round < TOTAL_ROUNDS
      /\ client.samples \in 0 .. MaxSamples
      /\ client.prints = 0
  BY <1>1, BenchRoundsAssumption DEF TypeOK, Running, StatsOfAllRounds
<1>5. /\ Sampled(client.round, client.samples) \in 0 .. MaxSamples
      /\ Sampled(client.round, client.samples) =
             Least(Least(client.round + 1, TOTAL_ROUNDS) - 1, MaxSamples)
  BY <1>4, SampledNext DEF StatsOfAllRounds
<1>6. /\ next \in [at : {"idle"}, conn : {NoConn}, round : 0 .. TOTAL_ROUNDS,
                   samples : 0 .. MaxSamples, prints : Nat]
      /\ client' = next /\ next.round = client.round + 1
      /\ next.samples = Sampled(client.round, client.samples) /\ next.prints = 0
  <2>1. client' = next
    BY DEF RoundSucceeds
  <2>2. client.round + 1 \in 0 .. TOTAL_ROUNDS
    BY <1>4, BenchRoundsAssumption
  <2> QED
    BY <1>4, <1>5, <2>1, <2>2 DEF TypeOK
<1>7. StatsOfAllRounds'
  BY <1>4, <1>5, <1>6, BenchRoundsAssumption DEF StatsOfAllRounds
<1>8. ClientDone <= next.round
  BY <1>1, <1>4, <1>6 DEF ClientDone
<1> QED
  BY <1>1, <1>2, <1>3, <1>6, <1>7, <1>8, ClientLeavesInv DEF RoundSucceeds

LEMMA PrintStatsInv == BenchInv /\ PrintStats => BenchInv'
<1> SUFFICES ASSUME BenchInv, PrintStats PROVE BenchInv'
  OBVIOUS
<1> USE DEF BenchInv
<1>1. /\ client.at = "idle" /\ client.round = TOTAL_ROUNDS /\ client.prints = 0
      /\ client' = [client EXCEPT !.round = TOTAL_ROUNDS + 1, !.prints = 1]
  <2>1. client.at = "idle" /\ client.round = TOTAL_ROUNDS /\ client.prints = 0
    BY BenchRoundsAssumption DEF PrintStats, StatsOfAllRounds
  <2> QED
    BY <2>1 DEF PrintStats, TypeOK
<1>2. TypeOK'
  <2>1. client' \in [at : {"idle", "flight", "ok"}, conn : {NoConn, Len(links)},
                     round : 0 .. TOTAL_ROUNDS + 1, samples : 0 .. MaxSamples, prints : Nat]
    <3>1. TOTAL_ROUNDS + 1 \in 0 .. TOTAL_ROUNDS + 1 /\ 1 \in Nat
      BY BenchRoundsAssumption
    <3> QED
      BY <1>1, <3>1 DEF TypeOK
  <2>2. client'.at = client.at /\ client'.conn = client.conn
    BY <1>1 DEF TypeOK
  <2> QED
    BY <2>1, <2>2 DEF PrintStats, TypeOK
<1>3. /\ client'.at = "idle" /\ client'.round = TOTAL_ROUNDS + 1
      /\ client'.samples = client.samples /\ client'.prints = 1
      /\ ClientDone = TOTAL_ROUNDS /\ ClientDone' = TOTAL_ROUNDS + 1
  BY <1>1 DEF TypeOK, ClientDone
<1>4. Running' /\ Fifo'
  BY <1>3 DEF PrintStats, Running, Fifo
<1>5. FinishedIsDone'
  BY <1>3, RoundType, BenchRoundsAssumption
     DEF PrintStats, FinishedIsDone, Done, TypeOK, HasFinished
<1>6. ServerBehind'
  BY <1>3, BenchRoundsAssumption DEF PrintStats, ServerBehind, TypeOK
<1>7. StatsOfAllRounds'
  BY <1>1, <1>3, BenchRoundsAssumption DEF StatsOfAllRounds, Least
<1> QED
  BY <1>2, <1>4, <1>5, <1>6, <1>7

LEMMA LinkBreaksInv ==
    ASSUME BenchInv, NEW k \in DOMAIN links, LinkBreaks(k)
    PROVE  BenchInv'
<1> USE DEF BenchInv
<1> DEFINE l == Cut(links[k])
<1>1. faults' \in 0 .. MaxFaults
  BY FaultsBounded DEF LinkBreaks
<1>2. links[k] \in Connections /\ Moved(links[k], l)
  BY RoundType, CutMoves DEF TypeOK
<1>3. links' = [links EXCEPT ![k] = l] /\ UNCHANGED <<backlog, server, client>>
  BY DEF LinkBreaks
<1>4. /\ links' \in Seq(Connections)
      /\ Len(links') = Len(links) /\ DOMAIN links' = DOMAIN links
      /\ \A j \in DOMAIN links : links'[j].round = links[j].round
  BY <1>2, <1>3, LinksMoved DEF TypeOK, Moved
<1>5. TypeOK'
  BY <1>1, <1>3, <1>4 DEF TypeOK
<1>6. Running'
  BY <1>3, <1>4, MineType DEF Running
<1>7. FinishedIsDone'
  <2>1. HasFinished(l) \/ l.counted => Done(k)
    BY <1>2, MovedKept
  <2>2. ClientDone <= ClientDone' /\ server' = server
    BY <1>3, DoneType DEF ClientDone
  <2> QED
    BY <1>2, <1>3, <1>5, <2>1, <2>2, FinishedKept DEF Moved
<1>8. Fifo' /\ StatsOfAllRounds'
  BY <1>3 DEF Fifo, StatsOfAllRounds
<1>9. ServerBehind'
  <2>1. server.at # "idle" => server.conn \in DOMAIN links
    BY ServedType
  <2> QED
    BY <1>3, <1>4, <2>1 DEF ServerBehind, ClientDone, TypeOK
<1> QED
  BY <1>5, <1>6, <1>7, <1>8, <1>9

-----------------------------------------------------------------------------

LEMMA BenchNext == BenchInv /\ [Next]_vars => BenchInv'
<1> SUFFICES ASSUME BenchInv, [Next]_vars PROVE BenchInv'
  OBVIOUS
<1>1. CASE ServerStep
  BY <1>1, AcceptInv, HandshakeFailsInv, AcceptHelloInv, AcceptFinishedInv, RoundEndsInv
     DEF ServerStep
<1>2. CASE ClientStep
  BY <1>2, ConnectInv, ConnectFailsInv, ConnectFinishedInv, RoundSucceedsInv, PrintStatsInv
     DEF ClientStep
<1>3. CASE \E k \in DOMAIN links : LinkBreaks(k)
  BY <1>3, LinkBreaksInv
<1>4. CASE UNCHANGED vars
  BY <1>4 DEF vars, BenchInv, TypeOK, Running, FinishedIsDone, Done, HasFinished,
              ClientDone, Fifo, ServerBehind, StatsOfAllRounds
<1> QED
  BY <1>1, <1>2, <1>3, <1>4 DEF Next

\* From the client's Finished on a round is done, connections are served in
\* order, and none that is still to be served is for a round already counted.
THEOREM BenchInvariant == Spec => []BenchInv
BY BenchInit, BenchNext, PTL DEF Spec

\* Every reachable state is well typed: the samples never outgrow hsTimes.
THEOREM BenchTypeCorrect == Spec => []TypeOK
<1>1. BenchInv => TypeOK
  BY DEF BenchInv
<1> QED
  BY <1>1, BenchInvariant, PTL

\* The server never counts a round its client has to repeat, however many
\* deadlines pass and links break.
THEOREM NeverAhead == Spec => []ServerNeverAhead
<1>1. BenchInv => ServerNeverAhead
  BY DEF BenchInv, ServerNeverAhead, FinishedIsDone, Done, ServerBehind
<1> QED
  BY <1>1, BenchInvariant, PTL

\* The statistics are those of every benchmark round, and are printed once.
THEOREM StatsComplete == Spec => []StatsOfAllRounds
<1>1. BenchInv => StatsOfAllRounds
  BY DEF BenchInv
<1> QED
  BY <1>1, BenchInvariant, PTL

=============================================================================
