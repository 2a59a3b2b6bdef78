--------------------------- MODULE BaselineProofs ---------------------------
(***************************************************************************)
(* Theorems about the X.509 baseline, for any number of boards, rounds,    *)
(* connections and cuts: no board waits for one that has gone.             *)
(***************************************************************************)
EXTENDS BaselineProperties, SequenceTheorems, TLAPS

-----------------------------------------------------------------------------
(* The inductive invariant.                                                *)

Links == [to : [End -> Seq(Records)], up : [End -> BOOLEAN],
          owner : Clients, outcome : {"none", "served"}, result : {"none"}]

ServerRecords ==
    [at : {"idle", "accepting", "finished", "waiting", "closing"},
     conn : {NoConn} \cup DOMAIN links, ssi : BOOLEAN, err : BOOLEAN]

ClientRecords ==
    [at : {"idle", "halted", "flight", "reply", "closing"},
     conn : {NoConn} \cup DOMAIN links, err : BOOLEAN, first : BOOLEAN,
     n : 0 .. Rounds, tries : 0 .. Reconnects]

\* What is left of the rounds and of the attempts while a client runs.
RunsOn(r) ==
    /\ (r.at \in {"idle", "halted"}) = (r.conn = NoConn)
    /\ r.at # "halted" => r.tries > 0
    /\ r.at \in {"idle", "flight"} => r.n < Rounds

Typed ==
    /\ trusts \in [X509Clients -> BOOLEAN]
    /\ links \in Seq(Links)
    /\ backlog \in Seq(DOMAIN links)
    /\ server \in ServerRecords
    /\ server.at # "idle" => server.conn # NoConn
    /\ client \in [Clients -> ClientRecords]
    /\ \A c \in Clients :
           /\ RunsOn(client[c])
           /\ client[c].conn # NoConn => Link(c).owner = c
    /\ cuts \in Nat

\* A connection waits to be accepted once.
InLine ==
    /\ \A i, j \in DOMAIN backlog : backlog[i] = backlog[j] => i = j
    /\ \A i \in DOMAIN backlog : backlog[i] # server.conn

Queued(k) == \E i \in DOMAIN backlog : backlog[i] = k

\* Where the two ends of connection k are.
ServerAt(k) ==
    IF Queued(k) THEN "queued" ELSE IF server.conn = k THEN server.at ELSE "left"

ClientAt(k) ==
    IF client[links[k].owner].conn = k THEN client[links[k].owner].at ELSE "left"

\* The dialogue on a link that does not break: ok says whether the client
\* accepts the certificate, s and c where the two ends are, toS and toC what is
\* on its way to them.
Dialogue(ok, s, err, c, toS, toC) ==
    \/ s \in {"queued", "accepting"} /\ c = "flight" /\ toS = <<"CH">> /\ toC = <<>>
    \/ s = "finished" /\ c = "flight" /\ toS = <<>> /\ toC = <<"SF">>
    \/ ok /\ s = "finished" /\ c = "reply" /\ toS = <<"CF", "msg">> /\ toC = <<>>
    \/ ok /\ s = "waiting" /\ ~err /\ c = "reply" /\ toS = <<"msg">> /\ toC = <<>>
    \/ /\ ok /\ s = "closing" /\ c = "reply"
       /\ toS \in {<<>>, <<"msg">>} /\ toC = <<"reply", "notify">>
    \/ /\ ok
       /\ \/ s = "closing" /\ toS \in {<<"notify">>, <<"msg", "notify">>}
          \/ s \in {"idle", "left"} /\ toS = <<>>
       /\ \/ c = "closing" /\ toC = <<"notify">>
          \/ c = "left" /\ toC = <<>>
    \/ /\ ~ok /\ c \in {"closing", "left"} /\ toC = <<>>
       /\ \/ s = "finished" /\ toS = <<"alert">>
          \/ s = "waiting" /\ err /\ toS = <<>>

InStep(k) ==
    /\ Dialogue(trusts[links[k].owner], ServerAt(k), server.err, ClientAt(k),
                links[k].to["server"], links[k].to["client"])
    /\ links[k].up["server"] = (ServerAt(k) # "left")
    /\ links[k].up["client"] = (ClientAt(k) # "left")

BaselineInv ==
    /\ Typed
    /\ InLine
    /\ cuts = 0 => \A k \in DOMAIN links : InStep(k)

-----------------------------------------------------------------------------
(* What a board does to a connection.                                      *)

LEMMA OneQueued ==
    ASSUME NEW x
    PROVE  /\ <<x>> # <<>> /\ Head(<<x>>) = x /\ Tail(<<x>>) = <<>>
           /\ Append(<<>>, x) = <<x>>
OBVIOUS

LEMMA TwoQueued ==
    ASSUME NEW x, NEW y
    PROVE  /\ <<x, y>> # <<>> /\ Head(<<x, y>>) = x /\ Tail(<<x, y>>) = <<y>>
           /\ Append(<<x>>, y) = <<x, y>>
<1>1. <<x, y>> # <<>> /\ Head(<<x, y>>) = x
  OBVIOUS
<1>2. Tail(<<x, y>>) = <<y>>
  <2> DEFINE s == <<x, y>>
             t == Tail(s)
  <2>1. s \in Seq({x, y}) /\ s # <<>> /\ Len(s) = 2 /\ s[2] = y
    OBVIOUS
  <2> HIDE DEF s
  <2>2. t \in Seq({x, y}) /\ Len(t) = 1 /\ t[1] = y
    BY <2>1
  <2> HIDE DEF t
  <2>3. <<y>> \in Seq({x, y}) /\ Len(<<y>>) = 1 /\ <<y>>[1] = y
    OBVIOUS
  <2>4. t = <<y>>
    BY <2>2, <2>3, SeqEqual
  <2> QED
    BY <2>4 DEF t, s
<1>3. Append(<<x>>, y) = <<x, y>>
  <2> DEFINE s == <<x>>
             t == Append(s, y)
  <2>1. s \in Seq({x, y}) /\ Len(s) = 1 /\ s[1] = x
    OBVIOUS
  <2> HIDE DEF s
  <2>2. t \in Seq({x, y}) /\ Len(t) = 2 /\ t[1] = x /\ t[2] = y
    <3>1. y \in {x, y}
      OBVIOUS
    <3>2. /\ t \in Seq({x, y}) /\ Len(t) = Len(s) + 1
          /\ \A i \in 1 .. Len(s) : t[i] = s[i]
          /\ t[Len(s) + 1] = y
      BY <2>1, <3>1, AppendProperties
    <3> HIDE DEF t
    <3> QED
      BY <2>1, <3>2
  <2> HIDE DEF t
  <2>3. <<x, y>> \in Seq({x, y}) /\ Len(<<x, y>>) = 2 /\ <<x, y>>[1] = x /\ <<x, y>>[2] = y
    OBVIOUS
  <2>4. \A i \in 1 .. 2 : i = 1 \/ i = 2
    OBVIOUS
  <2>5. t = <<x, y>>
    BY <2>2, <2>3, <2>4, SeqEqual
  <2> QED
    BY <2>5 DEF t, s
<1> QED
  BY <1>1, <1>2, <1>3

\* The queues that occur.
LEMMA Queues ==
    /\ Tail(<<"CH">>) = <<>> /\ Append(<<>>, "SF") = <<"SF">> /\ Tail(<<"SF">>) = <<>>
    /\ Append(<<>>, "CF") = <<"CF">> /\ Append(<<"CF">>, "msg") = <<"CF", "msg">>
    /\ Head(<<"CF", "msg">>) = "CF" /\ Tail(<<"CF", "msg">>) = <<"msg">>
    /\ Append(<<>>, "alert") = <<"alert">>
    /\ Head(<<"alert">>) = "alert" /\ Tail(<<"alert">>) = <<>>
    /\ Append(<<>>, "reply") = <<"reply">>
    /\ Append(<<"reply">>, "notify") = <<"reply", "notify">>
    /\ Head(<<"reply", "notify">>) = "reply"
    /\ Tail(<<"reply", "notify">>) = <<"notify">>
    /\ Append(<<>>, "notify") = <<"notify">>
    /\ Append(<<"msg">>, "notify") = <<"msg", "notify">>
    /\ Head(<<"msg">>) = "msg" /\ Tail(<<"msg">>) = <<>>
    /\ Head(<<"notify">>) = "notify" /\ Tail(<<"notify">>) = <<>>
    /\ Head(<<"msg", "notify">>) = "msg" /\ Tail(<<"msg", "notify">>) = <<"notify">>
    /\ <<"msg">> # <<>> /\ <<"notify">> # <<>> /\ <<"msg", "notify">> # <<>>
    /\ <<"alert">> # <<>> /\ <<"SF">> # <<>> /\ <<"reply", "notify">> # <<>>
BY OneQueued, TwoQueued, Zenon

LEMMA TakenTyped ==
    ASSUME NEW l \in Links, NEW e \in End, Available(l, e)
    PROVE  LET m == Taken(l, e)
           IN  /\ m \in Links /\ m.owner = l.owner /\ m.up = l.up
               /\ m.outcome = l.outcome
               /\ m.to[e] = Tail(l.to[e])
               /\ \A d \in End : d # e => m.to[d] = l.to[d]
<1> DEFINE to == [l.to EXCEPT ![e] = Tail(l.to[e])]
<1>1. l.to \in [End -> Seq(Records)] /\ Tail(l.to[e]) \in Seq(Records)
  BY DEF Links, Available
<1>2. /\ to \in [End -> Seq(Records)] /\ to[e] = Tail(l.to[e])
      /\ \A d \in End : d # e => to[d] = l.to[d]
  BY <1>1
<1>3. Taken(l, e) = [l EXCEPT !.to = to]
  BY DEF Taken
<1> HIDE DEF to
<1> QED
  BY <1>2, <1>3 DEF Links

LEMMA PutTyped ==
    ASSUME NEW l \in Links, NEW e \in End, NEW r \in Records
    PROVE  LET m == Put(l, e, r)
           IN  /\ m \in Links /\ m.owner = l.owner /\ m.up = l.up
               /\ m.outcome = l.outcome
               /\ m.to[e] = l.to[e]
               /\ m.to[Other(e)] = IF l.up[Other(e)] THEN Append(l.to[Other(e)], r)
                                   ELSE l.to[Other(e)]
<1> DEFINE d == Other(e)
           to == [l.to EXCEPT ![d] = Append(l.to[d], r)]
<1>1. /\ l.to \in [End -> Seq(Records)] /\ d \in End /\ d # e
  BY DEF Links, Other, End
<1> HIDE DEF d
<1>2. /\ to \in [End -> Seq(Records)] /\ to[d] = Append(l.to[d], r) /\ to[e] = l.to[e]
  BY <1>1
<1>3. Put(l, e, r) = IF l.up[d] THEN [l EXCEPT !.to = to] ELSE l
  BY DEF Put, d
<1> HIDE DEF to
<1> QED
  BY <1>2, <1>3 DEF Links, d

LEMMA StoppedTyped ==
    ASSUME NEW l \in Links, NEW e \in End
    PROVE  LET m == Stopped(l, e)
           IN  /\ m \in Links /\ m.owner = l.owner
               /\ m.to[e] = <<>> /\ m.up[e] = FALSE
               /\ \A d \in End : d # e => m.to[d] = l.to[d] /\ m.up[d] = l.up[d]
<1> DEFINE up == [l.up EXCEPT ![e] = FALSE]
           to == [l.to EXCEPT ![e] = <<>>]
<1>1. l.up \in [End -> BOOLEAN] /\ l.to \in [End -> Seq(Records)]
  BY DEF Links
<1>2. /\ up \in [End -> BOOLEAN] /\ to \in [End -> Seq(Records)]
      /\ up[e] = FALSE /\ to[e] = <<>>
      /\ \A d \in End : d # e => to[d] = l.to[d] /\ up[d] = l.up[d]
  BY <1>1
<1>3. Stopped(l, e) = [l EXCEPT !.up = up, !.to = to]
  BY DEF Stopped
<1> HIDE DEF up, to
<1> QED
  BY <1>2, <1>3 DEF Links

-----------------------------------------------------------------------------
(* What a step leaves alone.                                               *)

LEMMA OnlyX509 == Clients = X509Clients /\ SsiClients = {}
BY BaselineAssumption DEF Clients

LEMMA ConnTyped ==
    ASSUME Typed
    PROVE  /\ \A k \in DOMAIN links : links[k] \in Links /\ k # NoConn
           /\ \A c \in Clients :
                  client[c].conn # NoConn =>
                      /\ client[c].conn \in DOMAIN links
                      /\ links[client[c].conn].owner = c
           /\ server.conn # NoConn => server.conn \in DOMAIN links
           /\ \A i \in DOMAIN backlog : backlog[i] \in DOMAIN links
<1>1. \A k \in DOMAIN links : links[k] \in Links /\ k # NoConn
  BY ElementOfSeq DEF Typed, NoConn
<1>2. \A c \in Clients :
          client[c].conn # NoConn =>
              client[c].conn \in DOMAIN links /\ links[client[c].conn].owner = c
  BY DEF Typed, ClientRecords, Link
<1>3. server.conn # NoConn => server.conn \in DOMAIN links
  BY DEF Typed, ServerRecords
<1>4. \A i \in DOMAIN backlog : backlog[i] \in DOMAIN links
  BY ElementOfSeq DEF Typed
<1> QED
  BY <1>1, <1>2, <1>3, <1>4

LEMMA LinksUpdated ==
    ASSUME Typed, NEW k \in DOMAIN links, NEW m \in Links, links' = [links EXCEPT ![k] = m]
    PROVE  /\ links' \in Seq(Links) /\ DOMAIN links' = DOMAIN links
           /\ links'[k] = m
           /\ \A j \in DOMAIN links : j # k => links'[j] = links[j]
           /\ ServerRecords' = ServerRecords /\ ClientRecords' = ClientRecords
<1>1. links \in Seq(Links) /\ k \in 1 .. Len(links)
  BY DEF Typed
<1>2. /\ links' \in Seq(Links) /\ DOMAIN links' = DOMAIN links
      /\ links'[k] = m
      /\ \A j \in DOMAIN links : j # k => links'[j] = links[j]
  BY <1>1, ExceptSeq
<1> QED
  BY <1>2 DEF ServerRecords, ClientRecords

\* The dialogue of a connection of which nothing changes.
LEMMA InStepKept ==
    ASSUME NEW k, InStep(k), links'[k] = links[k], trusts' = trusts,
           ServerAt(k)' = ServerAt(k), ClientAt(k)' = ClientAt(k),
           ServerAt(k) \in {"finished", "waiting"} => server'.err = server.err
    PROVE  InStep(k)'
BY DEF InStep, Dialogue

\* The server moves on the connection it serves.
LEMMA ServerMoves ==
    ASSUME BaselineInv, NEW k, k = server.conn, k # NoConn, NEW m \in Links,
           links' = [links EXCEPT ![k] = m], m.owner = links[k].owner,
           server' \in ServerRecords, server'.conn = k,
           UNCHANGED <<trusts, backlog, client, cuts>>,
           cuts = 0 =>
               /\ m.up = links[k].up
               /\ Dialogue(trusts[m.owner], server'.at, server'.err, ClientAt(k),
                           m.to["server"], m.to["client"])
    PROVE  BaselineInv'
<1>1. Typed /\ InLine /\ k \in DOMAIN links
  BY ConnTyped DEF BaselineInv
<1>2. /\ links' \in Seq(Links) /\ DOMAIN links' = DOMAIN links /\ links'[k] = m
      /\ \A j \in DOMAIN links : j # k => links'[j] = links[j]
      /\ ServerRecords' = ServerRecords /\ ClientRecords' = ClientRecords
  BY <1>1, LinksUpdated
<1>3. \A j \in DOMAIN links : links'[j].owner = links[j].owner
  BY <1>1, <1>2
<1>4. Typed'
  <2>1. \A c \in Clients : client[c].conn # NoConn => links'[client[c].conn].owner = c
    BY <1>1, <1>3, ConnTyped
  <2> QED
    BY <1>1, <1>2, <2>1 DEF Typed, Link
<1>5. InLine'
  BY <1>1 DEF InLine
<1>6. \A j \in DOMAIN links : ClientAt(j)' = ClientAt(j) /\ Queued(j)' = Queued(j)
  BY <1>3 DEF ClientAt, Queued
<1>7. ASSUME cuts = 0, NEW j \in DOMAIN links
      PROVE  InStep(j)'
  <2>1. InStep(j)
    BY <1>7 DEF BaselineInv
  <2>2. CASE j # k
    <3>1. ServerAt(j)' = ServerAt(j) /\ links'[j] = links[j]
      BY <1>2, <1>6, <2>2 DEF ServerAt
    <3>2. ServerAt(j) \in {"queued", "left"}
      BY <2>2 DEF ServerAt
    <3> QED
      BY <1>6, <2>1, <3>1, <3>2, InStepKept
  <2>3. CASE j = k
    <3>1. ~Queued(j)
      BY <1>1, <2>3 DEF Queued, InLine
    <3>2. ServerAt(j)' = server'.at /\ ServerAt(j) = server.at
      BY <1>6, <2>3, <3>1 DEF ServerAt
    <3>3. server.at # "left" /\ server'.at # "left"
      BY <1>1 DEF Typed, ServerRecords
    <3> QED
      BY <1>2, <1>6, <1>7, <2>1, <2>3, <3>2, <3>3 DEF InStep
  <2> QED
    BY <2>2, <2>3
<1> QED
  BY <1>2, <1>4, <1>5, <1>7 DEF BaselineInv

\* A client moves on its connection, or leaves it.
LEMMA ClientMoves ==
    ASSUME BaselineInv, NEW c \in Clients, NEW k, k = client[c].conn, k # NoConn,
           NEW m \in Links, links' = [links EXCEPT ![k] = m], m.owner = c,
           NEW r \in ClientRecords, client' = [client EXCEPT ![c] = r], RunsOn(r),
           r.conn \in {NoConn, k},
           UNCHANGED <<trusts, backlog, server, cuts>>,
           cuts = 0 =>
               /\ m.up["server"] = links[k].up["server"]
               /\ m.up["client"] = (r.conn = k)
               /\ Dialogue(trusts[c], ServerAt(k), server.err,
                           IF r.conn = k THEN r.at ELSE "left",
                           m.to["server"], m.to["client"])
    PROVE  BaselineInv'
<1>1. Typed /\ InLine /\ k \in DOMAIN links /\ links[k].owner = c
  BY ConnTyped DEF BaselineInv
<1>2. /\ links' \in Seq(Links) /\ DOMAIN links' = DOMAIN links /\ links'[k] = m
      /\ \A j \in DOMAIN links : j # k => links'[j] = links[j]
      /\ ServerRecords' = ServerRecords /\ ClientRecords' = ClientRecords
  BY <1>1, LinksUpdated
<1>3. /\ \A j \in DOMAIN links : links'[j].owner = links[j].owner
      /\ client'[c] = r /\ \A d \in Clients : d # c => client'[d] = client[d]
      /\ client' \in [Clients -> ClientRecords]
  BY <1>1, <1>2 DEF Typed
<1>4. Typed'
  <2>1. \A d \in Clients : client'[d].conn # NoConn => links'[client'[d].conn].owner = d
    BY <1>1, <1>3, ConnTyped
  <2>2. \A d \in Clients : RunsOn(client'[d])
    BY <1>1, <1>3 DEF Typed
  <2>3. \A d \in Clients : Link(d)' = links'[client'[d].conn]
    BY DEF Link
  <2>4. \A d \in Clients : RunsOn(client[d])' = RunsOn(client'[d])
    BY DEF RunsOn
  <2> QED
    BY <1>1, <1>2, <1>3, <2>1, <2>2, <2>3, <2>4 DEF Typed
<1>5. InLine'
  BY <1>1 DEF InLine
<1>6. \A j \in DOMAIN links : ServerAt(j)' = ServerAt(j)
  BY DEF ServerAt, Queued
<1>7. ASSUME cuts = 0, NEW j \in DOMAIN links
      PROVE  InStep(j)'
  <2>1. InStep(j)
    BY <1>7 DEF BaselineInv
  <2>2. CASE j # k
    <3>1. links[j].owner \in Clients /\ links'[j] = links[j] /\ j # NoConn
      BY <1>1, <1>2, <2>2, ConnTyped DEF Links
    <3>2. ClientAt(j)' = ClientAt(j)
      BY <1>3, <2>2, <3>1 DEF ClientAt
    <3> QED
      BY <1>6, <2>1, <3>1, <3>2, InStepKept
  <2>3. CASE j = k
    <3>1. ClientAt(k)' = IF r.conn = k THEN r.at ELSE "left"
      BY <1>1, <1>2, <1>3 DEF ClientAt
    <3>2. r.at # "left"
      BY DEF ClientRecords
    <3>3. ServerAt(k)' = ServerAt(k)
      BY <1>1, <1>6
    <3> QED
      BY <1>2, <1>7, <2>1, <2>3, <3>1, <3>2, <3>3 DEF InStep
  <2> QED
    BY <2>2, <2>3
<1> QED
  BY <1>2, <1>4, <1>5, <1>7 DEF BaselineInv

-----------------------------------------------------------------------------
(* The server's steps.                                                     *)

\* What is known of the connection that is served.
LEMMA ServedFacts ==
    ASSUME BaselineInv, server.at # "idle", NEW k, k = server.conn
    PROVE  /\ Typed /\ k # NoConn /\ k \in DOMAIN links /\ Served = links[k]
           /\ Served \in Links /\ Served.owner \in X509Clients
           /\ trusts[Served.owner] \in BOOLEAN
           /\ server \in ServerRecords
           /\ cuts = 0 =>
                  /\ Dialogue(trusts[Served.owner], server.at, server.err, ClientAt(k),
                              Served.to["server"], Served.to["client"])
                  /\ Served.up["client"] = (ClientAt(k) # "left")
<1>1. /\ Typed /\ InLine /\ k # NoConn /\ k \in DOMAIN links /\ Served = links[k]
      /\ Served \in Links /\ server \in ServerRecords
  BY ConnTyped DEF BaselineInv, Typed, Served
<1>2. Served.owner \in X509Clients /\ trusts[Served.owner] \in BOOLEAN
  BY <1>1, OnlyX509 DEF Links, Typed
<1>3. ServerAt(k) = server.at
  BY <1>1 DEF ServerAt, Queued, InLine
<1> QED
  BY <1>1, <1>2, <1>3 DEF BaselineInv, InStep

LEMMA HelloKeeps ==
    ASSUME BaselineInv, BaselineHello
    PROVE  BaselineInv'
<1>1. PICK k : k = server.conn
  OBVIOUS
<1> DEFINE l == Taken(links[k], "server")
           m == Put(l, "server", "SF")
<1>2. /\ server.at = "accepting" /\ Available(links[k], "server")
      /\ k # NoConn /\ k \in DOMAIN links /\ links[k] \in Links /\ server \in ServerRecords
      /\ cuts = 0 =>
             /\ Dialogue(trusts[links[k].owner], "accepting", server.err, ClientAt(k),
                         links[k].to["server"], links[k].to["client"])
             /\ links[k].up["client"] = (ClientAt(k) # "left")
  BY <1>1, ServedFacts DEF BaselineHello, BaselineReads
<1>3. /\ links' = [links EXCEPT ![k] = m] /\ server' = [server EXCEPT !.at = "finished"]
      /\ UNCHANGED <<trusts, backlog, client, cuts>>
  BY <1>1, <1>2, ServedFacts DEF BaselineHello, BaselineReads, ServerGoesTo, server_vars
<1>4. /\ l \in Links /\ l.owner = links[k].owner /\ l.up = links[k].up
      /\ l.to["server"] = Tail(links[k].to["server"])
      /\ l.to["client"] = links[k].to["client"]
  BY <1>2, TakenTyped DEF End
<1> HIDE DEF l
<1>5. /\ m \in Links /\ m.owner = l.owner /\ m.up = l.up
      /\ m.to["server"] = l.to["server"]
      /\ m.to["client"] = IF l.up["client"] THEN Append(l.to["client"], "SF")
                          ELSE l.to["client"]
  BY <1>4, PutTyped DEF End, Records, Other
<1> HIDE DEF m
<1>6. /\ server' \in ServerRecords /\ server'.conn = k /\ server'.at = "finished"
  BY <1>1, <1>2, <1>3 DEF ServerRecords
<1>7. cuts = 0 => Dialogue(trusts[m.owner], "finished", server'.err, ClientAt(k),
                           m.to["server"], m.to["client"])
  <2>1. ASSUME cuts = 0
        PROVE  /\ ClientAt(k) = "flight" /\ links[k].to["server"] = <<"CH">>
               /\ links[k].to["client"] = <<>> /\ links[k].up["client"]
    BY <1>2, <2>1 DEF Dialogue
  <2>2. ASSUME cuts = 0
        PROVE  m.to["server"] = <<>> /\ m.to["client"] = <<"SF">>
    BY <1>4, <1>5, <2>1, <2>2, Queues
  <2> QED
    BY <2>1, <2>2 DEF Dialogue
<1> QED
  BY <1>1, <1>2, <1>3, <1>4, <1>5, <1>6, <1>7, ServerMoves

LEMMA FinishedKeeps ==
    ASSUME BaselineInv, BaselineFinished
    PROVE  BaselineInv'
<1>1. PICK k : k = server.conn
  OBVIOUS
<1> DEFINE m == Taken(links[k], "server")
           err == First(links[k], "server") # "CF"
<1>2. /\ server.at = "finished" /\ Available(links[k], "server")
      /\ k # NoConn /\ k \in DOMAIN links /\ links[k] \in Links /\ server \in ServerRecords
      /\ trusts[links[k].owner] \in BOOLEAN
      /\ cuts = 0 =>
             Dialogue(trusts[links[k].owner], "finished", server.err, ClientAt(k),
                      links[k].to["server"], links[k].to["client"])
  BY <1>1, ServedFacts DEF BaselineFinished, BaselineReads
<1>3. /\ links' = [links EXCEPT ![k] = m]
      /\ server' = [server EXCEPT !.at = "waiting", !.err = err]
      /\ UNCHANGED <<trusts, backlog, client, cuts>>
  BY <1>1, <1>2, ServedFacts DEF BaselineFinished, BaselineReads, server_vars
<1>4. /\ m \in Links /\ m.owner = links[k].owner /\ m.up = links[k].up
      /\ m.to["server"] = Tail(links[k].to["server"])
      /\ m.to["client"] = links[k].to["client"]
  BY <1>2, TakenTyped DEF End
<1> HIDE DEF m
<1>5. err \in BOOLEAN
  OBVIOUS
<1>6. err = (Head(links[k].to["server"]) # "CF")
  BY DEF First
<1> HIDE DEF err
<1>7. /\ server' \in ServerRecords /\ server'.conn = k /\ server'.at = "waiting"
      /\ server'.err = err
  BY <1>1, <1>2, <1>3, <1>5 DEF ServerRecords
<1>8. cuts = 0 => Dialogue(trusts[m.owner], "waiting", err, ClientAt(k),
                           m.to["server"], m.to["client"])
  <2> SUFFICES ASSUME cuts = 0
               PROVE  Dialogue(trusts[m.owner], "waiting", err, ClientAt(k),
                               m.to["server"], m.to["client"])
    OBVIOUS
  <2>1. \/ /\ trusts[links[k].owner] /\ ClientAt(k) = "reply"
           /\ links[k].to["server"] = <<"CF", "msg">> /\ links[k].to["client"] = <<>>
        \/ /\ ~trusts[links[k].owner] /\ ClientAt(k) \in {"closing", "left"}
           /\ links[k].to["server"] = <<"alert">> /\ links[k].to["client"] = <<>>
    BY <1>2 DEF Dialogue, Available
  <2>2. CASE links[k].to["server"] = <<"CF", "msg">>
    <3>1. m.to["server"] = <<"msg">> /\ ~err
      BY <1>4, <1>6, <2>2, Queues
    <3> QED
      BY <1>4, <2>1, <2>2, <3>1, Queues DEF Dialogue
  <2>3. CASE links[k].to["server"] = <<"alert">>
    <3>1. m.to["server"] = <<>> /\ err
      BY <1>4, <1>6, <2>3, Queues
    <3> QED
      BY <1>4, <2>1, <2>3, <3>1, Queues DEF Dialogue
  <2> QED
    BY <2>1, <2>2, <2>3
<1> QED
  BY <1>1, <1>2, <1>3, <1>4, <1>7, <1>8, ServerMoves

LEMMA AnswerKeeps ==
    ASSUME BaselineInv, BaselineAnswer
    PROVE  BaselineInv'
<1>1. PICK k : k = server.conn
  OBVIOUS
<1> DEFINE p == Put(links[k], "server", "reply")
           q == Put(p, "server", "notify")
           m == Outcome(q, "served")
<1>2. /\ server.at = "waiting" /\ ~server.err /\ Available(links[k], "server")
      /\ k # NoConn /\ k \in DOMAIN links /\ links[k] \in Links /\ server \in ServerRecords
      /\ cuts = 0 =>
             /\ Dialogue(trusts[links[k].owner], "waiting", server.err, ClientAt(k),
                         links[k].to["server"], links[k].to["client"])
             /\ links[k].up["client"] = (ClientAt(k) # "left")
  BY <1>1, ServedFacts DEF BaselineAnswer, BaselineReads
<1>3. /\ links' = [links EXCEPT ![k] = m] /\ server' = [server EXCEPT !.at = "closing"]
      /\ UNCHANGED <<trusts, backlog, client, cuts>>
  BY <1>1, <1>2, ServedFacts
     DEF BaselineAnswer, BaselineReads, ServerGoesTo, ServerAnswer, server_vars
<1>4. /\ p \in Links /\ p.owner = links[k].owner /\ p.up = links[k].up
      /\ p.to["server"] = links[k].to["server"]
      /\ p.to["client"] = IF links[k].up["client"] THEN Append(links[k].to["client"], "reply")
                          ELSE links[k].to["client"]
  BY <1>2, PutTyped DEF End, Records, Other
<1> HIDE DEF p
<1>5. /\ q \in Links /\ q.owner = p.owner /\ q.up = p.up
      /\ q.to["server"] = p.to["server"]
      /\ q.to["client"] = IF p.up["client"] THEN Append(p.to["client"], "notify")
                          ELSE p.to["client"]
  BY <1>4, PutTyped DEF End, Records, Other
<1> HIDE DEF q
<1>6. m \in Links /\ m.owner = q.owner /\ m.up = q.up /\ m.to = q.to
  BY <1>5 DEF Outcome, Links
<1> HIDE DEF m
<1>7. /\ server' \in ServerRecords /\ server'.conn = k /\ server'.at = "closing"
  BY <1>1, <1>2, <1>3 DEF ServerRecords
<1>8. cuts = 0 => Dialogue(trusts[m.owner], "closing", server'.err, ClientAt(k),
                           m.to["server"], m.to["client"])
  <2>1. ASSUME cuts = 0
        PROVE  /\ ClientAt(k) = "reply" /\ links[k].to["server"] = <<"msg">>
               /\ links[k].to["client"] = <<>> /\ links[k].up["client"]
               /\ trusts[links[k].owner]
    BY <1>2, <2>1 DEF Dialogue
  <2>2. ASSUME cuts = 0
        PROVE  m.to["server"] = <<"msg">> /\ m.to["client"] = <<"reply", "notify">>
    <3>1. p.to["client"] = <<"reply">> /\ p.up["client"]
      BY <1>4, <2>1, <2>2, Queues
    <3>2. q.to["client"] = <<"reply", "notify">>
      BY <1>5, <3>1, Queues
    <3> QED
      BY <1>4, <1>5, <1>6, <2>1, <2>2, <3>2
  <2> QED
    BY <1>4, <1>5, <1>6, <2>1, <2>2 DEF Dialogue
<1> QED
  BY <1>1, <1>2, <1>3, <1>4, <1>5, <1>6, <1>7, <1>8, ServerMoves

LEMMA ClosingKeeps ==
    ASSUME BaselineInv, BaselineClosing
    PROVE  BaselineInv'
<1>1. PICK k : k = server.conn
  OBVIOUS
<1> DEFINE m == Taken(links[k], "server")
           at == IF First(links[k], "server") = "notify" THEN "idle" ELSE "closing"
<1>2. /\ server.at = "closing" /\ Available(links[k], "server")
      /\ k # NoConn /\ k \in DOMAIN links /\ links[k] \in Links /\ server \in ServerRecords
      /\ cuts = 0 =>
             Dialogue(trusts[links[k].owner], "closing", server.err, ClientAt(k),
                      links[k].to["server"], links[k].to["client"])
  BY <1>1, ServedFacts DEF BaselineClosing, BaselineReads
<1>3. /\ links' = [links EXCEPT ![k] = m] /\ server' = [server EXCEPT !.at = at]
      /\ UNCHANGED <<trusts, backlog, client, cuts>>
  BY <1>1, <1>2, ServedFacts DEF BaselineClosing, BaselineReads, ServerGoesTo, server_vars
<1>4. /\ m \in Links /\ m.owner = links[k].owner /\ m.up = links[k].up
      /\ m.to["server"] = Tail(links[k].to["server"])
      /\ m.to["client"] = links[k].to["client"]
  BY <1>2, TakenTyped DEF End
<1> HIDE DEF m
<1>5. /\ at \in {"idle", "closing"}
      /\ at = IF Head(links[k].to["server"]) = "notify" THEN "idle" ELSE "closing"
  BY DEF First
<1> HIDE DEF at
<1>6. /\ server' \in ServerRecords /\ server'.conn = k /\ server'.at = at
  BY <1>1, <1>2, <1>3, <1>5 DEF ServerRecords
<1>7. cuts = 0 => Dialogue(trusts[m.owner], at, server'.err, ClientAt(k),
                           m.to["server"], m.to["client"])
  <2> SUFFICES ASSUME cuts = 0
               PROVE  Dialogue(trusts[m.owner], at, server'.err, ClientAt(k),
                               m.to["server"], m.to["client"])
    OBVIOUS
  <2>1. trusts[links[k].owner] /\ links[k].to["server"] # <<>>
    BY <1>2 DEF Dialogue, Available
  <2>2. CASE ClientAt(k) = "reply"
    <3>1. /\ links[k].to["server"] = <<"msg">>
          /\ links[k].to["client"] = <<"reply", "notify">>
      BY <1>2, <2>1, <2>2 DEF Dialogue
    <3>2. m.to["server"] = <<>> /\ at = "closing"
      BY <1>4, <1>5, <3>1, Queues
    <3> QED
      BY <1>4, <2>1, <2>2, <3>1, <3>2 DEF Dialogue
  <2>3. CASE ClientAt(k) # "reply"
    <3>1. /\ links[k].to["server"] \in {<<"notify">>, <<"msg", "notify">>}
          /\ \/ ClientAt(k) = "closing" /\ links[k].to["client"] = <<"notify">>
             \/ ClientAt(k) = "left" /\ links[k].to["client"] = <<>>
      BY <1>2, <2>1, <2>3 DEF Dialogue
    <3>2. \/ m.to["server"] = <<>> /\ at = "idle"
          \/ m.to["server"] = <<"notify">> /\ at = "closing"
      BY <1>4, <1>5, <3>1, Queues
    <3> QED
      BY <1>4, <2>1, <3>1, <3>2 DEF Dialogue
  <2> QED
    BY <2>2, <2>3
<1> QED
  BY <1>1, <1>2, <1>3, <1>4, <1>6, <1>7, ServerMoves

LEMMA AcceptKeeps ==
    ASSUME BaselineInv, BaselineAccept
    PROVE  BaselineInv'
<1>1. PICK k : k = server.conn
  OBVIOUS
<1>2. PICK h : h = server'.conn
  OBVIOUS
<1>3. /\ Typed /\ InLine /\ server.at = "idle"
      /\ UNCHANGED <<trusts, client, cuts>>
      /\ backlog \in Seq(DOMAIN links) /\ server \in ServerRecords
  BY DEF BaselineInv, Typed, BaselineAccept, server_vars
<1>4. /\ links' \in Seq(Links) /\ DOMAIN links' = DOMAIN links
      /\ \A j \in DOMAIN links :
             links'[j] = IF j = k THEN Stopped(links[j], "server") ELSE links[j]
      /\ ServerRecords' = ServerRecords /\ ClientRecords' = ClientRecords
  <2>1. CASE k = NoConn
    <3>1. links' = links
      BY <1>1, <2>1 DEF BaselineAccept
    <3>2. \A j \in DOMAIN links : j # k
      BY <1>3, <2>1, ConnTyped
    <3> QED
      BY <1>3, <3>1, <3>2 DEF Typed, ServerRecords, ClientRecords
  <2>2. CASE k # NoConn
    <3>1. /\ k \in DOMAIN links /\ links[k] \in Links
          /\ links' = [links EXCEPT ![k] = Stopped(links[k], "server")]
      BY <1>1, <1>3, <2>2, ConnTyped DEF BaselineAccept
    <3>2. Stopped(links[k], "server") \in Links
      BY <3>1, StoppedTyped DEF End
    <3> QED
      BY <1>3, <3>1, <3>2, LinksUpdated
  <2> QED
    BY <2>1, <2>2
<1>5. /\ backlog' \in Seq(DOMAIN links)
      /\ \/ /\ server' = [server EXCEPT !.conn = NoConn] /\ h = NoConn
            /\ backlog = <<>> /\ backlog' = <<>>
         \/ /\ server' = [at |-> "accepting", conn |-> h, ssi |-> FALSE, err |-> FALSE]
            /\ backlog # <<>> /\ h = backlog[1] /\ backlog' = Tail(backlog)
  <2>1. CASE backlog = <<>>
    BY <1>2, <1>3, <2>1 DEF BaselineAccept, ServerRecords
  <2>2. CASE backlog # <<>>
    BY <1>2, <1>3, <2>2 DEF BaselineAccept
  <2> QED
    BY <2>1, <2>2
<1>6. /\ \A i, j \in DOMAIN backlog' : backlog'[i] = backlog'[j] => i = j
      /\ \A i \in DOMAIN backlog' : backlog'[i] # h
      /\ \A j \in DOMAIN links : Queued(j)' <=> Queued(j) /\ j # h
      /\ h # NoConn => h \in DOMAIN links /\ Queued(h)
  <2>1. CASE backlog = <<>>
    BY <1>3, <1>5, <2>1, ConnTyped DEF Queued
  <2>2. CASE backlog # <<>>
    <3>1. /\ h = backlog[1] /\ 1 \in DOMAIN backlog
          /\ \A i \in DOMAIN backlog' : /\ i + 1 \in DOMAIN backlog /\ i + 1 # 1 /\ i \in Nat
                                        /\ backlog'[i] = backlog[i + 1]
          /\ \A i \in DOMAIN backlog : i # 1 => i - 1 \in DOMAIN backlog' /\ (i - 1) + 1 = i
      BY <1>3, <1>5, <2>2
    <3>2. ASSUME NEW i \in DOMAIN backlog', NEW j \in DOMAIN backlog', backlog'[i] = backlog'[j]
          PROVE  i = j
      <4>1. i + 1 = j + 1
        BY <1>3, <3>1, <3>2 DEF InLine
      <4>2. i \in Nat /\ j \in Nat
        BY <3>1
      <4> QED
        BY <4>1, <4>2
    <3>3. \A i \in DOMAIN backlog' : backlog'[i] # h
      BY <1>3, <3>1 DEF InLine
    <3>4. ASSUME NEW j \in DOMAIN links
          PROVE  Queued(j)' <=> Queued(j) /\ j # h
      <4>1. ASSUME Queued(j)'
            PROVE  Queued(j) /\ j # h
        BY <3>1, <3>3, <4>1 DEF Queued
      <4>2. ASSUME Queued(j), j # h
            PROVE  Queued(j)'
        <5>1. PICK i \in DOMAIN backlog : backlog[i] = j
          BY <4>2 DEF Queued
        <5>2. i - 1 \in DOMAIN backlog' /\ backlog'[i - 1] = j
          BY <3>1, <4>2, <5>1
        <5> QED
          BY <5>2 DEF Queued
      <4> QED
        BY <4>1, <4>2
    <3> QED
      BY <1>3, <3>1, <3>2, <3>3, <3>4, ConnTyped DEF Queued
  <2> QED
    BY <2>1, <2>2
<1>7. \A j \in DOMAIN links : links'[j].owner = links[j].owner
  BY <1>3, <1>4, ConnTyped, StoppedTyped DEF End
<1>8. /\ server' \in ServerRecords /\ (server'.at # "idle" => h # NoConn)
      /\ h # NoConn => server'.at = "accepting"
  <2>1. CASE h = NoConn
    BY <1>3, <1>5, <1>6, <2>1, ConnTyped DEF ServerRecords
  <2>2. CASE h # NoConn
    <3>1. /\ server' = [at |-> "accepting", conn |-> h, ssi |-> FALSE, err |-> FALSE]
          /\ h \in {NoConn} \cup DOMAIN links
      BY <1>5, <1>6, <2>2
    <3>2. server'.at = "accepting"
      BY <3>1
    <3> QED
      BY <2>2, <3>1, <3>2 DEF ServerRecords
  <2> QED
    BY <2>1, <2>2
<1>9. Typed'
  <2>1. \A c \in Clients : client[c].conn # NoConn => links'[client[c].conn].owner = c
    BY <1>3, <1>7, ConnTyped
  <2> QED
    BY <1>2, <1>3, <1>4, <1>5, <1>8, <2>1 DEF Typed, Link, RunsOn
<1>10. InLine'
  BY <1>2, <1>6 DEF InLine
<1>11. ASSUME cuts = 0, NEW j \in DOMAIN links
       PROVE  InStep(j)'
  <2>1. InStep(j) /\ j # NoConn
    BY <1>3, <1>11, ConnTyped DEF BaselineInv
  <2>2. ClientAt(j)' = ClientAt(j)
    BY <1>3, <1>7 DEF ClientAt
  <2>3. k # NoConn => ~Queued(k)
    BY <1>1, <1>3 DEF InLine, Queued
  <2>4. CASE j = k
    <3>1. ServerAt(j) = "idle" /\ j # h
      BY <1>1, <1>3, <1>6, <2>1, <2>3, <2>4 DEF ServerAt
    <3>2. ServerAt(j)' = "left"
      BY <1>2, <1>6, <2>1, <2>3, <2>4, <3>1 DEF ServerAt
    <3>3. /\ links'[j].to["server"] = <<>> /\ links'[j].to["client"] = links[j].to["client"]
          /\ links'[j].up["server"] = FALSE /\ links'[j].up["client"] = links[j].up["client"]
          /\ links'[j].owner = links[j].owner
      <4>1. links[j] \in Links /\ links'[j] = Stopped(links[j], "server")
        BY <1>3, <1>4, <2>4, ConnTyped
      <4> QED
        BY <4>1, StoppedTyped DEF End
    <3> QED
      BY <1>3, <2>1, <2>2, <3>1, <3>2, <3>3 DEF InStep, Dialogue
  <2>5. CASE j # k /\ j = h
    <3>1. ServerAt(j) = "queued" /\ ServerAt(j)' = "accepting"
      BY <1>2, <1>6, <1>8, <2>1, <2>5 DEF ServerAt
    <3>2. links'[j] = links[j]
      BY <1>4, <2>5
    <3> QED
      BY <1>3, <2>1, <2>2, <3>1, <3>2 DEF InStep, Dialogue
  <2>6. CASE j # k /\ j # h
    <3>1. ServerAt(j)' = ServerAt(j) /\ ServerAt(j) \in {"queued", "left"}
      BY <1>1, <1>2, <1>6, <2>6 DEF ServerAt
    <3>2. links'[j] = links[j]
      BY <1>4, <2>6
    <3> QED
      BY <1>3, <2>1, <2>2, <3>1, <3>2, InStepKept
  <2> QED
    BY <2>4, <2>5, <2>6
<1> QED
  BY <1>3, <1>4, <1>9, <1>10, <1>11 DEF BaselineInv


-----------------------------------------------------------------------------
(* A client's steps.                                                       *)

\* What is known of the connection a client uses.
LEMMA OwnFacts ==
    ASSUME BaselineInv, NEW c \in Clients, client[c].at \notin {"idle", "halted"},
           NEW k, k = client[c].conn
    PROVE  /\ Typed /\ k # NoConn /\ k \in DOMAIN links /\ Link(c) = links[k]
           /\ links[k] \in Links /\ links[k].owner = c
           /\ c \in X509Clients /\ trusts[c] \in BOOLEAN
           /\ client[c] \in ClientRecords /\ RunsOn(client[c])
           /\ cuts = 0 =>
                  /\ Dialogue(trusts[c], ServerAt(k), server.err, client[c].at,
                              links[k].to["server"], links[k].to["client"])
                  /\ links[k].up["server"] = (ServerAt(k) # "left")
                  /\ links[k].up["client"]
<1>1. /\ Typed /\ RunsOn(client[c]) /\ client[c] \in ClientRecords /\ Link(c) = links[k]
  BY DEF BaselineInv, Typed, Link
<1>2. k # NoConn
  BY <1>1 DEF RunsOn
<1>3. k \in DOMAIN links /\ links[k] \in Links /\ links[k].owner = c
  BY <1>1, <1>2, ConnTyped
<1>4. c \in X509Clients /\ trusts[c] \in BOOLEAN
  BY <1>1, OnlyX509 DEF Typed
<1>5. ClientAt(k) = client[c].at /\ client[c].at # "left"
  BY <1>1, <1>3 DEF ClientAt, ClientRecords
<1> QED
  BY <1>1, <1>2, <1>3, <1>4, <1>5 DEF BaselineInv, InStep

LEMMA ConnectKeeps ==
    ASSUME BaselineInv, NEW c \in Clients, Connect(c)
    PROVE  BaselineInv'
<1>0. PICK new : new = Len(links) + 1
  OBVIOUS
<1> DEFINE r == [client[c] EXCEPT !.at = "flight", !.conn = new, !.err = FALSE]
<1>1. /\ Typed /\ InLine /\ links \in Seq(Links) /\ Len(links) \in Nat
      /\ DOMAIN links = 1 .. Len(links)
      /\ client[c].at = "idle" /\ client[c].conn = NoConn /\ client[c] \in ClientRecords
      /\ RunsOn(client[c])
      /\ UNCHANGED <<trusts, server, cuts>>
  BY DEF BaselineInv, Connect, Typed, RunsOn
<1>2. /\ NewLink(c) \in Links /\ NewLink(c).owner = c
      /\ NewLink(c).to["server"] = <<"CH">> /\ NewLink(c).to["client"] = <<>>
      /\ NewLink(c).up["server"] = TRUE /\ NewLink(c).up["client"] = TRUE
  <2>1. /\ <<"CH">> \in Seq(Records) /\ <<>> \in Seq(Records)
    BY DEF Records
  <2>2. /\ Opened("CH").to \in [End -> Seq(Records)] /\ Opened("CH").up \in [End -> BOOLEAN]
        /\ Opened("CH").to["server"] = <<"CH">> /\ Opened("CH").to["client"] = <<>>
        /\ Opened("CH").up["server"] = TRUE /\ Opened("CH").up["client"] = TRUE
    BY <2>1 DEF Opened, End
  <2> QED
    BY <2>2 DEF NewLink, Links
<1>3. /\ links' = Append(links, NewLink(c)) /\ Len(links') = new
      /\ backlog' = Append(backlog, new)
      /\ client' = [client EXCEPT ![c] = r]
  <2>1. links' = Append(links, NewLink(c))
    BY DEF Connect
  <2>2. Len(links') = new
    BY <1>0, <1>1, <1>2, <2>1
  <2> QED
    BY <2>1, <2>2 DEF Connect
<1>4. /\ links' \in Seq(Links) /\ DOMAIN links' = DOMAIN links \cup {new}
      /\ links'[new] = NewLink(c) /\ \A k \in DOMAIN links : links'[k] = links[k]
      /\ new \notin DOMAIN links /\ new # NoConn
  BY <1>0, <1>1, <1>2, <1>3 DEF NoConn
<1>5. /\ backlog \in Seq(DOMAIN links) /\ backlog' \in Seq(DOMAIN links')
      /\ DOMAIN backlog' = DOMAIN backlog \cup {Len(backlog) + 1}
      /\ backlog'[Len(backlog) + 1] = new
      /\ \A i \in DOMAIN backlog : backlog'[i] = backlog[i]
      /\ \A i \in DOMAIN backlog : backlog[i] # new
  <2>1. backlog \in Seq(DOMAIN links) /\ new \in DOMAIN links'
    BY <1>1, <1>4 DEF Typed
  <2>2. backlog \in Seq(DOMAIN links')
    BY <1>4, <2>1
  <2> QED
    BY <1>1, <1>3, <1>4, <2>1, <2>2, ConnTyped
<1>6. /\ r.at = "flight" /\ r.conn = new /\ r.n = client[c].n /\ r.tries = client[c].tries
      /\ r \in ClientRecords' /\ RunsOn(r)
  <2>1. /\ r.at = "flight" /\ r.conn = new /\ r.n = client[c].n /\ r.tries = client[c].tries
        /\ r \in ClientRecords'
    BY <1>1, <1>4 DEF ClientRecords
  <2> HIDE DEF r
  <2> QED
    BY <1>1, <1>4, <2>1 DEF RunsOn
<1> HIDE DEF r
<1>7. /\ client'[c] = r /\ \A d \in Clients : d # c => client'[d] = client[d]
      /\ client' \in [Clients -> ClientRecords']
  <2>1. \A d \in Clients : client[d] \in ClientRecords'
    BY <1>1, <1>4 DEF Typed, ClientRecords
  <2> QED
    BY <1>1, <1>3, <1>6, <2>1 DEF Typed
<1>8. Typed'
  <2>1. \A d \in Clients : client'[d].conn # NoConn => links'[client'[d].conn].owner = d
    BY <1>1, <1>2, <1>4, <1>6, <1>7, ConnTyped
  <2>2. \A d \in Clients : RunsOn(client'[d])
    BY <1>1, <1>6, <1>7 DEF Typed
  <2>3. \A d \in Clients : Link(d)' = links'[client'[d].conn]
    BY DEF Link
  <2>4. \A d \in Clients : RunsOn(client[d])' = RunsOn(client'[d])
    BY DEF RunsOn
  <2>5. server' \in ServerRecords' /\ (server.at # "idle" => server.conn # NoConn)
    BY <1>1, <1>4 DEF Typed, ServerRecords
  <2> QED
    BY <1>1, <1>4, <1>5, <1>7, <2>1, <2>2, <2>3, <2>4, <2>5 DEF Typed
<1>9. InLine'
  <2>1. server.conn # new
    BY <1>1, <1>4, ConnTyped
  <2>2. \A i \in DOMAIN backlog' : i \in DOMAIN backlog \/ i = Len(backlog) + 1
    BY <1>5
  <2>3. \A i \in DOMAIN backlog' : backlog'[i] # server.conn
    BY <1>1, <1>5, <2>1, <2>2 DEF InLine
  <2>4. ASSUME NEW i \in DOMAIN backlog', NEW j \in DOMAIN backlog', backlog'[i] = backlog'[j]
        PROVE  i = j
    BY <1>1, <1>5, <2>2, <2>4 DEF InLine
  <2> QED
    BY <1>1, <2>3, <2>4 DEF InLine
<1>10. ASSUME cuts = 0, NEW k \in DOMAIN links'
       PROVE  InStep(k)'
  <2>1. CASE k = new
    <3>1. Queued(k)'
      BY <1>5, <2>1 DEF Queued
    <3>2. ServerAt(k)' = "queued" /\ ClientAt(k)' = "flight"
      BY <1>2, <1>4, <1>6, <1>7, <2>1, <3>1 DEF ServerAt, ClientAt
    <3> QED
      BY <1>2, <1>4, <2>1, <3>2 DEF InStep, Dialogue
  <2>2. CASE k # new
    <3>1. k \in DOMAIN links /\ InStep(k) /\ links'[k] = links[k] /\ k # NoConn
          /\ links[k].owner \in Clients
      BY <1>1, <1>4, <1>10, <2>2, ConnTyped DEF BaselineInv, Links
    <3>2. ClientAt(k)' = ClientAt(k)
      BY <1>1, <1>6, <1>7, <2>2, <3>1 DEF ClientAt
    <3>3. Queued(k)' <=> Queued(k)
      BY <1>5, <2>2 DEF Queued
    <3>4. ServerAt(k)' = ServerAt(k)
      BY <1>1, <3>3 DEF ServerAt
    <3> QED
      BY <1>1, <3>1, <3>2, <3>4, InStepKept
  <2> QED
    BY <2>1, <2>2
<1> QED
  BY <1>1, <1>8, <1>9, <1>10 DEF BaselineInv

LEMMA ConnectFailsKeeps ==
    ASSUME BaselineInv, NEW c \in Clients, ConnectFails(c)
    PROVE  BaselineInv'
<1> DEFINE r == AttemptOver(client[c])
<1>1. /\ Typed /\ InLine /\ client[c].at = "idle" /\ client[c] \in ClientRecords
      /\ RunsOn(client[c]) /\ c \in X509Clients
      /\ UNCHANGED <<trusts, links, backlog, server, cuts>>
  BY OnlyX509 DEF BaselineInv, Typed, ConnectFails
<1>2. client' = [client EXCEPT ![c] = r]
  <2>1. c \notin SsiClients
    BY OnlyX509
  <2> HIDE DEF r
  <2>2. (CASE c \in X509Clients -> r [] c \in SsiClients -> SsiRoundOver(c, "fail")) = r
    BY <1>1, <2>1
  <2> QED
    BY <2>2 DEF ConnectFails, r
<1>3. /\ r \in ClientRecords /\ r.conn = client[c].conn /\ r.n = client[c].n
      /\ r.conn = NoConn
      /\ \/ r.at = "idle" /\ r.tries > 0
         \/ r.at = "halted"
  <2>1. /\ Reconnects \in Nat /\ client[c].tries \in 0 .. Reconnects
        /\ client[c].tries > 0 /\ client[c].conn = NoConn
    BY <1>1, VcExchangeAssumption DEF RunsOn, ClientRecords
  <2>2. client[c].tries - 1 \in 0 .. Reconnects
    BY <2>1
  <2>3. r = [client[c] EXCEPT !.tries = client[c].tries - 1,
                              !.at = IF client[c].tries > 1 THEN client[c].at ELSE "halted"]
    BY DEF AttemptOver
  <2> HIDE DEF r
  <2>4. /\ r.at = IF client[c].tries > 1 THEN "idle" ELSE "halted"
        /\ r.tries = client[c].tries - 1 /\ r.n = client[c].n /\ r.conn = client[c].conn
        /\ r \in ClientRecords
    BY <1>1, <2>2, <2>3 DEF ClientRecords
  <2> QED
    BY <2>1, <2>4
<1> HIDE DEF r
<1>4. RunsOn(r)
  BY <1>1, <1>3 DEF RunsOn
<1>5. /\ client'[c] = r /\ \A d \in Clients : d # c => client'[d] = client[d]
      /\ client' \in [Clients -> ClientRecords]
      /\ \A d \in Clients : client'[d].conn = client[d].conn
  BY <1>1, <1>2, <1>3 DEF Typed
<1>6. Typed'
  <2>1. \A d \in Clients : RunsOn(client'[d])
    BY <1>1, <1>4, <1>5 DEF Typed
  <2>2. \A d \in Clients : RunsOn(client[d])' = RunsOn(client'[d])
    BY DEF RunsOn
  <2>3. ServerRecords' = ServerRecords /\ ClientRecords' = ClientRecords
    BY <1>1 DEF ServerRecords, ClientRecords
  <2>4. \A d \in Clients : Link(d)' = Link(d)
    BY <1>1, <1>5 DEF Link
  <2> QED
    BY <1>1, <1>5, <2>1, <2>2, <2>3, <2>4 DEF Typed
<1>7. InLine'
  BY <1>1 DEF InLine
<1>8. ASSUME cuts = 0, NEW k \in DOMAIN links
      PROVE  InStep(k)'
  <2>1. InStep(k) /\ k # NoConn /\ links[k].owner \in Clients
    BY <1>1, <1>8, ConnTyped DEF BaselineInv, Links
  <2>2. ClientAt(k)' = ClientAt(k)
    BY <1>1, <1>3, <1>5, <2>1 DEF ClientAt
  <2>3. ServerAt(k)' = ServerAt(k)
    BY <1>1 DEF ServerAt, Queued
  <2> QED
    BY <1>1, <2>1, <2>2, <2>3, InStepKept
<1> QED
  BY <1>1, <1>6, <1>7, <1>8 DEF BaselineInv


LEMMA X509ConnectKeeps ==
    ASSUME BaselineInv, NEW c \in Clients, X509Connect(c)
    PROVE  BaselineInv'
<1>1. PICK k : k = client[c].conn
  OBVIOUS
<1>2. /\ client[c].at = "flight" /\ Available(links[k], "client")
      /\ Typed /\ k # NoConn /\ links[k] \in Links /\ links[k].owner = c
      /\ client[c] \in ClientRecords /\ RunsOn(client[c])
      /\ UNCHANGED <<trusts, backlog, server, cuts>>
      /\ cuts = 0 =>
             /\ Dialogue(trusts[c], ServerAt(k), server.err, "flight",
                         links[k].to["server"], links[k].to["client"])
             /\ links[k].up["server"] = (ServerAt(k) # "left")
             /\ links[k].up["client"]
  BY <1>1, OwnFacts DEF X509Connect, ClientReads
<1>3. PICK l \in Links : /\ l = Taken(links[k], "client")
                         /\ l.owner = c /\ l.up = links[k].up
                         /\ l.to["server"] = links[k].to["server"]
                         /\ l.to["client"] = Tail(links[k].to["client"])
  BY <1>2, TakenTyped DEF End
<1>4. cuts = 0 => /\ ServerAt(k) = "finished" /\ l.up["server"] /\ l.up["client"]
                  /\ l.to["server"] = <<>> /\ l.to["client"] = <<>>
  <2>1. ASSUME cuts = 0
        PROVE  /\ ServerAt(k) = "finished" /\ links[k].to["server"] = <<>>
               /\ links[k].to["client"] = <<"SF">>
    BY <1>2, <2>1 DEF Dialogue, Available
  <2> QED
    BY <1>2, <1>3, <2>1, Queues
<1>5. ASSUME NEW at \in {"reply", "closing"}, NEW r, r = [client[c] EXCEPT !.at = at, !.n = @ + 1]
      PROVE  /\ r \in ClientRecords /\ r.at = at /\ r.conn = k /\ RunsOn(r)
  <2>1. /\ client[c].n \in 0 .. Rounds /\ client[c].n < Rounds /\ Rounds \in Nat
        /\ client[c].tries > 0
    BY <1>2, VcExchangeAssumption DEF RunsOn, ClientRecords
  <2>2. client[c].n + 1 \in 0 .. Rounds
    BY <2>1
  <2>3. /\ r \in ClientRecords /\ r.at = at /\ r.conn = k /\ r.tries = client[c].tries
    BY <1>1, <1>2, <1>5, <2>2 DEF ClientRecords
  <2> QED
    BY <1>2, <2>1, <2>3 DEF RunsOn
<1>6. CASE trusts[c] /\ links' = [links EXCEPT ![k] = Put(Put(l, "client", "CF"), "client", "msg")]
           /\ client' = [client EXCEPT ![c].at = "reply", ![c].n = @ + 1]
  <2>1. PICK p \in Links : /\ p = Put(l, "client", "CF") /\ p.owner = c /\ p.up = l.up
                           /\ p.to["client"] = l.to["client"]
                           /\ p.to["server"] = IF l.up["server"]
                                               THEN Append(l.to["server"], "CF")
                                               ELSE l.to["server"]
    BY <1>3, PutTyped DEF End, Records, Other
  <2>2. PICK m \in Links : /\ m = Put(p, "client", "msg") /\ m.owner = c /\ m.up = l.up
                           /\ m.to["client"] = l.to["client"]
                           /\ m.to["server"] = IF l.up["server"]
                                               THEN Append(p.to["server"], "msg")
                                               ELSE p.to["server"]
    BY <2>1, PutTyped DEF End, Records, Other
  <2>3. PICK r : r = [client[c] EXCEPT !.at = "reply", !.n = @ + 1]
    OBVIOUS
  <2>4. /\ r \in ClientRecords /\ r.at = "reply" /\ r.conn = k /\ RunsOn(r)
        /\ client' = [client EXCEPT ![c] = r]
    BY <1>2, <1>5, <1>6, <2>3 DEF Typed
  <2>5. cuts = 0 => Dialogue(trusts[c], ServerAt(k), server.err, "reply",
                             m.to["server"], m.to["client"])
    <3>1. ASSUME cuts = 0
          PROVE  m.to["server"] = <<"CF", "msg">> /\ m.to["client"] = <<>>
      <4>1. p.to["server"] = <<"CF">>
        BY <1>4, <2>1, <3>1, Queues
      <4> QED
        BY <1>4, <2>2, <3>1, <4>1, Queues
    <3> QED
      BY <1>4, <1>6, <3>1 DEF Dialogue
  <2>6. links' = [links EXCEPT ![k] = m]
    BY <1>6, <2>1, <2>2
  <2>7. cuts = 0 =>
            /\ m.up["server"] = links[k].up["server"]
            /\ m.up["client"] = (r.conn = k)
            /\ Dialogue(trusts[c], ServerAt(k), server.err,
                        IF r.conn = k THEN r.at ELSE "left", m.to["server"], m.to["client"])
    <3>1. m.up["client"] \in BOOLEAN
      BY DEF Links, End
    <3>2. r.conn = k /\ r.at = "reply" /\ m.up = links[k].up
      BY <1>3, <2>2, <2>4
    <3>3. cuts = 0 => m.up["client"]
      BY <1>2, <3>2
    <3> QED
      BY <2>5, <3>1, <3>2, <3>3
  <2>8. /\ k # NoConn /\ m.owner = c /\ r.conn \in {NoConn, k} /\ RunsOn(r)
        /\ r \in ClientRecords /\ client' = [client EXCEPT ![c] = r]
        /\ UNCHANGED <<trusts, backlog, server, cuts>>
    BY <1>2, <2>2, <2>4
  <2> QED
    BY <1>1, <2>6, <2>7, <2>8, ClientMoves
<1>7. CASE ~trusts[c] /\ links' = [links EXCEPT ![k] = Put(l, "client", "alert")]
           /\ client' = [client EXCEPT ![c].at = "closing", ![c].n = @ + 1]
  <2>1. PICK m \in Links : /\ m = Put(l, "client", "alert") /\ m.owner = c /\ m.up = l.up
                           /\ m.to["client"] = l.to["client"]
                           /\ m.to["server"] = IF l.up["server"]
                                               THEN Append(l.to["server"], "alert")
                                               ELSE l.to["server"]
    BY <1>3, PutTyped DEF End, Records, Other
  <2>2. PICK r : r = [client[c] EXCEPT !.at = "closing", !.n = @ + 1]
    OBVIOUS
  <2>3. /\ r \in ClientRecords /\ r.at = "closing" /\ r.conn = k /\ RunsOn(r)
        /\ client' = [client EXCEPT ![c] = r]
    BY <1>2, <1>5, <1>7, <2>2 DEF Typed
  <2>4. cuts = 0 => Dialogue(trusts[c], ServerAt(k), server.err, "closing",
                             m.to["server"], m.to["client"])
    BY <1>4, <1>7, <2>1, Queues DEF Dialogue
  <2>5. links' = [links EXCEPT ![k] = m]
    BY <1>7, <2>1
  <2> QED
    BY <1>1, <1>2, <1>3, <1>4, <2>1, <2>3, <2>4, <2>5, ClientMoves
<1> QED
  BY <1>1, <1>2, <1>3, <1>6, <1>7, OwnFacts DEF X509Connect

\* The client stops the connection l and waits for the next round or halts.
LEMMA X509LeavesKeeps ==
    ASSUME BaselineInv, NEW c \in Clients, client[c].at \in {"reply", "closing"},
           NEW k, k = client[c].conn, NEW l \in Links, l.owner = c,
           X509Leaves(c, l), UNCHANGED <<trusts, backlog, server, cuts>>,
           cuts = 0 =>
               /\ l.up["server"] = links[k].up["server"]
               /\ Dialogue(trusts[c], ServerAt(k), server.err, "left",
                           l.to["server"], <<>>)
    PROVE  BaselineInv'
<1>1. /\ Typed /\ k # NoConn /\ links[k] \in Links /\ c \in X509Clients
      /\ client[c] \in ClientRecords
  BY OwnFacts
<1>2. PICK m \in Links : /\ m = Stopped(l, "client") /\ m.owner = c
                         /\ m.up["server"] = l.up["server"] /\ m.up["client"] = FALSE
                         /\ m.to["server"] = l.to["server"] /\ m.to["client"] = <<>>
  BY StoppedTyped DEF End
<1>3. links' = [links EXCEPT ![k] = m]
  BY <1>2 DEF X509Leaves
<1>4. PICK at \in {"halted", "idle"} : at = IF client[c].n = Rounds THEN "halted" ELSE "idle"
  OBVIOUS
<1>5. PICK r : r = [client[c] EXCEPT !.at = at, !.conn = NoConn, !.tries = Reconnects]
  OBVIOUS
<1>6. client' = [client EXCEPT ![c] = r]
  BY <1>1, <1>4, <1>5 DEF X509Leaves, Typed
<1>7. /\ r \in ClientRecords /\ r.conn = NoConn /\ RunsOn(r)
  <2>1. /\ client[c].n \in 0 .. Rounds /\ Rounds \in Nat /\ Reconnects \in Nat /\ Reconnects > 0
    BY <1>1, VcExchangeAssumption DEF ClientRecords
  <2>2. /\ r \in ClientRecords /\ r.conn = NoConn /\ r.tries = Reconnects /\ r.n = client[c].n
        /\ r.at = at
    <3>1. Reconnects \in 0 .. Reconnects /\ NoConn \in {NoConn} \cup DOMAIN links
      BY <2>1
    <3> QED
      BY <1>1, <1>5, <3>1 DEF ClientRecords
  <2>3. client[c].n # Rounds => client[c].n < Rounds
    BY <2>1
  <2> QED
    BY <1>4, <2>1, <2>2, <2>3 DEF RunsOn
<1>8. cuts = 0 =>
          /\ m.up["server"] = links[k].up["server"]
          /\ m.up["client"] = (r.conn = k)
          /\ Dialogue(trusts[c], ServerAt(k), server.err,
                      IF r.conn = k THEN r.at ELSE "left", m.to["server"], m.to["client"])
  BY <1>1, <1>2, <1>7
<1> QED
  BY <1>1, <1>2, <1>3, <1>6, <1>7, <1>8, ClientMoves

LEMMA X509ReplyKeeps ==
    ASSUME BaselineInv, NEW c \in Clients, X509Reply(c)
    PROVE  BaselineInv'
<1>1. PICK k : k = client[c].conn
  OBVIOUS
<1>2. /\ client[c].at = "reply" /\ Available(links[k], "client") /\ Link(c) = links[k]
      /\ Typed /\ k # NoConn /\ links[k] \in Links /\ links[k].owner = c
      /\ client[c] \in ClientRecords /\ RunsOn(client[c])
      /\ UNCHANGED <<trusts, backlog, server, cuts>>
      /\ cuts = 0 =>
             /\ Dialogue(trusts[c], ServerAt(k), server.err, "reply",
                         links[k].to["server"], links[k].to["client"])
             /\ links[k].up["server"] = (ServerAt(k) # "left")
             /\ links[k].up["client"]
  BY <1>1, OwnFacts DEF X509Reply, ClientReads
<1>3. PICK p \in Links : /\ p = Taken(links[k], "client")
                         /\ p.owner = c /\ p.up = links[k].up
                         /\ p.to["server"] = links[k].to["server"]
                         /\ p.to["client"] = Tail(links[k].to["client"])
  BY <1>2, TakenTyped DEF End
<1>4. PICK l \in Links : /\ l = Put(p, "client", "notify") /\ l.owner = c /\ l.up = p.up
                         /\ l.to["client"] = p.to["client"]
                         /\ l.to["server"] = IF p.up["server"]
                                             THEN Append(p.to["server"], "notify")
                                             ELSE p.to["server"]
  BY <1>3, PutTyped DEF End, Records, Other
<1>5. cuts = 0 =>
          /\ Head(links[k].to["client"]) = "reply"
          /\ Dialogue(trusts[c], ServerAt(k), server.err, "closing",
                      l.to["server"], l.to["client"])
  <2> SUFFICES ASSUME cuts = 0
               PROVE  /\ Head(links[k].to["client"]) = "reply"
                      /\ Dialogue(trusts[c], ServerAt(k), server.err, "closing",
                                  l.to["server"], l.to["client"])
    OBVIOUS
  <2>1. /\ trusts[c] /\ ServerAt(k) = "closing" /\ links[k].up["server"]
        /\ links[k].to["server"] \in {<<>>, <<"msg">>}
        /\ links[k].to["client"] = <<"reply", "notify">>
    BY <1>2 DEF Dialogue, Available
  <2>2. /\ Head(links[k].to["client"]) = "reply" /\ l.to["client"] = <<"notify">>
        /\ l.to["server"] \in {<<"notify">>, <<"msg", "notify">>}
    BY <1>3, <1>4, <2>1, Queues
  <2> QED
    BY <2>1, <2>2 DEF Dialogue
<1>6. CASE First(links[k], "client") = "notify"
  <2>1. cuts # 0
    BY <1>5, <1>6 DEF First
  <2>2. X509Leaves(c, l)
    BY <1>2, <1>3, <1>4, <1>6 DEF X509Reply
  <2> QED
    BY <1>1, <1>2, <1>4, <2>1, <2>2, X509LeavesKeeps
<1>7. CASE First(links[k], "client") # "notify"
  <2>1. PICK r : r = [client[c] EXCEPT !.at = "closing"]
    OBVIOUS
  <2>2. /\ r \in ClientRecords /\ r.at = "closing" /\ r.conn = k
        /\ r.n = client[c].n /\ r.tries = client[c].tries
    BY <1>1, <1>2, <2>1 DEF ClientRecords
  <2>3. RunsOn(r)
    BY <1>2, <2>2 DEF RunsOn
  <2>4. links' = [links EXCEPT ![k] = l] /\ client' = [client EXCEPT ![c] = r]
    BY <1>1, <1>2, <1>3, <1>4, <1>7, <2>1 DEF X509Reply, ClientGoesTo, Typed
  <2>5. cuts = 0 =>
            /\ l.up["server"] = links[k].up["server"]
            /\ l.up["client"] = (r.conn = k)
            /\ Dialogue(trusts[c], ServerAt(k), server.err,
                        IF r.conn = k THEN r.at ELSE "left", l.to["server"], l.to["client"])
    <3>1. l.up["client"] \in BOOLEAN
      BY DEF Links, End
    <3>2. cuts = 0 => l.up["client"]
      BY <1>2, <1>3, <1>4
    <3> QED
      BY <1>3, <1>4, <1>5, <2>2, <3>1, <3>2
  <2>6. /\ k # NoConn /\ l.owner = c /\ r.conn \in {NoConn, k} /\ r \in ClientRecords
        /\ UNCHANGED <<trusts, backlog, server, cuts>>
    BY <1>2, <1>4, <2>2
  <2> QED
    BY <1>1, <2>3, <2>4, <2>5, <2>6, ClientMoves
<1> QED
  BY <1>6, <1>7

LEMMA X509ClosingKeeps ==
    ASSUME BaselineInv, NEW c \in Clients, X509Closing(c)
    PROVE  BaselineInv'
<1>1. PICK k : k = client[c].conn
  OBVIOUS
<1>2. client[c].at = "closing" /\ X509Leaves(c, Link(c))
      /\ UNCHANGED <<trusts, backlog, server, cuts>>
  BY DEF X509Closing, ClientReads
<1>3. /\ Link(c) = links[k] /\ links[k] \in Links /\ links[k].owner = c
      /\ trusts[c] \in BOOLEAN
      /\ cuts = 0 =>
             Dialogue(trusts[c], ServerAt(k), server.err, "closing",
                      links[k].to["server"], links[k].to["client"])
  BY <1>1, <1>2, OwnFacts
<1>4. cuts = 0 => Dialogue(trusts[c], ServerAt(k), server.err, "left",
                           links[k].to["server"], <<>>)
  BY <1>3 DEF Dialogue
<1> QED
  BY <1>1, <1>2, <1>3, <1>4, X509LeavesKeeps


-----------------------------------------------------------------------------
(* The invariant.                                                          *)

LEMMA LinkBreaksKeeps ==
    ASSUME BaselineInv, NEW k \in DOMAIN links, LinkBreaks(k)
    PROVE  BaselineInv'
<1>1. /\ Typed /\ InLine /\ cuts \in Nat /\ cuts' = cuts + 1 /\ links[k] \in Links
      /\ links' = [links EXCEPT ![k] = Cut(links[k])]
      /\ UNCHANGED <<trusts, backlog, server, client>>
  BY ConnTyped DEF BaselineInv, Typed, LinkBreaks
<1>2. /\ Cut(links[k]) \in Links /\ Cut(links[k]).owner = links[k].owner
  <2>1. PICK l \in Links : l = Stopped(links[k], "client") /\ l.owner = links[k].owner
    BY <1>1, StoppedTyped DEF End
  <2> QED
    BY <2>1, StoppedTyped DEF Cut, End
<1>3. /\ links' \in Seq(Links) /\ DOMAIN links' = DOMAIN links
      /\ \A j \in DOMAIN links : links'[j].owner = links[j].owner
      /\ ServerRecords' = ServerRecords /\ ClientRecords' = ClientRecords
  BY <1>1, <1>2, LinksUpdated
<1>4. Typed'
  <2>1. \A c \in Clients : client[c].conn # NoConn => links'[client[c].conn].owner = c
    BY <1>1, <1>3, ConnTyped
  <2>2. cuts' \in Nat
    BY <1>1
  <2> QED
    BY <1>1, <1>3, <2>1, <2>2 DEF Typed, Link, RunsOn
<1>5. InLine' /\ cuts' # 0
  BY <1>1 DEF InLine
<1> QED
  BY <1>4, <1>5 DEF BaselineInv

LEMMA BaselineInit ==
    ASSUME Init
    PROVE  BaselineInv
<1>1. /\ links = <<>> /\ backlog = <<>> /\ cuts = 0
      /\ server = [at |-> "idle", conn |-> NoConn, ssi |-> FALSE, err |-> FALSE]
  BY DEF Init
<1>2. trusts \in [X509Clients -> BOOLEAN]
  BY VcExchangeAssumption DEF Init
<1>3. links \in Seq(Links) /\ backlog \in Seq(DOMAIN links) /\ server \in ServerRecords
  BY <1>1 DEF ServerRecords
<1>4. ASSUME NEW c \in Clients
      PROVE  client[c] \in ClientRecords /\ RunsOn(client[c]) /\ client[c].conn = NoConn
  <2>1. client[c] = [at |-> "idle", conn |-> NoConn, err |-> FALSE,
                     first |-> c \in SsiClients, n |-> 0, tries |-> Reconnects]
    BY <1>4 DEF Init
  <2>2. /\ Rounds \in Nat /\ Rounds > 0 /\ Reconnects \in Nat /\ Reconnects > 0
    BY VcExchangeAssumption
  <2>3. 0 \in 0 .. Rounds /\ Reconnects \in 0 .. Reconnects /\ (c \in SsiClients) \in BOOLEAN
    BY <2>2
  <2> QED
    BY <2>1, <2>2, <2>3 DEF ClientRecords, RunsOn
<1>5. client \in [Clients -> ClientRecords]
  BY <1>4 DEF Init
<1> QED
  BY <1>1, <1>2, <1>3, <1>4, <1>5 DEF BaselineInv, Typed, InLine

LEMMA BaselineStutters ==
    ASSUME BaselineInv, UNCHANGED vars
    PROVE  BaselineInv'
BY DEF vars, BaselineInv, Typed, InLine, InStep, ServerAt, ClientAt, Queued, Link, RunsOn,
       ServerRecords, ClientRecords

LEMMA BaselineStep ==
    ASSUME BaselineInv, [BaselineNext]_vars
    PROVE  BaselineInv'
<1>1. CASE BaselineServerStep
  BY <1>1, AcceptKeeps, HelloKeeps, FinishedKeeps, AnswerKeeps, ClosingKeeps
     DEF BaselineServerStep
<1>2. ASSUME NEW c \in Clients, ClientStep(c)
      PROVE  BaselineInv'
  BY <1>2, OnlyX509, ConnectKeeps, ConnectFailsKeeps, X509ConnectKeeps, X509ReplyKeeps,
     X509ClosingKeeps
     DEF ClientStep
<1>3. ASSUME NEW k \in DOMAIN links, LinkBreaks(k)
      PROVE  BaselineInv'
  BY <1>3, LinkBreaksKeeps
<1>4. CASE UNCHANGED vars
  BY <1>4, BaselineStutters
<1> QED
  BY <1>1, <1>2, <1>3, <1>4 DEF BaselineNext

\* Where the server and the client of a connection are, and what is on its way
\* between them, go together as the two sketches are written, as long as no
\* link breaks: what one end reads next, the other has sent or has yet to send.
THEOREM BaselineInvariant == BaselineSpec => []BaselineInv
<1>1. Init => BaselineInv
  BY BaselineInit
<1>2. BaselineInv /\ [BaselineNext]_vars => BaselineInv'
  BY BaselineStep
<1> QED
  BY <1>1, <1>2, PTL DEF BaselineSpec

-----------------------------------------------------------------------------
(* What follows from it.                                                   *)

\* Types: the server holds the socket it serves until it looks for the next
\* connection, a client uses one as long as it is in a round, and the rounds and
\* the attempts stay within their bounds.
THEOREM BaselineTyped == BaselineSpec => []TypeOK
<1>1. ASSUME BaselineInv
      PROVE  TypeOK
  <2>1. /\ Typed /\ InLine
    BY <1>1 DEF BaselineInv
  <2>2. /\ links \in Seq([to : [End -> Seq(Records)], up : [End -> BOOLEAN],
                          owner : Clients, outcome : {"none", "served"},
                          result : {"none"}])
        /\ backlog \in Seq(DOMAIN links)
    BY <2>1 DEF Typed, Links
  <2>3. /\ server.at \in {"idle", "accepting", "finished", "waiting", "closing"}
        /\ server.conn \in {NoConn} \cup DOMAIN links
        /\ server.at # "idle" => server.conn # NoConn
    BY <2>1 DEF Typed, ServerRecords
  <2>4. server.conn # NoConn => Served.up["server"] \/ cuts > 0
    <3>1. PICK k : k = server.conn
      OBVIOUS
    <3>2. CASE k # NoConn /\ cuts = 0
      <4>1. k \in DOMAIN links /\ InStep(k)
        BY <1>1, <2>1, <3>1, <3>2, ConnTyped DEF BaselineInv
      <4>2. ServerAt(k) = server.at
        BY <2>1, <3>1 DEF ServerAt, Queued, InLine
      <4> QED
        BY <2>3, <3>1, <4>1, <4>2 DEF InStep, Served
    <3>3. cuts \in Nat
      BY <2>1 DEF Typed
    <3> QED
      BY <3>1, <3>2, <3>3
  <2>5. ASSUME NEW c \in Clients
        PROVE  /\ client[c].at \in {"idle", "halted", "flight", "reply", "closing"}
               /\ (client[c].at \in {"idle", "halted"}) = (client[c].conn = NoConn)
               /\ client[c].n \in 0 .. Rounds /\ client[c].tries \in 0 .. Reconnects
    BY <2>1 DEF Typed, ClientRecords, RunsOn
  <2> QED
    BY <2>2, <2>3, <2>4, <2>5 DEF TypeOK
<1> QED
  BY <1>1, BaselineInvariant, PTL

\* Although neither sketch gives up waiting, no board waits for one that has
\* gone: only a link that broke makes a client do so, and only that or a client
\* that refused the certificate the server.
THEOREM NobodyWaitsForTheGone == BaselineSpec => []NeverWaitsForTheGone
<1>1. ASSUME BaselineInv
      PROVE  NeverWaitsForTheGone
  <2>1. cuts \in Nat
    BY <1>1 DEF BaselineInv, Typed
  <2>2. ASSUME server.at # "idle", ~Connected(Served, "server"), cuts = 0
        PROVE  ~trusts[Served.owner]
    <3>1. PICK k : k = server.conn
      OBVIOUS
    <3>2. /\ ~Served.up["client"] /\ Served.to["server"] = <<>>
          /\ Dialogue(trusts[Served.owner], server.at, server.err, ClientAt(k),
                      Served.to["server"], Served.to["client"])
          /\ Served.up["client"] = (ClientAt(k) # "left")
          /\ server \in ServerRecords
      BY <1>1, <2>2, <3>1, ServedFacts DEF Connected, Available, Other
    <3>3. ClientAt(k) = "left" /\ server.at \notin {"idle", "left"}
      BY <2>2, <3>2 DEF ServerRecords
    <3> QED
      BY <3>2, <3>3, Queues DEF Dialogue
  <2>3. ASSUME NEW c \in Clients, client[c].conn # NoConn, ~Connected(Link(c), "client"),
               cuts = 0
        PROVE  FALSE
    <3>1. PICK k : k = client[c].conn
      OBVIOUS
    <3>2. client[c].at \notin {"idle", "halted"}
      BY <1>1, <2>3 DEF BaselineInv, Typed, RunsOn
    <3>3. /\ Link(c) = links[k] /\ client[c] \in ClientRecords
          /\ Dialogue(trusts[c], ServerAt(k), server.err, client[c].at,
                      links[k].to["server"], links[k].to["client"])
          /\ links[k].up["server"] = (ServerAt(k) # "left")
      BY <1>1, <2>3, <3>1, <3>2, OwnFacts
    <3>4. ServerAt(k) = "left" /\ links[k].to["client"] = <<>> /\ client[c].at # "left"
      BY <2>3, <3>3 DEF Connected, Available, Other, ClientRecords
    <3> QED
      BY <3>3, <3>4, Queues DEF Dialogue
  <2> QED
    BY <2>1, <2>2, <2>3 DEF NeverWaitsForTheGone
<1> QED
  BY <1>1, BaselineInvariant, PTL


=============================================================================
