------------------------------ MODULE VcProofs ------------------------------
(***************************************************************************)
(* Theorems about the hybrid sketches, for any number of boards of either  *)
(* kind, of rounds, of connections and of cuts: who reports a mutual       *)
(* authentication, and which rounds are counted.                           *)
(***************************************************************************)
EXTENDS VcProperties, SequenceTheorems, TLAPS

-----------------------------------------------------------------------------
(* What a board does to a connection.                                      *)

Links == [to : [End -> Seq(Records)], up : [End -> BOOLEAN],
          owner : Clients,
          outcome : {"none", "failed", "served", "accepted", "refused"},
          result : {"none", "ok", "fail"}]

\* The records on their way to e.
OnWay(l, e) == ToSet(l.to[e])

\* Nothing reaches the server any more.
ServerGone(l) == ~l.up["server"] /\ l.to["server"] = <<>>

\* m is what becomes of l when C is sent to the client and S to the server.
Follows(l, m, C, S) ==
    /\ m \in Links
    /\ m.owner = l.owner
    /\ OnWay(m, "client") \subseteq OnWay(l, "client") \cup C
    /\ OnWay(m, "server") \subseteq OnWay(l, "server") \cup S
    /\ ServerGone(l) => ServerGone(m)

\* Neither side's verdict changes.
SameVerdicts(l, m) == m.outcome = l.outcome /\ m.result = l.result

LEMMA FollowsTwice ==
    ASSUME NEW l, NEW m, NEW n, NEW C, NEW S, NEW D, NEW T,
           Follows(l, m, C, S), Follows(m, n, D, T)
    PROVE  Follows(l, n, C \cup D, S \cup T)
BY DEF Follows

LEMMA TakenFollows ==
    ASSUME NEW l \in Links, NEW e \in End, Available(l, e)
    PROVE  /\ Follows(l, Taken(l, e), {}, {})
           /\ SameVerdicts(l, Taken(l, e))
           /\ First(l, e) \in OnWay(l, e)
<1> DEFINE s == l.to[e]
<1>1. /\ s \in Seq(Records) /\ s # <<>> /\ l.to \in [End -> Seq(Records)]
      /\ "server" \in End
  BY DEF Links, Available, End
<1>2. /\ Tail(s) \in Seq(Records) /\ Head(s) = s[1] /\ 1 \in DOMAIN s
      /\ \A i \in DOMAIN Tail(s) : i + 1 \in DOMAIN s /\ Tail(s)[i] = s[i + 1]
  BY <1>1
<1>3. ToSet(Tail(s)) \subseteq ToSet(s) /\ Head(s) \in ToSet(s)
  BY <1>2 DEF ToSet
<1> DEFINE to == [l.to EXCEPT ![e] = Tail(s)]
<1>4. Taken(l, e) = [l EXCEPT !.to = to]
  BY DEF Taken
<1>5. /\ to \in [End -> Seq(Records)] /\ to[e] = Tail(s)
      /\ \A d \in End : d # e => to[d] = l.to[d]
  BY <1>1, <1>2
<1> HIDE DEF to, s
<1> DEFINE m == [l EXCEPT !.to = to]
<1>6. /\ m \in Links /\ m.to = to /\ m.up = l.up /\ m.owner = l.owner
      /\ SameVerdicts(l, m)
  BY <1>5 DEF Links, SameVerdicts
<1> HIDE DEF m
<1>7. \A d \in End : OnWay(m, d) \subseteq OnWay(l, d)
  BY <1>3, <1>5, <1>6 DEF OnWay, s
<1>8. ServerGone(l) => ServerGone(m)
  BY <1>1, <1>5, <1>6 DEF ServerGone, s
<1>9. First(l, e) \in OnWay(l, e)
  BY <1>3 DEF First, OnWay, s
<1> QED
  BY <1>4, <1>6, <1>7, <1>8, <1>9 DEF Follows, End, m

LEMMA PutFollows ==
    ASSUME NEW l \in Links, NEW e \in End, NEW r \in Records
    PROVE  /\ SameVerdicts(l, Put(l, e, r))
           /\ e = "server" => Follows(l, Put(l, e, r), {r}, {})
           /\ e = "client" => Follows(l, Put(l, e, r), {}, {r})
<1> DEFINE d == Other(e)
           s == l.to[d]
           to == [l.to EXCEPT ![d] = Append(s, r)]
           m == [l EXCEPT !.to = to]
<1>1. /\ d \in End /\ "server" \in End /\ l.to \in [End -> Seq(Records)]
      /\ s \in Seq(Records) /\ e \in {"client", "server"}
      /\ e = "server" => d = "client"
      /\ e = "client" => d = "server"
  BY DEF Links, Other, End
<1>2. CASE ~l.up[d]
  <2>1. Put(l, e, r) = l
    BY <1>2 DEF Put
  <2> QED
    BY <2>1 DEF Follows, SameVerdicts
<1>3. CASE l.up[d]
  <2>1. Put(l, e, r) = m
    BY <1>3 DEF Put
  <2> HIDE DEF d
  <2>2. Append(s, r) \in Seq(Records) /\ ToSet(Append(s, r)) \subseteq ToSet(s) \cup {r}
    BY <1>1 DEF ToSet
  <2>3. /\ to \in [End -> Seq(Records)] /\ to[d] = Append(s, r)
        /\ \A b \in End : b # d => to[b] = l.to[b]
    BY <1>1, <2>2
  <2> HIDE DEF to
  <2>4. /\ m \in Links /\ m.to = to /\ m.up = l.up /\ m.owner = l.owner
        /\ SameVerdicts(l, m)
    BY <2>3 DEF Links, SameVerdicts
  <2> HIDE DEF m, s
  <2>5. /\ OnWay(m, d) \subseteq OnWay(l, d) \cup {r}
        /\ \A b \in End : b # d => OnWay(m, b) = OnWay(l, b)
    BY <2>2, <2>3, <2>4 DEF OnWay, s
  <2>6. ServerGone(l) => ServerGone(m)
    BY <1>1, <1>3, <2>3, <2>4 DEF ServerGone
  <2> QED
    BY <1>1, <2>1, <2>4, <2>5, <2>6 DEF Follows, End
<1> QED
  BY <1>2, <1>3

LEMMA StoppedFollows ==
    ASSUME NEW l \in Links, NEW e \in End
    PROVE  /\ SameVerdicts(l, Stopped(l, e))
           /\ Follows(l, Stopped(l, e), {}, {})
           /\ e = "server" => ServerGone(Stopped(l, e))
<1> DEFINE up == [l.up EXCEPT ![e] = FALSE]
           to == [l.to EXCEPT ![e] = <<>>]
           m == [l EXCEPT !.up = up, !.to = to]
<1>1. l.up \in [End -> BOOLEAN] /\ l.to \in [End -> Seq(Records)]
  BY DEF Links
<1>2. /\ up \in [End -> BOOLEAN] /\ to \in [End -> Seq(Records)]
      /\ up[e] = FALSE /\ to[e] = <<>>
      /\ \A d \in End : d # e => to[d] = l.to[d] /\ up[d] = l.up[d]
  BY <1>1
<1>3. Stopped(l, e) = m
  BY DEF Stopped
<1> HIDE DEF up, to
<1>4. /\ m \in Links /\ m.to = to /\ m.up = up /\ m.owner = l.owner
      /\ SameVerdicts(l, m)
  BY <1>2 DEF Links, SameVerdicts
<1> HIDE DEF m
<1>5. ToSet(<<>>) = {}
  BY DEF ToSet
<1>6. \A d \in End : OnWay(m, d) \subseteq OnWay(l, d)
  BY <1>2, <1>4, <1>5 DEF OnWay
<1>7. /\ ServerGone(l) => ServerGone(m)
      /\ e = "server" => ServerGone(m)
  BY <1>2, <1>4 DEF ServerGone, End
<1> QED
  BY <1>3, <1>4, <1>6, <1>7 DEF Follows, End

LEMMA ShutDownFollows ==
    ASSUME NEW l \in Links, NEW e \in End
    PROVE  /\ SameVerdicts(l, ShutDown(l, e))
           /\ e = "server" => Follows(l, ShutDown(l, e), {"notify"}, {})
           /\ e = "client" => Follows(l, ShutDown(l, e), {}, {"notify"})
<1> DEFINE p == Put(l, e, "notify")
<1>1. /\ "notify" \in Records /\ e \in {"client", "server"}
  BY DEF Records, End
<1>2. /\ SameVerdicts(l, p)
      /\ e = "server" => Follows(l, p, {"notify"}, {})
      /\ e = "client" => Follows(l, p, {}, {"notify"})
  BY <1>1, PutFollows
<1> HIDE DEF p
<1>3. p \in Links
  BY <1>1, <1>2 DEF Follows
<1>4. SameVerdicts(p, Stopped(p, e)) /\ Follows(p, Stopped(p, e), {}, {})
  BY <1>3, StoppedFollows
<1>5. ShutDown(l, e) = Stopped(p, e)
  BY DEF ShutDown, p
<1>6. /\ e = "server" => Follows(l, Stopped(p, e), {"notify"} \cup {}, {} \cup {})
      /\ e = "client" => Follows(l, Stopped(p, e), {} \cup {}, {"notify"} \cup {})
  BY <1>2, <1>4, FollowsTwice
<1> QED
  BY <1>2, <1>4, <1>5, <1>6 DEF SameVerdicts

LEMMA OutcomeFollows ==
    ASSUME NEW l, NEW m, NEW C, NEW S, Follows(l, m, C, S),
           NEW o \in {"none", "failed", "served", "accepted", "refused"}
    PROVE  /\ Follows(l, Outcome(m, o), C, S)
           /\ Outcome(m, o).outcome = o /\ Outcome(m, o).result = m.result
           /\ ServerGone(m) => ServerGone(Outcome(m, o))
BY DEF Follows, Outcome, Links, OnWay, ServerGone

LEMMA ResultFollows ==
    ASSUME NEW l, NEW m, NEW C, NEW S, Follows(l, m, C, S),
           NEW r \in {"none", "ok", "fail"}
    PROVE  /\ Follows(l, [m EXCEPT !.result = r], C, S)
           /\ [m EXCEPT !.result = r].result = r
           /\ [m EXCEPT !.result = r].outcome = m.outcome
BY DEF Follows, Links, OnWay, ServerGone

-----------------------------------------------------------------------------
(* The inductive invariants.                                               *)

ServerRecords ==
    [at : {"idle"} \cup ServerReadsAt, conn : {NoConn} \cup DOMAIN links,
     ssi : BOOLEAN, err : BOOLEAN]

ClientRecords ==
    [at : {"idle", "halted"} \cup ClientReadsAt, conn : {NoConn} \cup DOMAIN links,
     err : BOOLEAN, first : BOOLEAN, n : 0 .. Rounds, tries : 0 .. Reconnects]

\* What is left of the rounds and of the attempts while a client runs.
RunsOn(c, r) ==
    /\ (r.at \in {"idle", "halted"}) = (r.conn = NoConn)
    /\ c \in SsiClients /\ r.at # "halted" => r.n < Rounds
    /\ c \in X509Clients =>
           /\ r.at # "halted" => r.tries > 0
           /\ r.at \in {"idle", "flight"} => r.n < Rounds

\* TypeOK, by parts.
Typed ==
    /\ vc \in [Clients \cup {"server"} -> Qualities]
    /\ trusts \in [X509Clients -> Trust]
    /\ links \in Seq(Links)
    /\ backlog \in Seq(DOMAIN links)
    /\ server \in ServerRecords
    /\ (server.at = "idle") = (server.conn = NoConn)
    /\ client \in [Clients -> ClientRecords]
    /\ \A c \in Clients :
           /\ RunsOn(c, client[c])
           /\ client[c].conn # NoConn => Link(c).owner = c

\* A connection waits to be accepted once, untouched by the server.
InLine ==
    /\ \A i, j \in DOMAIN backlog : backlog[i] = backlog[j] => i = j
    /\ \A i \in DOMAIN backlog :
           backlog[i] # server.conn /\ links[backlog[i]].outcome = "none"

\* While the server serves it, it has not refused it, and it knows its kind
\* from the hello on.
KindKnown ==
    server.at # "idle" =>
        /\ Served.outcome # "refused"
        /\ server.at = "accepting" => ~server.ssi
        /\ server.at = "finished" => (server.ssi = (Served.owner \in SsiClients))
        /\ server.at \in {"vc", "loop"} => Served.owner \in SsiClients
        /\ server.at = "message" => Served.owner \in X509Clients

\* A client on connection k has shown its credential.
Showed(k) ==
    /\ client[links[k].owner].conn = k
    /\ client[links[k].owner].at \in {"ack", "echo"}

\* A credential that the server can read or has accepted was shown by an SSI
\* client which has not failed since.
ShownBySsi(k) ==
    "VC" \in OnWay(links[k], "server") \/ links[k].outcome = "accepted" =>
        /\ links[k].owner \in SsiClients
        /\ links[k].outcome = "accepted" => vc[links[k].owner] = "good"
        /\ IF client[links[k].owner].conn = k
           THEN client[links[k].owner].at \in {"ack", "echo"}
           ELSE links[k].result = "ok"

\* A client that shows its own credential has verified the server's.
TrustsServer(k) ==
    Showed(k) \/ links[k].result = "ok" => vc["server"] = "good"

\* The server's credential is sent after its handshake only.
SentWhenServed(k) ==
    "VC" \in OnWay(links[k], "client") \/ Showed(k) \/ links[k].result = "ok" =>
        /\ \A i \in DOMAIN backlog : backlog[i] # k
        /\ server.conn = k => server.at \in {"vc", "loop"}

\* After a refusal the server reads no more.
RefusalIsLast(k) ==
    "REJECT" \in OnWay(links[k], "client") =>
        links[k].outcome = "refused" /\ ServerGone(links[k])

VcInv ==
    /\ Typed
    /\ InLine
    /\ KindKnown
    /\ \A k \in DOMAIN links :
           ShownBySsi(k) /\ TrustsServer(k) /\ SentWhenServed(k) /\ RefusalIsLast(k)

-----------------------------------------------------------------------------
(* The server's steps, as what they do to the connection it serves.        *)

\* It goes on to the read that at names, or to "idle": m is the connection,
\* C what it has sent.
ServerTurn(at, m, C) ==
    /\ server.at # "idle"
    /\ links' = [links EXCEPT ![server.conn] = m]
    /\ Follows(Served, m, C, {})
    /\ m.result = Served.result
    /\ server' \in ServerRecords
    /\ server'.at = at
    /\ server'.conn = IF at = "idle" THEN NoConn ELSE server.conn
    /\ UNCHANGED <<vc, backlog, client>>

Greets(m) ==
    /\ server.at = "accepting"
    /\ ServerTurn("finished", m, {"SF"})
    /\ m.outcome = Served.outcome
    /\ server'.ssi = (server.ssi \/ Served.owner \in SsiClients)

AwaitsMessage(m) ==
    /\ server.at = "finished" /\ ~server.ssi
    /\ ServerTurn("message", m, {})
    /\ m.outcome = "served"

ShowsVc(m) ==
    /\ server.at = "finished" /\ server.ssi
    /\ ServerTurn("vc", m, {"VC"})
    /\ m.outcome = Served.outcome

AcceptsVc(m) ==
    /\ server.at = "vc" /\ "VC" \in OnWay(Served, "server")
    /\ vc[Served.owner] = "good"
    /\ ServerTurn("loop", m, {"OK"})
    /\ m.outcome = "accepted"

RefusesVc(m) ==
    /\ server.at = "vc"
    /\ ServerTurn("idle", m, {"REJECT"})
    /\ m.outcome = "refused" /\ ServerGone(m)

GivesUp(m) ==
    /\ server.at \in {"accepting", "finished", "vc"}
    /\ ServerTurn("idle", m, {})
    /\ m.outcome = "failed"

Finishes(m) ==
    /\ server.at \in {"message", "loop"}
    /\ ServerTurn("idle", m, {"echo", "notify"})
    /\ m.outcome = Served.outcome

LoopsOn(m) ==
    /\ server.at = "loop"
    /\ ServerTurn("loop", m, {})
    /\ m.outcome = Served.outcome

ServerTurns ==
    \E m : \/ Greets(m) \/ AwaitsMessage(m) \/ ShowsVc(m) \/ AcceptsVc(m)
           \/ RefusesVc(m) \/ GivesUp(m) \/ Finishes(m) \/ LoopsOn(m)

\* The connection that is served is one of those opened.
LEMMA ServedTyped ==
    ASSUME Typed, server.at # "idle"
    PROVE  /\ server.conn \in DOMAIN links /\ Served \in Links
           /\ server.conn # NoConn /\ Served.owner \in Clients
<1>1. server.conn \in DOMAIN links /\ server.conn # NoConn
  BY DEF Typed, ServerRecords
<1>2. links[server.conn] \in Links
  BY <1>1, ElementOfSeq DEF Typed
<1> QED
  BY <1>1, <1>2 DEF Served, Links

LEMMA ServerGoesOn ==
    ASSUME Typed, server.at # "idle", NEW at \in ServerReadsAt, NEW m, NEW C,
           Follows(Served, m, C, {}), m.result = Served.result,
           ServerGoesTo(at, m), UNCHANGED <<vc, backlog, client>>
    PROVE  ServerTurn(at, m, C) /\ server'.ssi = server.ssi
BY DEF ServerGoesTo, ServerTurn, Typed, ServerRecords, ServerReadsAt

LEMMA ServerGoesIdle ==
    ASSUME Typed, server.at # "idle", NEW m, NEW C,
           Follows(Served, m, C, {}), m.result = Served.result,
           ServerLeaves(m), UNCHANGED <<vc, backlog, client>>
    PROVE  ServerTurn("idle", m, C)
BY DEF ServerLeaves, ServerTurn, Typed, ServerRecords, ServerReadsAt

LEMMA ServerGivesUp ==
    ASSUME Typed, server.at \in {"accepting", "finished", "vc"}, ServerFails,
           UNCHANGED <<vc, backlog, client>>
    PROVE  ServerTurns
<1> DEFINE l == Stopped(Served, "server")
           m == Outcome(l, "failed")
<1>1. Served \in Links /\ "server" \in End
  BY ServedTyped DEF End
<1>2. Follows(Served, l, {}, {}) /\ SameVerdicts(Served, l)
  BY <1>1, StoppedFollows
<1> HIDE DEF l
<1>3. Follows(Served, m, {}, {}) /\ m.outcome = "failed" /\ m.result = Served.result
  BY <1>2, OutcomeFollows DEF SameVerdicts
<1>4. ServerLeaves(m)
  BY DEF ServerFails, l
<1> HIDE DEF m
<1>5. GivesUp(m)
  BY <1>3, <1>4, ServerGoesIdle DEF GivesUp
<1> QED
  BY <1>5 DEF ServerTurns

\* What the server has read, and the record it read.
LEMMA ServerTakes ==
    ASSUME Typed, NEW at \in ServerReadsAt, ServerReads(at)
    PROVE  /\ server.at = at /\ server.at # "idle"
           /\ First(Served, "server") \in OnWay(Served, "server")
           /\ Follows(Served, Taken(Served, "server"), {}, {})
           /\ SameVerdicts(Served, Taken(Served, "server"))
           /\ Taken(Served, "server") \in Links
<1>1. server.at = at /\ server.at # "idle" /\ Available(Served, "server")
  BY DEF ServerReads, ServerReadsAt
<1> QED
  BY <1>1, ServedTyped, TakenFollows DEF End, Follows

LEMMA AcceptHelloTurns ==
    ASSUME Typed, AcceptHello
    PROVE  ServerTurns
<1> DEFINE l == Taken(Served, "server")
           m == Put(l, "server", "SF")
<1>1. /\ server.at = "accepting" /\ server.at # "idle" /\ l \in Links
      /\ Follows(Served, l, {}, {}) /\ SameVerdicts(Served, l)
      /\ UNCHANGED <<vc, backlog, client>>
      /\ \/ ServerFails
         \/ /\ links' = [links EXCEPT ![server.conn] = m]
            /\ server' = [server EXCEPT !.at = "finished",
                              !.ssi = @ \/ Served.owner \in SsiClients]
  BY ServerTakes DEF AcceptHello, ServerReadsAt
<1>2. SameVerdicts(l, m) /\ Follows(l, m, {"SF"}, {})
  BY <1>1, PutFollows DEF End, Records
<1> HIDE DEF l, m
<1>3. CASE ServerFails
  BY <1>1, <1>3, ServerGivesUp
<1>4. CASE /\ links' = [links EXCEPT ![server.conn] = m]
           /\ server' = [server EXCEPT !.at = "finished",
                             !.ssi = @ \/ Served.owner \in SsiClients]
  <2>1. Follows(Served, m, {} \cup {"SF"}, {} \cup {})
    BY <1>1, <1>2, FollowsTwice
  <2>2. Follows(Served, m, {"SF"}, {})
    BY <2>1
  <2> DEFINE ssi == server.ssi \/ Served.owner \in SsiClients
  <2>3. ssi \in BOOLEAN
    BY <1>1 DEF Typed, ServerRecords
  <2>4. server' = [server EXCEPT !.at = "finished", !.ssi = ssi]
    BY <1>4
  <2> HIDE DEF ssi
  <2>5. /\ server' \in ServerRecords /\ server'.at = "finished"
        /\ server'.conn = server.conn /\ server'.ssi = ssi
    BY <2>3, <2>4 DEF Typed, ServerRecords, ServerReadsAt
  <2>6. ServerTurn("finished", m, {"SF"}) /\ m.outcome = Served.outcome
    BY <1>1, <1>2, <1>4, <2>2, <2>5 DEF ServerTurn, SameVerdicts
  <2> QED
    BY <1>1, <2>5, <2>6 DEF ServerTurns, Greets, ssi
<1> QED
  BY <1>1, <1>3, <1>4

LEMMA AcceptFinishedTurns ==
    ASSUME Typed, AcceptFinished
    PROVE  ServerTurns
<1> DEFINE l == Taken(Served, "server")
<1>1. /\ server.at = "finished" /\ server.at # "idle" /\ l \in Links
      /\ Follows(Served, l, {}, {}) /\ SameVerdicts(Served, l)
      /\ UNCHANGED <<vc, backlog, client>>
      /\ server.ssi \in BOOLEAN
  BY ServerTakes DEF AcceptFinished, ServerReadsAt, Typed, ServerRecords
<1>2. \/ ~server.ssi /\ ServerGoesTo("message", Outcome(l, "served"))
      \/ server.ssi /\ ServerGoesTo("vc", Put(l, "server", "VC"))
      \/ ServerFails
  BY <1>1 DEF AcceptFinished
<1> HIDE DEF l
<1>3. CASE ~server.ssi /\ ServerGoesTo("message", Outcome(l, "served"))
  <2> DEFINE m == Outcome(l, "served")
  <2>1. Follows(Served, m, {}, {}) /\ m.outcome = "served" /\ m.result = Served.result
    BY <1>1, OutcomeFollows DEF SameVerdicts
  <2> HIDE DEF m
  <2>2. AwaitsMessage(m)
    BY <1>1, <1>3, <2>1, ServerGoesOn DEF AwaitsMessage, ServerReadsAt, m
  <2> QED
    BY <2>2 DEF ServerTurns
<1>4. CASE server.ssi /\ ServerGoesTo("vc", Put(l, "server", "VC"))
  <2> DEFINE m == Put(l, "server", "VC")
  <2>1. SameVerdicts(l, m) /\ Follows(l, m, {"VC"}, {})
    BY <1>1, PutFollows DEF End, Records
  <2> HIDE DEF m
  <2>2. Follows(Served, m, {} \cup {"VC"}, {} \cup {})
    BY <1>1, <2>1, FollowsTwice
  <2>3. Follows(Served, m, {"VC"}, {})
    BY <2>2
  <2>4. ShowsVc(m)
    BY <1>1, <1>4, <2>1, <2>3, ServerGoesOn DEF ShowsVc, ServerReadsAt, SameVerdicts, m
  <2> QED
    BY <2>4 DEF ServerTurns
<1>5. CASE ServerFails
  BY <1>1, <1>5, ServerGivesUp
<1> QED
  BY <1>2, <1>3, <1>4, <1>5

LEMMA ReadClientVcTurns ==
    ASSUME Typed, ReadClientVc
    PROVE  ServerTurns
<1> DEFINE l == Taken(Served, "server")
<1>1. /\ server.at = "vc" /\ server.at # "idle" /\ l \in Links
      /\ Follows(Served, l, {}, {}) /\ SameVerdicts(Served, l)
      /\ "VC" \in OnWay(Served, "server")
      /\ UNCHANGED <<vc, backlog, client>>
  BY ServerTakes DEF ReadClientVc, ServerReads, Awaited, ServerReadsAt
<1>2. vc[Served.owner] \in {"good", "unverified", "unreadable"} =>
          \/ /\ vc[Served.owner] = "good"
             /\ ServerGoesTo("loop", Outcome(Put(l, "server", "OK"), "accepted"))
          \/ ServerLeaves(Outcome(Stopped(Put(l, "server", "REJECT"), "server"),
                                  "refused"))
          \/ ServerLeaves(Outcome(Stopped(l, "server"), "refused"))
  BY DEF ReadClientVc
<1> HIDE DEF l
<1>3. CASE /\ vc[Served.owner] = "good"
           /\ ServerGoesTo("loop", Outcome(Put(l, "server", "OK"), "accepted"))
  <2> DEFINE p == Put(l, "server", "OK")
             m == Outcome(p, "accepted")
  <2>1. SameVerdicts(l, p) /\ Follows(l, p, {"OK"}, {})
    BY <1>1, PutFollows DEF End, Records
  <2> HIDE DEF p
  <2>2. Follows(Served, p, {} \cup {"OK"}, {} \cup {})
    BY <1>1, <2>1, FollowsTwice
  <2>3. Follows(Served, p, {"OK"}, {})
    BY <2>2
  <2>4. /\ Follows(Served, m, {"OK"}, {}) /\ m.outcome = "accepted"
        /\ m.result = Served.result
    BY <1>1, <2>1, <2>3, OutcomeFollows DEF SameVerdicts
  <2> HIDE DEF m
  <2>5. AcceptsVc(m)
    BY <1>1, <1>3, <2>4, ServerGoesOn DEF AcceptsVc, ServerReadsAt, m, p
  <2> QED
    BY <2>5 DEF ServerTurns
<1>4. ASSUME NEW p \in Links, Follows(Served, p, {"REJECT"}, {}), SameVerdicts(Served, p),
             ServerLeaves(Outcome(Stopped(p, "server"), "refused"))
      PROVE  ServerTurns
  <2> DEFINE q == Stopped(p, "server")
             m == Outcome(q, "refused")
  <2>1. SameVerdicts(p, q) /\ Follows(p, q, {}, {}) /\ ServerGone(q)
    BY <1>4, StoppedFollows DEF End
  <2> HIDE DEF q
  <2>2. Follows(Served, q, {"REJECT"} \cup {}, {} \cup {})
    BY <1>4, <2>1, FollowsTwice
  <2>3. Follows(Served, q, {"REJECT"}, {})
    BY <2>2
  <2>4. /\ Follows(Served, m, {"REJECT"}, {}) /\ m.outcome = "refused"
        /\ m.result = Served.result /\ ServerGone(m)
    BY <1>4, <2>1, <2>3, OutcomeFollows DEF SameVerdicts
  <2> HIDE DEF m
  <2>5. RefusesVc(m)
    BY <1>1, <1>4, <2>4, ServerGoesIdle DEF RefusesVc, m, q
  <2> QED
    BY <2>5 DEF ServerTurns
<1>5. CASE ServerLeaves(Outcome(Stopped(Put(l, "server", "REJECT"), "server"), "refused"))
  <2> DEFINE p == Put(l, "server", "REJECT")
  <2>1. SameVerdicts(l, p) /\ Follows(l, p, {"REJECT"}, {})
    BY <1>1, PutFollows DEF End, Records
  <2> HIDE DEF p
  <2>2. Follows(Served, p, {} \cup {"REJECT"}, {} \cup {})
    BY <1>1, <2>1, FollowsTwice
  <2>3. Follows(Served, p, {"REJECT"}, {}) /\ p \in Links /\ SameVerdicts(Served, p)
    BY <1>1, <2>1, <2>2 DEF Follows, SameVerdicts
  <2> QED
    BY <1>4, <1>5, <2>3 DEF p
<1>6. CASE ServerLeaves(Outcome(Stopped(l, "server"), "refused"))
  <2>1. Follows(Served, l, {"REJECT"}, {})
    BY <1>1 DEF Follows
  <2> QED
    BY <1>1, <1>4, <1>6, <2>1
<1>7. vc[Served.owner] \in {"good", "unverified", "unreadable"}
  BY <1>1, ServedTyped, VcExchangeAssumption DEF Typed
<1> QED
  BY <1>2, <1>3, <1>5, <1>6, <1>7

LEMMA ServerShutsDown ==
    ASSUME Typed, server.at \in {"message", "loop"}, ServerLeaves(ShutDown(Served, "server")),
           UNCHANGED <<vc, backlog, client>>
    PROVE  ServerTurns
<1> DEFINE m == ShutDown(Served, "server")
<1>1. Served \in Links /\ server.at # "idle"
  BY ServedTyped
<1>2. Follows(Served, m, {"notify"}, {}) /\ SameVerdicts(Served, m)
  BY <1>1, ShutDownFollows DEF End
<1> HIDE DEF m
<1>3. Follows(Served, m, {"echo", "notify"}, {})
  BY <1>2 DEF Follows
<1>4. Finishes(m)
  BY <1>1, <1>2, <1>3, ServerGoesIdle DEF Finishes, SameVerdicts, m
<1> QED
  BY <1>4 DEF ServerTurns

LEMMA EchoMessageTurns ==
    ASSUME Typed, EchoMessage
    PROVE  ServerTurns
<1> DEFINE l == Taken(Served, "server")
           p == Put(l, "server", "echo")
           m == ShutDown(p, "server")
<1>1. /\ server.at \in {"message", "loop"} /\ server.at # "idle" /\ l \in Links
      /\ Follows(Served, l, {}, {}) /\ SameVerdicts(Served, l)
      /\ UNCHANGED <<vc, backlog, client>> /\ ServerLeaves(m)
  BY ServerTakes DEF EchoMessage, ServerReadsAt
<1> HIDE DEF l
<1>2. SameVerdicts(l, p) /\ Follows(l, p, {"echo"}, {}) /\ p \in Links
  BY <1>1, PutFollows DEF End, Records, Follows
<1> HIDE DEF p
<1>3. SameVerdicts(p, m) /\ Follows(p, m, {"notify"}, {})
  BY <1>2, ShutDownFollows DEF End
<1> HIDE DEF m
<1>4. Follows(Served, p, {} \cup {"echo"}, {} \cup {})
  BY <1>1, <1>2, FollowsTwice
<1>5. Follows(Served, m, ({} \cup {"echo"}) \cup {"notify"}, ({} \cup {}) \cup {})
  BY <1>3, <1>4, FollowsTwice
<1>6. Follows(Served, m, {"echo", "notify"}, {})
  BY <1>5 DEF Follows
<1>7. Finishes(m)
  BY <1>1, <1>2, <1>3, <1>6, ServerGoesIdle DEF Finishes, SameVerdicts
<1> QED
  BY <1>7 DEF ServerTurns

LEMMA ServerReadFailsTurns ==
    ASSUME Typed, ServerReadFails
    PROVE  ServerTurns
<1> DEFINE m == IF Available(Served, "server") THEN Taken(Served, "server") ELSE Served
<1>1. /\ server.at # "idle" /\ Served \in Links /\ server.conn \in DOMAIN links
      /\ server.at \in ServerReadsAt
      /\ UNCHANGED <<vc, backlog, client>>
  BY ServedTyped DEF ServerReadFails, Typed, ServerRecords
<1>2. CASE server.at = "loop"
  <2>1. /\ server' = [server EXCEPT !.err = TRUE]
        /\ links' = [links EXCEPT ![server.conn] = m]
    BY <1>2 DEF ServerReadFails, Served
  <2>2. Follows(Served, m, {}, {}) /\ SameVerdicts(Served, m)
    <3>1. CASE Available(Served, "server")
      BY <1>1, <3>1, TakenFollows DEF End
    <3>2. CASE ~Available(Served, "server")
      BY <1>1, <3>2 DEF Follows, SameVerdicts
    <3> QED
      BY <3>1, <3>2
  <2> HIDE DEF m
  <2>3. /\ server' \in ServerRecords /\ server'.at = "loop" /\ server'.conn = server.conn
    BY <1>2, <2>1 DEF Typed, ServerRecords
  <2>4. LoopsOn(m)
    BY <1>1, <1>2, <2>1, <2>2, <2>3 DEF LoopsOn, ServerTurn, SameVerdicts
  <2> QED
    BY <2>4 DEF ServerTurns
<1>3. CASE server.at = "message"
  <2>1. ServerLeaves(ShutDown(Served, "server"))
    BY <1>3 DEF ServerReadFails
  <2> QED
    BY <1>1, <1>3, <2>1, ServerShutsDown
<1>4. CASE server.at \in {"accepting", "finished", "vc"}
  <2>1. ServerFails
    BY <1>4 DEF ServerReadFails
  <2> QED
    BY <1>1, <1>4, <2>1, ServerGivesUp
<1> QED
  BY <1>1, <1>2, <1>3, <1>4 DEF ServerReadsAt

\* Every step of the server is Accept or one of its turns.
LEMMA ServerStepTurns ==
    ASSUME Typed, ServerStep
    PROVE  Accept \/ ServerTurns
<1>1. CASE LoopEnds
  BY <1>1, ServerShutsDown DEF LoopEnds
<1> QED
  BY <1>1, AcceptHelloTurns, AcceptFinishedTurns, ReadClientVcTurns, EchoMessageTurns,
     ServerReadFailsTurns DEF ServerStep

-----------------------------------------------------------------------------
(* The clients' steps, likewise.                                           *)

\* r is the client's record after the step, m the connection, S what it sent.
ClientTurn(c, r, m, S) ==
    /\ client[c].conn # NoConn
    /\ links' = [links EXCEPT ![client[c].conn] = m]
    /\ Follows(Link(c), m, {}, S)
    /\ m.outcome = Link(c).outcome
    /\ client' = [client EXCEPT ![c] = r]
    /\ r \in ClientRecords
    /\ RunsOn(c, r)
    /\ UNCHANGED <<vc, backlog, server>>

GoesOn(c, r, m) ==
    /\ r.conn = client[c].conn
    /\ r.at \in ClientReadsAt
    /\ m.result = Link(c).result

Leaves(r) == r.conn = NoConn

Hears(c, record) == record \in OnWay(Link(c), "client")

SsiFinishes(c, r, m) ==
    /\ client[c].at = "flight" /\ r.at = "vc"
    /\ ClientTurn(c, r, m, {"CF"}) /\ GoesOn(c, r, m)

SsiShows(c, r, m) ==
    /\ client[c].at = "vc" /\ r.at = "ack"
    /\ Hears(c, "VC") /\ vc["server"] = "good"
    /\ ClientTurn(c, r, m, {"VC"}) /\ GoesOn(c, r, m)

SsiSends(c, r, m) ==
    /\ client[c].at = "ack" /\ r.at = "echo"
    /\ ClientTurn(c, r, m, {"msg"}) /\ GoesOn(c, r, m)

SsiGivesUp(c, r, m) ==
    /\ client[c].at \in {"flight", "vc"} \/ Hears(c, "REJECT")
    /\ ClientTurn(c, r, m, {}) /\ Leaves(r)
    /\ m.result = "fail"

SsiSucceeds(c, r, m) ==
    /\ client[c].at \in {"ack", "echo"}
    /\ ClientTurn(c, r, m, {"notify"}) /\ Leaves(r)
    /\ m.result = "ok"

SsiTurns(c) ==
    \E r, m : \/ SsiFinishes(c, r, m) \/ SsiShows(c, r, m) \/ SsiSends(c, r, m)
              \/ SsiGivesUp(c, r, m) \/ SsiSucceeds(c, r, m)

X509Turns(c) ==
    \E r, m : /\ ClientTurn(c, r, m, {"CF", "msg", "alert", "notify"})
              /\ \/ GoesOn(c, r, m) /\ r.at \in {"reply", "closing"}
                 \/ Leaves(r)
              /\ m.result = Link(c).result

LEMMA LinkTyped ==
    ASSUME Typed, NEW c \in Clients, client[c].conn # NoConn
    PROVE  /\ client[c].conn \in DOMAIN links /\ Link(c) \in Links /\ Link(c).owner = c
           /\ client[c] \in ClientRecords /\ RunsOn(c, client[c])
           /\ client[c].at \in ClientReadsAt
<1>1. client[c].conn \in DOMAIN links /\ Link(c).owner = c /\ client[c] \in ClientRecords
      /\ RunsOn(c, client[c])
  BY DEF Typed, ClientRecords
<1>2. links[client[c].conn] \in Links
  BY <1>1, ElementOfSeq DEF Typed
<1> QED
  BY <1>1, <1>2 DEF Link, RunsOn, ClientRecords

\* The client waits for a record, and one has come or the wait is over.
LEMMA ClientAt ==
    ASSUME Typed, NEW c \in Clients, NEW at \in ClientReadsAt, client[c].at = at
    PROVE  /\ client[c].conn # NoConn
           /\ client[c].conn \in DOMAIN links /\ Link(c) \in Links /\ Link(c).owner = c
           /\ client[c] \in ClientRecords /\ RunsOn(c, client[c])
BY LinkTyped DEF Typed, RunsOn, ClientReadsAt

LEMMA ClientTakes ==
    ASSUME Typed, NEW c \in Clients, NEW at \in ClientReadsAt, ClientReads(c, at)
    PROVE  /\ client[c].at = at
           /\ First(Link(c), "client") \in OnWay(Link(c), "client")
           /\ Follows(Link(c), Taken(Link(c), "client"), {}, {})
           /\ SameVerdicts(Link(c), Taken(Link(c), "client"))
           /\ Taken(Link(c), "client") \in Links
<1>1. client[c].at = at /\ Available(Link(c), "client")
  BY DEF ClientReads
<1>2. Link(c) \in Links
  BY <1>1, ClientAt
<1> QED
  BY <1>1, <1>2, TakenFollows DEF End, Follows

LEMMA ClientStays ==
    ASSUME Typed, NEW c \in Clients, client[c].at \in ClientReadsAt,
           NEW at \in ClientReadsAt, c \in SsiClients, NEW m, NEW S,
           Follows(Link(c), m, {}, S), SameVerdicts(Link(c), m),
           ClientGoesTo(c, at, m), UNCHANGED <<vc, backlog, server>>
    PROVE  \E r : ClientTurn(c, r, m, S) /\ GoesOn(c, r, m) /\ r.at = at
<1> DEFINE r == [client[c] EXCEPT !.at = at]
<1>1. /\ client[c].conn # NoConn /\ client[c] \in ClientRecords /\ RunsOn(c, client[c])
      /\ c \notin X509Clients
  BY ClientAt, VcExchangeAssumption
<1>2. /\ r \in ClientRecords /\ RunsOn(c, r) /\ r.at = at /\ r.conn = client[c].conn
  BY <1>1 DEF ClientRecords, RunsOn, ClientReadsAt
<1>3. client' = [client EXCEPT ![c] = r] /\ links' = [links EXCEPT ![client[c].conn] = m]
  BY DEF ClientGoesTo
<1> HIDE DEF r
<1>4. ClientTurn(c, r, m, S) /\ GoesOn(c, r, m)
  BY <1>1, <1>2, <1>3 DEF ClientTurn, GoesOn, SameVerdicts
<1> QED
  BY <1>2, <1>4

LEMMA RoundOverTyped ==
    ASSUME Typed, NEW c \in SsiClients, client[c].at # "halted", NEW result
    PROVE  /\ SsiRoundOver(c, result) \in ClientRecords
           /\ RunsOn(c, SsiRoundOver(c, result))
           /\ SsiRoundOver(c, result).conn = NoConn
<1> DEFINE old == client[c]
           n == IF old.first THEN old.n ELSE old.n + 1
           at == IF n = Rounds THEN "halted" ELSE "idle"
           first == old.first /\ result = "fail"
           r == [old EXCEPT !.at = at, !.conn = NoConn, !.err = FALSE, !.n = n,
                            !.first = first]
<1>1. /\ old \in ClientRecords /\ old.n < Rounds /\ c \notin X509Clients /\ c \in Clients
      /\ Rounds \in Nat
  BY VcExchangeAssumption DEF Typed, RunsOn, Clients
<1>2. n \in 0 .. Rounds /\ first \in BOOLEAN
  BY <1>1 DEF ClientRecords
<1>3. at \in {"idle", "halted"} /\ (at # "halted" => n < Rounds)
  <2> HIDE DEF n
  <2> QED
    BY <1>1, <1>2
<1>4. SsiRoundOver(c, result) = r
  BY DEF SsiRoundOver
<1> HIDE DEF n, first, at
<1>5. r \in ClientRecords /\ r.at = at /\ r.conn = NoConn /\ r.n = n
  BY <1>1, <1>2, <1>3 DEF ClientRecords
<1> QED
  BY <1>1, <1>3, <1>4, <1>5 DEF RunsOn

LEMMA SsiGoesAway ==
    ASSUME Typed, NEW c \in SsiClients, client[c].at \in ClientReadsAt,
           NEW l, NEW S, NEW result \in {"ok", "fail"},
           Follows(Link(c), l, {}, S), l.outcome = Link(c).outcome,
           SsiLeaves(c, l, result), UNCHANGED <<vc, backlog, server>>
    PROVE  \E r, m : ClientTurn(c, r, m, S) /\ Leaves(r) /\ m.result = result
<1> DEFINE r == SsiRoundOver(c, result)
           m == [l EXCEPT !.result = result]
<1>1. client[c].conn # NoConn /\ client[c].at # "halted"
  BY ClientAt DEF Clients, ClientReadsAt
<1>2. Follows(Link(c), m, {}, S) /\ m.result = result /\ m.outcome = Link(c).outcome
  BY ResultFollows
<1>3. r \in ClientRecords /\ RunsOn(c, r) /\ r.conn = NoConn
  BY <1>1, RoundOverTyped
<1>4. client' = [client EXCEPT ![c] = r] /\ links' = [links EXCEPT ![client[c].conn] = m]
  BY DEF SsiLeaves
<1> HIDE DEF r, m
<1>5. ClientTurn(c, r, m, S) /\ Leaves(r)
  BY <1>1, <1>2, <1>3, <1>4 DEF ClientTurn, Leaves
<1> QED
  BY <1>2, <1>5

LEMMA SsiFailsTurns ==
    ASSUME Typed, NEW c \in SsiClients, client[c].at \in ClientReadsAt,
           client[c].at \in {"flight", "vc"} \/ Hears(c, "REJECT"),
           SsiFails(c), UNCHANGED <<vc, backlog, server>>
    PROVE  SsiTurns(c)
<1> DEFINE l == Stopped(Link(c), "client")
<1>1. Link(c) \in Links /\ c \in Clients
  BY ClientAt DEF Clients
<1>2. Follows(Link(c), l, {}, {}) /\ SameVerdicts(Link(c), l)
  BY <1>1, StoppedFollows DEF End
<1>3. SsiLeaves(c, l, "fail")
  BY DEF SsiFails
<1> HIDE DEF l
<1>4. \E r, m : ClientTurn(c, r, m, {}) /\ Leaves(r) /\ m.result = "fail"
  BY <1>2, <1>3, SsiGoesAway DEF SameVerdicts
<1> QED
  BY <1>4 DEF SsiTurns, SsiGivesUp

LEMMA SsiShutsDown ==
    ASSUME Typed, NEW c \in SsiClients, client[c].at \in {"ack", "echo"}, NEW l,
           Follows(Link(c), l, {}, {}), SameVerdicts(Link(c), l),
           SsiLeaves(c, ShutDown(l, "client"), "ok"), UNCHANGED <<vc, backlog, server>>
    PROVE  SsiTurns(c)
<1> DEFINE p == ShutDown(l, "client")
<1>1. l \in Links /\ client[c].at \in ClientReadsAt
  BY DEF Follows, ClientReadsAt
<1>2. SameVerdicts(l, p) /\ Follows(l, p, {}, {"notify"})
  BY <1>1, ShutDownFollows DEF End
<1> HIDE DEF p
<1>3. Follows(Link(c), p, {} \cup {}, {} \cup {"notify"})
  BY <1>2, FollowsTwice
<1>4. Follows(Link(c), p, {}, {"notify"}) /\ p.outcome = Link(c).outcome
  BY <1>2, <1>3 DEF SameVerdicts
<1>5. \E r, m : ClientTurn(c, r, m, {"notify"}) /\ Leaves(r) /\ m.result = "ok"
  BY <1>1, <1>4, SsiGoesAway DEF p
<1> QED
  BY <1>5 DEF SsiTurns, SsiSucceeds

\* A client that goes on after it has sent one record.
LEMMA SsiSendsOne ==
    ASSUME Typed, NEW c \in SsiClients, client[c].at \in ClientReadsAt, NEW l,
           Follows(Link(c), l, {}, {}), SameVerdicts(Link(c), l), NEW record \in Records,
           NEW at \in ClientReadsAt, ClientGoesTo(c, at, Put(l, "client", record)),
           UNCHANGED <<vc, backlog, server>>
    PROVE  \E r, m : ClientTurn(c, r, m, {record}) /\ GoesOn(c, r, m) /\ r.at = at
<1> DEFINE m == Put(l, "client", record)
<1>1. l \in Links /\ c \in Clients
  BY DEF Follows, Clients
<1>2. SameVerdicts(l, m) /\ Follows(l, m, {}, {record})
  BY <1>1, PutFollows DEF End
<1> HIDE DEF m
<1>3. Follows(Link(c), m, {} \cup {}, {} \cup {record})
  BY <1>2, FollowsTwice
<1>4. Follows(Link(c), m, {}, {record}) /\ SameVerdicts(Link(c), m)
  BY <1>2, <1>3 DEF SameVerdicts
<1> QED
  BY <1>1, <1>4, ClientStays DEF m

LEMMA AfterAckTurns ==
    ASSUME Typed, NEW c \in SsiClients, client[c].at = "ack", NEW l, NEW err \in BOOLEAN,
           Follows(Link(c), l, {}, {}), SameVerdicts(Link(c), l),
           AfterAck(c, l, err), UNCHANGED <<vc, backlog, server>>
    PROVE  SsiTurns(c)
<1>1. CASE ~client[c].first
  BY <1>1, SsiShutsDown DEF AfterAck
<1>2. CASE client[c].first
  <2> DEFINE m == Put(l, "client", "msg")
             r == [client[c] EXCEPT !.at = "echo", !.err = err]
  <2>1. /\ l \in Links /\ client[c].conn # NoConn /\ client[c] \in ClientRecords
        /\ RunsOn(c, client[c]) /\ c \notin X509Clients
    BY ClientAt, VcExchangeAssumption DEF Clients, Follows, ClientReadsAt
  <2>2. SameVerdicts(l, m) /\ Follows(l, m, {}, {"msg"})
    BY <2>1, PutFollows DEF End, Records
  <2>3. links' = [links EXCEPT ![client[c].conn] = m] /\ client' = [client EXCEPT ![c] = r]
    BY <1>2 DEF AfterAck
  <2>4. /\ r \in ClientRecords /\ RunsOn(c, r) /\ r.at = "echo" /\ r.conn = client[c].conn
    <3>1. /\ r \in ClientRecords /\ r.at = "echo" /\ r.conn = client[c].conn
          /\ r.n = client[c].n
      BY <2>1 DEF ClientRecords, ClientReadsAt
    <3> HIDE DEF r
    <3> QED
      BY <2>1, <3>1 DEF RunsOn
  <2> HIDE DEF m, r
  <2>5. Follows(Link(c), m, {} \cup {}, {} \cup {"msg"})
    BY <2>2, FollowsTwice
  <2>6. Follows(Link(c), m, {}, {"msg"}) /\ SameVerdicts(Link(c), m)
    BY <2>2, <2>5 DEF SameVerdicts
  <2>7. SsiSends(c, r, m)
    BY <2>1, <2>3, <2>4, <2>6
       DEF SsiSends, ClientTurn, GoesOn, SameVerdicts, ClientReadsAt
  <2> QED
    BY <2>7 DEF SsiTurns
<1> QED
  BY <1>1, <1>2

LEMMA ConnectFinishedTurns ==
    ASSUME Typed, NEW c \in SsiClients, ConnectFinished(c)
    PROVE  SsiTurns(c)
<1> DEFINE l == Taken(Link(c), "client")
<1>1. /\ client[c].at = "flight" /\ "flight" \in ClientReadsAt
      /\ Follows(Link(c), l, {}, {}) /\ SameVerdicts(Link(c), l)
      /\ UNCHANGED <<vc, backlog, server>>
  BY ClientTakes DEF ConnectFinished, ClientReadsAt, Clients
<1>2. ClientGoesTo(c, "vc", Put(l, "client", "CF")) \/ SsiFails(c)
  BY DEF ConnectFinished
<1> HIDE DEF l
<1>3. CASE ClientGoesTo(c, "vc", Put(l, "client", "CF"))
  <2>1. \E r, m : ClientTurn(c, r, m, {"CF"}) /\ GoesOn(c, r, m) /\ r.at = "vc"
    BY <1>1, <1>3, SsiSendsOne DEF ClientReadsAt, Records
  <2> QED
    BY <1>1, <2>1 DEF SsiTurns, SsiFinishes
<1>4. CASE SsiFails(c)
  BY <1>1, <1>4, SsiFailsTurns
<1> QED
  BY <1>2, <1>3, <1>4

LEMMA ReadServerVcTurns ==
    ASSUME Typed, NEW c \in SsiClients, ReadServerVc(c)
    PROVE  SsiTurns(c)
<1> DEFINE l == Taken(Link(c), "client")
<1>1. /\ client[c].at = "vc" /\ "vc" \in ClientReadsAt
      /\ Follows(Link(c), l, {}, {}) /\ SameVerdicts(Link(c), l)
      /\ First(Link(c), "client") \in OnWay(Link(c), "client")
      /\ UNCHANGED <<vc, backlog, server>>
  BY ClientTakes DEF ReadServerVc, ClientReadsAt, Clients
<1>2. \/ /\ First(Link(c), "client") = "VC" /\ vc["server"] = "good"
         /\ ClientGoesTo(c, "ack", Put(l, "client", "VC"))
      \/ SsiFails(c)
  BY DEF ReadServerVc
<1> HIDE DEF l
<1>3. CASE /\ First(Link(c), "client") = "VC" /\ vc["server"] = "good"
           /\ ClientGoesTo(c, "ack", Put(l, "client", "VC"))
  <2>1. \E r, m : ClientTurn(c, r, m, {"VC"}) /\ GoesOn(c, r, m) /\ r.at = "ack"
    BY <1>1, <1>3, SsiSendsOne DEF ClientReadsAt, Records
  <2>2. Hears(c, "VC")
    BY <1>1, <1>3 DEF Hears
  <2> QED
    BY <1>1, <1>3, <2>1, <2>2 DEF SsiTurns, SsiShows
<1>4. CASE SsiFails(c)
  BY <1>1, <1>4, SsiFailsTurns
<1> QED
  BY <1>2, <1>3, <1>4

LEMMA ReadAckTurns ==
    ASSUME Typed, NEW c \in SsiClients, ReadAck(c)
    PROVE  SsiTurns(c)
<1> DEFINE l == Taken(Link(c), "client")
           record == First(Link(c), "client")
<1>1. /\ client[c].at = "ack" /\ "ack" \in ClientReadsAt
      /\ Follows(Link(c), l, {}, {}) /\ SameVerdicts(Link(c), l)
      /\ record \in OnWay(Link(c), "client")
      /\ UNCHANGED <<vc, backlog, server>>
  BY ClientTakes DEF ReadAck, ClientReadsAt, Clients
<1>2. \/ record = "REJECT" /\ SsiFails(c)
      \/ AfterAck(c, l, record = "notify")
  BY DEF ReadAck
<1>3. CASE record = "REJECT" /\ SsiFails(c)
  <2>1. Hears(c, "REJECT")
    BY <1>1, <1>3 DEF Hears
  <2> QED
    BY <1>1, <1>3, <2>1, SsiFailsTurns
<1>4. CASE AfterAck(c, l, record = "notify")
  <2> HIDE DEF l
  <2>1. (record = "notify") \in BOOLEAN
    OBVIOUS
  <2> QED
    BY <1>1, <1>4, <2>1, AfterAckTurns
<1> QED
  BY <1>2, <1>3, <1>4

LEMMA NoAckTurns ==
    ASSUME Typed, NEW c \in SsiClients, NoAck(c)
    PROVE  SsiTurns(c)
<1>1. client[c].at = "ack" /\ AfterAck(c, Link(c), TRUE) /\ UNCHANGED <<vc, backlog, server>>
  BY DEF NoAck, ClientStarves
<1>2. Link(c) \in Links
  BY <1>1, ClientAt DEF Clients, ClientReadsAt
<1>3. Follows(Link(c), Link(c), {}, {}) /\ SameVerdicts(Link(c), Link(c))
  BY <1>2 DEF Follows, SameVerdicts
<1> QED
  BY <1>1, <1>3, AfterAckTurns

LEMMA SsiStepTurns ==
    ASSUME Typed, NEW c \in SsiClients,
           ConnectFinished(c) \/ ReadServerVc(c) \/ ReadFails(c) \/ ReadAck(c)
               \/ NoAck(c) \/ ReadEcho(c)
    PROVE  SsiTurns(c)
<1>1. CASE ReadFails(c)
  BY <1>1, SsiFailsTurns DEF ReadFails, ClientStarves, ClientReadsAt
<1>2. CASE ReadEcho(c)
  <2>1. /\ client[c].at = "echo" /\ UNCHANGED <<vc, backlog, server>>
        /\ SsiLeaves(c, ShutDown(Link(c), "client"), "ok")
    BY <1>2 DEF ReadEcho, ClientStarves, ClientReads
  <2>2. Link(c) \in Links
    BY <2>1, ClientAt DEF Clients, ClientReadsAt
  <2>3. Follows(Link(c), Link(c), {}, {}) /\ SameVerdicts(Link(c), Link(c))
    BY <2>2 DEF Follows, SameVerdicts
  <2> QED
    BY <2>1, <2>3, SsiShutsDown
<1> QED
  BY <1>1, <1>2, ConnectFinishedTurns, ReadServerVcTurns, ReadAckTurns, NoAckTurns

\* The X.509 client's record once its connection is over.
LEMMA X509LeavesTyped ==
    ASSUME Typed, NEW c \in X509Clients
    PROVE  LET r == [client[c] EXCEPT
                         !.at = IF client[c].n = Rounds THEN "halted" ELSE "idle",
                         !.conn = NoConn, !.tries = Reconnects]
           IN  r \in ClientRecords /\ RunsOn(c, r) /\ r.conn = NoConn
<1> DEFINE old == client[c]
           at == IF old.n = Rounds THEN "halted" ELSE "idle"
           r == [old EXCEPT !.at = at, !.conn = NoConn, !.tries = Reconnects]
<1>1. /\ old \in ClientRecords /\ c \notin SsiClients
      /\ Rounds \in Nat /\ Reconnects \in Nat /\ Reconnects > 0
  BY VcExchangeAssumption DEF Typed, Clients
<1>2. /\ old.n \in 0 .. Rounds /\ at \in {"idle", "halted"}
      /\ at # "halted" => old.n < Rounds
  BY <1>1 DEF ClientRecords
<1> HIDE DEF at, old
<1>3. /\ r \in ClientRecords /\ r.at = at /\ r.conn = NoConn /\ r.n = old.n
      /\ r.tries = Reconnects
  <2>1. Reconnects \in 0 .. Reconnects
    BY <1>1
  <2> QED
    BY <1>1, <1>2, <2>1 DEF ClientRecords
<1> HIDE DEF r
<1>4. RunsOn(c, r)
  BY <1>1, <1>2, <1>3 DEF RunsOn
<1> QED
  BY <1>3, <1>4 DEF r, at, old

LEMMA X509LeavesTurns ==
    ASSUME Typed, NEW c \in X509Clients, client[c].at \in ClientReadsAt, NEW l, NEW S,
           S \subseteq {"CF", "msg", "alert", "notify"},
           Follows(Link(c), l, {}, S), SameVerdicts(Link(c), l),
           X509Leaves(c, l), UNCHANGED <<vc, backlog, server>>
    PROVE  X509Turns(c)
<1> DEFINE m == Stopped(l, "client")
           r == [client[c] EXCEPT
                     !.at = IF client[c].n = Rounds THEN "halted" ELSE "idle",
                     !.conn = NoConn, !.tries = Reconnects]
<1>1. l \in Links /\ c \in Clients /\ client[c].conn # NoConn
  BY ClientAt DEF Follows, Clients
<1>2. Follows(l, m, {}, {}) /\ SameVerdicts(l, m)
  BY <1>1, StoppedFollows DEF End
<1>3. links' = [links EXCEPT ![client[c].conn] = m] /\ client' = [client EXCEPT ![c] = r]
  BY DEF X509Leaves
<1>4. r \in ClientRecords /\ RunsOn(c, r) /\ r.conn = NoConn
  BY X509LeavesTyped
<1> HIDE DEF m, r
<1>5. Follows(Link(c), m, {} \cup {}, S \cup {})
  BY <1>2, FollowsTwice
<1>6. Follows(Link(c), m, {}, {"CF", "msg", "alert", "notify"})
  BY <1>5 DEF Follows
<1>7. /\ ClientTurn(c, r, m, {"CF", "msg", "alert", "notify"})
      /\ Leaves(r) /\ m.result = Link(c).result
  BY <1>1, <1>2, <1>3, <1>4, <1>6 DEF ClientTurn, Leaves, SameVerdicts
<1> QED
  BY <1>7 DEF X509Turns

\* The X.509 client reads on, with or without one more round counted.
LEMMA X509Stays ==
    ASSUME Typed, NEW c \in X509Clients, client[c].at \in {"flight", "reply"},
           NEW at \in {"reply", "closing"}, NEW n \in 0 .. Rounds, NEW m, NEW S,
           S \subseteq {"CF", "msg", "alert", "notify"},
           Follows(Link(c), m, {}, S), SameVerdicts(Link(c), m),
           links' = [links EXCEPT ![client[c].conn] = m],
           client' = [client EXCEPT ![c] = [client[c] EXCEPT !.at = at, !.n = n]],
           UNCHANGED <<vc, backlog, server>>
    PROVE  X509Turns(c)
<1> DEFINE r == [client[c] EXCEPT !.at = at, !.n = n]
<1>1. /\ client[c].conn # NoConn /\ client[c] \in ClientRecords /\ RunsOn(c, client[c])
      /\ c \notin SsiClients
  BY ClientAt, VcExchangeAssumption DEF Clients, ClientReadsAt
<1>2. /\ r \in ClientRecords /\ r.at = at /\ r.n = n /\ r.conn = client[c].conn
      /\ r.tries = client[c].tries
  BY <1>1 DEF ClientRecords, ClientReadsAt
<1> HIDE DEF r
<1>3. RunsOn(c, r)
  BY <1>1, <1>2 DEF RunsOn
<1>4. Follows(Link(c), m, {}, {"CF", "msg", "alert", "notify"})
  BY DEF Follows
<1>5. /\ ClientTurn(c, r, m, {"CF", "msg", "alert", "notify"})
      /\ GoesOn(c, r, m) /\ r.at \in {"reply", "closing"} /\ m.result = Link(c).result
  BY <1>1, <1>2, <1>3, <1>4 DEF ClientTurn, GoesOn, SameVerdicts, ClientReadsAt, r
<1> QED
  BY <1>5 DEF X509Turns

LEMMA X509ConnectTurns ==
    ASSUME Typed, NEW c \in X509Clients, X509Connect(c)
    PROVE  X509Turns(c)
<1> DEFINE l == Taken(Link(c), "client")
           p == Put(l, "client", "CF")
           n == client[c].n + 1
<1>1. /\ client[c].at = "flight" /\ l \in Links
      /\ Follows(Link(c), l, {}, {}) /\ SameVerdicts(Link(c), l)
      /\ UNCHANGED <<vc, backlog, server>>
  BY ClientTakes DEF X509Connect, ClientReadsAt, Clients
<1>2. \/ /\ links' = [links EXCEPT ![client[c].conn] = Put(p, "client", "msg")]
         /\ client' = [client EXCEPT ![c] = [client[c] EXCEPT !.at = "reply", !.n = n]]
      \/ /\ links' = [links EXCEPT ![client[c].conn] = Put(l, "client", "alert")]
         /\ client' = [client EXCEPT ![c] = [client[c] EXCEPT !.at = "closing", !.n = n]]
  BY DEF X509Connect
<1>3. n \in 0 .. Rounds
  <2>1. client[c].n \in 0 .. Rounds /\ client[c].n < Rounds /\ Rounds \in Nat
    BY <1>1, VcExchangeAssumption DEF Typed, ClientRecords, RunsOn, Clients
  <2> QED
    BY <2>1
<1> HIDE DEF l, n
<1>4. ASSUME NEW q \in Links, NEW S, S \subseteq {"CF", "msg", "alert", "notify"},
             Follows(Link(c), q, {}, S), SameVerdicts(Link(c), q),
             NEW record \in {"CF", "msg", "alert"}
      PROVE  /\ Follows(Link(c), Put(q, "client", record), {}, S \cup {record})
             /\ SameVerdicts(Link(c), Put(q, "client", record))
             /\ Put(q, "client", record) \in Links
  <2>1. SameVerdicts(q, Put(q, "client", record))
        /\ Follows(q, Put(q, "client", record), {}, {record})
    BY <1>4, PutFollows DEF End, Records
  <2>2. Follows(Link(c), Put(q, "client", record), {} \cup {}, S \cup {record})
    BY <1>4, <2>1, FollowsTwice
  <2> QED
    BY <1>4, <2>1, <2>2 DEF SameVerdicts, Follows
<1>5. /\ Follows(Link(c), p, {}, {} \cup {"CF"}) /\ SameVerdicts(Link(c), p) /\ p \in Links
  BY <1>1, <1>4
<1>6. CASE /\ links' = [links EXCEPT ![client[c].conn] = Put(p, "client", "msg")]
           /\ client' = [client EXCEPT ![c] = [client[c] EXCEPT !.at = "reply", !.n = n]]
  <2> HIDE DEF p
  <2>1. /\ Follows(Link(c), Put(p, "client", "msg"), {}, ({} \cup {"CF"}) \cup {"msg"})
        /\ SameVerdicts(Link(c), Put(p, "client", "msg"))
    BY <1>4, <1>5
  <2> QED
    BY <1>1, <1>3, <1>6, <2>1, X509Stays
<1>7. CASE /\ links' = [links EXCEPT ![client[c].conn] = Put(l, "client", "alert")]
           /\ client' = [client EXCEPT ![c] = [client[c] EXCEPT !.at = "closing", !.n = n]]
  <2>1. /\ Follows(Link(c), Put(l, "client", "alert"), {}, {} \cup {"alert"})
        /\ SameVerdicts(Link(c), Put(l, "client", "alert"))
    BY <1>1, <1>4
  <2> QED
    BY <1>1, <1>3, <1>7, <2>1, X509Stays
<1> QED
  BY <1>2, <1>6, <1>7

LEMMA X509ReplyTurns ==
    ASSUME Typed, NEW c \in X509Clients, X509Reply(c)
    PROVE  X509Turns(c)
<1> DEFINE l == Taken(Link(c), "client")
           p == Put(l, "client", "notify")
<1>1. /\ client[c].at = "reply" /\ l \in Links
      /\ Follows(Link(c), l, {}, {}) /\ SameVerdicts(Link(c), l)
      /\ UNCHANGED <<vc, backlog, server>>
  BY ClientTakes DEF X509Reply, ClientReadsAt, Clients
<1>2. X509Leaves(c, p) \/ ClientGoesTo(c, "closing", p)
  BY DEF X509Reply
<1> HIDE DEF l
<1>3. SameVerdicts(l, p) /\ Follows(l, p, {}, {"notify"})
  BY <1>1, PutFollows DEF End, Records
<1> HIDE DEF p
<1>4. Follows(Link(c), p, {} \cup {}, {} \cup {"notify"})
  BY <1>1, <1>3, FollowsTwice
<1>5. Follows(Link(c), p, {}, {"notify"}) /\ SameVerdicts(Link(c), p)
  BY <1>1, <1>3, <1>4 DEF SameVerdicts
<1>6. CASE X509Leaves(c, p)
  BY <1>1, <1>5, <1>6, X509LeavesTurns DEF ClientReadsAt
<1>7. CASE ClientGoesTo(c, "closing", p)
  <2>1. client[c].n \in 0 .. Rounds /\ client[c] \in ClientRecords
    BY DEF Typed, ClientRecords, Clients
  <2>2. [client[c] EXCEPT !.at = "closing", !.n = client[c].n]
            = [client[c] EXCEPT !.at = "closing"]
    BY <2>1 DEF ClientRecords
  <2>3. /\ links' = [links EXCEPT ![client[c].conn] = p]
        /\ client' = [client EXCEPT ![c] =
                         [client[c] EXCEPT !.at = "closing", !.n = client[c].n]]
    BY <1>7, <2>2 DEF ClientGoesTo
  <2> QED
    BY <1>1, <1>5, <2>1, <2>3, X509Stays
<1> QED
  BY <1>2, <1>6, <1>7

LEMMA X509ClosingTurns ==
    ASSUME Typed, NEW c \in X509Clients, X509Closing(c)
    PROVE  X509Turns(c)
<1>1. client[c].at = "closing" /\ X509Leaves(c, Link(c)) /\ UNCHANGED <<vc, backlog, server>>
  BY DEF X509Closing, ClientReads
<1>2. Link(c) \in Links
  BY <1>1, ClientAt DEF Clients, ClientReadsAt
<1>3. Follows(Link(c), Link(c), {}, {}) /\ SameVerdicts(Link(c), Link(c))
  BY <1>2 DEF Follows, SameVerdicts
<1> QED
  BY <1>1, <1>3, X509LeavesTurns DEF ClientReadsAt

\* Every step of a client opens a connection, fails to, or is one of its turns.
LEMMA ClientStepTurns ==
    ASSUME Typed, NEW c \in Clients, ClientStep(c)
    PROVE  \/ Connect(c) \/ ConnectFails(c)
           \/ c \in SsiClients /\ SsiTurns(c)
           \/ c \in X509Clients /\ X509Turns(c)
BY SsiStepTurns, X509ConnectTurns, X509ReplyTurns, X509ClosingTurns DEF ClientStep

-----------------------------------------------------------------------------
(* The invariants hold.                                                    *)

\* One connection changes.
LEMMA LinksUpdated ==
    ASSUME Typed, NEW k \in DOMAIN links, NEW m \in Links, links' = [links EXCEPT ![k] = m]
    PROVE  /\ links' \in Seq(Links) /\ DOMAIN links' = DOMAIN links
           /\ links'[k] = m
           /\ \A j \in DOMAIN links : j # k => links'[j] = links[j]
           /\ k # NoConn
<1>1. links \in Seq(Links) /\ k \in 1 .. Len(links)
  BY DEF Typed
<1> QED
  BY <1>1, ExceptSeq DEF NoConn

LEMMA BacklogTyped ==
    ASSUME Typed, NEW i \in DOMAIN backlog
    PROVE  backlog[i] \in DOMAIN links /\ backlog[i] # NoConn
<1>1. backlog[i] \in DOMAIN links
  BY ElementOfSeq DEF Typed
<1>2. DOMAIN links = 1 .. Len(links) /\ Len(links) \in Nat
  BY DEF Typed
<1> QED
  BY <1>1, <1>2 DEF NoConn

LEMMA SetupFixed ==
    ASSUME Next
    PROVE  vc' = vc /\ trusts' = trusts
<1>1. CASE ServerStep
  BY <1>1 DEF ServerStep, Accept, AcceptHello, AcceptFinished, ReadClientVc, EchoMessage,
              ServerReadFails, LoopEnds
<1>2. ASSUME NEW c \in Clients, ClientStep(c)
      PROVE  vc' = vc /\ trusts' = trusts
  BY <1>2 DEF ClientStep, Connect, ConnectFails, ConnectFinished, ReadServerVc, ReadFails,
              ReadAck, NoAck, ReadEcho, X509Connect, X509Reply, X509Closing
<1>3. ASSUME NEW k \in DOMAIN links, LinkBreaks(k)
      PROVE  vc' = vc /\ trusts' = trusts
  BY <1>3 DEF LinkBreaks
<1> QED
  BY <1>1, <1>2, <1>3 DEF Next

LEMMA ServerTurnTyped ==
    ASSUME Typed, NEW at, NEW m, NEW C, ServerTurn(at, m, C), trusts' = trusts
    PROVE  /\ Typed'
           /\ m \in Links /\ server.conn \in DOMAIN links /\ links'[server.conn] = m
           /\ \A j \in DOMAIN links : j # server.conn => links'[j] = links[j]
           /\ DOMAIN links' = DOMAIN links
           /\ server.conn # NoConn
<1>1. /\ m \in Links /\ server.conn \in DOMAIN links /\ m.owner = Served.owner
      /\ Served = links[server.conn]
  BY ServedTyped DEF ServerTurn, Follows, Served
<1>2. /\ links' \in Seq(Links) /\ DOMAIN links' = DOMAIN links
      /\ links'[server.conn] = m
      /\ \A j \in DOMAIN links : j # server.conn => links'[j] = links[j]
      /\ server.conn # NoConn
  BY <1>1, LinksUpdated DEF ServerTurn
<1>3. ServerRecords' = ServerRecords /\ ClientRecords' = ClientRecords
  BY <1>2 DEF ServerRecords, ClientRecords
<1>4. \A c \in Clients : client[c].conn \in {NoConn} \cup DOMAIN links
  BY DEF Typed, ClientRecords
<1>5. \A c \in Clients : client[c].conn # NoConn => links'[client[c].conn].owner = c
  BY <1>1, <1>2, <1>4 DEF Typed, Link
<1>6. server' \in ServerRecords /\ (server'.at = "idle") = (server'.conn = NoConn)
  BY <1>2 DEF ServerTurn
<1>7. /\ vc' = vc /\ backlog' = backlog /\ client' = client
  BY DEF ServerTurn
<1> QED
  BY <1>1, <1>2, <1>3, <1>5, <1>6, <1>7 DEF Typed, Link, RunsOn

LEMMA ClientTurnTyped ==
    ASSUME Typed, NEW c \in Clients, NEW r, NEW m, NEW S, ClientTurn(c, r, m, S),
           r.conn \in {NoConn, client[c].conn}, trusts' = trusts
    PROVE  /\ Typed'
           /\ m \in Links /\ client[c].conn \in DOMAIN links /\ links'[client[c].conn] = m
           /\ \A j \in DOMAIN links : j # client[c].conn => links'[j] = links[j]
           /\ DOMAIN links' = DOMAIN links
           /\ client'[c] = r /\ \A d \in Clients : d # c => client'[d] = client[d]
           /\ m.owner = c
<1> DEFINE k == client[c].conn
<1>1. /\ m \in Links /\ k \in DOMAIN links /\ m.owner = c
      /\ links' = [links EXCEPT ![k] = m]
  BY LinkTyped DEF ClientTurn, Follows
<1>2. /\ links' \in Seq(Links) /\ DOMAIN links' = DOMAIN links /\ links'[k] = m
      /\ \A j \in DOMAIN links : j # k => links'[j] = links[j]
      /\ k # NoConn
  BY <1>1, LinksUpdated
<1>3. ServerRecords' = ServerRecords /\ ClientRecords' = ClientRecords
  BY <1>2 DEF ServerRecords, ClientRecords
<1>4. /\ client' \in [Clients -> ClientRecords] /\ client'[c] = r
      /\ \A d \in Clients : d # c => client'[d] = client[d]
      /\ vc' = vc /\ backlog' = backlog /\ server' = server /\ RunsOn(c, r)
  BY DEF ClientTurn, Typed
<1>5. \A d \in Clients : client[d].conn \in {NoConn} \cup DOMAIN links
  BY DEF Typed, ClientRecords
<1>6. \A d \in Clients : client[d].conn # NoConn => links[client[d].conn].owner = d
  BY DEF Typed, Link
<1>7. \A d \in Clients : client'[d].conn # NoConn => links'[client'[d].conn].owner = d
  BY <1>1, <1>2, <1>4, <1>5, <1>6
<1>8. \A d \in Clients : RunsOn(d, client'[d])
  BY <1>4 DEF Typed
<1>9. /\ vc' \in [Clients \cup {"server"} -> Qualities] /\ trusts' \in [X509Clients -> Trust]
      /\ backlog' \in Seq(DOMAIN links') /\ server' \in ServerRecords'
      /\ (server'.at = "idle") = (server'.conn = NoConn)
  BY <1>2, <1>3, <1>4 DEF Typed
<1>10. Typed'
  <2>1. \A d \in Clients : Link(d)' = links'[client'[d].conn]
    BY DEF Link
  <2>2. \A d \in Clients : RunsOn(d, client[d])' = RunsOn(d, client'[d])
    BY DEF RunsOn
  <2> QED
    BY <1>2, <1>3, <1>4, <1>7, <1>8, <1>9, <2>1, <2>2 DEF Typed
<1> QED
  BY <1>1, <1>2, <1>4, <1>10

\* What the four invariants of a connection are about: when none of it changes,
\* they stay true.
LEMMA OthersKept ==
    ASSUME VcInv, NEW k \in DOMAIN links, vc' = vc,
           links'[k] = links[k],
           Showed(k)' = Showed(k),
           (client'[links[k].owner].conn = k) = (client[links[k].owner].conn = k),
           client[links[k].owner].conn = k =>
               client'[links[k].owner].at = client[links[k].owner].at,
           (\A i \in DOMAIN backlog : backlog[i] # k)
               => (\A i \in DOMAIN backlog' : backlog'[i] # k),
           server'.conn = k => server.conn = k /\ server'.at = server.at
    PROVE  /\ ShownBySsi(k)' /\ TrustsServer(k)' /\ SentWhenServed(k)' /\ RefusalIsLast(k)'
<1>1. ShownBySsi(k) /\ TrustsServer(k) /\ SentWhenServed(k) /\ RefusalIsLast(k)
  BY DEF VcInv
<1>2. ShownBySsi(k)'
  BY <1>1 DEF ShownBySsi
<1>3. TrustsServer(k)'
  BY <1>1 DEF TrustsServer
<1>4. SentWhenServed(k)'
  BY <1>1 DEF SentWhenServed
<1>5. RefusalIsLast(k)'
  BY <1>1 DEF RefusalIsLast
<1> QED
  BY <1>2, <1>3, <1>4, <1>5

\* The server's turns but for the connection served.
LEMMA ServerTurnAside ==
    ASSUME VcInv, NEW at, NEW m, NEW C, ServerTurn(at, m, C), trusts' = trusts
    PROVE  /\ InLine'
           /\ \A k \in DOMAIN links : k # server.conn =>
                  ShownBySsi(k)' /\ TrustsServer(k)' /\ SentWhenServed(k)' /\ RefusalIsLast(k)'
<1>0. Typed /\ InLine /\ backlog' = backlog /\ client' = client /\ vc' = vc
      /\ server'.conn \in {server.conn, NoConn}
  BY DEF VcInv, ServerTurn
<1>1. /\ DOMAIN links' = DOMAIN links
      /\ \A j \in DOMAIN links : j # server.conn => links'[j] = links[j]
  BY <1>0, ServerTurnTyped
<1>2. InLine'
  <2>1. ASSUME NEW i \in DOMAIN backlog
        PROVE  /\ backlog'[i] # server'.conn
               /\ links'[backlog'[i]].outcome = "none"
    <3>1. /\ backlog[i] \in DOMAIN links /\ backlog[i] # NoConn
          /\ backlog[i] # server.conn /\ links[backlog[i]].outcome = "none"
      BY <1>0, BacklogTyped DEF InLine
    <3> QED
      BY <1>0, <1>1, <3>1
  <2> QED
    BY <1>0, <2>1 DEF InLine
<1>3. ASSUME NEW k \in DOMAIN links, k # server.conn
      PROVE  ShownBySsi(k)' /\ TrustsServer(k)' /\ SentWhenServed(k)' /\ RefusalIsLast(k)'
  <2>1. links'[k] = links[k] /\ k # NoConn
    <3>1. DOMAIN links = 1 .. Len(links)
      BY <1>0 DEF Typed
    <3> QED
      BY <1>1, <1>3, <3>1 DEF NoConn
  <2>2. Showed(k)' = Showed(k)
    BY <1>0, <2>1 DEF Showed
  <2> QED
    BY <1>0, <1>3, <2>1, <2>2, OthersKept
<1> QED
  BY <1>2, <1>3

LEMMA ServerTurnsKeep ==
    ASSUME VcInv, ServerTurns, trusts' = trusts
    PROVE  VcInv'
<1>1. PICK m : \/ Greets(m) \/ AwaitsMessage(m) \/ ShowsVc(m) \/ AcceptsVc(m)
               \/ RefusesVc(m) \/ GivesUp(m) \/ Finishes(m) \/ LoopsOn(m)
  BY DEF ServerTurns
<1>2. PICK at, C : ServerTurn(at, m, C)
  BY <1>1 DEF Greets, AwaitsMessage, ShowsVc, AcceptsVc, RefusesVc, GivesUp, Finishes, LoopsOn
<1>k. PICK k : k = server.conn
  OBVIOUS
<1>3. /\ k = server.conn
      /\ Typed /\ Typed' /\ k \in DOMAIN links /\ k # NoConn /\ links'[k] = m
      /\ DOMAIN links' = DOMAIN links /\ m \in Links
      /\ Served = links[k] /\ m.owner = Served.owner /\ m.result = Served.result
      /\ vc' = vc /\ client' = client /\ backlog' = backlog
      /\ server.at # "idle" /\ server.at \in ServerReadsAt
      /\ server'.conn = IF server'.at = "idle" THEN NoConn ELSE k
      /\ OnWay(m, "server") \subseteq OnWay(Served, "server")
      /\ ServerGone(Served) => ServerGone(m)
  BY <1>2, <1>k, ServerTurnTyped DEF VcInv, ServerTurn, Follows, Served, Typed, ServerRecords
<1>4. /\ ShownBySsi(k) /\ TrustsServer(k) /\ SentWhenServed(k) /\ RefusalIsLast(k)
      /\ KindKnown /\ InLine
  BY <1>3 DEF VcInv
<1>5. InLine' /\ \A j \in DOMAIN links : j # k =>
          ShownBySsi(j)' /\ TrustsServer(j)' /\ SentWhenServed(j)' /\ RefusalIsLast(j)'
  BY <1>2, <1>k, ServerTurnAside
<1>6. KindKnown'
  <2>1. CASE server'.at = "idle"
    BY <2>1 DEF KindKnown
  <2>2. CASE server'.at # "idle"
    <3>1. Served' = m /\ Served.outcome # "refused"
      BY <1>3, <1>4, <2>2 DEF Served, KindKnown
    <3>2. m.outcome # "refused"
      BY <1>1, <2>2, <3>1 DEF Greets, AwaitsMessage, ShowsVc, AcceptsVc, RefusesVc, GivesUp,
                              Finishes, LoopsOn, ServerTurn
    <3>3. /\ server'.at # "accepting"
          /\ server'.at = "finished" => (server'.ssi = (m.owner \in SsiClients))
      BY <1>1, <1>3, <1>4, <2>2
         DEF Greets, AwaitsMessage, ShowsVc, AcceptsVc, RefusesVc, GivesUp, Finishes,
             LoopsOn, ServerTurn, KindKnown
    <3>4. Served.owner \in SsiClients \cup X509Clients
      BY <1>3, ServedTyped DEF Clients
    <3>5. /\ server'.at \in {"vc", "loop"} => m.owner \in SsiClients
          /\ server'.at = "message" => m.owner \in X509Clients
      BY <1>1, <1>3, <1>4, <2>2, <3>4
         DEF Greets, AwaitsMessage, ShowsVc, AcceptsVc, RefusesVc, GivesUp, Finishes,
             LoopsOn, ServerTurn, KindKnown
    <3> QED
      BY <3>1, <3>2, <3>3, <3>5 DEF KindKnown
  <2> QED
    BY <2>1, <2>2
<1>7. Showed(k)' = Showed(k)
  BY <1>3 DEF Showed
<1>8. ShownBySsi(k)'
  <2>1. "VC" \in OnWay(m, "server") => "VC" \in OnWay(Served, "server")
    BY <1>3
  <2>2. m.outcome = "accepted" =>
            \/ Served.outcome = "accepted"
            \/ "VC" \in OnWay(Served, "server") /\ vc[Served.owner] = "good"
    BY <1>1 DEF Greets, AwaitsMessage, ShowsVc, AcceptsVc, RefusesVc, GivesUp, Finishes,
                LoopsOn
  <2> QED
    BY <1>3, <1>4, <2>1, <2>2 DEF ShownBySsi
<1>9. TrustsServer(k)'
  BY <1>3, <1>4, <1>7 DEF TrustsServer
<1>10. SentWhenServed(k)'
  <2>1. \A i \in DOMAIN backlog : backlog[i] # k
    BY <1>3, <1>4 DEF InLine
  <2>2. "VC" \in OnWay(m, "client") =>
            "VC" \in OnWay(Served, "client") \/ server'.at \in {"vc", "loop", "idle"}
    BY <1>1 DEF Greets, AwaitsMessage, ShowsVc, AcceptsVc, RefusesVc, GivesUp, Finishes,
                LoopsOn, ServerTurn, Follows
  <2>3. server.at \in {"vc", "loop"} => server'.at \in {"vc", "loop", "idle"}
    BY <1>1 DEF Greets, AwaitsMessage, ShowsVc, AcceptsVc, RefusesVc, GivesUp, Finishes,
                LoopsOn, ServerTurn
  <2>4. "VC" \in OnWay(m, "client") \/ Showed(k) \/ m.result = "ok" =>
            server'.at \in {"vc", "loop", "idle"}
    BY <1>3, <1>4, <2>2, <2>3 DEF SentWhenServed
  <2> QED
    BY <1>3, <1>7, <2>1, <2>4 DEF SentWhenServed
<1>11. RefusalIsLast(k)'
  <2>1. "REJECT" \notin OnWay(Served, "client")
    BY <1>3, <1>4 DEF RefusalIsLast, KindKnown
  <2>2. "REJECT" \in OnWay(m, "client") => m.outcome = "refused" /\ ServerGone(m)
    BY <1>1, <2>1 DEF Greets, AwaitsMessage, ShowsVc, AcceptsVc, RefusesVc, GivesUp, Finishes,
                      LoopsOn, ServerTurn, Follows
  <2> QED
    BY <1>3, <2>2 DEF RefusalIsLast
<1> QED
  BY <1>3, <1>5, <1>6, <1>8, <1>9, <1>10, <1>11 DEF VcInv

LEMMA AcceptKeeps ==
    ASSUME VcInv, Accept, trusts' = trusts
    PROVE  VcInv'
<1> DEFINE h == Head(backlog)
<1>1. /\ Typed /\ InLine /\ KindKnown /\ server.at = "idle" /\ server.conn = NoConn
      /\ backlog # <<>> /\ backlog' = Tail(backlog) /\ backlog \in Seq(DOMAIN links)
      /\ links' = links /\ client' = client /\ vc' = vc
  BY DEF VcInv, Accept, Typed
<1>2. \/ server' = server
      \/ server' = [at |-> "accepting", conn |-> h, ssi |-> FALSE, err |-> FALSE]
  BY DEF Accept
<1>3. /\ backlog' \in Seq(DOMAIN links) /\ h = backlog[1] /\ 1 \in DOMAIN backlog
      /\ \A i \in DOMAIN backlog' : i + 1 \in DOMAIN backlog /\ backlog'[i] = backlog[i + 1]
                                    /\ i \in Nat
  BY <1>1
<1>4. /\ h \in DOMAIN links /\ h # NoConn /\ links[h].outcome = "none"
      /\ \A i \in DOMAIN backlog' : backlog'[i] # h /\ i + 1 # 1
  BY <1>1, <1>3, BacklogTyped DEF InLine
<1> HIDE DEF h
<1>5. /\ server' \in ServerRecords /\ (server'.at = "idle") = (server'.conn = NoConn)
      /\ server'.conn \in {NoConn, h}
      /\ server'.at # "idle" => server'.at = "accepting" /\ ~server'.ssi /\ server'.conn = h
  <2>1. CASE server' = server
    BY <1>1, <2>1 DEF Typed
  <2>2. CASE server' = [at |-> "accepting", conn |-> h, ssi |-> FALSE, err |-> FALSE]
    BY <1>4, <2>2 DEF ServerRecords, ServerReadsAt
  <2> QED
    BY <1>2, <2>1, <2>2
<1>6. Typed'
  BY <1>1, <1>3, <1>5 DEF Typed, ServerRecords, ClientRecords, RunsOn, Link
<1>7. InLine'
  <2>1. ASSUME NEW i \in DOMAIN backlog'
        PROVE  backlog'[i] # server'.conn /\ links'[backlog'[i]].outcome = "none"
    <3>1. backlog'[i] # NoConn /\ links[backlog'[i]].outcome = "none"
      BY <1>1, <1>3, BacklogTyped DEF InLine
    <3> QED
      BY <1>1, <1>4, <1>5, <3>1
  <2>2. ASSUME NEW i \in DOMAIN backlog', NEW j \in DOMAIN backlog', backlog'[i] = backlog'[j]
        PROVE  i = j
    <3>1. i + 1 = j + 1
      BY <1>1, <1>3, <2>2 DEF InLine
    <3> QED
      BY <1>3, <3>1
  <2> QED
    BY <2>1, <2>2 DEF InLine
<1>8. KindKnown'
  <2>1. CASE server'.at = "idle"
    BY <2>1 DEF KindKnown
  <2>2. CASE server'.at # "idle"
    <3>1. Served' = links[h]
      BY <1>1, <1>5, <2>2 DEF Served
    <3> QED
      BY <1>4, <1>5, <2>2, <3>1 DEF KindKnown
  <2> QED
    BY <2>1, <2>2
<1>9. ASSUME NEW k \in DOMAIN links
      PROVE  ShownBySsi(k)' /\ TrustsServer(k)' /\ SentWhenServed(k)' /\ RefusalIsLast(k)'
  <2>1. ShownBySsi(k) /\ TrustsServer(k) /\ SentWhenServed(k) /\ RefusalIsLast(k)
    BY DEF VcInv
  <2>2. Showed(k)' = Showed(k) /\ k # NoConn
    <3>1. DOMAIN links = 1 .. Len(links)
      BY <1>1 DEF Typed
    <3> QED
      BY <1>1, <3>1 DEF Showed, NoConn
  <2>3. (\A i \in DOMAIN backlog : backlog[i] # k) =>
            (\A i \in DOMAIN backlog' : backlog'[i] # k) /\ server'.conn # k
    BY <1>3, <1>5, <2>2 DEF h
  <2>4. SentWhenServed(k)'
    BY <1>1, <2>1, <2>2, <2>3 DEF SentWhenServed
  <2> QED
    BY <1>1, <2>1, <2>2, <2>4 DEF ShownBySsi, TrustsServer, RefusalIsLast
<1> QED
  BY <1>1, <1>6, <1>7, <1>8, <1>9 DEF VcInv

\* A client's turn but for its own connection.
LEMMA ClientTurnAside ==
    ASSUME VcInv, NEW c \in Clients, NEW r, NEW m, NEW S, ClientTurn(c, r, m, S),
           r.conn \in {NoConn, client[c].conn}, trusts' = trusts
    PROVE  /\ Typed' /\ InLine' /\ KindKnown'
           /\ \A k \in DOMAIN links : k # client[c].conn =>
                  ShownBySsi(k)' /\ TrustsServer(k)' /\ SentWhenServed(k)' /\ RefusalIsLast(k)'
<1>1. PICK own : own = client[c].conn
  OBVIOUS
<1>2. /\ Typed /\ InLine /\ KindKnown /\ backlog' = backlog /\ server' = server /\ vc' = vc
      /\ own \in DOMAIN links /\ own # NoConn
      /\ m.outcome = links[own].outcome /\ links[own].owner = c
  BY <1>1, LinkTyped DEF VcInv, ClientTurn, Link
<1>3. /\ Typed' /\ DOMAIN links' = DOMAIN links /\ links'[own] = m /\ m.owner = c
      /\ \A j \in DOMAIN links : j # own => links'[j] = links[j]
      /\ client'[c] = r /\ \A d \in Clients : d # c => client'[d] = client[d]
  BY <1>1, <1>2, ClientTurnTyped
<1>4. \A k \in DOMAIN links : /\ links'[k].outcome = links[k].outcome
                              /\ links'[k].owner = links[k].owner
  BY <1>2, <1>3
<1>5. InLine'
  <2>1. \A i \in DOMAIN backlog : backlog[i] \in DOMAIN links
    BY <1>2, BacklogTyped
  <2> QED
    BY <1>2, <1>4, <2>1 DEF InLine
<1>6. KindKnown'
  <2>1. CASE server.at = "idle"
    BY <1>2, <2>1 DEF KindKnown
  <2>2. CASE server.at # "idle"
    <3>1. server.conn \in DOMAIN links
      BY <1>2, <2>2, ServedTyped
    <3> QED
      BY <1>2, <1>4, <3>1 DEF KindKnown, Served
  <2> QED
    BY <2>1, <2>2
<1>7. ASSUME NEW k \in DOMAIN links, k # own
      PROVE  ShownBySsi(k)' /\ TrustsServer(k)' /\ SentWhenServed(k)' /\ RefusalIsLast(k)'
  <2>1. links'[k] = links[k] /\ links[k].owner \in Clients /\ k # NoConn
    <3>1. DOMAIN links = 1 .. Len(links) /\ links[k] \in Links
      BY <1>2, ElementOfSeq DEF Typed
    <3> QED
      BY <1>3, <1>7, <3>1 DEF NoConn, Links
  <2>2. \/ links[k].owner # c /\ client'[links[k].owner] = client[links[k].owner]
        \/ /\ links[k].owner = c
           /\ client[c].conn # k /\ client'[c].conn # k
    BY <1>1, <1>3, <1>7, <2>1
  <2>3. Showed(k)' = Showed(k)
    BY <2>1, <2>2 DEF Showed
  <2>4. /\ (client'[links[k].owner].conn = k) = (client[links[k].owner].conn = k)
        /\ client[links[k].owner].conn = k =>
               client'[links[k].owner].at = client[links[k].owner].at
    BY <2>2
  <2> QED
    BY <1>2, <2>1, <2>3, <2>4, OthersKept
<1> QED
  BY <1>1, <1>3, <1>5, <1>6, <1>7

\* A client's turn keeps the invariants if it keeps them of its connection.
LEMMA ClientTurnKeeps ==
    ASSUME VcInv, NEW c \in Clients, NEW r, NEW m, NEW S, ClientTurn(c, r, m, S),
           r.conn \in {NoConn, client[c].conn}, trusts' = trusts,
           \A k : k = client[c].conn =>
               ShownBySsi(k)' /\ TrustsServer(k)' /\ SentWhenServed(k)' /\ RefusalIsLast(k)'
    PROVE  VcInv'
<1>1. DOMAIN links' = DOMAIN links
  BY ClientTurnTyped DEF VcInv
<1> QED
  BY <1>1, ClientTurnAside DEF VcInv

\* What is known of the connection before the turn, and of it after.
LEMMA OwnConnection ==
    ASSUME VcInv, NEW c \in Clients, NEW r, NEW m, NEW S, ClientTurn(c, r, m, S),
           r.conn \in {NoConn, client[c].conn}, trusts' = trusts,
           NEW k, k = client[c].conn
    PROVE  /\ ShownBySsi(k) /\ TrustsServer(k) /\ SentWhenServed(k) /\ RefusalIsLast(k)
           /\ links[k] = Link(c) /\ links[k].owner = c /\ links'[k] = m /\ m.owner = c
           /\ k # NoConn /\ client'[c] = r /\ m.outcome = links[k].outcome
           /\ vc' = vc /\ backlog' = backlog /\ server' = server
           /\ OnWay(m, "client") \subseteq OnWay(links[k], "client")
           /\ OnWay(m, "server") \subseteq OnWay(links[k], "server") \cup S
           /\ ServerGone(links[k]) => ServerGone(m)
<1>1. /\ Typed /\ k \in DOMAIN links /\ k # NoConn /\ links[k] = Link(c) /\ links[k].owner = c
      /\ vc' = vc /\ backlog' = backlog /\ server' = server /\ m.outcome = links[k].outcome
      /\ Follows(links[k], m, {}, S)
  BY LinkTyped DEF VcInv, ClientTurn, Link
<1>2. links'[k] = m /\ client'[c] = r /\ m.owner = c
  BY <1>1, ClientTurnTyped
<1>3. ShownBySsi(k) /\ TrustsServer(k) /\ SentWhenServed(k) /\ RefusalIsLast(k)
  BY <1>1 DEF VcInv
<1> QED
  BY <1>1, <1>2, <1>3 DEF Follows

LEMMA SsiGoesOnKeeps ==
    ASSUME VcInv, NEW c \in SsiClients, NEW r, NEW m, trusts' = trusts,
           SsiFinishes(c, r, m) \/ SsiShows(c, r, m) \/ SsiSends(c, r, m)
    PROVE  VcInv'
<1>1. PICK S : /\ ClientTurn(c, r, m, S)
               /\ "VC" \in S => SsiShows(c, r, m)
  BY DEF SsiFinishes, SsiShows, SsiSends
<1>2. c \in Clients /\ r.conn = client[c].conn /\ m.result = Link(c).result
  BY DEF Clients, SsiFinishes, SsiShows, SsiSends, GoesOn
<1>3. ASSUME NEW k, k = client[c].conn
      PROVE  ShownBySsi(k)' /\ TrustsServer(k)' /\ SentWhenServed(k)' /\ RefusalIsLast(k)'
  <2>1. /\ ShownBySsi(k) /\ TrustsServer(k) /\ SentWhenServed(k) /\ RefusalIsLast(k)
        /\ links[k] = Link(c) /\ links[k].owner = c /\ links'[k] = m /\ m.owner = c
        /\ k # NoConn /\ client'[c] = r /\ m.outcome = links[k].outcome
        /\ vc' = vc /\ backlog' = backlog /\ server' = server
        /\ OnWay(m, "client") \subseteq OnWay(links[k], "client")
        /\ OnWay(m, "server") \subseteq OnWay(links[k], "server") \cup S
        /\ ServerGone(links[k]) => ServerGone(m)
    BY <1>1, <1>2, <1>3, OwnConnection
  <2>2. Showed(k) <=> (client[c].at \in {"ack", "echo"})
    BY <1>3, <2>1 DEF Showed
  <2>3. Showed(k)' <=> (r.at \in {"ack", "echo"})
    BY <1>2, <1>3, <2>1 DEF Showed
  <2>4. /\ Showed(k) => r.at \in {"ack", "echo"}
        /\ r.at \in {"ack", "echo"} => Showed(k) \/ SsiShows(c, r, m)
    BY <2>2 DEF SsiFinishes, SsiShows, SsiSends
  <2>5. SsiShows(c, r, m) =>
            /\ vc["server"] = "good" /\ r.at = "ack"
            /\ "VC" \in OnWay(links[k], "client")
    BY <2>1 DEF SsiShows, Hears
  <2>6. ShownBySsi(k)'
    <3>1. "VC" \in OnWay(m, "server") \/ m.outcome = "accepted" => r.at \in {"ack", "echo"}
      BY <1>1, <1>3, <2>1, <2>2, <2>4, <2>5 DEF ShownBySsi
    <3> QED
      BY <1>2, <1>3, <2>1, <3>1 DEF ShownBySsi
  <2>7. TrustsServer(k)'
    BY <1>2, <2>1, <2>3, <2>4, <2>5 DEF TrustsServer
  <2>8. SentWhenServed(k)'
    BY <1>2, <2>1, <2>3, <2>4, <2>5 DEF SentWhenServed
  <2>9. RefusalIsLast(k)'
    BY <2>1 DEF RefusalIsLast
  <2> QED
    BY <2>6, <2>7, <2>8, <2>9
<1> QED
  BY <1>1, <1>2, <1>3, ClientTurnKeeps

LEMMA SsiLeavesKeeps ==
    ASSUME VcInv, NEW c \in SsiClients, NEW r, NEW m, trusts' = trusts,
           SsiGivesUp(c, r, m) \/ SsiSucceeds(c, r, m)
    PROVE  VcInv'
<1>1. PICK S : ClientTurn(c, r, m, S) /\ "VC" \notin S
  BY DEF SsiGivesUp, SsiSucceeds
<1>2. c \in Clients /\ r.conn = NoConn
  BY DEF Clients, SsiGivesUp, SsiSucceeds, Leaves
<1>3. ASSUME NEW k, k = client[c].conn
      PROVE  ShownBySsi(k)' /\ TrustsServer(k)' /\ SentWhenServed(k)' /\ RefusalIsLast(k)'
  <2>1. /\ ShownBySsi(k) /\ TrustsServer(k) /\ SentWhenServed(k) /\ RefusalIsLast(k)
        /\ links[k] = Link(c) /\ links[k].owner = c /\ links'[k] = m /\ m.owner = c
        /\ k # NoConn /\ client'[c] = r /\ m.outcome = links[k].outcome
        /\ vc' = vc /\ backlog' = backlog /\ server' = server
        /\ OnWay(m, "client") \subseteq OnWay(links[k], "client")
        /\ OnWay(m, "server") \subseteq OnWay(links[k], "server") \cup S
        /\ ServerGone(links[k]) => ServerGone(m)
    BY <1>1, <1>2, <1>3, OwnConnection
  <2>2. Showed(k) <=> (client[c].at \in {"ack", "echo"})
    BY <1>3, <2>1 DEF Showed
  <2>3. ~Showed(k)'
    BY <1>2, <2>1 DEF Showed
  <2>4. m.result = "ok" => SsiSucceeds(c, r, m) /\ Showed(k)
    BY <2>2 DEF SsiGivesUp, SsiSucceeds
  <2>5. "VC" \in OnWay(m, "server") \/ m.outcome = "accepted" => SsiSucceeds(c, r, m)
    <3>1. "VC" \in OnWay(m, "server") \/ m.outcome = "accepted" =>
              client[c].at \in {"ack", "echo"}
      BY <1>1, <1>3, <2>1 DEF ShownBySsi
    <3>2. "REJECT" \in OnWay(links[k], "client") =>
              "VC" \notin OnWay(m, "server") /\ m.outcome # "accepted"
      <4>1. ToSet(<<>>) = {}
        BY DEF ToSet
      <4> QED
        BY <2>1, <4>1 DEF RefusalIsLast, ServerGone, OnWay
    <3> QED
      BY <2>1, <3>1, <3>2 DEF SsiGivesUp, Hears
  <2>6. SsiSucceeds(c, r, m) => m.result = "ok"
    BY DEF SsiSucceeds
  <2>7. ShownBySsi(k)'
    BY <1>2, <2>1, <2>5, <2>6, <1>1 DEF ShownBySsi
  <2>8. TrustsServer(k)'
    BY <2>1, <2>3, <2>4 DEF TrustsServer
  <2>9. SentWhenServed(k)'
    BY <2>1, <2>3, <2>4 DEF SentWhenServed
  <2>10. RefusalIsLast(k)'
    BY <2>1 DEF RefusalIsLast
  <2> QED
    BY <2>7, <2>8, <2>9, <2>10
<1> QED
  BY <1>1, <1>2, <1>3, ClientTurnKeeps

LEMMA X509TurnsKeep ==
    ASSUME VcInv, NEW c \in X509Clients, X509Turns(c), trusts' = trusts
    PROVE  VcInv'
<1> DEFINE S == {"CF", "msg", "alert", "notify"}
<1>1. PICK r, m : /\ ClientTurn(c, r, m, S)
                  /\ \/ GoesOn(c, r, m) /\ r.at \in {"reply", "closing"}
                     \/ Leaves(r)
                  /\ m.result = Link(c).result
  BY DEF X509Turns
<1>2. /\ c \in Clients /\ c \notin SsiClients /\ "VC" \notin S
      /\ r.conn \in {NoConn, client[c].conn}
      /\ r.conn = NoConn \/ r.at \notin {"ack", "echo"}
  BY <1>1, VcExchangeAssumption DEF Clients, GoesOn, Leaves
<1> HIDE DEF S
<1>3. ASSUME NEW k, k = client[c].conn
      PROVE  ShownBySsi(k)' /\ TrustsServer(k)' /\ SentWhenServed(k)' /\ RefusalIsLast(k)'
  <2>1. /\ ShownBySsi(k) /\ TrustsServer(k) /\ SentWhenServed(k) /\ RefusalIsLast(k)
        /\ links[k] = Link(c) /\ links[k].owner = c /\ links'[k] = m /\ m.owner = c
        /\ k # NoConn /\ client'[c] = r /\ m.outcome = links[k].outcome
        /\ vc' = vc /\ backlog' = backlog /\ server' = server
        /\ OnWay(m, "client") \subseteq OnWay(links[k], "client")
        /\ OnWay(m, "server") \subseteq OnWay(links[k], "server") \cup S
        /\ ServerGone(links[k]) => ServerGone(m)
    BY <1>1, <1>2, <1>3, OwnConnection
  <2>2. ~Showed(k)'
    BY <1>2, <2>1 DEF Showed
  <2>3. ShownBySsi(k)'
    BY <1>2, <2>1 DEF ShownBySsi
  <2>4. TrustsServer(k)'
    BY <1>1, <2>1, <2>2 DEF TrustsServer
  <2>5. SentWhenServed(k)'
    BY <1>1, <2>1, <2>2 DEF SentWhenServed
  <2>6. RefusalIsLast(k)'
    BY <2>1 DEF RefusalIsLast
  <2> QED
    BY <2>3, <2>4, <2>5, <2>6
<1> QED
  BY <1>1, <1>2, <1>3, ClientTurnKeeps

LEMMA ConnectKeeps ==
    ASSUME VcInv, NEW c \in Clients, Connect(c), trusts' = trusts
    PROVE  VcInv'
<1>0. PICK new : new = Len(links) + 1
  OBVIOUS
<1> DEFINE r == [client[c] EXCEPT !.at = "flight", !.conn = new, !.err = FALSE]
<1>1. /\ Typed /\ InLine /\ KindKnown /\ links \in Seq(Links) /\ Len(links) \in Nat
      /\ DOMAIN links = 1 .. Len(links)
      /\ client[c].at = "idle" /\ client[c].conn = NoConn /\ client[c] \in ClientRecords
      /\ RunsOn(c, client[c])
      /\ server' = server /\ vc' = vc
  BY DEF VcInv, Connect, Typed, RunsOn
<1>2. /\ NewLink(c) \in Links /\ NewLink(c).owner = c /\ NewLink(c).outcome = "none"
      /\ NewLink(c).result = "none" /\ NewLink(c).to["server"] = <<"CH">>
      /\ NewLink(c).to["client"] = <<>>
  <2>1. /\ <<"CH">> \in Seq(Records) /\ <<>> \in Seq(Records)
    BY DEF Records
  <2>2. /\ Opened("CH").to \in [End -> Seq(Records)] /\ Opened("CH").up \in [End -> BOOLEAN]
        /\ Opened("CH").to["server"] = <<"CH">> /\ Opened("CH").to["client"] = <<>>
    BY <2>1 DEF Opened, End
  <2> QED
    BY <2>2 DEF NewLink, Links
<1>3. /\ links' = Append(links, NewLink(c)) /\ Len(links') = new
      /\ backlog' = Append(backlog, new)
      /\ client' = [client EXCEPT ![c] = r]
  <2>1. links' = Append(links, NewLink(c))
    BY DEF Connect
  <2>2. Len(links') = new
    BY <1>0, <1>1, <1>2, <2>1
  <2> QED
    BY <2>1, <2>2 DEF Connect
<1>4. /\ links' \in Seq(Links) /\ DOMAIN links' = DOMAIN links \cup {new}
      /\ links'[new] = NewLink(c) /\ \A k \in DOMAIN links : links'[k] = links[k]
      /\ new \notin DOMAIN links /\ new # NoConn /\ NoConn \notin DOMAIN links
  BY <1>0, <1>1, <1>2, <1>3 DEF NoConn
<1> HIDE DEF r
<1>5. /\ DOMAIN backlog' = DOMAIN backlog \cup {Len(backlog) + 1}
      /\ Len(backlog) + 1 \notin DOMAIN backlog
      /\ backlog'[Len(backlog) + 1] = new
      /\ \A i \in DOMAIN backlog : backlog'[i] = backlog[i]
      /\ backlog' \in Seq(DOMAIN links')
  <2>1. backlog \in Seq(DOMAIN links') /\ new \in DOMAIN links'
    <3>1. backlog \in Seq(DOMAIN links)
      BY <1>1 DEF Typed
    <3> QED
      BY <1>4, <3>1
  <2> QED
    BY <1>3, <2>1
<1>6. \A i \in DOMAIN backlog : backlog[i] \in DOMAIN links
  BY <1>1, BacklogTyped
<1>7. /\ r.at = "flight" /\ r.conn = new /\ r.n = client[c].n /\ r.tries = client[c].tries
      /\ r \in ClientRecords'
  BY <1>1, <1>4 DEF r, ClientRecords, ClientReadsAt
<1>8. RunsOn(c, r)
  BY <1>1, <1>4, <1>7 DEF RunsOn
<1>9. /\ client'[c] = r /\ \A d \in Clients : d # c => client'[d] = client[d]
      /\ client' \in [Clients -> ClientRecords']
  <2>1. \A d \in Clients : client[d] \in ClientRecords'
    BY <1>1, <1>4 DEF Typed, ClientRecords
  <2> QED
    BY <1>1, <1>3, <1>7, <2>1 DEF Typed
<1>10. Typed'
  <2>1. server' \in ServerRecords' /\ (server'.at = "idle") = (server'.conn = NoConn)
    BY <1>1, <1>4 DEF Typed, ServerRecords
  <2>2. \A d \in Clients : RunsOn(d, client'[d])
    BY <1>1, <1>8, <1>9 DEF Typed
  <2>3. \A d \in Clients : client'[d].conn # NoConn => links'[client'[d].conn].owner = d
    <3>1. client'[c].conn = new /\ links'[new].owner = c
      BY <1>2, <1>4, <1>7, <1>9
    <3>2. ASSUME NEW d \in Clients, d # c, client[d].conn # NoConn
          PROVE  links'[client'[d].conn].owner = d
      <4>1. client[d].conn \in DOMAIN links /\ links[client[d].conn].owner = d
        BY <1>1, <3>2 DEF Typed, ClientRecords, Link
      <4> QED
        BY <1>4, <1>9, <3>2, <4>1
    <3> QED
      BY <1>9, <3>1, <3>2
  <2>4. \A d \in Clients : Link(d)' = links'[client'[d].conn]
    BY DEF Link
  <2>5. \A d \in Clients : RunsOn(d, client[d])' = RunsOn(d, client'[d])
    BY DEF RunsOn
  <2> QED
    BY <1>1, <1>4, <1>5, <1>9, <2>1, <2>2, <2>3, <2>4, <2>5 DEF Typed
<1>11. InLine'
  <2>1. ASSUME NEW i \in DOMAIN backlog'
        PROVE  backlog'[i] # server'.conn /\ links'[backlog'[i]].outcome = "none"
    <3>1. new # server.conn
      BY <1>4, <1>1 DEF Typed, ServerRecords
    <3> QED
      BY <1>1, <1>2, <1>4, <1>5, <1>6, <3>1 DEF InLine
  <2>2. ASSUME NEW i \in DOMAIN backlog', NEW j \in DOMAIN backlog', backlog'[i] = backlog'[j]
        PROVE  i = j
    BY <1>1, <1>4, <1>5, <1>6, <2>2 DEF InLine
  <2> QED
    BY <2>1, <2>2 DEF InLine
<1>12. KindKnown'
  <2>1. CASE server.at = "idle"
    BY <1>1, <2>1 DEF KindKnown
  <2>2. CASE server.at # "idle"
    <3>1. server.conn \in DOMAIN links
      BY <1>1, <2>2, ServedTyped
    <3> QED
      BY <1>1, <1>4, <3>1 DEF KindKnown, Served
  <2> QED
    BY <2>1, <2>2
<1>13. ASSUME NEW k \in DOMAIN links
       PROVE  ShownBySsi(k)' /\ TrustsServer(k)' /\ SentWhenServed(k)' /\ RefusalIsLast(k)'
  <2>1. links'[k] = links[k] /\ links[k].owner \in Clients /\ k # new /\ k # NoConn
    <3>1. links[k] \in Links
      BY <1>1, ElementOfSeq
    <3> QED
      BY <1>4, <3>1 DEF Links
  <2>2. \/ links[k].owner # c /\ client'[links[k].owner] = client[links[k].owner]
        \/ links[k].owner = c /\ client[c].conn # k /\ client'[c].conn # k
    BY <1>1, <1>7, <1>9, <2>1
  <2>3. Showed(k)' = Showed(k)
    BY <2>1, <2>2 DEF Showed
  <2>4. /\ (client'[links[k].owner].conn = k) = (client[links[k].owner].conn = k)
        /\ client[links[k].owner].conn = k =>
               client'[links[k].owner].at = client[links[k].owner].at
    BY <2>2
  <2>5. (\A i \in DOMAIN backlog : backlog[i] # k) => (\A i \in DOMAIN backlog' : backlog'[i] # k)
    BY <1>5, <2>1
  <2> QED
    BY <1>1, <2>1, <2>3, <2>4, <2>5, OthersKept
<1>14. ShownBySsi(new)' /\ TrustsServer(new)' /\ SentWhenServed(new)' /\ RefusalIsLast(new)'
  <2>2. /\ links'[new].outcome = "none" /\ links'[new].result = "none" /\ links'[new].owner = c
        /\ client'[c].at = "flight"
    BY <1>2, <1>4, <1>7, <1>9
  <2>3. "VC" \notin ToSet(<<"CH">>) /\ ToSet(<<>>) = {}
    BY DEF ToSet
  <2>4. /\ "VC" \notin OnWay(links'[new], "server") /\ "VC" \notin OnWay(links'[new], "client")
        /\ "REJECT" \notin OnWay(links'[new], "client")
    BY <1>2, <1>4, <2>3 DEF OnWay
  <2>5. ~Showed(new)'
    BY <2>2 DEF Showed
  <2>6. ShownBySsi(new)' /\ RefusalIsLast(new)'
    BY <2>2, <2>4 DEF ShownBySsi, RefusalIsLast
  <2>7. TrustsServer(new)' /\ SentWhenServed(new)'
    BY <2>2, <2>4, <2>5 DEF TrustsServer, SentWhenServed
  <2> QED
    BY <2>6, <2>7
<1> QED
  BY <1>4, <1>10, <1>11, <1>12, <1>13, <1>14 DEF VcInv

\* Neither the connections nor who uses them change.
LEMMA ConnectFailsKeeps ==
    ASSUME VcInv, NEW c \in Clients, ConnectFails(c), trusts' = trusts
    PROVE  VcInv'
<1>1. /\ Typed /\ InLine /\ KindKnown
      /\ client[c].at = "idle" /\ client[c].conn = NoConn /\ client[c] \in ClientRecords
      /\ RunsOn(c, client[c])
      /\ links' = links /\ backlog' = backlog /\ server' = server /\ vc' = vc
  BY DEF VcInv, ConnectFails, Typed, RunsOn
<1>2. PICK r \in ClientRecords : /\ client' = [client EXCEPT ![c] = r] /\ RunsOn(c, r)
                                 /\ r.conn = NoConn
  <2>1. CASE c \in SsiClients
    <3> DEFINE r == SsiRoundOver(c, "fail")
    <3>1. client' = [client EXCEPT ![c] = r]
      BY <2>1, VcExchangeAssumption DEF ConnectFails
    <3> QED
      BY <1>1, <2>1, <3>1, RoundOverTyped
  <2>2. CASE c \in X509Clients
    <3> DEFINE at == IF client[c].tries > 1 THEN client[c].at ELSE "halted"
               tries == client[c].tries - 1
               r == [client[c] EXCEPT !.tries = tries, !.at = at]
    <3>1. client' = [client EXCEPT ![c] = r] /\ c \notin SsiClients
      BY <2>2, VcExchangeAssumption DEF ConnectFails, AttemptOver
    <3>2. client[c].tries \in 0 .. Reconnects /\ client[c].tries > 0 /\ Reconnects \in Nat
      BY <1>1, <2>2, VcExchangeAssumption DEF ClientRecords, RunsOn
    <3>3. /\ tries \in 0 .. Reconnects /\ at \in {"idle", "halted"}
          /\ at # "halted" => tries > 0
      BY <1>1, <3>2
    <3> HIDE DEF at, tries
    <3>4. /\ r \in ClientRecords /\ r.at = at /\ r.conn = NoConn /\ r.tries = tries
          /\ r.n = client[c].n
      BY <1>1, <3>3 DEF ClientRecords
    <3> HIDE DEF r
    <3>5. RunsOn(c, r)
      BY <1>1, <2>2, <3>1, <3>3, <3>4 DEF RunsOn
    <3> QED
      BY <3>1, <3>4, <3>5
  <2> QED
    BY <2>1, <2>2 DEF Clients
<1>3. /\ client'[c] = r /\ \A d \in Clients : d # c => client'[d] = client[d]
      /\ client' \in [Clients -> ClientRecords]
  BY <1>1, <1>2 DEF Typed
<1>4. Typed'
  <2>1. \A d \in Clients : RunsOn(d, client'[d])
    BY <1>1, <1>2, <1>3 DEF Typed
  <2>2. \A d \in Clients : client'[d].conn # NoConn => links'[client'[d].conn].owner = d
    BY <1>1, <1>2, <1>3 DEF Typed, Link
  <2>3. \A d \in Clients : Link(d)' = links'[client'[d].conn]
    BY DEF Link
  <2>4. \A d \in Clients : RunsOn(d, client[d])' = RunsOn(d, client'[d])
    BY DEF RunsOn
  <2>5. ClientRecords' = ClientRecords /\ ServerRecords' = ServerRecords
    BY <1>1 DEF ClientRecords, ServerRecords
  <2> QED
    BY <1>1, <1>3, <2>1, <2>2, <2>3, <2>4, <2>5 DEF Typed
<1>5. InLine' /\ KindKnown'
  BY <1>1 DEF InLine, KindKnown, Served
<1>6. ASSUME NEW k \in DOMAIN links
      PROVE  ShownBySsi(k)' /\ TrustsServer(k)' /\ SentWhenServed(k)' /\ RefusalIsLast(k)'
  <2>1. links'[k] = links[k] /\ links[k].owner \in Clients /\ k # NoConn
    <3>1. DOMAIN links = 1 .. Len(links) /\ links[k] \in Links
      BY <1>1, ElementOfSeq DEF Typed
    <3> QED
      BY <1>1, <3>1 DEF NoConn, Links
  <2>2. \/ links[k].owner # c /\ client'[links[k].owner] = client[links[k].owner]
        \/ links[k].owner = c /\ client[c].conn # k /\ client'[c].conn # k
    BY <1>1, <1>2, <1>3, <2>1
  <2>3. Showed(k)' = Showed(k)
    BY <2>1, <2>2 DEF Showed
  <2>4. /\ (client'[links[k].owner].conn = k) = (client[links[k].owner].conn = k)
        /\ client[links[k].owner].conn = k =>
               client'[links[k].owner].at = client[links[k].owner].at
    BY <2>2
  <2> QED
    BY <1>1, <2>1, <2>3, <2>4, OthersKept
<1> QED
  BY <1>1, <1>4, <1>5, <1>6 DEF VcInv

\* A link that breaks only takes records away.
LEMMA LinkBreaksKeeps ==
    ASSUME VcInv, NEW b \in DOMAIN links, LinkBreaks(b), trusts' = trusts
    PROVE  VcInv'
<1> DEFINE l == links[b]
           half == Stopped(l, "client")
           m == Stopped(half, "server")
<1>1. /\ Typed /\ InLine /\ KindKnown /\ l \in Links
      /\ links' = [links EXCEPT ![b] = m]
      /\ UNCHANGED <<vc, backlog, server, client>>
  BY ElementOfSeq DEF VcInv, Typed, LinkBreaks, Cut
<1>2. Follows(l, half, {}, {}) /\ SameVerdicts(l, half) /\ half \in Links
  BY <1>1, StoppedFollows DEF End, Follows
<1> HIDE DEF half
<1>3. Follows(half, m, {}, {}) /\ SameVerdicts(half, m)
  BY <1>2, StoppedFollows DEF End
<1> HIDE DEF m
<1>4. Follows(l, m, {} \cup {}, {} \cup {})
  BY <1>2, <1>3, FollowsTwice
<1>5. /\ m \in Links /\ m.owner = l.owner /\ m.outcome = l.outcome /\ m.result = l.result
      /\ OnWay(m, "client") \subseteq OnWay(l, "client")
      /\ OnWay(m, "server") \subseteq OnWay(l, "server")
      /\ ServerGone(l) => ServerGone(m)
  BY <1>2, <1>3, <1>4 DEF Follows, SameVerdicts
<1>6. /\ links' \in Seq(Links) /\ DOMAIN links' = DOMAIN links /\ links'[b] = m
      /\ \A j \in DOMAIN links : j # b => links'[j] = links[j]
  BY <1>1, <1>5, LinksUpdated
<1>7. \A k \in DOMAIN links :
          /\ links'[k].owner = links[k].owner /\ links'[k].outcome = links[k].outcome
          /\ links'[k].result = links[k].result
          /\ OnWay(links'[k], "client") \subseteq OnWay(links[k], "client")
          /\ OnWay(links'[k], "server") \subseteq OnWay(links[k], "server")
          /\ ServerGone(links[k]) => ServerGone(links'[k])
  BY <1>5, <1>6
<1>8. Typed'
  <2>1. ClientRecords' = ClientRecords /\ ServerRecords' = ServerRecords
    BY <1>6 DEF ClientRecords, ServerRecords
  <2>2. \A d \in Clients : client[d].conn # NoConn => links'[client[d].conn].owner = d
    BY <1>1, <1>7 DEF Typed, Link, ClientRecords
  <2> QED
    BY <1>1, <1>6, <2>1, <2>2 DEF Typed, Link, RunsOn
<1>9. InLine'
  <2>1. \A i \in DOMAIN backlog : backlog[i] \in DOMAIN links
    BY <1>1, BacklogTyped
  <2> QED
    BY <1>1, <1>7, <2>1 DEF InLine
<1>10. KindKnown'
  <2>1. CASE server.at = "idle"
    BY <1>1, <2>1 DEF KindKnown
  <2>2. CASE server.at # "idle"
    <3>1. server.conn \in DOMAIN links
      BY <1>1, <2>2, ServedTyped
    <3> QED
      BY <1>1, <1>7, <3>1 DEF KindKnown, Served
  <2> QED
    BY <2>1, <2>2
<1>11. ASSUME NEW k \in DOMAIN links
       PROVE  ShownBySsi(k)' /\ TrustsServer(k)' /\ SentWhenServed(k)' /\ RefusalIsLast(k)'
  <2>1. ShownBySsi(k) /\ TrustsServer(k) /\ SentWhenServed(k) /\ RefusalIsLast(k)
    BY DEF VcInv
  <2>2. Showed(k)' = Showed(k)
    BY <1>1, <1>7 DEF Showed
  <2>3. ShownBySsi(k)'
    BY <1>1, <1>7, <2>1 DEF ShownBySsi
  <2>4. TrustsServer(k)'
    BY <1>1, <1>7, <2>1, <2>2 DEF TrustsServer
  <2>5. SentWhenServed(k)'
    BY <1>1, <1>7, <2>1, <2>2 DEF SentWhenServed
  <2>6. RefusalIsLast(k)'
    BY <1>1, <1>7, <2>1 DEF RefusalIsLast
  <2> QED
    BY <2>3, <2>4, <2>5, <2>6
<1> QED
  BY <1>6, <1>8, <1>9, <1>10, <1>11 DEF VcInv

-----------------------------------------------------------------------------

LEMMA VcInit ==
    ASSUME Init
    PROVE  VcInv
<1>1. links = <<>> /\ backlog = <<>> /\ DOMAIN links = {} /\ DOMAIN backlog = {}
  BY DEF Init
<1>2. /\ server \in ServerRecords /\ server.at = "idle" /\ server.conn = NoConn
  BY DEF Init, ServerRecords
<1>3. ASSUME NEW c \in Clients
      PROVE  client[c] \in ClientRecords /\ RunsOn(c, client[c]) /\ client[c].conn = NoConn
  <2>1. client[c] = [at |-> "idle", conn |-> NoConn, err |-> FALSE,
                     first |-> c \in SsiClients, n |-> 0, tries |-> Reconnects]
    BY DEF Init
  <2>2. 0 \in 0 .. Rounds /\ Reconnects \in 0 .. Reconnects /\ 0 < Rounds /\ Reconnects > 0
    BY VcExchangeAssumption
  <2>3. (c \in SsiClients) \in BOOLEAN
    OBVIOUS
  <2> DEFINE first == c \in SsiClients
  <2> HIDE DEF first
  <2>4. client[c] \in ClientRecords
    BY <2>1, <2>2, <2>3 DEF ClientRecords, first
  <2> QED
    BY <2>1, <2>2, <2>4 DEF RunsOn
<1>4. client \in [Clients -> ClientRecords]
  BY <1>3 DEF Init
<1>5. Typed
  <2>1. links \in Seq(Links) /\ backlog \in Seq(DOMAIN links)
    BY <1>1
  <2> QED
    BY <1>2, <1>3, <1>4, <2>1 DEF Typed, Init
<1>6. InLine /\ KindKnown
  BY <1>1, <1>2 DEF InLine, KindKnown
<1> QED
  BY <1>1, <1>5, <1>6 DEF VcInv

LEMMA VcNext ==
    ASSUME VcInv, [Next]_vars
    PROVE  VcInv'
<1>1. CASE UNCHANGED vars
  BY <1>1 DEF vars, VcInv, Typed, ServerRecords, ClientRecords, RunsOn, Link, InLine,
              KindKnown, Served, ShownBySsi, TrustsServer, SentWhenServed, RefusalIsLast,
              Showed
<1>2. CASE Next
  <2>1. trusts' = trusts /\ Typed
    BY <1>2, SetupFixed DEF VcInv
  <2>2. CASE ServerStep
    BY <2>1, <2>2, ServerStepTurns, ServerTurnsKeep, AcceptKeeps
  <2>3. ASSUME NEW c \in Clients, ClientStep(c)
        PROVE  VcInv'
    <3>1. CASE Connect(c) \/ ConnectFails(c)
      BY <2>1, <3>1, ConnectKeeps, ConnectFailsKeeps
    <3>2. CASE c \in SsiClients /\ SsiTurns(c)
      BY <2>1, <3>2, SsiGoesOnKeeps, SsiLeavesKeeps DEF SsiTurns
    <3>3. CASE c \in X509Clients /\ X509Turns(c)
      BY <2>1, <3>3, X509TurnsKeep
    <3> QED
      BY <2>1, <2>3, <3>1, <3>2, <3>3, ClientStepTurns
  <2>4. ASSUME NEW k \in DOMAIN links, LinkBreaks(k)
        PROVE  VcInv'
    BY <2>1, <2>4, LinkBreaksKeeps
  <2> QED
    BY <1>2, <2>2, <2>3, <2>4 DEF Next
<1> QED
  BY <1>1, <1>2

\* The inductive invariant of the credential exchange.
THEOREM VcInvariant == Spec => []VcInv
<1>1. Init => VcInv
  BY VcInit
<1>2. VcInv /\ [Next]_vars => VcInv'
  BY VcNext
<1> QED
  BY <1>1, <1>2, PTL DEF Spec

\* The variables keep their types: the server holds a connection exactly while
\* it serves one, a client while it uses one, which is its own, and neither its
\* rounds nor its attempts run below or beyond their bounds.
THEOREM VcTyped == Spec => []TypeOK
<1>1. VcInv => TypeOK
  BY DEF VcInv, Typed, TypeOK, RunsOn, Links, ServerRecords, ClientRecords
<1> QED
  BY <1>1, VcInvariant, PTL

\* The flag that says what kind of client is served (g_ssi_client_detected) is
\* never left over from an earlier connection: the credential is exchanged with
\* SSI clients and with them only.
THEOREM KindIsServed == Spec => []KindServed
<1>1. VcInv => KindServed
  BY DEF VcInv, KindKnown, KindServed
<1> QED
  BY <1>1, VcInvariant, PTL

\* Where the server reports mutual authentication, the credentials of both are
\* good, and the client, which verified the server's first, does not report a
\* failure, then or later.
THEOREM AuthIsMutual == Spec => []MutualAuth
<1>1. ASSUME VcInv
      PROVE  MutualAuth
  <2>1. ASSUME NEW k \in DOMAIN links, links[k].outcome = "accepted"
        PROVE  LET c == links[k].owner
               IN  /\ c \in SsiClients
                   /\ vc["server"] = "good" /\ vc[c] = "good"
                   /\ IF client[c].conn = k
                      THEN client[c].at \in {"ack", "echo"}
                      ELSE links[k].result = "ok"
    <3>1. ShownBySsi(k) /\ TrustsServer(k)
      BY <1>1 DEF VcInv
    <3>2. /\ links[k].owner \in SsiClients /\ vc[links[k].owner] = "good"
          /\ IF client[links[k].owner].conn = k
             THEN client[links[k].owner].at \in {"ack", "echo"}
             ELSE links[k].result = "ok"
      BY <2>1, <3>1 DEF ShownBySsi
    <3>3. Showed(k) \/ links[k].result = "ok"
      BY <3>2 DEF Showed
    <3> QED
      BY <3>1, <3>2, <3>3 DEF TrustsServer
  <2> QED
    BY <2>1 DEF MutualAuth
<1> QED
  BY <1>1, VcInvariant, PTL

\* A round that an SSI client counts is one the server took part in.
THEOREM CountedRoundsServed == Spec => []CountedWasServed
<1>1. ASSUME VcInv
      PROVE  CountedWasServed
  <2>1. backlog \in Seq(DOMAIN links)
    BY <1>1 DEF VcInv, Typed
  <2>2. DOMAIN backlog = 1 .. Len(backlog)
    BY <2>1
  <2> QED
    BY <1>1, <2>2 DEF VcInv, TrustsServer, SentWhenServed, CountedWasServed, Contains
<1> QED
  BY <1>1, VcInvariant, PTL

=============================================================================
