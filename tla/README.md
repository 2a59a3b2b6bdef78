# SSI-TLS on the ESP32: a verification project

The repository patches wolfSSL so that a TLS 1.3 handshake can carry a
self-issued Verifiable Credential (VC) instead of an X.509 certificate, and
measures it between ESP32 boards. This directory holds TLA+ models of that code,
the TLC configurations that check them, and TLAPS proofs about them. It was
written from the code under `src/`; every definition that stands for code is listed
with its lines in `PROJECT.json` (`map`).

Contents: [the system](#1-the-system), [what is hard about it](#2-what-is-hard-about-it),
[the modules](#3-the-modules), [the runs](#4-the-runs-and-what-they-show),
[what disagrees with the documents](#5-where-code-and-documents-disagree),
[fairness](#6-fairness), [proofs](#7-what-is-proved),
[limits](#8-what-is-only-model-checked-and-what-is-not-modelled), [plan](#9-plan).

## 1. The system

| Component | Source | State it keeps | Operations |
|---|---|---|---|
| TLS 1.3 state machines | `wolfssl/src/src/tls13.c`, `internal.c`, `wolfssl/internal.h` | per session: `connectState`/`acceptState`, `serverState`, `clientState`, `msgsReceived`, `buildingMsg`, `fragOffset`, the output buffer, `hsKey`, `peerAuthGood`, ... | `wolfSSL_connect_TLSv13`, `wolfSSL_accept_TLSv13`, `ProcessReply` and its message handlers, `SendBuffered`, `FreeKeyExchange` |
| Certificate type negotiation | `tls.c`, `ssl.c`, `wolfssl/ssl.h` | `rpkConfig` (preference lists), `rpkState` (received and selected types), `ssiNegotiated` | `TLSX_{Client,Server}CertificateType_{Use,Parse}`, `TLSX_DidMethods_*`, the type check of `ProcessPeerCertParse` |
| Session setup | `ssl.c`, `internal.c` | lists, `ssiVCMode`, certificate buffer and keys of a `WOLFSSL` and its `WOLFSSL_CTX`, and who owns them | `set_cert_type`, `wolfSSL_new` (`SetSSL_CTX`, `InitSSL_Suites`), `wolfSSL_SSI_use_VC_buffer`, `wolfSSL_SSI_use_Ed25519_key`, `wolfSSL_free` |
| Record layer | `tls13.c`, `internal.c` | output and input buffer with their indices, `fragOffset`, `prevSent`, `plainSz`, `processReply`, `pendingMsg`, `clearOutputBuffer`, `ssl->error` | `SendTls13Certificate`, `SendData`, `SendBuffered`, `wolfSSL_shutdown`; `GetInputData`, `DoProcessReplyEx`, `DoTls13HandShakeMsg`, `ReceiveData` |
| SSI identity | `ssi_identity.h` | key pair, `did:key` text, claims, VC | `SSI_Identity_Init`, `_Generate`, `_SetClaims`, `_CreateVC`, `VerifyVC`, base58 |
| Example sketches | `wolfssl/examples/ssi_tls_{client,server}` | `roundNum`, `hsTimes`/`benchCount`, one session and one socket | `doRound`, `printStats`, the two `loop()`s |
| Hybrid sketches | `Implementasi/Hybrid/*` | `g_ssi_client_detected`, one session and one socket on the server; `firstRun`, the benchmark, `reconnect` on the clients | the server's `loop()`, `do_ssi_tls_handshake`, `run_benchmark`, the X.509 client's `loop()` |
| SSI-TLS baseline sketches | `Implementasi/SSI-TLS Baseline/*` | as the hybrid ones without X.509 clients | the same |
| X.509 baseline sketches | `Implementasi/TLS X509 Baseline/*` | one session and one socket per board, no clock | the two `loop()`s |
| Upstream examples, `baseline_*` | `wolfssl/examples/*` | | vendored, or a benchmark sketch with another certificate |
| Serial logger | `LOG/serial_logger.py` | | copies a serial port to a file |
| wolfCrypt, the rest of wolfSSL | `wolfssl/src/**` | | vendored, unchanged |

How they interact. A sketch's `setup()` makes an identity and a context and puts the
preference lists on it. For every connection it makes a session, loads the VC and its
Ed25519 key, and calls `wolfSSL_connect` or `wolfSSL_accept`. The library calls back
into the sketch to send and receive bytes: the callbacks of the example sketches
never wait (`WANT_READ`, and the sketch's loop calls the library again until
`HS_TIMEOUT`), those of the hybrid sketches wait five seconds and then report a
timeout, and those of the X.509 client return 0. Two boards share nothing but a TCP
connection; the server serves one connection at a time and TCP keeps the others. The
library and the hybrid server share one global, `g_ssi_client_detected`. After the
handshake the hybrid boards exchange VCs inside TLS, the server says `SSI_OK` or
`SSI_REJECT`, and each side counts what it believes was a successful round.

What makes each part correct:

* *State machines*: every message is sent once and in order however writes block; a
  side that demanded a certificate succeeds only for a peer that sent and proved one;
  the client shows nothing before the server has proved itself; no side succeeds
  alone; the preloaded key survives until it has signed and not beyond the session;
  nobody waits for ever.
* *Negotiation*: both sides hold the types the server prefers among those the client
  listed, and keep them over a second hello.
* *Record layer*: it is a channel of bytes: the receiver gets what was handed over, in
  order and once, a handshake message as a whole, and the end of the data only when
  there is no more.
* *Setup*: what a call that fails leaves behind is neither a freed pointer, nor lost
  memory, nor a credential nobody signed; a session frees what it owns and no more.
* *X.509 baseline*: without a clock, neither board may wait for one that has gone.
* *Benchmark*: the two counters stay in step, the statistics are over the rounds they
  claim, and the client gets through.
* *Hybrid exchange*: "mutual authentication passed" means that both credentials were
  good and the client agrees; each client gets the protocol of its kind; the one server
  board always comes back.

## 2. What is hard about it

`PROJECT.json` lists the hazards with their lines and the properties that cover them.
The main ones:

* A blocked write in the middle of a case: the call returns `WANT_WRITE`, and the next
  call must finish that case and neither skip nor repeat a message. `buildingMsg` and
  `fragOffset` decide, and not every path sets and clears them.
* `FreeKeyExchange` runs at four points of a session; the patch that keeps the client's
  Ed25519 key tells them apart by `serverState` alone.
* `verify_cb` accepts everything, so the checks in the Finished handler are the only
  ones left.
* Each side has its own clock, its own copy of the negotiated types and its own count
  of rounds, and TCP holds connections their client has long given up.
* A read that times out poisons the session (`ssl->error`), and the hybrid code goes on
  using it.
* Partial reads and writes at every byte, records that split messages (another
  implementation's also inside a message's header) and messages that share records, and
  the counters that survive between two calls.
* Memory with two possible owners: a session's credential may be its own or its
  context's, and three functions decide on their own whether to free it.
* Results that are ignored: the sketches go on with whatever the loading calls of a
  round have left in the session.
* A global flag set by the library for one connection and read by the sketch.

## 3. The modules

```
SsiNegotiation ---------------------+             Link              Base58 -- Base58Proofs
   |        \                        |           /    \                |
TlsSession   TlsHandshake           |   VcExchange   BenchRounds  SsiIdentity
  (abstract)   |                    |     |     \         |            |
          TlsProperties             |     |  X509Baseline |            |
          -- refines TlsSession     +-----|---------------|---- SessionSetup
           |         |                    |               |            |
         MC_Tls   TlsProofs         VcProperties    BenchProperties  SetupProperties
                     |              BaselineProperties    |            |
           TlsAgreementProofs             |           BenchProofs  SetupProofs
                                    VcProofs                      (with Base58Proofs)
                                    BaselineProofs

RecordStream -- RecordWriter, RecordReader -- RecordLayer -- RecordProperties -- RecordProofs
                                                    -- refines ByteChannel (abstract)
```

**SsiNegotiation.** Pure operators. A preference list is a sequence of at most two
types, as `set_cert_type` stores it; `GetCommonItem`, `ServerType` and `ClientType` are
what the server selects, `ClientHelloExts` what the client sends, `Mismatch` and `Parses`
what a receiver makes of a Certificate. `<<"X509">>` is the list of an endpoint that set
none; `<<>>` is an extension that is not sent. `Materials` are the credentials a session
may start with, those half loaded among them; `SessionSetup` shows that there are no
others.

**TlsHandshake.** One handshake over one connection. A case of the connect or accept
switch, or a handshake message taken in by `ProcessReply`, is one action.

* `st` is `connectState`/`acceptState`; `ctl` says whether the side is inside
  the library, has returned `WANT_READ`/`WANT_WRITE` to its sketch, or is through.
* `ss`, `cs`, `ssl`, `seen` are the fields of `WOLFSSL` that steer the handshake.
* `sent[e]` is everything side `e` has built, `flushed[e]` how much of it has left the
  output buffer, `got[e]` how much of the peer's it has processed: TCP, the output
  buffer and the read position in three counters. A blocked write (`Stall`) leaves
  `sent` ahead of `flushed`; `ReenterToWrite` is the prologue of the next call.
* `TimePasses`, `GiveUp` and `Free` are the sketch's deadline, its leaving the loop, and
  `wolfSSL_free` with the `FreeKeyExchange` inside it.
* Keys, transcripts and record protection are left out, as both ends are honest:
  a signature is right if the key was there to make it.

**TlsSession.** What a handshake promises the application, without messages: the server
decides the types once, by its own preferences; the client learns that decision and no
other; the server succeeds only for a client that can no longer fail. `MostPreferred`
is stated with quantifiers, not with the loops of `GetCommonItem`. `TlsProperties!Session`
maps `TlsHandshake` to it: the decision is what the server's session holds once it has
processed the ClientHello, the view what the client's holds after EncryptedExtensions.

**RecordStream, RecordWriter, RecordReader, RecordLayer.** One direction of a TLS
connection, byte by byte. A byte on the wire is `<<record, number>>`: encryption is what
it promises, a record opens if all its bytes are there in order and none before it is
missing. `RecordWriter` has one action per call of the sender or resumption of it:
`SendHandshake`, `SendCertificate` (one fragment), `SendData` (one round of its loop),
`ResumeHandshake`, `ResumeWrite`, `ShutdownFlush`, `ShutdownNotify`. `SendBuffered` is the
set of results the socket allows. `RecordReader` has one action per case of the switch in
`DoProcessReplyEx` (`GetHeader`, `GetData`, the handlers) and one for the application's
`wolfSSL_read`; `GetInputData` is again a set of results, an allocation that fails among
them. The sender is this library or any other, which packs its messages into records and
splits them as RFC 8446 (5.1) lets it: behind any byte, those of a message's header
included (`CutPoints`), but never across a change of keys. Where a record ends inside such
a header, `GetHandshakeHeader` completes it with the padding if there is any, and the
message is refused (`HeaderError`). The sizes (header, fragment, static buffer, padding)
are constants with the relations between the real ones as assumptions (`RecordSizes`); one
of them is that the content type and tag behind a record are more than the static buffer
holds, so that the end of a message cannot shrink the buffer under the record it is in.
`SessionsAssumption` says what a
session is: a handshake of at least one message, writes of at least one byte
(`wolfSSL_write` of nothing builds no record), and Certificates that carry a certificate
(an empty one is one record, like any other message).

**ByteChannel.** What the record layer promises, without records: bytes handed over,
bytes got, and whether the end was announced. `RecordProperties!Channel` is the mapping.

**Base58, SsiIdentity.** The conversions of `ssi_identity.h` digit by digit, and what each
`SSI_Identity_*` call leaves of an `SSI_Identity`, whether it returns 0 or not. A key pair
is named by its public key; a signature is what was signed and by whom; `vcBuffer` is the
front last written, the signature and where it lies, and `vcLen`, which is how a call that
failed half way leaves the front of one credential before the signature of another.

**SessionSetup.** One board from `setup()` on: the identity, the `WOLFSSL_CTX`, a
`WOLFSSL` and the heap their certificates and keys are in. `place` is the position of a
sketch in its calls, or `"any"` for an application that makes them in any order and as
often as it likes. Every call that allocates or computes may fail. The handshake is only
what it does to the key (`AfterHandshake`). `wolfSSL_free` is two actions: `FreeSession`
frees what the session owns, and `Crash` is the same call where the session owns a key
that is not there (`KeyMissing`), which `wolfSSL_UnloadCertsKeys` dereferences; the
board is at `"crashed"` then and takes no further step. `ssl.rekeyed` is history: a key
was loaded over one the session owned.

**Link.** A connection as `WiFiClient` shows it: two FIFO queues and which end still
holds its socket. Nothing is lost, repeated or reordered except by `Cut`.

**BenchRounds.** The loops of `ssi_tls_client.ino` and `ssi_tls_server.ino` with their
counters, over as many connections as it takes. The handshake is cut down to the flights
CH, SF and CF, which is what `TlsSession` lets an application see. `Fails` is the end of
a read loop without the record it waits for: the peer has gone, something else came, or
the deadline passed. `Connect` appends to a backlog the server takes from in order, so a
connection whose client has given up is served later like any other.

**VcExchange.** The hybrid server, SSI clients and X.509 clients, again over `Link`. A
step is what a board does between two reads that may wait. `server.at` and
`client[c].at` name the read a board is in; `err` is the error a session keeps after a
read that failed. A credential is `good`, `unreadable` (`ssi_vc_deserialize` refuses it)
or `unverified` (`ssi_verify_vc` does). `links[k].outcome` and `.result` record what the
server and the client said of connection `k`. The SSI-TLS baseline sketches are the
instance without X.509 clients.

**X509Baseline.** The baseline server, whose reads have no clock, with clients that run
the X.509 client's loop of `VcExchange`.

Each module of properties comes with an MC module of instances. Definitions marked
`Mutant of ...` are plausible bugs of the definition they name; substituting one must
break the property it is paired with in `PROJECT.json`.

## 4. The runs and what they show

| Run | Instance | Shows |
|---|---|---|
| `records` | a Certificate in three fragments; a write of two records; three messages packed and split by another implementation, inside their headers too; reads of 2 and 4 bytes, fairness | the record layer is a byte channel, and what was closed arrives, unless a header was split |
| `tls_mixed` | 8 clients x 8 servers, the example sketches' setup, half loaded credentials and a list with a type twice among them, with and without a second hello, a blocked write per side, `HS_TIMEOUT` at any moment, fairness | all safety properties of the handshake, the refinement of `TlsSession`, and that no handshake leaves both sides waiting |
| `setup` | a sketch and an application, both sides, 2 key pairs, 4 texts around the bound, 2 lists besides the sketch's, a heap of 4 | memory, the credential, what `TlsHandshake` starts from, and that no program crashes that loads one key per session |
| `bench_rounds` | 4 rounds, room for 2 samples, backlog 3, 5 faults, fairness | the counters and statistics; the client finishes |
| `vc_hybrid` | 1 SSI and 1 X.509 client, 2 rounds each, backlog 2, 4 connections, 1 cut, every quality of credential, fairness | mutual authentication, counting, the kind of client; the server and the SSI client always come back |
| `baseline` | 2 X.509 clients, 3 rounds each, backlog 2, 7 connections, 1 cut, fairness | nobody waits for a board that has gone; all rounds run |
| six more | the smallest instance that shows it | the disagreements of section 5 |

The properties, by what it takes to violate them:

* `SigningKeyReady`, `KeyFreedAfterSuccess` relate the key to the whole history of calls
  to `FreeKeyExchange`.
* `FlightsInOrder` compares everything a side has ever built with the flight its
  configuration calls for, over all interruptions.
* `NoSuccessAlone`, `PeerAuthenticated`, `ClientWaitsForServer` relate one side's success
  or output to what the other has sent and what was checked.
* `SessionAgreed` and `IsChannel` are the refinements.
* `Terminates`: unless a clock ends it, a handshake is over for both; `ClientSucceeds`:
  one whose configurations fit together succeeds.
* `RecordsOpen` and `OneRecord` relate what the reader finds in its buffer to what the
  writer built, over every pattern of partial reads; `SentInOrder` the writer's indices to
  the messages, over every pattern of blocked writes; `Arrives` and `NotForever` say what
  becomes of a connection that was closed or broke. `RecordsOpen` and `Arrives` except a
  message another implementation split inside its header (`HeaderSplit`, a condition on
  the record that was built and not on what the reader did).
* `PointersLive`, `CtxStillOwns`, `OnlyKeptKeysLeak` relate every pointer to the heap
  over calls that fail and are repeated, and a NULL key that is followed to the repeated
  load it takes; `ShowsItsOwn`
  the credential in a session to the key beside it; `DidNamesKey` the text of a DID to
  the bytes it stands for; `VcFits` the longest credential to the buffer.
  `StartsAsModelled` is what makes the configurations of `TlsHandshake` all there are
  for a sketch.
* `ServerNeverAhead` and `StatsOfAllRounds` relate counters on two boards, or two counters
  on one, over rounds that fail on one side only.
* `MutualAuth` relates the server's verdict to both credentials and to the client's
  verdict, then and later; `CountedWasServed` a counted round to the backlog and the
  server's position; `KindServed` a flag to the connection it was set for.
* `NeverWaitsForTheGone` and `AllRoundsRun` relate the two loops of the baseline, which
  have no clock to save them.

Why the bounds are enough. A handshake has one flight per direction and one optional
retry, so it is finite without a bound; the only counter is `MaxStalls`. A stall is
either in the first write of a call or in a later one, and a second one in the same case
leads back to the same state, so one per side meets every pair of cases. Every
preference list, credential and verify mode occurs on some client and some server of
`tls_mixed`, and every two lists that `GetCommonItem` treats differently meet;
`NegotiatedIsPreferred` (section 7) closes the rest. In the sketch models the
interesting case needs a connection given up by its client, one being served and one
about to be opened: three connections, which the bounds on connections and faults allow;
a fourth and fifth let the same happen to the next round. With room for two of the three
samples of a benchmark `hsTimes` fills up. A record is cut in `records` at every byte,
and the sizes are such that the static buffer holds a header and no record, so that the
buffer grows and shrinks, and a Certificate needs a first, a middle and a last fragment;
further bytes or fragments repeat the middle one. A header of two bytes has one place to
be split at, with padding behind it in an encrypted record and with none in a plain one,
which are the two outcomes. A setup needs one generation of keys before the one in use,
and two sessions of one context one after the other; both recur without a bound. Its key
pairs are of two bytes, as texts of 32 are too slow for a run; `FullKeysFit` converts
three of that size, and `Base58Encodes` compares the conversions with the numbers they
stand for. A heap of four cells holds a certificate and two keys and is full with one
key lost. The texts lie on either side of `SSI_VC_CLAIMS_MAX`. What the bounds leave
open is closed by the proofs of section 7, for every safety property of `TlsHandshake`,
`BenchRounds`, `VcExchange`, `X509Baseline` and the record layer and `SessionSetup`.

`CHECK_DEADLOCK FALSE` is set everywhere because every program ends: a handshake is
over, a connection closed, the clients halt after their rounds, a `setup()` that failed
leaves nothing to do. That nothing stops too early is what the
liveness runs check.

## 5. Where code and documents disagree

Each is a run whose one property is what the document says, violated by what the code
does (`findings` in `PROJECT.json` quotes both).

* `tls_key_leak`: a client that fails before the server's Finished keeps its key for
  good; the comment promises to free it on the second call.
* `tls_no_common_type`: the parse function returns 0 after a fatal alert and the server
  goes on.
* `tls_plain_client`: an unpatched client is sent a VC.
* `vc_refused`: a round the server refused is counted by the client when the server
  closes without a word, or its `SSI_REJECT` is lost.
* `record_fragment`: a certificate that ends one byte before its fragment does makes a
  record of one byte more than a fragment may have; the comment of `AddCertExt` states
  the bound. With certificates of a few hundred bytes it needs a `max_fragment_length`
  or a chain near 16 KB.
* `setup_mixing`: `wolfSSL_SSI_use_VC_buffer` and `_use_Ed25519_key` free what a session
  holds without asking who owns it, and with it the certificate of a context that has an
  X.509 one; the comment says the context still owns it. No sketch does that.

Met on the way, modelled as the code has it, and without a run of their own:

* `wolfSSL_SSI_use_Ed25519_key` called a second time, with the second allocation failing,
  leaves `weOwnKey` set over a NULL key, and `wolfSSL_UnloadCertsKeys` (`ssl.c:12220`)
  overwrites the memory behind it before it frees it, although its comment
  (`ssl.c:12193`) has it unload what the session owns and succeed. `Crash` is that call,
  and `setup` takes it; the last conjunct of `PointersLive` says that nothing else leads
  there. `NeverCrashes` is false for such an application and proved for the sketches,
  which never load a key twice in a session.
* `DoTls13HandShakeMsg` tells `GetHandshakeHeader` where the input buffer ends, not where
  the record's plaintext does. A record that ends inside a message's header, which TLS
  allows, yields a header completed with padding, where the comment (`internal.c:11697`)
  has it return an error for want of input; `inputLength - HANDSHAKE_HEADER_SZ`
  (`tls13.c:13163`) wraps around, and a connection to a correct peer is refused. `records`
  has such a peer, and `RecordsOpen` says that nothing else is refused.
  `HeadersAreThere` is false for it and proved between boards of this repository, whose
  records never end there.
* The X.509 client's receive callback returns 0 where there is nothing to read
  (`client_x509_hybrid.ino:354`) and the library asks again for ever: after a peer that
  vanishes without a word the board never moves again.
* The baseline server never reads the client's message: `wolfSSL_pending` is 0 before the
  first read, and the reply is sent all the same. After a client that refuses the
  certificate it waits for a byte that never comes.
* `SSI_VC_ParseAndVerify` is called by nothing, although comments (`internal.c:15018`,
  `ssl.c:9084`) say the credential is verified with it: during the handshake only the
  public key is taken out of a VC. `ShowsItsOwn` says that it would have succeeded.
* The type check of `ProcessPeerCertParse` (`internal.c:15115`) tells raw public keys
  from the rest only: where VC was negotiated, an X.509 certificate is accepted.
* `ssiNegotiated`, the "SSI mode confirmed" of `internal.h:5122`, is set by the
  `did_methods` extension alone (`tls.c:16669`), also when X.509 was selected.
* The X.509 client's `error_check_ssl(ssl, ret, true, ...)` does not halt after a failed
  handshake, and the loop counts it (`client_x509_hybrid.ino:861`).
* `ssi_tls_server.ino:172` counts a round whose ACK it has not read.
* Comments and messages speak of 1000 benchmark rounds while `TOTAL_ROUNDS` is 151.

## 6. Fairness

* `RecordLayer!FairSpec`: weak fairness of the writer's and of the reader's steps. Both
  sides call again after `WANT_READ` and `WANT_WRITE`, which the loops of the sketches do;
  a call that moves no byte is no step, so this asks of the network that it goes on
  taking and delivering bytes until it is cut.
* `TlsHandshake!FairSpec`: weak fairness of each side's program. The sketches loop
  (`while(millis() < deadline)`) and run alone on their boards. Nothing is asked of the
  clocks: `Terminates` and `ClientSucceeds` must hold although `HS_TIMEOUT` may never
  come, and say nothing of a handshake a clock has ended. `Stall` is bounded by
  `MaxStalls`: a socket that never takes a byte ends in `HS_TIMEOUT`.
* `VcExchange!FairSpec`: weak fairness of the server's and of each client's steps. A read
  that may fail at any time is still one step of its board, so fairness says only that a
  callback's five seconds pass or data come. The X.509 client has no such step when it
  spins, which is why it may stay in a connection for ever and the others must not
  depend on it. Nothing is assumed of the network.
* `X509Baseline!BaselineSpec`: weak fairness of the boards, nothing of the network;
  `AllRoundsRun` has the absence of a break as its hypothesis, as the code has no answer
  to one.
* `BenchRounds!FairSpec`: the same for the two boards. Deadlines that pass and links that
  break are bounded by `MaxFaults`: with unbounded faults every round may fail, and no
  benchmark could end.

## 7. What is proved

`TlsProofs`, `TlsAgreementProofs`, `Base58Proofs`, `SetupProofs`, `BenchProofs`,
`VcProofs`, `BaselineProofs` and `RecordProofs` are checked by TLAPS to the last leaf, for
every value of the constants.

**The handshake** (`TlsProofs`), from `TlsHandshakeAssumption` alone (the configurations
are some of the possible ones, `MaxStalls` is a number):

* `TypeCorrect`: `Spec => []TypeOK`, which includes that no reader is ahead of what was
  flushed.
* `HandshakeInvariant`: `Spec => []HandshakeInv`. `SigningKeyReady` is not inductive:
  that the key is there when `CertificateVerify` is built depends on where
  `FreeKeyExchange` was called and on `serverState` at each call. `HandshakeInv` says
  for each side what follows from the position of its switch: `MessagePlaced` (a message
  under construction or in fragments belongs to the current case), `KeyHeld` (the key
  exists until the case that signs has been built), `KeyFreed`, and for the client
  `ServerProved` (how far `serverState` has come is how much the server has proved). It
  speaks of one side at a time, so that a step of one side leaves the other's part alone
  (`Frame`, `UntouchedInv`), and the proof has one step per action.
* `KeyReady`, `KeyFreedOnSuccess`, `ClientWaits` follow: the properties
  `SigningKeyReady`, `KeyFreedAfterSuccess` and the action property
  `ClientWaitsForServer`.
* `NegotiatedIsPreferred`: for every pair of lists, the type the server settles on is the
  one it prefers among those the client offered, and it alerts only if there is none.

**What relates the two sides** (`TlsAgreementProofs`), from the same assumption. Each
invariant contains the one before it, and all rest on `LogsGrow`: no step takes a message
back or reads one twice.

* `AuthenticatedOnSuccess` (`PeerAuthenticated`) from `HeardInv`: the flags of `WOLFSSL`
  about the peer stand for messages of the peer's that have been processed, in that order
  (`PeerHeard`), and a Finished that was processed found the flags it needs
  (`FinishedHeard`).
* `SuccessIsShared` (`NoSuccessAlone`) from `FinishedInv`: a Finished in the client's
  log is its last message, and it has been sent, or lies in the output buffer and the
  call that built it has not returned 0 (`ClientFinished`). A server that has processed
  it therefore has a client which can no longer fail (`PastFailing`).
* `SessionRefined` (`SessionAgreed`): `TlsHandshake` implements `TlsSession`. `AgreedInv`
  says that what the server's session holds after the ClientHello, what the
  EncryptedExtensions carry and what the client's session holds after them is one
  function of the two configurations (`Negotiated`); `DecisionAllowed` that this is what
  `MostPreferred` asks for; `SessionStep` maps every step to a step or a stutter.

**The flights** (`TlsAgreementProofs`): `FlightsAreInOrder` (`FlightsInOrder`) says that
the n-th message a side has built, alerts aside, is the n-th of the flight its
configuration calls for. Nothing in a log says which message comes next: the switch
does. `FlightInv` ties the two: the state of the switch tells how many messages are
behind it (`ClientBehind`, `ServerBehind`), one more has been built if the current case
is stuck in its write or between fragments (`Counted`), and a side that wants to write
stands at a case that builds (`Stuck`). How many messages a client's case builds depends
on what it has read, so the invariant also says that what it has read is a beginning of
the server's flight in which no request is overlooked (`HasRead`, `AnswersRequest`,
`FollowsRetry`).

**base58** (`Base58Proofs`), for input of any bytes:

* `EncodeFits`: 34 bytes are never refused for want of room. The working buffer of 64
  digits and a DID string of 64 characters hold every text, its NUL included, as the
  comment beside `temp` claims.
* `DecodeEncode`: `SSI_Base58_Decode` gives back what `SSI_Base58_Encode` was given,
  leading zeros included, whatever the input and the room, provided the text was not
  refused and what `Decode` needs is there (room for the bytes, and no more of them than
  `temp` holds).

The argument is about the number `temp` stands for. `StandsFor` says it without computing
powers of the base: there is a number left after each digit, `left[i - 1]` is
`base * left[i] + digits[i]`, nothing is left after the last, and the last digit is not 0.
A pass over `temp` multiplies that number and adds to it (`MultiplyAddStands`, from
`CarriesAre` and `SpilledStands`), so a conversion keeps it (`ConvertedStands`); a number
has one numeral in a base (`NumeralUnique`), so converting back gives the digits one began
with. Two digits of base 256 never need more than three of base 58 (`ShorterIn256`), which
bounds the text. Leading zeros are a count of their own (`Stripped`, `Unpadded`).

The recursive functions are unfolded with `LoopRuns` and induction over a set of numbers,
`NatSet`, which follows from the well-foundedness of `<` on `Nat`: it needs no operator as
a parameter, which the provers could not instantiate.

**The setup of a board** (`SetupProofs`), from `SsiIdentityAssumption` and
`SessionSetupAssumption` (key pairs are named by strings of 1 to 32 bytes, 32 being the
size of a key, texts have a length, an application passes lists of at most three entries),
for any key pairs, texts, lists and any size of the heap:

* `IdentityTyped`: `Spec => []IdentityInv`: what an identity holds was put together from
  keys that were generated and claims that were taken. `CredentialFits` follows, with no
  further hypothesis: `SSI_Identity_CreateVC` never writes past `vcBuffer`.
* `SetupInvariant`, under `~Mixing` (no VC is loaded into a session of a context that has
  an X.509 certificate; `setup_mixing` shows why): `Spec => []SetupInv`. `PointersLive`
  alone is not inductive, as a pointer says nothing of who will free it. `SetupInv` says
  that a session either owns all it has, and that is the identity's (`Owns`), or shares
  both certificate and key with its context and owns nothing (`Shares`); cells that
  nothing leads to are keys kept for a client. `SetupInvSession` reduces each call of a
  session to what it does to the cells it points to.
* `OnlyKeptKeysAreLost` and `CtxKeepsItsOwn` follow. `PointersStayLive` needs besides that
  a session owns a key that is missing only after a key was loaded over it (`LoadedOver`),
  and that a crash is the end.
* `SketchesNeverCrash`: with sketches alone, which load one key into a session,
  `Spec => []NeverCrashes`: whatever fails, no board crashes in `wolfSSL_free`. For an
  application it is false (section 5).
* `ShowsOnlyItsOwn` needs besides that what `vcBuffer` holds after a `CreateVC` that
  returned 0 is signed by the key in it (`SealedInv`), and that a sketch with a session is
  past that call (`SketchPlaces`); `StartsOnlyAsModelled` what a sketch has set and loaded
  from where it stands (`SketchInv`); `TypeCorrect` follows from all of them.
* `DidNamesItsKey` (`DidNamesKey`): whatever failed on the way, the DID in `vcBuffer`
  decodes to the key behind it. `DidInv` says that a DID is always the text of the key
  beside it, in the identity as in the front of `vcBuffer`, although a
  `SSI_Identity_Generate` that fails drops the pair behind both and a
  `SSI_Identity_CreateVC` that fails leaves the front of a new credential;
  `EncodeFits` and `DecodeEncode` do the rest (`DidTextIs`). They also show that
  `Generated` needs no branch for the two error returns behind `SSI_Base58_Encode`, as
  neither can be taken, and that DID strings hold the text of every key, on which
  `ShowsOnlyItsOwn` and `TypeCorrect` rest.

**The benchmark** (`BenchProofs`), from `BenchRoundsAssumption` (at least one round, the
bounds are numbers):

* `BenchInvariant`: `Spec => []BenchInv`. `ServerNeverAhead` compares two counters that
  no step changes together, so the invariant says what lies between them:
  `FinishedIsDone` (once a connection carries the client's Finished, its round is smaller
  than the client's and than that of every later connection), `Fifo` (connections are
  served in the order they were opened) and `ServerBehind` (no connection still to be
  served is for a round already counted). A connection the server counts carried a
  Finished, so all the later ones are for later rounds.
* `NeverAhead`, `StatsComplete` and `BenchTypeCorrect` follow.

The lemmas on `Link` (`TakenMoves`, `PutMoves`, ...) say that no operation invents a
Finished.

**The hybrid exchange** (`VcProofs`), from `VcExchangeAssumption`: the two kinds of
client are different boards, and there is at least one round and at least one attempt to
connect (`RECONNECT_ATTEMPTS` is 20; with 0 the client would halt before its first round).
For any number of boards, rounds, connections and cuts:

* `VcInvariant`: `Spec => []VcInv`. `MutualAuth` speaks of verdicts that two boards reach
  at different times, so the invariant says what is on its way between them: a credential
  the server can still read was shown by an SSI client that waits for the answer
  (`ShownBySsi`), a client shows its own only after it has verified the server's
  (`TrustsServer`), the server's is sent only on a connection that has left the backlog
  (`SentWhenServed`), a refusal is the last thing the server does with a connection
  (`RefusalIsLast`), and the flag that tells the kinds of client apart was set for the
  connection being served (`KindKnown`). No step of a board touches a connection but its
  own, so the proof goes by what a step does to that one (`ServerTurns`, `SsiTurns`,
  `X509LeavesTurns`, ...), and `OthersKept` carries the rest.
* `VcTyped`, `KindIsServed`, `AuthIsMutual`, `CountedRoundsServed` follow: `TypeOK`,
  `KindServed`, `MutualAuth`, `CountedWasServed`.

**The X.509 baseline** (`BaselineProofs`), from the same assumptions and
`BaselineAssumption` (no SSI clients: they would not understand this server).
`NobodyWaitsForTheGone` (`NeverWaitsForTheGone`) is about one moment, while what makes it
true is how the board got there: `BaselineInv` lists, for a link that does not break, the
places the two ends may be in together with what is on its way in either direction
(`Dialogue`), and no place in which one waits is paired with a peer that has left and
nothing under way. `BaselineTyped` follows.

**The record layer** (`RecordProofs`), from `RecordSizes` and `SessionsAssumption`, for
messages, certificates, writes and reads of any number and size. `RecordInvariant` is the
inductive invariant, in two parts.

* `WriterInv`: what has been handed over is a beginning of the session's script, and the
  sender's indices say which (`Hands`): `next` and `error` for a message, `fragOffset` for
  a Certificate, `sent`, `prevSent` and `plainSz` for a write, whether the last record is
  out or blocked. Joined, the records carry exactly that (`Recorded`); each carries one
  type, is encrypted if it comes after the first message and, if this repository's writer
  built it, does not end inside a header (`Fits`); nothing follows an alert (`AlertLast`).
* `ReaderInv`: what the receiver has not processed (the rest of its buffer, the network,
  the rest of the sender's buffer while the link is up) is the stream of all records
  from one place on (`Behind`), and that place follows from `processReply` and its
  indices: before a header (`Between`), behind it (`Fetches`) or inside the body
  (`Processes`). What the handlers have got, the message in `pending` and the data in
  `clearOutputBuffer` follow each other in the script (`Handlers`, `Pends`, `Clear`).
  With which error the receiver may have stopped is `Ends`: a message it could not parse
  stood in a record that ends inside its header (`SplitAt`, `HeaderAway`).

A sender's step only adds to the end of the stream (`WriterTurn`, `WriterFeeds`), so it
leaves the receiver's place alone (`WriterStepReader`); a receiver's step moves it, and
`ReaderMoves` is proved for each of the seven. The argument about messages and records
rests on what `FlattenSeq` returns: where a part begins (`Before`), what stands at a place
(`FlattenedAt`, `FlattenedFrom`), what appending does. These are inductions over the
number of parts, by `NatSet`, from the well-foundedness of `<`.

* `HandsInOrder`, `NothingBehindRecord` and `TypeCorrect` follow (`SentInOrder`,
  `OneRecord`, `TypeOK`).
* `RecordsThatFitOpen`: `Spec => [](FragmentsFit => RecordsOpen)`. The hypothesis is
  needed: for some lengths of a certificate `AddCertExt` builds a fragment that is
  longer than `MAX_RECORD_SIZE` (section 5), and a receiver refuses it. That, the alert
  in the clear and a header split by another implementation are the only ways in which a
  record or a message is ever refused.
* `BoardsReadHeaders`: if every sender is of this repository, `Spec => []HeadersAreThere`,
  for certificates and messages of any length, fragments that do not fit included. For
  other senders it is false (section 5).
* `RecordLayerIsChannel`: `Spec => IsChannel`, the refinement of `ByteChannel`. A sender's
  step is `HandOver` or a stutter (`WriterHandsOver`), a receiver's `Deliver`, `EndOfData`
  or a stutter (`ReaderDelivers`); that what is delivered ends with a whole message is
  `LeftWhole`, that an end is announced only behind the last byte handed over is
  `NothingElse`.

## 8. What is only model-checked, and what is not modelled

Only model-checked: all liveness, which is beyond TLAPS as is anything with `ENABLED`.
Every safety property of a run that passes is stated by a theorem of section 7.

Not modelled:

* wolfCrypt and the rest of wolfSSL, by far the largest part of the tree: vendored and
  unchanged, and what it computes is arithmetic on fixed widths rather than a protocol.
  Keys, ciphers, certificates and hashes are taken to do what TLS 1.3 asks of them.
* PSK, tickets, early data, DTLS, QUIC, ECH, key updates, renegotiation and post-handshake
  authentication, which the build leaves out or the sketches never reach.
* Of `ssi_identity.h`: the comparisons with NULL, which no caller passes, and
  `SSI_DIDMethods_*` and `SSI_VC_GetPeerPubKey`, which nothing calls. `did_methods` has no
  effect beyond the flag it sets.
* `setup()` of the hybrid and baseline sketches, and `wolfSSL_new` failing there, after
  which they stop for good; Wi-Fi association.
* A board that is reset in mid-benchmark: nothing is stored, so it is a new board that
  starts at round 0, and its peer goes on counting where it was. No property of the
  benchmark survives that, and none is claimed by the code.
* The wording and layout of what is printed, the upstream examples and the serial logger.

TCP is reliable within a connection, and a broken connection is noticed by
both ends: a half-open one differs only in that its reads fail by their deadline, which
the models let happen at any time anyway.

## 9. Plan

In this order:

1. *Done.* The negotiation and handshake, their abstract specification, and the first
   theorems.
2. *Done.* The benchmark and its theorems; the hybrid exchange.
3. *Done.* The record layer and its abstract channel; `SsiIdentity` with base58;
   `SessionSetup`, which gives `TlsHandshake` its configurations, with its theorems; the
   X.509 baseline.
4. *Done.* Proofs of what relates the two sides of a handshake, of the refinement of
   `TlsSession` and of the flights; of the hybrid exchange and of the X.509 baseline for
   any number of boards.
5. *Done.* Proofs about the record layer for any sizes: its invariant, `SentInOrder`,
   `OneRecord`, `RecordsOpen` and the refinement of `ByteChannel`.
6. *Done.* base58 for input of any bytes, and with it `DidNamesKey`.
