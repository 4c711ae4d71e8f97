---------------------------- MODULE TlsHandshake ----------------------------
(***************************************************************************)
(* The sans-I/O TLS client of lktls: HandshakeDriver, the state machines    *)
(* Tls13Handshake and Tls12Handshake it drives, and QuicHandshakeDriver,    *)
(* which drives the first of them without a record layer.                   *)
(*                                                                         *)
(* A handshake message is a record of its type, of the choices its sender   *)
(* makes in it (arg) and of whether the checks its receiver makes on its    *)
(* content succeed (ok).  A hash of messages is the sequence of the         *)
(* messages: transcript is what the client has hashed, wire what client and *)
(* server have exchanged, and a good Finished is one computed over wire.    *)
(* Messages travel in records, which may hold several of them and cut the   *)
(* last one.  The server may send any message at any time; only its keys    *)
(* follow the protocol.                                                     *)
(***************************************************************************)
EXTENDS Naturals, Sequences

CONSTANTS
    Configs,      \* the client configurations to start from
    MaxRecords,   \* how many records the server sends at most
    MaxInbox,     \* how many records may be fed and not yet read
    MaxExtras     \* how many messages it cuts, records it sends that mean
                  \* nothing, and records it sends after one it may not send

ConfigType ==
    [quic: BOOLEAN, ticket: {"none", "tls12", "tls13"}, max13: BOOLEAN,
     ech: BOOLEAN, alps: BOOLEAN]

ASSUME ConfigAssumption ==
    /\ Configs # {} /\ Configs \subseteq ConfigType
    /\ {MaxRecords, MaxInbox, MaxExtras} \subseteq Nat

Drivers == {"Start", "WaitServerHello", "Tls13Encrypted", "Tls12ServerFlight",
            "Tls12Abbreviated", "Tls12WaitServerFinished", "Complete", "Failed"}

States == {"Start", "WaitServerHello", "WaitEncryptedExtensions",
           "WaitCertificate", "WaitCertificateVerify", "WaitFinished",
           "WaitCertificateOrAbbreviated", "WaitServerKeyExchange",
           "WaitServerHelloDone", "WaitServerChangeCipherSpec",
           "WaitServerFinished", "Connected"}

\* The Booleans and options of the two handshakes that their steps set.
Facts == {"hrr", "ech_hrr", "ech", "psk", "alps", "cert_request", "verified",
          "kx", "rsa", "resumed", "abbreviated", "server_ccs", "finished",
          "stored"}

Epochs == {"plain", "handshake", "app"}

-----------------------------------------------------------------------------
(* Messages and records *)

Msg(t, a, good) == [type |-> t, arg |-> a, ok |-> good]
Plain(t) == Msg(t, {}, TRUE)
NoMsg == Plain("none")

\* What the server may choose in each message it can send.
ServerChoices ==
    [ServerHello13 |-> {"psk", "ech"}, HelloRetryRequest |-> {"ech"},
     ServerHello12 |-> {"rsa", "sentinel"}, EncryptedExtensions |-> {"alps"},
     CertificateRequest |-> {}, Certificate |-> {},
     CompressedCertificate |-> {}, CertificateVerify |-> {},
     ServerKeyExchange |-> {}, CertificateStatus |-> {},
     ServerHelloDone |-> {}, NewSessionTicket |-> {}, Finished |-> {}]

ServerMsgs ==
    UNION {{Msg(t, a, TRUE) : a \in SUBSET ServerChoices[t]}
              \cup {Msg(t, {}, FALSE)} : t \in DOMAIN ServerChoices}

Hellos == {"ServerHello13", "HelloRetryRequest", "ServerHello12"}

\* The messages real servers put in one record.
Coalesced ==
    {<<"ServerHello13", "EncryptedExtensions">>,
     <<"EncryptedExtensions", "Certificate">>,
     <<"EncryptedExtensions", "Finished">>,
     <<"Certificate", "CertificateVerify">>, <<"CertificateVerify", "Finished">>,
     <<"Finished", "NewSessionTicket">>, <<"ServerHello12", "Certificate">>,
     <<"Certificate", "ServerKeyExchange">>,
     <<"CertificateRequest", "ServerHelloDone">>,
     <<"ServerKeyExchange", "ServerHelloDone">>}

Payloads ==
    {<<m>> : m \in ServerMsgs}
      \cup {p \in {m \in ServerMsgs : m.ok} \X {m \in ServerMsgs : m.ok} :
              <<p[1].type, p[2].type>> \in Coalesced}

Latest(s) == s[Len(s)]
AllButLast(s) == SubSeq(s, 1, Len(s) - 1)

Rec(kind, msgs, cut, keys) ==
    [kind |-> kind, msgs |-> msgs, cut |-> cut, keys |-> keys]

VARIABLES
    conf,        \* the configuration
    drv,         \* state of the driver
    st,          \* state of the handshake it drives
    facts,       \* what is set in that handshake
    transcript,  \* what the client hashes
    fin,         \* the client Finished: [keys, over], what it was sent under
                 \* and what it covers
    wire,        \* what has been exchanged, in the order the client sees it
    rkeys,       \* keys of the record reader
    wkeys,       \* keys of the record writer
    inbox,       \* records fed and not read
    pending,     \* complete messages of hs_buffer, not processed yet
    partial,     \* the message of which hs_buffer ends with a part
    srv          \* the server: its version and keys, how many records it
                 \* sent, the message it cut, what it did outside the RFCs

vars == <<conf, drv, st, facts, transcript, fin, wire, rkeys, wkeys, inbox,
          pending, partial, srv>>

NoFin == [keys |-> "none", over |-> <<>>]

Init ==
    /\ conf \in Configs
    /\ drv = "Start" /\ st = "Start" /\ facts = {}
    /\ transcript = <<>> /\ fin = NoFin /\ wire = <<>>
    /\ rkeys = "plain" /\ wkeys = "plain"
    /\ inbox = <<>> /\ pending = <<>> /\ partial = NoMsg
    /\ srv = [version |-> "none", keys |-> "plain", sent |-> 0, cut |-> NoMsg,
              odd |-> FALSE, extras |-> 0]

-----------------------------------------------------------------------------
(* What a server may send *)

Has(w, t) == \E i \in DOMAIN w : w[i].type = t

\* The messages of the server, as its peer has to take them.
FromServer(w) ==
    SelectSeq(w, LAMBDA m : /\ m.type \in DOMAIN ServerChoices \cup
                                             {"CCS", "Alert", "AppData"}
                            /\ m.type = "CCS" => ~Has(w, "ServerHello13"))

Optional(t) == {<<>>, <<t>>}

\* The flights of RFC 8446 and of RFC 5246 with RFC 5077 and 6066, for a
\* client without a certificate of its own.
Flights13(psk) ==
    IF psk THEN {<<"EncryptedExtensions", "Finished">>}
    ELSE {<<"EncryptedExtensions">> \o r \o <<c, "CertificateVerify", "Finished">> :
            r \in Optional("CertificateRequest"),
            c \in {"Certificate", "CompressedCertificate"}}

Flights12(rsa) ==
    {<<"Certificate">> \o s \o (IF rsa THEN <<>> ELSE <<"ServerKeyExchange">>)
       \o r \o <<"ServerHelloDone">> \o n \o <<"CCS", "Finished">> :
         s \in Optional("CertificateStatus"), r \in Optional("CertificateRequest"),
         n \in Optional("NewSessionTicket")}
      \cup (IF conf.ticket # "tls12" THEN {}
            ELSE {n \o <<"CCS", "Finished">> : n \in Optional("NewSessionTicket")})

LegalFlights(hello) ==
    IF hello.type = "ServerHello13" THEN Flights13("psk" \in hello.arg)
    ELSE Flights12("rsa" \in hello.arg)

Types(s) == [i \in DOMAIN s |-> s[i].type]

StartsWith(t, s) == Len(s) <= Len(t) /\ SubSeq(t, 1, Len(s)) = s

LegalHello(m, retry) ==
    \/ /\ m.type = "ServerHello13"
       /\ "psk" \in m.arg => conf.ticket = "tls13"
       /\ "ech" \in m.arg => conf.ech
       /\ retry # <<>> => ("ech" \in m.arg <=> "ech" \in retry[1].arg)
    \/ /\ m.type = "ServerHello12" /\ retry = <<>> /\ ~conf.quic
       /\ "sentinel" \in m.arg => ~conf.max13

\* s is the beginning of what a server may send.
LegalSoFar(s) ==
    LET r == IF s # <<>> /\ s[1].type = "HelloRetryRequest" THEN 1 ELSE 0
        rest == SubSeq(s, r + 1, Len(s))
    IN  /\ \A i \in DOMAIN s : s[i].ok
        /\ r = 1 => ("ech" \in s[1].arg => conf.ech)
        /\ rest # <<>> =>
             /\ LegalHello(rest[1], SubSeq(s, 1, r))
             /\ \E t \in LegalFlights(rest[1]) :
                  StartsWith(t, Types(Tail(rest)))

-----------------------------------------------------------------------------
(* The server *)

\* The messages p with the one that begins behind them.
Shown(p, cut) == p \o (IF cut = NoMsg THEN <<>> ELSE <<cut>>)

\* What the record shows, the beginning of a message included.
Seen(rec) ==
    CASE rec.kind = "hs" -> Shown(rec.msgs, rec.cut)
      [] rec.kind = "ccs" -> <<Plain("CCS")>>
      [] rec.kind = "alert" -> <<Plain("Alert")>>
      [] rec.kind = "app" -> <<Plain("AppData")>>

\* The server has sent what no server may send.
Strayed ==
    LET known == wire \o (IF inbox = <<>> THEN <<>> ELSE Seen(Head(inbox)))
    IN  ~LegalSoFar(FromServer(known))

\* Records the client refuses whatever they hold: one that goes on after a
\* change of keys, which no server may send, and those the RFCs allow and
\* nobody sends, a hello or a Finished of TLS 1.2 cut by the end of a record.
Odd(p, cut) ==
    \/ /\ Len(Shown(p, cut)) = 2
       /\ Shown(p, cut)[1].type \in {"ServerHello13", "Finished"}
    \/ cut.type \in Hellos /\ ~conf.quic
    \/ cut.type = "Finished" /\ srv.version = "tls12"

ServerVersion(p) ==
    IF srv.version # "none" THEN srv.version
    ELSE IF p # <<>> /\ p[1].type = "ServerHello13" THEN "tls13"
    ELSE IF p # <<>> /\ p[1].type = "ServerHello12" THEN "tls12"
    ELSE srv.version

ServerKeys(p) ==
    IF ServerVersion(p) # "tls13" \/ p = <<>> THEN srv.keys
    ELSE IF Latest(p).type = "Finished" THEN "app" ELSE "handshake"

\* The driver takes one record at a time whatever waits behind it, except
\* after a ChangeCipherSpec: only there does the model let one wait.
ServerActs(extra) ==
    /\ drv \notin {"Start", "Complete", "Failed"} /\ pending = <<>>
    /\ srv.sent < MaxRecords /\ Len(inbox) < MaxInbox
    /\ inbox # <<>> => Latest(inbox).kind = "ccs"
    /\ srv.extras + extra <= MaxExtras

Sends(rec, version, keys, cut, odd, extra) ==
    /\ inbox' = Append(inbox, rec)
    /\ srv' = [version |-> version, keys |-> keys, sent |-> srv.sent + 1,
               cut |-> cut, odd |-> srv.odd \/ odd, extras |-> srv.extras + extra]
    /\ UNCHANGED <<conf, drv, st, facts, transcript, fin, wire, rkeys, wkeys,
                   pending, partial>>

\* Whole messages; when one was cut, the rest of it first.
ServerSends ==
    LET extra == IF Strayed THEN 1 ELSE 0
    IN  /\ ServerActs(extra)
        /\ \E p \in {q \in Payloads : srv.cut \in {NoMsg, q[1]}} :
             Sends(Rec("hs", p, NoMsg, srv.keys), ServerVersion(p),
                   ServerKeys(p), NoMsg, Odd(p, NoMsg), extra)

\* The first part of a message, alone or behind a whole one.
ServerCuts ==
    /\ ServerActs(1) /\ srv.cut = NoMsg /\ ~Strayed
    /\ \E p \in Payloads :
         LET whole == AllButLast(p)
             cut == Latest(p)
         IN  /\ cut.ok
             /\ Sends(Rec("hs", whole, cut, srv.keys), ServerVersion(whole),
                      ServerKeys(whole), cut, Odd(whole, cut), 1)

\* In TLS 1.3 a ChangeCipherSpec means nothing.
ServerSendsOther ==
    LET extra == IF srv.version = "tls12" /\ ~Strayed THEN 0 ELSE 1
    IN  /\ ~conf.quic /\ srv.cut = NoMsg /\ ServerActs(extra)
        /\ \E kind \in {"ccs", "alert", "app"} :
             Sends(Rec(kind, <<>>, NoMsg, srv.keys), srv.version,
                   IF kind = "ccs" /\ srv.version = "tls12" THEN "app"
                   ELSE srv.keys, NoMsg, FALSE, extra)

-----------------------------------------------------------------------------
(* What the two sides hash.  After a HelloRetryRequest the first ClientHello *)
(* is replaced by its hash, and when the server accepts ECH the inner hellos *)
(* stand for the outer ones.                                                *)

ServerAccepts(w) ==
    /\ conf.ech /\ ~Has(w, "ServerHello12")
    /\ \E i \in DOMAIN w : w[i].type = "ServerHello13" /\ "ech" \in w[i].arg

Hashed(w, m) ==
    LET inner == ServerAccepts(w)
    IN  CASE m.type = "ClientHello" /\ Has(w, "ClientHello2") ->
               Plain(IF inner THEN "InnerHash" ELSE "MessageHash")
          [] m.type = "ClientHello" /\ ~Has(w, "ClientHello2") /\ inner ->
               Plain("InnerHello")
          [] m.type = "ClientHello2" /\ inner -> Plain("InnerHello2")
          [] OTHER -> m

\* The handshake messages among those exchanged, in their order.
HandshakePart(w) ==
    LET part[i \in 0 .. Len(w)] ==
          IF i = 0 THEN <<>>
          ELSE IF w[i].type \in {"CCS", "Alert", "AppData"} THEN part[i - 1]
          ELSE Append(part[i - 1], w[i])
    IN  part[Len(w)]

\* The transcript of a server that follows the RFCs.
Reference(w) ==
    LET hs == HandshakePart(w)
    IN  [i \in DOMAIN hs |-> Hashed(w, hs[i])]

-----------------------------------------------------------------------------
(* Starting and failing *)

\* build_client_hello, and build_client_hello_retry after a retry request.
FirstHello == Plain("ClientHello")
SecondHello == Plain("ClientHello2")

\* HandshakeDriver::start and QuicHandshakeDriver::start: the ticket taken
\* from the store is conf.ticket when the profile lets it be used.
Start ==
    /\ drv = "Start"
    /\ drv' = "WaitServerHello" /\ st' = "WaitServerHello"
    /\ wire' = <<FirstHello>>
    /\ UNCHANGED <<conf, facts, transcript, fin, rkeys, wkeys, inbox, pending,
                   partial, srv>>

\* An error: mem::replace has left the driver in Complete, nothing more is
\* read, and the connection is dropped.
Fails(seen) ==
    /\ drv' = "Failed" /\ wire' = wire \o seen
    /\ inbox' = <<>> /\ pending' = <<>> /\ partial' = NoMsg
    /\ UNCHANGED <<conf, st, facts, transcript, fin, rkeys, wkeys, srv>>

Readable(rec) ==
    rec.keys = rkeys \/ (rec.keys = "plain" /\ rkeys = "handshake")

-----------------------------------------------------------------------------
(* ServerHello *)

\* Tls13Handshake::process_hello_retry_request accepts the message m.
TakesUnofferedEch(m) ==
    m.ok /\ "hrr" \notin facts
RetryOk(m) ==
    /\ m.ok /\ "hrr" \notin facts
    /\ "ech" \in m.arg => conf.ech

HelloRetry(m) ==
    /\ facts' = facts \cup {"hrr"} \cup {f \in {"ech_hrr"} : "ech" \in m.arg}
    /\ transcript' = <<Plain("MessageHash"), m, SecondHello>>
    /\ wire' = wire \o <<m, SecondHello>>
    /\ UNCHANGED <<conf, drv, st, fin, rkeys, wkeys, srv>>

\* Tls13Handshake::process_server_hello accepts the ServerHello m.
EchAccepted(m) == conf.ech /\ "ech" \in m.arg

HelloOk(m) ==
    /\ m.ok
    /\ "psk" \in m.arg => conf.ticket = "tls13"
    /\ conf.ech /\ "hrr" \in facts => (EchAccepted(m) <=> "ech_hrr" \in facts)

Outer(m) ==
    IF "hrr" \in facts THEN Append(transcript, m)
    ELSE <<FirstHello, m>>

Inner(m) ==
    IF "hrr" \in facts
    THEN <<Plain("InnerHash"), transcript[2], Plain("InnerHello2"), m>>
    ELSE <<Plain("InnerHello"), m>>

Hello13(m) ==
    /\ drv' = "Tls13Encrypted" /\ st' = "WaitEncryptedExtensions"
    /\ facts' = facts \cup (m.arg \cap {"psk"})
                      \cup {f \in {"ech"} : EchAccepted(m)}
    /\ transcript' = IF EchAccepted(m) THEN Inner(m) ELSE Outer(m)
    /\ wire' = Append(wire, m)
    /\ rkeys' = "handshake" /\ wkeys' = "handshake"
    /\ UNCHANGED <<conf, fin, srv>>

\* HandshakeDriver::begin_tls12: what the record holds is left to
\* Tls12ServerFlight, which treats it as it treats later records.
Begin12(rec) ==
    /\ drv' = "Tls12ServerFlight" /\ st' = "WaitServerHello"
    /\ facts' = facts \cup {f \in {"resumed"} : conf.ticket = "tls12"}
    /\ transcript' = <<IF "hrr" \in facts THEN SecondHello ELSE FirstHello>>
    /\ pending' = rec.msgs /\ partial' = rec.cut
    /\ UNCHANGED <<conf, fin, wire, rkeys, wkeys, srv>>

Downgraded(m) == conf.max13 /\ "sentinel" \in m.arg

\* DriverState::WaitServerHello with a handshake record.
ReadHello ==
    /\ drv = "WaitServerHello" /\ ~conf.quic /\ inbox # <<>>
    /\ LET rec == Head(inbox)
           m   == IF rec.msgs = <<>> THEN rec.cut ELSE rec.msgs[1]
           whole == Len(rec.msgs) = 1 /\ rec.cut = NoMsg
       IN  /\ rec.kind = "hs"
           /\ \/ /\ m.type = "HelloRetryRequest" /\ whole /\ RetryOk(m)
                 /\ HelloRetry(m) /\ UNCHANGED <<pending, partial>>
                 /\ inbox' = Tail(inbox)
              \/ /\ m.type = "ServerHello13" /\ whole /\ HelloOk(m)
                 /\ Hello13(m) /\ UNCHANGED <<pending, partial>>
                 /\ inbox' = Tail(inbox)
              \/ /\ m.type = "ServerHello12" /\ ~Downgraded(m)
                 /\ Begin12(rec) /\ inbox' = Tail(inbox)
              \* too little of the hello to tell the version, or none
              \/ /\ ~(m.type = "HelloRetryRequest" /\ whole /\ RetryOk(m))
                 /\ ~(m.type = "ServerHello13" /\ whole /\ HelloOk(m))
                 /\ m.type = "ServerHello12" =>
                      Downgraded(m) \/ rec.msgs = <<>>
                 /\ Fails(Seen(rec))

\* QuicDriverState::WaitServerHello: one message of the CRYPTO stream.
QuicHello ==
    /\ drv = "WaitServerHello" /\ conf.quic /\ pending # <<>>
    /\ LET m == Head(pending)
       IN  \/ /\ m.type = "HelloRetryRequest" /\ RetryOk(m) /\ HelloRetry(m)
              /\ pending' = Tail(pending) /\ UNCHANGED <<inbox, partial>>
           \/ /\ m.type = "ServerHello13" /\ HelloOk(m) /\ Hello13(m)
              /\ pending' = Tail(pending) /\ UNCHANGED <<inbox, partial>>
           \/ /\ ~(m.type = "HelloRetryRequest" /\ RetryOk(m))
              /\ ~(m.type = "ServerHello13" /\ HelloOk(m))
              /\ Fails(<<m>>)

-----------------------------------------------------------------------------
(* Reading records *)

\* feed() of the QUIC driver: the CRYPTO stream has no records.
QuicFeed ==
    /\ conf.quic /\ drv \in {"WaitServerHello", "Tls13Encrypted"}
    /\ inbox # <<>>
    /\ pending' = pending \o Head(inbox).msgs
    /\ partial' = Head(inbox).cut
    /\ inbox' = Tail(inbox)
    /\ UNCHANGED <<conf, drv, st, facts, transcript, fin, wire, rkeys, wkeys,
                   srv>>

Reassembling == {"Tls13Encrypted", "Tls12ServerFlight"}

\* take_complete_handshake_messages: the complete messages of the buffer are
\* processed, the part of one at its end waits for the next record.
DropsTrailer ==
    /\ ~conf.quic /\ drv \in Reassembling /\ pending = <<>> /\ inbox # <<>>
    /\ Head(inbox).kind = "hs"
    /\ IF Readable(Head(inbox)) /\ Head(inbox).cut = NoMsg
       THEN /\ pending' = Head(inbox).msgs /\ partial' = NoMsg
            /\ inbox' = Tail(inbox)
            /\ UNCHANGED <<conf, drv, st, facts, transcript, fin, wire, rkeys,
                           wkeys, srv>>
       ELSE Fails(Seen(Head(inbox)))
ReadFlight ==
    /\ ~conf.quic /\ drv \in Reassembling /\ pending = <<>> /\ inbox # <<>>
    /\ Head(inbox).kind = "hs"
    /\ IF Readable(Head(inbox))
       THEN /\ pending' = Head(inbox).msgs /\ partial' = Head(inbox).cut
            /\ inbox' = Tail(inbox)
            /\ UNCHANGED <<conf, drv, st, facts, transcript, fin, wire, rkeys,
                           wkeys, srv>>
       ELSE Fails(Seen(Head(inbox)))

\* Records that are not handshake records, outside Tls12WaitServerFinished:
\* ChangeCipherSpec is skipped, the others end the handshake.
ReadOther ==
    /\ ~conf.quic /\ drv \in {"WaitServerHello"} \cup Reassembling
    /\ pending = <<>> /\ inbox # <<>>
    /\ LET rec == Head(inbox)
       IN  /\ rec.kind # "hs"
           /\ ~(rec.kind = "ccs" /\ st = "WaitCertificateOrAbbreviated")
           /\ IF rec.kind = "ccs" /\ Readable(rec)
              THEN /\ inbox' = Tail(inbox)
                   /\ wire' = Append(wire, Plain("CCS"))
                   /\ UNCHANGED <<conf, drv, st, facts, transcript, fin, rkeys,
                                  wkeys, pending, partial, srv>>
              ELSE Fails(Seen(rec))

-----------------------------------------------------------------------------
(* Tls13Encrypted *)

\* The next complete message is m and is neither an error nor the last.
Next13(m, from, to, new) ==
    /\ drv = "Tls13Encrypted" /\ pending # <<>> /\ m = Head(pending)
    /\ st = from /\ st' = to
    /\ facts' = facts \cup new
    /\ transcript' = Append(transcript, m) /\ wire' = Append(wire, m)
    /\ pending' = Tail(pending)
    /\ UNCHANGED <<conf, drv, fin, rkeys, wkeys, inbox, partial, srv>>

ProcessEncryptedExtensions ==
    \E m \in ServerMsgs :
       /\ m.type = "EncryptedExtensions" /\ m.ok
       /\ Next13(m, "WaitEncryptedExtensions",
                 IF "psk" \in facts THEN "WaitFinished" ELSE "WaitCertificate",
                 m.arg)

ProcessCertificateRequest ==
    \E m \in ServerMsgs :
       /\ m.type = "CertificateRequest" /\ m.ok
       /\ Next13(m, "WaitCertificate", "WaitCertificate", {"cert_request"})

ProcessCertificate ==
    \E m \in ServerMsgs :
       /\ m.type \in {"Certificate", "CompressedCertificate"} /\ m.ok
       /\ Next13(m, "WaitCertificate", "WaitCertificateVerify", {})

ProcessCertificateVerify ==
    \E m \in ServerMsgs :
       /\ m.type = "CertificateVerify" /\ m.ok
       /\ Next13(m, "WaitCertificateVerify", "WaitFinished", {"verified"})

\* What the client sends after the server's Finished, as process_finished
\* hashes it, and as finish_tls13 and finish_quic_tls13 send it.
ClientExtensions ==
    IF conf.alps /\ "alps" \in facts
    THEN <<Plain("ClientEncryptedExtensions")>> ELSE <<>>

ClientCertificate ==
    IF "cert_request" \in facts THEN <<Plain("ClientCertificate")>> ELSE <<>>

GoodFinished(m) == m.type = "Finished" /\ m.ok /\ transcript = Reference(wire)

\* The server's Finished is the last of the complete messages.
Ends13(from, keys) ==
    /\ drv = "Tls13Encrypted" /\ st \in from /\ Len(pending) = 1
    /\ LET m == Head(pending)
           hashed == Append(transcript, m) \o ClientExtensions \o ClientCertificate
       IN  /\ GoodFinished(m)
           /\ fin' = [keys |-> keys, over |-> hashed]
           /\ transcript' = Append(hashed, Plain("ClientFinished"))
           /\ wire' = Append(wire, m) \o ClientExtensions
                        \o (IF conf.quic THEN <<>> ELSE ClientCertificate)
                        \o <<Plain("ClientFinished")>>
    /\ drv' = "Complete" /\ st' = "Connected"
    /\ facts' = facts \cup {"finished"}
    /\ rkeys' = "app" /\ wkeys' = "app"
    /\ pending' = <<>> /\ partial' = NoMsg
    /\ UNCHANGED <<conf, inbox, srv>>

KeysBeforeFinished == Ends13({"WaitFinished"}, "app")
SkipsSignature == Ends13({"WaitCertificateVerify", "WaitFinished"}, wkeys)
Finish13 == Ends13({"WaitFinished"}, wkeys)

\* Tls13Handshake::process_single_message has a handler for the message.
Expected13(m) ==
    /\ m.ok
    /\ \/ st = "WaitEncryptedExtensions" /\ m.type = "EncryptedExtensions"
       \/ /\ st = "WaitCertificate"
          /\ m.type \in {"CertificateRequest", "Certificate",
                         "CompressedCertificate"}
       \/ st = "WaitCertificateVerify" /\ m.type = "CertificateVerify"
       \/ st = "WaitFinished" /\ GoodFinished(m) /\ Len(pending) = 1

Reject13 ==
    /\ drv = "Tls13Encrypted" /\ pending # <<>>
    /\ ~Expected13(Head(pending))
    /\ Fails(<<Head(pending)>>)

-----------------------------------------------------------------------------
(* Tls12ServerFlight *)

Next12(m, to, new) ==
    /\ drv = "Tls12ServerFlight" /\ pending # <<>> /\ m = Head(pending) /\ m.ok
    /\ st' = to /\ facts' = new
    /\ transcript' = Append(transcript, m) /\ wire' = Append(wire, m)
    /\ pending' = Tail(pending)
    /\ UNCHANGED <<conf, drv, fin, rkeys, wkeys, inbox, partial, srv>>

ProcessServerHello12 ==
    \E m \in ServerMsgs :
       /\ st = "WaitServerHello" /\ m.type = "ServerHello12"
       /\ Next12(m, IF "resumed" \in facts THEN "WaitCertificateOrAbbreviated"
                                           ELSE "WaitCertificate",
                 facts \cup (m.arg \cap {"rsa"}))

AbbreviatedTicket ==
    \E m \in ServerMsgs :
       /\ st = "WaitCertificateOrAbbreviated" /\ m.type = "NewSessionTicket"
       /\ Next12(m, st, facts)

ProcessCertificate12 ==
    \E m \in ServerMsgs :
       /\ st \in {"WaitCertificate", "WaitCertificateOrAbbreviated"}
       /\ m.type = "Certificate"
       /\ Next12(m, IF "rsa" \in facts THEN "WaitServerHelloDone"
                                       ELSE "WaitServerKeyExchange",
                 (facts \ {"resumed"}) \cup {f \in {"verified"} : "rsa" \in facts})

ProcessServerKeyExchange ==
    \E m \in ServerMsgs :
       /\ st = "WaitServerKeyExchange" /\ m.type = "ServerKeyExchange"
       /\ Next12(m, "WaitServerHelloDone", facts \cup {"kx", "verified"})

ProcessCertificateStatus ==
    \E m \in ServerMsgs :
       /\ st = "WaitServerKeyExchange" /\ m.type = "CertificateStatus"
       /\ Next12(m, st, facts)

ProcessCertificateRequest12 ==
    \E m \in ServerMsgs :
       /\ st = "WaitServerHelloDone" /\ m.type = "CertificateRequest"
       /\ Next12(m, st, facts \cup {"cert_request"})

\* process_server_hello_done and finish_tls12_full; what follows the message
\* in the same record is forgotten.
ProcessServerHelloDone ==
    /\ drv = "Tls12ServerFlight" /\ pending # <<>>
    /\ LET m == Head(pending)
           flight == ClientCertificate \o <<Plain("ClientKeyExchange")>>
           hashed == Append(transcript, m) \o flight
       IN  /\ st \in {"WaitServerKeyExchange", "WaitServerHelloDone"}
           /\ m.type = "ServerHelloDone" /\ m.ok /\ facts \cap {"rsa", "kx"} # {}
           /\ fin' = [keys |-> "app", over |-> hashed]
           /\ transcript' = Append(hashed, Plain("ClientFinished"))
           /\ wire' = Append(wire, m) \o flight \o <<Plain("ClientFinished")>>
    /\ drv' = "Tls12WaitServerFinished" /\ st' = "WaitServerChangeCipherSpec"
    /\ wkeys' = "app" /\ pending' = <<>> /\ partial' = NoMsg
    /\ UNCHANGED <<conf, facts, rkeys, inbox, srv>>

Expected12(m) ==
    /\ m.ok
    /\ \/ st = "WaitServerHello" /\ m.type = "ServerHello12"
       \/ /\ st = "WaitCertificateOrAbbreviated"
          /\ m.type \in {"Certificate", "NewSessionTicket"}
       \/ st = "WaitCertificate" /\ m.type = "Certificate"
       \/ /\ st = "WaitServerKeyExchange"
          /\ m.type \in {"ServerKeyExchange", "CertificateStatus"}
       \/ st = "WaitServerHelloDone" /\ m.type = "CertificateRequest"
       \/ /\ st \in {"WaitServerKeyExchange", "WaitServerHelloDone"}
          /\ m.type = "ServerHelloDone" /\ facts \cap {"rsa", "kx"} # {}

Reject12 ==
    /\ drv = "Tls12ServerFlight" /\ pending # <<>>
    /\ ~Expected12(Head(pending))
    /\ Fails(<<Head(pending)>>)

-----------------------------------------------------------------------------
(* The end of a TLS 1.2 handshake *)

AfterCcs(recs) ==
    LET hs == {i \in DOMAIN recs : recs[i].kind # "ccs"}
    IN  IF hs = {} THEN <<>>
        ELSE SubSeq(recs, CHOOSE i \in hs : \A j \in hs : i <= j, Len(recs))

\* accept_abbreviated_ccs: the keys come from the secret of the ticket.
AcceptsTicket ==
    /\ st = "WaitCertificateOrAbbreviated" /\ "resumed" \in facts
    /\ st' = "WaitServerFinished"
    /\ facts' = (facts \ {"resumed"}) \cup {"abbreviated", "server_ccs"}

\* handle_tls12_abbreviated_ccs: the server's ChangeCipherSpec accepts the
\* ticket.  Its Finished is taken at once when it is buffered already.
AbbreviatedCcs ==
    /\ drv = "Tls12ServerFlight" /\ AcceptsTicket
    /\ pending = <<>> /\ inbox # <<>> /\ Head(inbox).kind = "ccs"
    /\ rkeys' = "app"
    /\ inbox' = AfterCcs(Tail(inbox))
    /\ drv' = IF inbox' = <<>> THEN "Tls12WaitServerFinished"
                               ELSE "Tls12Abbreviated"
    /\ wire' = Append(wire, Plain("CCS"))
    /\ UNCHANGED <<conf, transcript, fin, wkeys, pending, partial, srv>>

\* The record is a whole Finished that verifies.
FinishedRecord(rec) ==
    /\ rec.kind = "hs" /\ Readable(rec) /\ partial = NoMsg
    /\ Len(rec.msgs) = 1 /\ rec.cut = NoMsg /\ GoodFinished(rec.msgs[1])

\* process_abbreviated_server_finished: the client's Finished covers the
\* server's, and is not hashed itself.
AbbreviatedFinished(m) ==
    /\ fin' = [keys |-> "app", over |-> Append(transcript, m)]
    /\ transcript' = Append(transcript, m)

\* complete_tls12_abbreviated: the client's own ChangeCipherSpec and Finished.
CompleteAbbreviated ==
    /\ drv = "Tls12Abbreviated"
    /\ FinishedRecord(Head(inbox))
    /\ AbbreviatedFinished(Head(inbox).msgs[1])
    /\ wire' = wire \o <<Head(inbox).msgs[1], Plain("ClientFinished")>>
    /\ wkeys' = "app" /\ st' = "Connected" /\ drv' = "Complete"
    /\ facts' = facts \cup {"finished"}
    /\ inbox' = Tail(inbox)
    /\ UNCHANGED <<conf, rkeys, pending, partial, srv>>

RejectAbbreviated ==
    /\ drv = "Tls12Abbreviated"
    /\ ~FinishedRecord(Head(inbox))
    /\ Fails(Seen(Head(inbox)))

\* progress_tls12_wait_finished: ChangeCipherSpec installs the read keys once.
WaitFinishedCcs ==
    /\ drv = "Tls12WaitServerFinished" /\ inbox # <<>>
    /\ Head(inbox).kind = "ccs" /\ Readable(Head(inbox))
    /\ rkeys' = "app" /\ facts' = facts \cup {"server_ccs"}
    /\ wire' = Append(wire, Plain("CCS")) /\ inbox' = Tail(inbox)
    /\ UNCHANGED <<conf, drv, st, transcript, fin, wkeys, pending, partial, srv>>

\* try_store_tls12_session_ticket: the record begins with a ticket, all there.
StoresTicket(rec) ==
    /\ rec.msgs # <<>> /\ partial = NoMsg
    /\ rec.msgs[1].type = "NewSessionTicket" /\ rec.msgs[1].ok

\* A message before the ChangeCipherSpec, a NewSessionTicket, is hashed
\* whatever it is.
ForgetsTicket ==
    /\ drv = "Tls12WaitServerFinished" /\ inbox # <<>>
    /\ LET rec == Head(inbox)
       IN  /\ rec.kind = "hs" /\ Readable(rec) /\ "server_ccs" \notin facts
           /\ wire' = wire \o rec.msgs
           /\ partial' = rec.cut
           /\ facts' = facts \cup {f \in {"stored"} : StoresTicket(rec)}
    /\ inbox' = Tail(inbox)
    /\ UNCHANGED <<conf, drv, st, transcript, fin, rkeys, wkeys, pending, srv>>
WaitFinishedTicket ==
    /\ drv = "Tls12WaitServerFinished" /\ inbox # <<>>
    /\ LET rec == Head(inbox)
       IN  /\ rec.kind = "hs" /\ Readable(rec) /\ "server_ccs" \notin facts
           /\ transcript' = transcript \o rec.msgs
           /\ wire' = wire \o rec.msgs
           /\ partial' = rec.cut
           /\ facts' = facts \cup {f \in {"stored"} : StoresTicket(rec)}
    /\ inbox' = Tail(inbox)
    /\ UNCHANGED <<conf, drv, st, fin, rkeys, wkeys, pending, srv>>

\* process_server_finished.
WaitFinishedDone ==
    /\ drv = "Tls12WaitServerFinished" /\ inbox # <<>>
    /\ "server_ccs" \in facts /\ FinishedRecord(Head(inbox))
    /\ drv' = "Complete" /\ st' = "Connected"
    /\ facts' = facts \cup {"finished"}
    /\ wire' = wire \o Head(inbox).msgs /\ inbox' = Tail(inbox)
    /\ UNCHANGED <<conf, transcript, fin, rkeys, wkeys, pending, partial, srv>>

\* Records of application data are skipped in this state.
WaitFinishedSkip ==
    /\ drv = "Tls12WaitServerFinished" /\ inbox # <<>>
    /\ Head(inbox).kind = "app" /\ Readable(Head(inbox))
    /\ inbox' = Tail(inbox) /\ wire' = Append(wire, Plain("AppData"))
    /\ UNCHANGED <<conf, drv, st, facts, transcript, fin, rkeys, wkeys, pending,
                   partial, srv>>

WaitFinishedFails ==
    /\ drv = "Tls12WaitServerFinished" /\ inbox # <<>>
    /\ LET rec == Head(inbox)
       IN  /\ \/ ~Readable(rec)
              \/ rec.kind = "alert"
              \/ /\ rec.kind = "hs" /\ "server_ccs" \in facts
                 /\ ~FinishedRecord(rec)
           /\ Fails(Seen(rec))

\* connect_inner reads the end of the connection.
ConnectionLost ==
    /\ drv \notin {"Start", "Complete", "Failed"} /\ inbox = <<>>
    /\ pending = <<>> /\ srv.sent = MaxRecords
    /\ Fails(<<Plain("Alert")>>)

-----------------------------------------------------------------------------

Tls13Step ==
    \/ ProcessEncryptedExtensions \/ ProcessCertificateRequest
    \/ ProcessCertificate \/ ProcessCertificateVerify \/ Finish13 \/ Reject13

Tls12Step ==
    \/ ProcessServerHello12 \/ AbbreviatedTicket \/ ProcessCertificate12
    \/ ProcessServerKeyExchange \/ ProcessCertificateStatus
    \/ ProcessCertificateRequest12 \/ ProcessServerHelloDone \/ Reject12

Tls12End ==
    \/ AbbreviatedCcs \/ CompleteAbbreviated \/ RejectAbbreviated
    \/ WaitFinishedCcs \/ WaitFinishedTicket \/ WaitFinishedDone
    \/ WaitFinishedSkip \/ WaitFinishedFails

ClientStep ==
    \/ Start \/ ReadHello \/ QuicHello \/ QuicFeed \/ ReadFlight \/ ReadOther
    \/ Tls13Step \/ Tls12Step \/ Tls12End \/ ConnectionLost

ServerStep == ServerSends \/ ServerCuts \/ ServerSendsOther

Next == ClientStep \/ ServerStep

Spec == Init /\ [][Next]_vars
-----------------------------------------------------------------------------
(* Properties *)

TypeOK ==
    /\ conf \in Configs /\ drv \in Drivers /\ st \in States
    /\ facts \subseteq Facts
    /\ rkeys \in Epochs /\ wkeys \in Epochs
    /\ fin.keys \in {"none"} \cup Epochs
    /\ Len(inbox) <= MaxInbox /\ srv.sent <= MaxRecords
    /\ pending # <<>> =>
         drv \in Reassembling \/ (conf.quic /\ drv = "WaitServerHello")
    /\ facts \cap {"ech", "ech_hrr"} # {} => conf.ech
    /\ "psk" \in facts => conf.ticket = "tls13"
    /\ "abbreviated" \in facts => conf.ticket = "tls12"

\* A ServerHello of TLS 1.2 answers the second ClientHello.
RetriedInto12 ==
    /\ "hrr" \in facts
    /\ \/ Has(wire, "ServerHello12")
       \/ drv = "Tls12ServerFlight"

\* What the client has hashed is what it has exchanged with the server, hello
\* retries, ECH, session tickets, coalesced and cut messages included: a
\* server that follows the RFCs computes the same Finished.
TranscriptExact ==
    drv \notin {"Complete", "Failed"} /\ transcript # <<>> /\ ~RetriedInto12
      => transcript = Reference(wire)

\* The client's Finished covers every handshake message exchanged before it
\* and is sent under the keys the server expects it under.  QUIC handshakes
\* with a client certificate request are apart: finish_quic_tls13 hashes a
\* Certificate it does not send.
FinishedAgrees ==
    /\ fin # NoFin /\ ~RetriedInto12
    /\ ~(conf.quic /\ "cert_request" \in facts)
    => LET at == CHOOSE i \in DOMAIN wire : wire[i].type = "ClientFinished"
       IN  /\ fin.over = Reference(SubSeq(wire, 1, at - 1))
           /\ fin.keys = IF srv.version = "tls13" THEN "handshake" ELSE "app"

\* Client and server have the same view of the handshake throughout, and so
\* does the client's Finished.
HandshakeAgrees == TypeOK /\ TranscriptExact /\ FinishedAgrees

\* A server that keeps to the RFCs is never refused, however it coalesces
\* and cuts its messages into records: Odd records apart, and the staple of a
\* certificate whose key does the key exchange, which RFC 6066 allows and
\* process_single_message does not expect.
LegalNeverRejected ==
    drv = "Failed" /\ ~srv.odd /\ ~("rsa" \in facts /\ Has(wire, "CertificateStatus"))
      => ~LegalSoFar(FromServer(wire))

\* A handshake that is reported done has verified the server's Finished and
\* knows its peer: by a signature over a certificate, by a key exchange under
\* the certificate's RSA key, or by the secret of a ticket that was offered.
DoneAuthenticated ==
    drv = "Complete" =>
      /\ "finished" \in facts /\ Has(wire, "Finished")
      /\ \/ /\ "verified" \in facts
            /\ Has(wire, "Certificate") \/ Has(wire, "CompressedCertificate")
            /\ \/ Has(wire, "CertificateVerify") \/ Has(wire, "ServerKeyExchange")
               \/ Has(wire, "ClientKeyExchange") /\ "rsa" \in facts
         \/ conf.ticket = "tls13" /\ "psk" \in facts
         \/ conf.ticket = "tls12" /\ "abbreviated" \in facts

\* A handshake reported done has answered the server's Finished: tls12.rs
\* says of an abbreviated handshake that "After verifying server Finished,
\* the client sends CCS + Finished."
DoneAnswered ==
    drv = "Complete" => fin # NoFin /\ wkeys = "app"

=============================================================================
