---- MODULE TlsProofs ----
(***************************************************************************)
(* What is proved of the TLS client for every value of the constants: a    *)
(* handshake only finishes with a peer it authenticated and a transcript   *)
(* that peer confirmed (DoneKnowsPeer), what it hashes and what its own    *)
(* Finished covers is what the peer hashes (HandshakeIsAgreed), the record *)
(* stream keeps both directions' keys in step and loses, doubles and       *)
(* reorders no write (KeysStayInStep, WritesArrive), and the session store *)
(* hands no ticket out twice (TicketsOnce).  Each rests on an inductive    *)
(* invariant of its own: AuthInv, ViewInv, StreamInv, StoreInv.            *)
(***************************************************************************)
EXTENDS TlsHandshake, TlsStream, SessionStore, FiniteSetTheorems,
        SequenceTheorems, WellFoundedInduction, TLAPS

-----------------------------------------------------------------------------
(* The handshake                                                           *)

PlainTypes == {"none", "ClientHello", "ClientHello2", "CCS", "AppData", "ClientFinished",
               "ClientEncryptedExtensions", "ClientCertificate", "ClientKeyExchange"}
AnyMsg == ServerMsgs \cup {Plain(t) : t \in PlainTypes}
RecType == [kind : {"hs", "ccs", "alert", "app"}, msgs : Seq(AnyMsg), cut : AnyMsg,
            keys : Epochs]

HasCertificate == Has(wire, "Certificate") \/ Has(wire, "CompressedCertificate")

\* The client knows its peer: the disjunction of DoneAuthenticated.
Identified ==
    \/ /\ "verified" \in facts /\ HasCertificate
       /\ \/ Has(wire, "CertificateVerify") \/ Has(wire, "ServerKeyExchange")
          \/ Has(wire, "ClientKeyExchange") /\ "rsa" \in facts
    \/ conf.ticket = "tls13" /\ "psk" \in facts
    \/ conf.ticket = "tls12" /\ "abbreviated" \in facts

Traffic ==
    /\ wire \in Seq(AnyMsg) /\ pending \in Seq(AnyMsg) /\ inbox \in Seq(RecType)
    /\ srv.cut \in AnyMsg /\ srv.keys \in Epochs

FactsSound ==
    /\ "psk" \in facts => conf.ticket = "tls13"
    /\ facts \cap {"resumed", "abbreviated"} # {} => conf.ticket = "tls12"
    /\ drv \in {"Start", "WaitServerHello"} => facts \subseteq {"hrr", "ech_hrr"}

\* What has been checked when the client waits for a message of TLS 1.3.
Stage13 ==
    drv = "Tls13Encrypted" =>
      /\ st = "WaitCertificateVerify" => HasCertificate
      /\ st = "WaitFinished" => Identified

\* And for one of TLS 1.2.
Stage12 ==
    /\ drv = "Tls12ServerFlight" =>
         /\ st \in {"WaitServerHello", "WaitCertificate", "WaitCertificateOrAbbreviated",
                    "WaitServerKeyExchange", "WaitServerHelloDone"}
         /\ st # "WaitServerHelloDone" => "kx" \notin facts
         /\ st \in {"WaitServerKeyExchange", "WaitServerHelloDone"} =>
              Has(wire, "Certificate")
         /\ st = "WaitServerKeyExchange" => "rsa" \notin facts
         /\ st = "WaitServerHelloDone" =>
              "verified" \in facts /\ ("rsa" \in facts \/ Has(wire, "ServerKeyExchange"))
    /\ drv = "Tls12Abbreviated" => "abbreviated" \in facts /\ inbox # <<>>
    /\ drv = "Tls12WaitServerFinished" => Identified

AuthInv ==
    drv # "Failed" =>
      Traffic /\ FactsSound /\ Stage13 /\ Stage12 /\ DoneAuthenticated

-----------------------------------------------------------------------------

(* A message stays in what was exchanged.                                  *)
LEMMA HasAppended ==
    ASSUME NEW S, NEW w \in Seq(S), NEW m \in S
    PROVE  /\ Append(w, m) \in Seq(S) /\ Has(Append(w, m), m.type)
           /\ \A t : Has(w, t) => Has(Append(w, m), t)
<1> DEFINE a == Append(w, m)
<1>1. /\ a \in Seq(S) /\ Len(a) = Len(w) + 1 /\ a[Len(w) + 1] = m
      /\ \A i \in 1 .. Len(w) : a[i] = w[i]
  OBVIOUS
<1> HIDE DEF a
<1>2. /\ Len(w) + 1 \in DOMAIN a
      /\ \A i \in DOMAIN w : i \in DOMAIN a /\ a[i] = w[i]
  BY <1>1
<1>3. Has(a, m.type)
  BY <1>1, <1>2 DEF Has
<1>4. \A t : Has(w, t) => Has(a, t)
  BY <1>2 DEF Has
<1>5. QED
  BY <1>1, <1>3, <1>4 DEF a

(* What either part holds, the two joined hold: a record's messages are   *)
(* added to the transcript at once.                                        *)
LEMMA HasJoined ==
    ASSUME NEW S, NEW w \in Seq(S), NEW x \in Seq(S)
    PROVE  /\ w \o x \in Seq(S)
           /\ \A t : Has(w, t) \/ Has(x, t) => Has(w \o x, t)
<1> DEFINE a == w \o x
<1>1. a \in Seq(S) /\ Len(a) = Len(w) + Len(x)
  OBVIOUS
<1>2. \A i \in 1 .. Len(w) + Len(x) : a[i] = IF i <= Len(w) THEN w[i] ELSE x[i - Len(w)]
  BY ConcatProperties
<1> HIDE DEF a
<1>3. \A i \in DOMAIN w : i \in DOMAIN a /\ a[i] = w[i]
  BY <1>1, <1>2
<1>4. ASSUME NEW i \in DOMAIN x
      PROVE  i + Len(w) \in DOMAIN a /\ a[i + Len(w)] = x[i]
  <2>1. i \in 1 .. Len(x) /\ Len(w) \in Nat /\ Len(x) \in Nat
    OBVIOUS
  <2>2. i + Len(w) \in 1 .. Len(w) + Len(x) /\ ~(i + Len(w) <= Len(w))
        /\ i + Len(w) - Len(w) = i
    BY <2>1
  <2>3. QED
    BY <1>1, <1>2, <2>2
<1>5. \A t : Has(w, t) => Has(a, t)
  BY <1>3 DEF Has
<1>6. \A t : Has(x, t) => Has(a, t)
  BY <1>4 DEF Has
<1>7. QED
  BY <1>1, <1>5, <1>6 DEF a

(* What a message of the server holds.                                     *)
LEMMA ServerMsgFacts ==
    /\ \A m \in ServerMsgs : m.type = "EncryptedExtensions" => m.arg \subseteq {"alps"}
    /\ ServerMsgs \subseteq AnyMsg
    /\ NoMsg \in AnyMsg /\ FirstHello \in AnyMsg /\ SecondHello \in AnyMsg
    /\ Plain("CCS") \in AnyMsg /\ Plain("AppData") \in AnyMsg
    /\ Plain("ClientFinished") \in AnyMsg /\ Plain("ClientKeyExchange") \in AnyMsg
    /\ Plain("ClientEncryptedExtensions") \in AnyMsg
    /\ Plain("ClientCertificate") \in AnyMsg
<1>1. ASSUME NEW m \in ServerMsgs, m.type = "EncryptedExtensions"
      PROVE  m.arg \subseteq {"alps"}
  <2>1. PICK t \in DOMAIN ServerChoices :
           m \in {Msg(t, a, TRUE) : a \in SUBSET ServerChoices[t]} \cup {Msg(t, {}, FALSE)}
    BY DEF ServerMsgs
  <2>2. t = m.type /\ m.arg \subseteq ServerChoices[t]
    BY <2>1 DEF Msg
  <2>3. ServerChoices["EncryptedExtensions"] = {"alps"}
    BY DEF ServerChoices
  <2>4. QED
    BY <1>1, <2>2, <2>3
<1>2. \A t \in PlainTypes : Plain(t) \in AnyMsg
  BY DEF AnyMsg
<1>3. ServerMsgs \subseteq AnyMsg
  BY DEF AnyMsg
<1>4. QED
  BY <1>1, <1>2, <1>3 DEF PlainTypes, NoMsg, FirstHello, SecondHello

(* The records of the server.                                              *)
LEMMA PayloadTypes ==
    ASSUME NEW p \in Payloads
    PROVE  p \in Seq(AnyMsg) /\ p # <<>>
<1>1. CASE p \in {<<m>> : m \in ServerMsgs}
  <2>1. PICK m \in ServerMsgs : p = <<m>>
    BY <1>1
  <2>2. m \in AnyMsg
    BY ServerMsgFacts
  <2>3. <<m>> \in Seq(AnyMsg) /\ <<m>> # <<>>
    BY <2>2
  <2>4. QED
    BY <2>1, <2>3
<1>2. CASE p \in {m \in ServerMsgs : m.ok} \X {m \in ServerMsgs : m.ok}
  <2>1. p = <<p[1], p[2]>> /\ p[1] \in ServerMsgs /\ p[2] \in ServerMsgs
    BY <1>2
  <2>2. p[1] \in AnyMsg /\ p[2] \in AnyMsg
    BY <2>1, ServerMsgFacts
  <2>3. <<p[1], p[2]>> \in Seq(AnyMsg) /\ <<p[1], p[2]>> # <<>>
    BY <2>2
  <2>4. QED
    BY <2>1, <2>3
<1>3. QED
  BY <1>1, <1>2 DEF Payloads

(* A payload without its last message is empty or one message.             *)
LEMMA PayloadSplit ==
    ASSUME NEW p \in Payloads
    PROVE  /\ Latest(p) \in ServerMsgs
           /\ AllButLast(p) \in {<<>>} \cup {<<m>> : m \in ServerMsgs}
<1>1. CASE p \in {<<m>> : m \in ServerMsgs}
  <2>1. PICK m \in ServerMsgs : p = <<m>>
    BY <1>1
  <2>2. Len(<<m>>) = 1 /\ <<m>>[1] = m /\ SubSeq(<<m>>, 1, 0) = <<>>
    OBVIOUS
  <2>3. Latest(p) = m /\ AllButLast(p) = <<>>
    BY <2>1, <2>2 DEF Latest, AllButLast
  <2>4. QED
    BY <2>3
<1>2. CASE p \in {m \in ServerMsgs : m.ok} \X {m \in ServerMsgs : m.ok}
  <2>1. PICK x \in ServerMsgs, y \in ServerMsgs : p = <<x, y>>
    BY <1>2
  <2>2. /\ Len(<<x, y>>) = 2 /\ <<x, y>>[1] = x /\ <<x, y>>[2] = y
        /\ <<x, y>> \in Seq(ServerMsgs)
    OBVIOUS
  <2> DEFINE s == SubSeq(p, 1, 1)
  <2>3. s \in Seq(ServerMsgs) /\ Len(s) = 1 /\ s[1] = x
    BY <2>1, <2>2
  <2>4. Latest(p) = y /\ AllButLast(p) = s
    BY <2>1, <2>2 DEF Latest, AllButLast
  <2> HIDE DEF s
  <2>5. s = <<x>>
    BY <2>3
  <2>6. QED
    BY <2>4, <2>5
<1>3. QED
  BY <1>1, <1>2 DEF Payloads

(* AfterCcs leaves the end of the records.                                 *)
LEMMA AfterCcsPart ==
    ASSUME NEW S, NEW recs \in Seq(S)
    PROVE  /\ AfterCcs(recs) \in Seq(S) /\ Len(AfterCcs(recs)) <= Len(recs)
           /\ \A i \in 1 .. Len(AfterCcs(recs)) :
                AfterCcs(recs)[i] = recs[i + (Len(recs) - Len(AfterCcs(recs)))]
<1> DEFINE hs == {i \in DOMAIN recs : recs[i].kind # "ccs"}
           n == CHOOSE i \in hs : \A j \in hs : i <= j
<1>1. CASE hs = {}
  <2>1. AfterCcs(recs) = <<>>
    BY <1>1, Zenon DEF AfterCcs
  <2>2. QED
    BY <2>1
<1>2. CASE hs # {}
  <2>1. hs \subseteq Nat
    OBVIOUS
  <2>2. PICK x \in hs : \A y \in hs : ~(<<y, x>> \in OpToRel(<, Nat))
    <3> HIDE DEF hs
    <3>1. QED
      BY <1>2, <2>1, WFMin, NatLessThanWellFounded
  <2>3. \A y \in hs : x <= y
    <3> HIDE DEF hs
    <3>1. \A y \in hs : ~(y < x)
      BY <2>1, <2>2 DEF OpToRel
    <3>2. QED
      BY <2>1, <3>1
  <2>4. n \in hs
    <3>1. \E i \in hs : \A j \in hs : i <= j
      BY <2>3
    <3> HIDE DEF hs
    <3>2. QED
      BY <3>1, Zenon
  <2>5. AfterCcs(recs) = SubSeq(recs, n, Len(recs))
    BY <1>2, Zenon DEF AfterCcs
  <2> HIDE DEF n
  <2>6. n \in 1 .. Len(recs) /\ Len(recs) \in Nat
    BY <2>4
  <2> DEFINE r == SubSeq(recs, n, Len(recs))
  <2>7. /\ r \in Seq(S) /\ Len(r) = Len(recs) - n + 1
        /\ \A i \in 1 .. Len(recs) - n + 1 : r[i] = recs[n + i - 1]
    BY <2>6
  <2> HIDE DEF r, hs
  <2>8. \A i \in 1 .. Len(r) : r[i] = recs[i + (Len(recs) - Len(r))]
    <3>1. TAKE i \in 1 .. Len(r)
    <3>2. i + (Len(recs) - Len(r)) = n + i - 1
      BY <2>6, <2>7
    <3>3. QED
      BY <2>7, <3>2
  <2>9. Len(r) <= Len(recs)
    BY <2>6, <2>7
  <2>10. QED
    BY <2>5, <2>7, <2>8, <2>9 DEF r
<1>3. QED
  BY <1>1, <1>2

-----------------------------------------------------------------------------
(* The steps of the handshake                                              *)

(* A step that leaves the handshake where it is keeps what it has checked. *)
LEMMA StillThere ==
    ASSUME AuthInv, drv # "Failed", UNCHANGED <<conf, drv, st, facts>>,
           \A t : Has(wire, t) => Has(wire', t), Traffic',
           inbox # <<>> => inbox' # <<>> \/ drv # "Tls12Abbreviated"
    PROVE  AuthInv'
BY DEF AuthInv, FactsSound, Stage13, Stage12, DoneAuthenticated, Identified,
       HasCertificate

(* The server sends a record.                                              *)
LEMMA ServerStepInv ==
    ASSUME AuthInv, ServerStep
    PROVE  AuthInv'
<1>1. /\ drv # "Failed" /\ inbox \in Seq(RecType) /\ srv.cut \in AnyMsg
      /\ srv.keys \in Epochs /\ wire \in Seq(AnyMsg) /\ pending \in Seq(AnyMsg)
  BY DEF ServerStep, ServerSends, ServerCuts, ServerSendsOther, ServerActs, AuthInv, Traffic
<1>2. NoMsg \in AnyMsg /\ <<>> \in Seq(AnyMsg)
  BY ServerMsgFacts
<1>3. ASSUME NEW rec \in RecType, NEW version, NEW keys \in Epochs, NEW cut \in AnyMsg,
             NEW odd, NEW extra, Sends(rec, version, keys, cut, odd, extra)
      PROVE  AuthInv'
  <2>1. /\ inbox' = Append(inbox, rec) /\ srv'.cut = cut /\ srv'.keys = keys
        /\ UNCHANGED <<conf, drv, st, facts, wire, pending>>
    BY <1>3 DEF Sends
  <2>2. inbox' \in Seq(RecType) /\ inbox' # <<>>
    BY <1>1, <2>1
  <2>3. Traffic'
    BY <1>1, <2>1, <2>2 DEF Traffic
  <2>4. QED
    BY <1>1, <2>1, <2>2, <2>3, StillThere
<1>4. CASE ServerSends
  <2>1. PICK p \in Payloads :
          \E extra : Sends(Rec("hs", p, NoMsg, srv.keys), ServerVersion(p),
                           ServerKeys(p), NoMsg, Odd(p, NoMsg), extra)
    BY <1>4 DEF ServerSends
  <2>2. p \in Seq(AnyMsg)
    BY PayloadTypes
  <2>3. Rec("hs", p, NoMsg, srv.keys) \in RecType
    BY <1>1, <1>2, <2>2 DEF Rec, RecType
  <2>4. ServerKeys(p) \in Epochs
    BY <1>1 DEF ServerKeys, Epochs
  <2>5. QED
    BY <1>2, <1>3, <2>1, <2>3, <2>4
<1>5. CASE ServerCuts
  <2>1. PICK p \in Payloads :
          Sends(Rec("hs", AllButLast(p), Latest(p), srv.keys), ServerVersion(AllButLast(p)),
                ServerKeys(AllButLast(p)), Latest(p), Odd(AllButLast(p), Latest(p)), 1)
    BY <1>5 DEF ServerCuts
  <2>2. PICK w, m : w = AllButLast(p) /\ m = Latest(p)
    OBVIOUS
  <2>3. m \in AnyMsg /\ w \in Seq(AnyMsg)
    <3>1. w \in {<<>>} \cup {<<x>> : x \in ServerMsgs} /\ m \in ServerMsgs
      BY <2>2, PayloadSplit
    <3>2. \A x \in ServerMsgs : <<x>> \in Seq(AnyMsg)
      BY ServerMsgFacts
    <3>3. QED
      BY <1>2, <3>1, <3>2, ServerMsgFacts
  <2>4. Rec("hs", w, m, srv.keys) \in RecType
    BY <1>1, <2>3 DEF Rec, RecType
  <2>5. ServerKeys(w) \in Epochs
    BY <1>1 DEF ServerKeys, Epochs
  <2>6. Sends(Rec("hs", w, m, srv.keys), ServerVersion(w), ServerKeys(w), m, Odd(w, m), 1)
    BY <2>1, <2>2
  <2>7. QED
    BY <1>3, <2>3, <2>4, <2>5, <2>6
<1>6. CASE ServerSendsOther
  <2>1. PICK kind \in {"ccs", "alert", "app"} :
          \E extra : Sends(Rec(kind, <<>>, NoMsg, srv.keys), srv.version,
                   IF kind = "ccs" /\ srv.version = "tls12" THEN "app"
                   ELSE srv.keys, NoMsg, FALSE, extra)
    BY <1>6 DEF ServerSendsOther
  <2>2. Rec(kind, <<>>, NoMsg, srv.keys) \in RecType
    BY <1>1, <1>2 DEF Rec, RecType
  <2>3. (IF kind = "ccs" /\ srv.version = "tls12" THEN "app" ELSE srv.keys) \in Epochs
    BY <1>1 DEF Epochs
  <2>4. QED
    BY <1>2, <1>3, <2>1, <2>2, <2>3
<1>7. QED
  BY <1>4, <1>5, <1>6 DEF ServerStep

(* The ClientHello goes out, and what answers it is a HelloRetryRequest or *)
(* a ServerHello.                                                          *)
LEMMA HelloInv ==
    ASSUME AuthInv, Start \/ ReadHello \/ QuicHello
    PROVE  AuthInv'
<1>1. CASE Start
  <2>1. wire' = <<FirstHello>> /\ <<FirstHello>> \in Seq(AnyMsg)
    BY <1>1, ServerMsgFacts DEF Start
  <2>2. QED
    BY <1>1, <2>1
       DEF Start, AuthInv, Traffic, FactsSound, Stage13, Stage12, DoneAuthenticated
<1>2. ASSUME NEW m \in AnyMsg, drv = "WaitServerHello", RetryOk(m), HelloRetry(m),
             pending' \in Seq(AnyMsg), inbox' \in Seq(RecType)
      PROVE  AuthInv'
  <2>1. <<m, SecondHello>> \in Seq(AnyMsg) /\ wire \in Seq(AnyMsg)
    BY <1>2, ServerMsgFacts DEF AuthInv, Traffic
  <2>2. wire' \in Seq(AnyMsg)
    BY <1>2, <2>1, HasJoined DEF HelloRetry
  <2>3. QED
    BY <1>2, <2>2
       DEF HelloRetry, AuthInv, Traffic, FactsSound, Stage13, Stage12, DoneAuthenticated
<1>3. ASSUME NEW m \in AnyMsg, drv = "WaitServerHello", HelloOk(m), Hello13(m),
             pending' \in Seq(AnyMsg), inbox' \in Seq(RecType)
      PROVE  AuthInv'
  <2>1. wire' \in Seq(AnyMsg)
    BY <1>3 DEF Hello13, AuthInv, Traffic
  <2>2. QED
    BY <1>3, <2>1
       DEF Hello13, HelloOk, AuthInv, Traffic, FactsSound, Stage13, Stage12,
           DoneAuthenticated
<1>4. CASE ReadHello
  <2> DEFINE rec == Head(inbox)
             m == IF rec.msgs = <<>> THEN rec.cut ELSE rec.msgs[1]
  <2>1. /\ drv = "WaitServerHello" /\ inbox # <<>> /\ inbox \in Seq(RecType)
        /\ pending \in Seq(AnyMsg)
    BY <1>4 DEF ReadHello, AuthInv, Traffic
  <2>2. rec \in RecType /\ Tail(inbox) \in Seq(RecType)
    BY <2>1
  <2>3. rec.msgs \in Seq(AnyMsg) /\ rec.cut \in AnyMsg
    BY <2>2 DEF RecType
  <2>4. m \in AnyMsg
    BY <2>3
  <2> HIDE DEF rec
  <2>5. CASE RetryOk(m) /\ HelloRetry(m) /\ UNCHANGED pending /\ inbox' = Tail(inbox)
    BY <1>2, <2>1, <2>2, <2>4, <2>5
  <2>6. CASE HelloOk(m) /\ Hello13(m) /\ UNCHANGED pending /\ inbox' = Tail(inbox)
    BY <1>3, <2>1, <2>2, <2>4, <2>6
  <2>7. CASE Begin12(rec) /\ inbox' = Tail(inbox)
    BY <2>1, <2>2, <2>3, <2>7
       DEF Begin12, AuthInv, Traffic, FactsSound, Stage13, Stage12, DoneAuthenticated
  <2>8. CASE Fails(Seen(rec))
    BY <2>8 DEF Fails, AuthInv
  <2>9. QED
    BY <1>4, <2>5, <2>6, <2>7, <2>8 DEF ReadHello, rec
<1>5. CASE QuicHello
  <2> DEFINE m == Head(pending)
  <2>1. /\ drv = "WaitServerHello" /\ pending # <<>> /\ pending \in Seq(AnyMsg)
        /\ inbox \in Seq(RecType)
    BY <1>5 DEF QuicHello, AuthInv, Traffic
  <2>2. m \in AnyMsg /\ Tail(pending) \in Seq(AnyMsg)
    BY <2>1
  <2> HIDE DEF m
  <2>3. CASE RetryOk(m) /\ HelloRetry(m) /\ pending' = Tail(pending) /\ UNCHANGED inbox
    BY <1>2, <2>1, <2>2, <2>3
  <2>4. CASE HelloOk(m) /\ Hello13(m) /\ pending' = Tail(pending) /\ UNCHANGED inbox
    BY <1>3, <2>1, <2>2, <2>4
  <2>5. CASE Fails(<<m>>)
    BY <2>5 DEF Fails, AuthInv
  <2>6. QED
    BY <1>5, <2>3, <2>4, <2>5 DEF QuicHello, m
<1>6. QED
  BY <1>1, <1>4, <1>5

(* feed(), the reassembly of a flight, and records that hold no handshake  *)
(* message.                                                                *)
LEMMA ReadInv ==
    ASSUME AuthInv, QuicFeed \/ ReadFlight \/ ReadOther
    PROVE  AuthInv'
<1>1. /\ drv \in {"WaitServerHello", "Tls13Encrypted", "Tls12ServerFlight"}
      /\ inbox # <<>> /\ inbox \in Seq(RecType) /\ pending \in Seq(AnyMsg)
      /\ wire \in Seq(AnyMsg) /\ srv.cut \in AnyMsg /\ srv.keys \in Epochs
  BY DEF QuicFeed, ReadFlight, ReadOther, Reassembling, AuthInv, Traffic
<1>2. Head(inbox) \in RecType /\ Tail(inbox) \in Seq(RecType)
  BY <1>1
<1>3. Head(inbox).msgs \in Seq(AnyMsg)
  BY <1>2 DEF RecType
<1>4. CASE drv' = "Failed"
  BY <1>4 DEF AuthInv
<1>5. CASE /\ pending' = pending \o Head(inbox).msgs \/ pending' = Head(inbox).msgs
           /\ inbox' = Tail(inbox) /\ UNCHANGED <<conf, drv, st, facts, wire, srv>>
  <2>1. pending' \in Seq(AnyMsg)
    <3> DEFINE x == Head(inbox).msgs
    <3>1. pending' = pending \o x \/ pending' = x
      BY <1>5
    <3>2. x \in Seq(AnyMsg)
      BY <1>3
    <3> HIDE DEF x
    <3>3. pending \o x \in Seq(AnyMsg)
      BY <1>1, <3>2, HasJoined
    <3>4. QED
      BY <3>1, <3>2, <3>3
  <2>2. QED
    BY <1>1, <1>2, <1>5, <2>1, StillThere DEF Traffic
<1>6. CASE /\ wire' = Append(wire, Plain("CCS")) /\ inbox' = Tail(inbox)
           /\ UNCHANGED <<conf, drv, st, facts, pending, srv>>
  <2>1. Plain("CCS") \in AnyMsg
    BY ServerMsgFacts
  <2>2. wire' \in Seq(AnyMsg) /\ \A t : Has(wire, t) => Has(wire', t)
    BY <1>1, <1>6, <2>1, HasAppended
  <2>3. QED
    BY <1>1, <1>2, <1>6, <2>2, StillThere DEF Traffic
<1>7. QED
  BY <1>4, <1>5, <1>6 DEF QuicFeed, ReadFlight, ReadOther, Fails

(* The messages of TLS 1.3 before the Finished.                            *)
LEMMA Process13Inv ==
    ASSUME AuthInv, NEW m \in ServerMsgs, NEW from, NEW to, NEW new, Next13(m, from, to, new),
           \/ /\ to = (IF "psk" \in facts THEN "WaitFinished" ELSE "WaitCertificate")
              /\ new \subseteq {"alps"}
           \/ to = "WaitCertificate" /\ new = {"cert_request"}
           \/ /\ m.type \in {"Certificate", "CompressedCertificate"}
              /\ to = "WaitCertificateVerify" /\ new = {}
           \/ /\ m.type = "CertificateVerify" /\ from = "WaitCertificateVerify"
              /\ to = "WaitFinished" /\ new = {"verified"}
    PROVE  AuthInv'
<1>1. /\ drv = "Tls13Encrypted" /\ st = from /\ st' = to /\ facts' = facts \cup new
      /\ wire' = Append(wire, m) /\ pending # <<>> /\ pending' = Tail(pending)
      /\ UNCHANGED <<conf, drv, inbox, srv>>
  BY DEF Next13
<1>2. /\ inbox \in Seq(RecType) /\ pending \in Seq(AnyMsg) /\ wire \in Seq(AnyMsg)
      /\ srv.cut \in AnyMsg /\ srv.keys \in Epochs /\ m \in AnyMsg
  BY <1>1, ServerMsgFacts DEF AuthInv, Traffic
<1>3. /\ wire' \in Seq(AnyMsg) /\ Has(wire', m.type)
      /\ \A t : Has(wire, t) => Has(wire', t)
  BY <1>1, <1>2, HasAppended
<1>4. Traffic'
  BY <1>1, <1>2, <1>3 DEF Traffic
<1>5. FactsSound' /\ Stage12' /\ DoneAuthenticated'
  BY <1>1 DEF AuthInv, FactsSound, Stage12, DoneAuthenticated
<1>6. Stage13'
  BY <1>1, <1>3 DEF AuthInv, FactsSound, Stage13, Identified, HasCertificate
<1>7. QED
  BY <1>4, <1>5, <1>6 DEF AuthInv

(* The server's Finished ends a TLS 1.3 handshake.                         *)
LEMMA Finish13Inv ==
    ASSUME AuthInv, Finish13
    PROVE  AuthInv'
<1> DEFINE m == Head(pending)
<1>1. /\ drv = "Tls13Encrypted" /\ st = "WaitFinished" /\ Len(pending) = 1
      /\ m.type = "Finished" /\ drv' = "Complete" /\ facts' = facts \cup {"finished"}
      /\ wire' = Append(wire, m) \o ClientExtensions
                    \o (IF conf.quic THEN <<>> ELSE ClientCertificate)
                    \o <<Plain("ClientFinished")>>
      /\ pending' = <<>> /\ UNCHANGED <<conf, inbox, srv>>
  BY DEF Finish13, Ends13, GoodFinished
<1>2. /\ inbox \in Seq(RecType) /\ pending \in Seq(AnyMsg) /\ wire \in Seq(AnyMsg)
      /\ srv.cut \in AnyMsg /\ srv.keys \in Epochs
  BY <1>1 DEF AuthInv, Traffic
<1>3. m \in AnyMsg
  <2>1. pending # <<>>
    BY <1>1
  <2>2. QED
    BY <1>2, <2>1, HeadTailProperties
<1>4. /\ ClientExtensions \in Seq(AnyMsg)
      /\ (IF conf.quic THEN <<>> ELSE ClientCertificate) \in Seq(AnyMsg)
      /\ <<Plain("ClientFinished")>> \in Seq(AnyMsg)
  BY ServerMsgFacts DEF ClientExtensions, ClientCertificate
<1> HIDE DEF m
<1> DEFINE w1 == Append(wire, m)
           w2 == w1 \o ClientExtensions
           c == IF conf.quic THEN <<>> ELSE ClientCertificate
           w3 == w2 \o c
<1>5. /\ w1 \in Seq(AnyMsg) /\ Has(w1, "Finished")
      /\ \A t : Has(wire, t) => Has(w1, t)
  BY <1>1, <1>2, <1>3, HasAppended
<1> HIDE DEF w1, c
<1>6. w2 \in Seq(AnyMsg) /\ \A t : Has(w1, t) => Has(w2, t)
  BY <1>4, <1>5, HasJoined
<1> HIDE DEF w2
<1>7. w3 \in Seq(AnyMsg) /\ \A t : Has(w2, t) => Has(w3, t)
  BY <1>4, <1>6, HasJoined DEF c
<1>8. wire' = w3 \o <<Plain("ClientFinished")>>
  BY <1>1 DEF w1, w2, c
<1> HIDE DEF w3
<1>9. wire' \in Seq(AnyMsg) /\ \A t : Has(w3, t) => Has(wire', t)
  BY <1>4, <1>7, <1>8, HasJoined
<1>10. Has(wire', "Finished") /\ \A t : Has(wire, t) => Has(wire', t)
  BY <1>5, <1>6, <1>7, <1>9
<1>11. Traffic'
  BY <1>1, <1>2, <1>9 DEF Traffic
<1>12. FactsSound' /\ Stage13' /\ Stage12'
  BY <1>1 DEF AuthInv, FactsSound, Stage13, Stage12
<1>13. DoneAuthenticated'
  BY <1>1, <1>10 DEF AuthInv, Stage13, Identified, HasCertificate, DoneAuthenticated
<1>14. QED
  BY <1>11, <1>12, <1>13 DEF AuthInv

(* The steps of TLS 1.3.                                                   *)
LEMMA Tls13Inv ==
    ASSUME AuthInv, Tls13Step
    PROVE  AuthInv'
<1>1. CASE ProcessEncryptedExtensions
  BY <1>1, Process13Inv, ServerMsgFacts DEF ProcessEncryptedExtensions
<1>2. CASE ProcessCertificateRequest
  BY <1>2, Process13Inv DEF ProcessCertificateRequest
<1>3. CASE ProcessCertificate
  BY <1>3, Process13Inv DEF ProcessCertificate
<1>4. CASE ProcessCertificateVerify
  BY <1>4, Process13Inv DEF ProcessCertificateVerify
<1>5. CASE Reject13
  BY <1>5 DEF Reject13, Fails, AuthInv
<1>6. QED
  BY <1>1, <1>2, <1>3, <1>4, <1>5, Finish13Inv DEF Tls13Step

(* The messages of TLS 1.2 before the ServerHelloDone: one more message is *)
(* exchanged, and what it shows is noted.                                  *)
LEMMA Next12Effect ==
    ASSUME AuthInv, NEW m \in ServerMsgs, NEW to, NEW new, Next12(m, to, new)
    PROVE  /\ drv = "Tls12ServerFlight" /\ drv' = drv /\ conf' = conf
           /\ st' = to /\ facts' = new /\ Traffic' /\ Has(wire', m.type)
           /\ \A t : Has(wire, t) => Has(wire', t)
<1>1. /\ drv = "Tls12ServerFlight" /\ st' = to /\ facts' = new
      /\ wire' = Append(wire, m) /\ pending # <<>> /\ pending' = Tail(pending)
      /\ UNCHANGED <<conf, drv, inbox, srv>>
  BY DEF Next12
<1>2. /\ inbox \in Seq(RecType) /\ pending \in Seq(AnyMsg) /\ wire \in Seq(AnyMsg)
      /\ srv.cut \in AnyMsg /\ srv.keys \in Epochs /\ m \in AnyMsg
  BY <1>1, ServerMsgFacts DEF AuthInv, Traffic
<1>3. /\ wire' \in Seq(AnyMsg) /\ Has(wire', m.type)
      /\ \A t : Has(wire, t) => Has(wire', t)
  BY <1>1, <1>2, HasAppended
<1>4. QED
  BY <1>1, <1>2, <1>3 DEF Traffic

(* Each of them keeps the invariant.                                       *)
LEMMA Process12Inv ==
    ASSUME AuthInv,
           \/ ProcessServerHello12 \/ AbbreviatedTicket \/ ProcessCertificate12
           \/ ProcessServerKeyExchange \/ ProcessCertificateStatus
           \/ ProcessCertificateRequest12
    PROVE  AuthInv'
<1> USE DEF AuthInv, FactsSound, Stage13, Stage12, DoneAuthenticated
<1>1. CASE ProcessServerHello12
  <2>1. PICK m \in ServerMsgs :
          /\ st = "WaitServerHello"
          /\ Next12(m, IF "resumed" \in facts THEN "WaitCertificateOrAbbreviated"
                                              ELSE "WaitCertificate",
                    facts \cup (m.arg \cap {"rsa"}))
    BY <1>1 DEF ProcessServerHello12
  <2>2. QED
    BY <2>1, Next12Effect
<1>2. CASE AbbreviatedTicket
  BY <1>2, Next12Effect DEF AbbreviatedTicket
<1>3. CASE ProcessCertificate12
  <2>1. PICK m \in ServerMsgs :
          /\ st \in {"WaitCertificate", "WaitCertificateOrAbbreviated"}
          /\ m.type = "Certificate"
          /\ Next12(m, IF "rsa" \in facts THEN "WaitServerHelloDone"
                                          ELSE "WaitServerKeyExchange",
                    (facts \ {"resumed"}) \cup {f \in {"verified"} : "rsa" \in facts})
    BY <1>3 DEF ProcessCertificate12
  <2>2. QED
    BY <2>1, Next12Effect
<1>4. CASE ProcessServerKeyExchange
  BY <1>4, Next12Effect DEF ProcessServerKeyExchange
<1>5. CASE ProcessCertificateStatus
  BY <1>5, Next12Effect DEF ProcessCertificateStatus
<1>6. CASE ProcessCertificateRequest12
  BY <1>6, Next12Effect DEF ProcessCertificateRequest12
<1>7. QED
  BY <1>1, <1>2, <1>3, <1>4, <1>5, <1>6

(* ServerHelloDone: the peer is known when the client answers it.          *)
LEMMA ServerHelloDoneInv ==
    ASSUME AuthInv, ProcessServerHelloDone
    PROVE  AuthInv'
<1> DEFINE m == Head(pending)
           k == <<Plain("ClientKeyExchange")>>
           flight == ClientCertificate \o k
           w1 == Append(wire, m)
           w2 == w1 \o flight
<1>1. /\ drv = "Tls12ServerFlight" /\ pending # <<>>
      /\ st \in {"WaitServerKeyExchange", "WaitServerHelloDone"}
      /\ facts \cap {"rsa", "kx"} # {}
      /\ wire' = w2 \o <<Plain("ClientFinished")>>
      /\ drv' = "Tls12WaitServerFinished" /\ pending' = <<>>
      /\ UNCHANGED <<conf, facts, inbox, srv>>
  BY DEF ProcessServerHelloDone
<1>2. /\ inbox \in Seq(RecType) /\ pending \in Seq(AnyMsg) /\ wire \in Seq(AnyMsg)
      /\ srv.cut \in AnyMsg /\ srv.keys \in Epochs
  BY <1>1 DEF AuthInv, Traffic
<1>3. m \in AnyMsg
  BY <1>1, <1>2, HeadTailProperties
<1>4. /\ ClientCertificate \in Seq(AnyMsg) /\ k \in Seq(AnyMsg)
      /\ <<Plain("ClientFinished")>> \in Seq(AnyMsg)
  BY ServerMsgFacts DEF ClientCertificate
<1>5. Has(k, "ClientKeyExchange")
  BY DEF Has, Plain, Msg
<1> HIDE DEF m, k
<1>6. flight \in Seq(AnyMsg) /\ Has(flight, "ClientKeyExchange")
  BY <1>4, <1>5, HasJoined
<1> HIDE DEF flight
<1>7. w1 \in Seq(AnyMsg) /\ \A t : Has(wire, t) => Has(w1, t)
  BY <1>2, <1>3, HasAppended
<1> HIDE DEF w1
<1>8. /\ w2 \in Seq(AnyMsg) /\ Has(w2, "ClientKeyExchange")
      /\ \A t : Has(w1, t) => Has(w2, t)
  BY <1>6, <1>7, HasJoined
<1> HIDE DEF w2
<1>9. wire' \in Seq(AnyMsg) /\ \A t : Has(w2, t) => Has(wire', t)
  BY <1>1, <1>4, <1>8, HasJoined
<1>10. Has(wire', "ClientKeyExchange") /\ \A t : Has(wire, t) => Has(wire', t)
  BY <1>7, <1>8, <1>9
<1>11. st = "WaitServerHelloDone"
  BY <1>1 DEF AuthInv, Stage12
<1>12. Identified'
  BY <1>1, <1>10, <1>11 DEF AuthInv, Stage12, Identified, HasCertificate
<1>13. Traffic'
  BY <1>1, <1>2, <1>9 DEF Traffic
<1>14. QED
  BY <1>1, <1>12, <1>13 DEF AuthInv, FactsSound, Stage13, Stage12, DoneAuthenticated

(* The steps of TLS 1.2.                                                   *)
LEMMA Tls12Inv ==
    ASSUME AuthInv, Tls12Step
    PROVE  AuthInv'
<1>1. CASE Reject12
  BY <1>1 DEF Reject12, Fails, AuthInv
<1>2. QED
  BY <1>1, Process12Inv, ServerHelloDoneInv DEF Tls12Step

(* The server's ChangeCipherSpec accepts the ticket that was offered.      *)
LEMMA AbbreviatedCcsInv ==
    ASSUME AuthInv, AbbreviatedCcs
    PROVE  AuthInv'
<1>1. /\ drv = "Tls12ServerFlight" /\ "resumed" \in facts
      /\ facts' = (facts \ {"resumed"}) \cup {"abbreviated", "server_ccs"}
      /\ inbox # <<>> /\ inbox' = AfterCcs(Tail(inbox))
      /\ drv' = IF inbox' = <<>> THEN "Tls12WaitServerFinished" ELSE "Tls12Abbreviated"
      /\ wire' = Append(wire, Plain("CCS")) /\ UNCHANGED <<conf, pending, srv>>
  BY DEF AbbreviatedCcs, AcceptsTicket
<1>2. /\ inbox \in Seq(RecType) /\ pending \in Seq(AnyMsg) /\ wire \in Seq(AnyMsg)
      /\ srv.cut \in AnyMsg /\ srv.keys \in Epochs /\ Plain("CCS") \in AnyMsg
  BY <1>1, ServerMsgFacts DEF AuthInv, Traffic
<1>3. inbox' \in Seq(RecType)
  BY <1>1, <1>2, AfterCcsPart, Tail(inbox) \in Seq(RecType)
<1>4. wire' \in Seq(AnyMsg)
  BY <1>1, <1>2, HasAppended
<1>5. Traffic'
  BY <1>1, <1>2, <1>3, <1>4 DEF Traffic
<1>6. conf.ticket = "tls12" /\ conf' = conf /\ "abbreviated" \in facts'
      /\ ("psk" \in facts' => "psk" \in facts)
  BY <1>1 DEF AuthInv, FactsSound
<1>7. Identified'
  BY <1>6 DEF Identified
<1>8. FactsSound'
  BY <1>1, <1>6 DEF AuthInv, FactsSound
<1>9. Stage13' /\ Stage12' /\ DoneAuthenticated'
  BY <1>1, <1>6, <1>7 DEF Stage13, Stage12, DoneAuthenticated
<1>10. QED
  BY <1>5, <1>8, <1>9 DEF AuthInv

(* A Finished that verifies is a message of the record, and ends it.       *)
LEMMA FinishedRecordMsg ==
    ASSUME NEW rec \in RecType, FinishedRecord(rec)
    PROVE  /\ rec.msgs \in Seq(AnyMsg) /\ rec.msgs[1] \in AnyMsg
           /\ rec.msgs[1].type = "Finished" /\ Has(rec.msgs, "Finished")
<1>1. rec.msgs \in Seq(AnyMsg) /\ Len(rec.msgs) = 1 /\ rec.msgs[1].type = "Finished"
  BY DEF RecType, FinishedRecord, GoodFinished
<1>2. 1 \in DOMAIN rec.msgs
  BY <1>1
<1>3. rec.msgs[1] \in AnyMsg
  BY <1>1, <1>2
<1>4. QED
  BY <1>1, <1>2, <1>3 DEF Has

(* The abbreviated handshake ends with both Finished messages.             *)
LEMMA CompleteAbbreviatedInv ==
    ASSUME AuthInv, CompleteAbbreviated
    PROVE  AuthInv'
<1> DEFINE m == Head(inbox).msgs[1]
           x == <<m, Plain("ClientFinished")>>
<1>1. /\ drv = "Tls12Abbreviated" /\ FinishedRecord(Head(inbox))
      /\ wire' = wire \o x /\ drv' = "Complete" /\ facts' = facts \cup {"finished"}
      /\ inbox' = Tail(inbox) /\ UNCHANGED <<conf, pending, srv>>
  BY DEF CompleteAbbreviated
<1>2. /\ inbox \in Seq(RecType) /\ pending \in Seq(AnyMsg) /\ wire \in Seq(AnyMsg)
      /\ srv.cut \in AnyMsg /\ srv.keys \in Epochs /\ inbox # <<>>
      /\ "abbreviated" \in facts /\ conf.ticket = "tls12"
  BY <1>1 DEF AuthInv, Traffic, Stage12, FactsSound
<1>3. Head(inbox) \in RecType /\ Tail(inbox) \in Seq(RecType)
  BY <1>2
<1>4. m \in AnyMsg /\ m.type = "Finished"
  BY <1>1, <1>3, FinishedRecordMsg
<1> HIDE DEF m
<1>5. x \in Seq(AnyMsg) /\ Has(x, "Finished")
  <2>1. x \in Seq(AnyMsg)
    BY <1>4, ServerMsgFacts
  <2>2. 1 \in DOMAIN x /\ x[1] = m
    OBVIOUS
  <2>3. QED
    BY <1>4, <2>1, <2>2 DEF Has
<1> HIDE DEF x
<1>6. wire' \in Seq(AnyMsg) /\ Has(wire', "Finished")
  BY <1>1, <1>2, <1>5, HasJoined
<1>7. Traffic'
  BY <1>1, <1>2, <1>3, <1>6 DEF Traffic
<1>8. DoneAuthenticated'
  BY <1>1, <1>2, <1>6 DEF DoneAuthenticated
<1>9. QED
  BY <1>1, <1>7, <1>8 DEF AuthInv, FactsSound, Stage13, Stage12

(* Waiting for the server's Finished in TLS 1.2.                           *)
LEMMA WaitFinishedInv ==
    ASSUME AuthInv,
           \/ WaitFinishedCcs \/ WaitFinishedTicket \/ WaitFinishedDone
           \/ WaitFinishedSkip
    PROVE  AuthInv'
<1>1. /\ drv = "Tls12WaitServerFinished" /\ inbox # <<>> /\ inbox' = Tail(inbox)
      /\ UNCHANGED <<conf, pending, srv>>
  BY DEF WaitFinishedCcs, WaitFinishedTicket, WaitFinishedDone, WaitFinishedSkip
<1>2. /\ inbox \in Seq(RecType) /\ pending \in Seq(AnyMsg) /\ wire \in Seq(AnyMsg)
      /\ srv.cut \in AnyMsg /\ srv.keys \in Epochs /\ Identified
  BY <1>1 DEF AuthInv, Traffic, Stage12
<1>3. Head(inbox) \in RecType /\ Tail(inbox) \in Seq(RecType)
  BY <1>1, <1>2
<1>4. Head(inbox).msgs \in Seq(AnyMsg)
  BY <1>3 DEF RecType
<1> DEFINE x == Head(inbox).msgs
<1>5. wire' \in Seq(AnyMsg) /\ \A t : Has(wire, t) => Has(wire', t)
  <2>1. CASE wire' = Append(wire, Plain("CCS")) \/ wire' = Append(wire, Plain("AppData"))
    BY <1>2, <2>1, ServerMsgFacts, HasAppended
  <2>2. CASE wire' = wire \o x
    <3> HIDE DEF x
    <3>1. QED
      BY <1>2, <1>4, <2>2, HasJoined DEF x
  <2>3. QED
    BY <2>1, <2>2
       DEF WaitFinishedCcs, WaitFinishedTicket, WaitFinishedDone, WaitFinishedSkip
<1>6. Traffic'
  BY <1>1, <1>2, <1>3, <1>5 DEF Traffic
<1>7. \E new \in SUBSET {"server_ccs", "stored", "finished"} : facts' = facts \cup new
  <2>1. CASE WaitFinishedCcs
    BY <2>1 DEF WaitFinishedCcs
  <2>2. CASE WaitFinishedTicket
    <3>1. {f \in {"stored"} : StoresTicket(Head(inbox))}
             \in SUBSET {"server_ccs", "stored", "finished"}
      OBVIOUS
    <3>2. QED
      BY <2>2, <3>1 DEF WaitFinishedTicket
  <2>3. CASE WaitFinishedDone
    BY <2>3 DEF WaitFinishedDone
  <2>4. CASE WaitFinishedSkip
    <3>1. facts' = facts \cup {} /\ {} \in SUBSET {"server_ccs", "stored", "finished"}
      BY <2>4 DEF WaitFinishedSkip
    <3>2. QED
      BY <3>1
  <2>5. QED
    BY <2>1, <2>2, <2>3, <2>4
<1>8. Identified' /\ FactsSound'
  <2>1. /\ \A f \in {"verified", "rsa", "psk", "abbreviated", "resumed"} :
             f \in facts' <=> f \in facts
    BY <1>7
  <2>2. Identified'
    BY <1>1, <1>2, <1>5, <2>1 DEF Identified, HasCertificate
  <2>3. drv' \in {"Tls12WaitServerFinished", "Complete"}
    BY <1>1 DEF WaitFinishedCcs, WaitFinishedTicket, WaitFinishedDone, WaitFinishedSkip
  <2>4. QED
    BY <1>1, <2>1, <2>2, <2>3 DEF AuthInv, FactsSound
<1>9. CASE WaitFinishedDone
  <2>1. /\ drv' = "Complete" /\ "finished" \in facts' /\ wire' = wire \o x
        /\ FinishedRecord(Head(inbox))
    BY <1>9 DEF WaitFinishedDone
  <2>2. Has(x, "Finished")
    BY <1>3, <2>1, FinishedRecordMsg
  <2> HIDE DEF x
  <2>3. Has(wire', "Finished")
    BY <1>2, <1>4, <2>1, <2>2, HasJoined DEF x
  <2>4. DoneAuthenticated'
    BY <1>8, <2>1, <2>3 DEF DoneAuthenticated, Identified, HasCertificate
  <2>5. QED
    BY <1>6, <1>8, <2>1, <2>4 DEF AuthInv, Stage13, Stage12
<1>10. CASE ~WaitFinishedDone
  <2>1. drv' = drv
    BY <1>10 DEF WaitFinishedCcs, WaitFinishedTicket, WaitFinishedSkip
  <2>2. QED
    BY <1>1, <1>6, <1>8, <2>1 DEF AuthInv, Stage13, Stage12, DoneAuthenticated
<1>11. QED
  BY <1>9, <1>10

(* The client, whatever the server sends, and at the end of the connection.*)
THEOREM AuthInvariance == Spec => []AuthInv
<1>1. Init => AuthInv
  <2>1. SUFFICES ASSUME Init PROVE AuthInv
    OBVIOUS
  <2>2. /\ drv = "Start" /\ facts = {} /\ wire = <<>> /\ pending = <<>> /\ inbox = <<>>
        /\ srv.cut = NoMsg /\ srv.keys = "plain"
    BY <2>1 DEF Init
  <2>3. Traffic
    <3>1. <<>> \in Seq(AnyMsg) /\ <<>> \in Seq(RecType)
      BY EmptySeq
    <3>2. QED
      BY <2>2, <3>1, ServerMsgFacts DEF Traffic, Epochs
  <2>4. QED
    BY <2>2, <2>3 DEF AuthInv, FactsSound, Stage13, Stage12, DoneAuthenticated
<1>2. AuthInv /\ [Next]_vars => AuthInv'
  <2>1. SUFFICES ASSUME AuthInv, [Next]_vars PROVE AuthInv'
    OBVIOUS
  <2>2. CASE RejectAbbreviated \/ WaitFinishedFails \/ ConnectionLost
    BY <2>2 DEF RejectAbbreviated, WaitFinishedFails, ConnectionLost, Fails, AuthInv
  <2>3. CASE Tls12End
    BY <2>1, <2>2, <2>3, AbbreviatedCcsInv, CompleteAbbreviatedInv, WaitFinishedInv
       DEF Tls12End
  <2>4. CASE UNCHANGED vars
    BY <2>1, <2>4
       DEF vars, AuthInv, Traffic, FactsSound, Stage13, Stage12, DoneAuthenticated,
           Identified, HasCertificate
  <2>5. QED
    BY <2>1, <2>2, <2>3, <2>4, HelloInv, ReadInv, Tls13Inv, Tls12Inv, ServerStepInv
       DEF Next, ClientStep
<1>3. QED
  BY <1>1, <1>2, PTL DEF Spec

(* A handshake reported done has verified the server's Finished and knows  *)
(* its peer, whatever the server sends, in whatever records.               *)
THEOREM DoneKnowsPeer == Spec => []DoneAuthenticated
<1>1. AuthInv => DoneAuthenticated
  BY DEF AuthInv, DoneAuthenticated
<1>2. QED
  BY <1>1, AuthInvariance, PTL

-----------------------------------------------------------------------------
(* What client and server have both hashed                                 *)

(* Induction over the numbers, by a set.                                   *)
LEMMA AllNumbers ==
    ASSUME NEW G, 0 \in G, \A n \in Nat : n \in G => n + 1 \in G
    PROVE  Nat \subseteq G
<1> DEFINE T == Nat \ G
<1>1. SUFFICES ASSUME T # {} PROVE FALSE
  OBVIOUS
<1>2. T \subseteq Nat
  OBVIOUS
<1>3. PICK x \in T : \A y \in T : ~(<<y, x>> \in OpToRel(<, Nat))
  <2> HIDE DEF T
  <2>1. QED
    BY <1>1, <1>2, WFMin, NatLessThanWellFounded
<1>4. \A y \in T : ~(y < x)
  BY <1>2, <1>3 DEF OpToRel
<1>5. x \in Nat /\ x # 0 /\ x - 1 \in Nat /\ x = (x - 1) + 1
  OBVIOUS
<1>6. x - 1 \in G
  BY <1>4, <1>5
<1>7. QED
  BY <1>5, <1>6

\* The recursion of HandshakePart on the first n messages of w, and its
\* value on all of them.
Unhashed == {"CCS", "Alert", "AppData"}
PartStep(before, m) == IF m.type \in Unhashed THEN before ELSE Append(before, m)
Sifts(f, w, n) ==
    f = [i \in 0 .. n |-> IF i = 0 THEN <<>> ELSE PartStep(f[i - 1], w[i])]
Sifted(w) == CHOOSE f : Sifts(f, w, Len(w))

(* HandshakePart is the value of that recursion.                           *)
LEMMA PartIsSifted ==
    ASSUME NEW w
    PROVE  HandshakePart(w) = Sifted(w)[Len(w)]
  BY Zenon DEF HandshakePart, Sifted, Sifts, PartStep, Unhashed

(* One message more makes a message or none more.                          *)
LEMMA PartStepType ==
    ASSUME NEW S, NEW s \in Seq(S), NEW m \in S
    PROVE  PartStep(s, m) \in Seq(S)
  BY DEF PartStep

(* The recursion has a solution, message by message.                       *)
LEMMA SiftedExists ==
    ASSUME NEW S, NEW w \in Seq(S)
    PROVE  \E f \in [0 .. Len(w) -> Seq(S)] : Sifts(f, w, Len(w))
<1> DEFINE Stage(n) == n <= Len(w) => \E f \in [0 .. n -> Seq(S)] : Sifts(f, w, n)
           G == {n \in Nat : Stage(n)}
<1>1. 0 \in G
  <2> DEFINE f == [i \in 0 .. 0 |-> <<>>]
  <2>1. <<>> \in Seq(S)
    OBVIOUS
  <2>2. f \in [0 .. 0 -> Seq(S)]
    BY <2>1
  <2>3. Sifts(f, w, 0)
    BY DEF Sifts
  <2>4. QED
    BY <2>2, <2>3
<1>2. ASSUME NEW n \in Nat, n \in G PROVE n + 1 \in G
  <2>1. SUFFICES ASSUME n + 1 <= Len(w)
                 PROVE  \E f \in [0 .. n + 1 -> Seq(S)] : Sifts(f, w, n + 1)
    OBVIOUS
  <2>2. Len(w) \in Nat /\ n <= Len(w)
    BY <2>1
  <2>3. PICK g \in [0 .. n -> Seq(S)] : Sifts(g, w, n)
    BY <1>2, <2>2
  <2> DEFINE f == [i \in 0 .. n + 1 |-> IF i = 0 THEN <<>> ELSE PartStep(g[i - 1], w[i])]
  <2>4. ASSUME NEW i \in 0 .. n + 1
        PROVE  (IF i = 0 THEN <<>> ELSE PartStep(g[i - 1], w[i])) \in Seq(S)
    <3>1. CASE i = 0
      <4>1. <<>> \in Seq(S)
        OBVIOUS
      <4>2. QED
        BY <3>1, <4>1
    <3>2. CASE i # 0
      <4>1. i - 1 \in 0 .. n /\ i \in 1 .. Len(w)
        BY <2>1, <2>2, <3>2
      <4>2. g[i - 1] \in Seq(S) /\ w[i] \in S
        BY <4>1
      <4>3. QED
        BY <3>2, <4>2, PartStepType
    <3>3. QED
      BY <3>1, <3>2
  <2>5. f \in [0 .. n + 1 -> Seq(S)]
    BY <2>4
  <2>6. \A i \in 0 .. n : f[i] = g[i]
    <3>1. g = [i \in 0 .. n |-> IF i = 0 THEN <<>> ELSE PartStep(g[i - 1], w[i])]
      BY <2>3 DEF Sifts
    <3>2. TAKE i \in 0 .. n
    <3>3. g[i] = IF i = 0 THEN <<>> ELSE PartStep(g[i - 1], w[i])
      BY <3>1, Zenon
    <3>4. i \in 0 .. n + 1
      OBVIOUS
    <3>5. f[i] = IF i = 0 THEN <<>> ELSE PartStep(g[i - 1], w[i])
      BY <3>4
    <3>6. QED
      BY <3>3, <3>5
  <2>7. \A i \in 0 .. n + 1 : f[i] = IF i = 0 THEN <<>> ELSE PartStep(f[i - 1], w[i])
    <3>1. \A i \in 0 .. n + 1 : i # 0 => i - 1 \in 0 .. n
      OBVIOUS
    <3>2. QED
      BY <2>6, <3>1
  <2> HIDE DEF f
  <2>8. f = [i \in 0 .. n + 1 |-> IF i = 0 THEN <<>> ELSE PartStep(f[i - 1], w[i])]
    BY <2>5, <2>7
  <2>9. QED
    BY <2>5, <2>8 DEF Sifts
<1>3. Len(w) \in G
  <2> HIDE DEF G
  <2>1. QED
    BY <1>1, <1>2, AllNumbers
<1>4. QED
  BY <1>3

(* What the recursion says of each message.                                *)
LEMMA SiftedFacts ==
    ASSUME NEW S, NEW w \in Seq(S)
    PROVE  /\ Sifted(w)[0] = <<>>
           /\ \A i \in 1 .. Len(w) : Sifted(w)[i] = PartStep(Sifted(w)[i - 1], w[i])
           /\ \A i \in 0 .. Len(w) : Sifted(w)[i] \in Seq(S)
<1> DEFINE f == Sifted(w)
           G == {n \in Nat : n <= Len(w) => f[n] \in Seq(S)}
<1>1. Sifts(f, w, Len(w))
  BY SiftedExists, Zenon DEF Sifted
<1> HIDE DEF f
<1>2. f = [i \in 0 .. Len(w) |-> IF i = 0 THEN <<>> ELSE PartStep(f[i - 1], w[i])]
  BY <1>1 DEF Sifts
<1>3. \A i \in 0 .. Len(w) : f[i] = IF i = 0 THEN <<>> ELSE PartStep(f[i - 1], w[i])
  BY <1>2, Zenon
<1>4. f[0] = <<>>
  BY <1>3
<1>5. \A i \in 1 .. Len(w) : f[i] = PartStep(f[i - 1], w[i])
  BY <1>3
<1>6. 0 \in G
  <2>1. <<>> \in Seq(S)
    OBVIOUS
  <2>2. QED
    BY <1>4, <2>1
<1>7. ASSUME NEW n \in Nat, n \in G PROVE n + 1 \in G
  <2>1. SUFFICES ASSUME n + 1 <= Len(w) PROVE f[n + 1] \in Seq(S)
    OBVIOUS
  <2>2. n + 1 \in 1 .. Len(w) /\ (n + 1) - 1 = n /\ n <= Len(w)
    BY <2>1
  <2>3. f[n] \in Seq(S) /\ w[n + 1] \in S /\ f[n + 1] = PartStep(f[n], w[n + 1])
    BY <1>5, <1>7, <2>2
  <2>4. QED
    BY <2>3, PartStepType
<1>8. \A i \in 0 .. Len(w) : f[i] \in Seq(S)
  <2>1. Nat \subseteq G
    <3> HIDE DEF G
    <3>1. QED
      BY <1>6, <1>7, AllNumbers
  <2>2. QED
    BY <2>1
<1>9. QED
  BY <1>4, <1>5, <1>8 DEF f

(* The handshake messages of a longer exchange.                            *)
LEMMA PartGrows ==
    ASSUME NEW S, NEW w \in Seq(S), NEW m \in S
    PROVE  /\ HandshakePart(<<>>) = <<>>
           /\ HandshakePart(w) \in Seq(S)
           /\ HandshakePart(Append(w, m)) = PartStep(HandshakePart(w), m)
<1> DEFINE a == Append(w, m)
           f == Sifted(w)
           g == Sifted(a)
           G == {n \in Nat : n <= Len(w) => g[n] = f[n]}
<1>1. HandshakePart(<<>>) = <<>>
  <2>1. <<>> \in Seq(S) /\ Len(<<>>) = 0
    OBVIOUS
  <2>2. Sifted(<<>>)[0] = <<>>
    BY <2>1, SiftedFacts
  <2>3. QED
    BY <2>1, <2>2, PartIsSifted
<1>2. /\ a \in Seq(S) /\ Len(a) = Len(w) + 1 /\ a[Len(w) + 1] = m
      /\ \A i \in 1 .. Len(w) : a[i] = w[i]
  OBVIOUS
<1> HIDE DEF a
<1>3. /\ f[0] = <<>> /\ \A i \in 1 .. Len(w) : f[i] = PartStep(f[i - 1], w[i])
      /\ \A i \in 0 .. Len(w) : f[i] \in Seq(S)
  BY SiftedFacts
<1>4. /\ g[0] = <<>> /\ \A i \in 1 .. Len(a) : g[i] = PartStep(g[i - 1], a[i])
  BY <1>2, SiftedFacts
<1>5. HandshakePart(w) = f[Len(w)] /\ HandshakePart(a) = g[Len(a)]
  BY PartIsSifted
<1> HIDE DEF f, g
<1>6. 0 \in G
  BY <1>3, <1>4
<1>7. ASSUME NEW n \in Nat, n \in G PROVE n + 1 \in G
  <2>1. SUFFICES ASSUME n + 1 <= Len(w) PROVE g[n + 1] = f[n + 1]
    OBVIOUS
  <2>2. /\ n + 1 \in 1 .. Len(w) /\ n + 1 \in 1 .. Len(a) /\ (n + 1) - 1 = n
        /\ n <= Len(w)
    BY <1>2, <2>1
  <2>3. g[n + 1] = PartStep(g[n], a[n + 1]) /\ f[n + 1] = PartStep(f[n], w[n + 1])
    BY <1>3, <1>4, <2>2
  <2>4. g[n] = f[n] /\ a[n + 1] = w[n + 1]
    BY <1>2, <1>7, <2>2
  <2>5. QED
    BY <2>3, <2>4
<1>8. g[Len(w)] = f[Len(w)]
  <2>1. Nat \subseteq G
    <3> HIDE DEF G
    <3>1. QED
      BY <1>6, <1>7, AllNumbers
  <2>2. Len(w) \in G
    BY <2>1
  <2>3. QED
    BY <2>2
<1>9. g[Len(w) + 1] = PartStep(g[Len(w)], m)
  <2>1. Len(w) + 1 \in 1 .. Len(a) /\ (Len(w) + 1) - 1 = Len(w)
    BY <1>2
  <2>2. QED
    BY <1>2, <1>4, <2>1
<1>10. HandshakePart(w) \in Seq(S)
  BY <1>3, <1>5
<1>11. QED
  BY <1>1, <1>2, <1>5, <1>8, <1>9, <1>10 DEF a

(* A longer exchange holds the message it grew by, and what it held.       *)
LEMMA HasGrows ==
    ASSUME NEW S, NEW w \in Seq(S), NEW m \in S
    PROVE  \A t : Has(Append(w, m), t) <=> Has(w, t) \/ m.type = t
<1> DEFINE a == Append(w, m)
<1>1. /\ DOMAIN a = 1 .. Len(w) + 1 /\ DOMAIN w = 1 .. Len(w) /\ a[Len(w) + 1] = m
      /\ \A i \in 1 .. Len(w) : a[i] = w[i]
  OBVIOUS
<1> HIDE DEF a
<1>2. ASSUME NEW t, Has(a, t) PROVE Has(w, t) \/ m.type = t
  BY <1>1, <1>2 DEF Has
<1>3. ASSUME NEW t, Has(w, t) \/ m.type = t PROVE Has(a, t)
  <2>1. Len(w) + 1 \in DOMAIN a
    BY <1>1
  <2>2. QED
    BY <1>1, <1>3, <2>1 DEF Has
<1>4. QED
  BY <1>2, <1>3 DEF a

(* Whether the server accepts ECH is settled by its first hello.           *)
LEMMA AcceptsStays ==
    ASSUME NEW S, NEW w \in Seq(S), NEW m \in S,
           \/ m.type \notin {"ServerHello13", "ServerHello12"}
           \/ Has(w, "ServerHello12")
           \/ m.type = "ServerHello12" /\ ~Has(w, "ServerHello13")
    PROVE  ServerAccepts(Append(w, m)) <=> ServerAccepts(w)
<1> DEFINE a == Append(w, m)
           Yes(v) == \E i \in DOMAIN v : v[i].type = "ServerHello13" /\ "ech" \in v[i].arg
<1>1. /\ DOMAIN a = 1 .. Len(w) + 1 /\ DOMAIN w = 1 .. Len(w) /\ a[Len(w) + 1] = m
      /\ \A i \in 1 .. Len(w) : a[i] = w[i]
  OBVIOUS
<1>2. Has(a, "ServerHello12") <=> Has(w, "ServerHello12") \/ m.type = "ServerHello12"
  BY HasGrows
<1> HIDE DEF a
<1>3. Yes(a) <=> Yes(w) \/ (m.type = "ServerHello13" /\ "ech" \in m.arg)
  <2>1. ASSUME Yes(a) PROVE Yes(w) \/ (m.type = "ServerHello13" /\ "ech" \in m.arg)
    BY <1>1, <2>1
  <2>2. ASSUME Yes(w) PROVE Yes(a)
    BY <1>1, <2>2
  <2>3. ASSUME m.type = "ServerHello13", "ech" \in m.arg PROVE Yes(a)
    <3>1. Len(w) + 1 \in DOMAIN a
      BY <1>1
    <3>2. QED
      BY <1>1, <2>3, <3>1
  <2>4. QED
    BY <2>1, <2>2, <2>3
<1>4. Yes(w) => Has(w, "ServerHello13")
  BY DEF Has
<1>5. /\ ServerAccepts(a) <=> conf.ech /\ ~Has(a, "ServerHello12") /\ Yes(a)
      /\ ServerAccepts(w) <=> conf.ech /\ ~Has(w, "ServerHello12") /\ Yes(w)
  BY DEF ServerAccepts
<1> HIDE DEF Yes
<1>6. QED
  BY <1>2, <1>3, <1>4, <1>5 DEF a

(* The first ServerHello of TLS 1.3 settles it.                            *)
LEMMA AcceptsFirst ==
    ASSUME NEW S, NEW w \in Seq(S), NEW m \in S, m.type = "ServerHello13",
           ~Has(w, "ServerHello13"), ~Has(w, "ServerHello12")
    PROVE  ServerAccepts(Append(w, m)) <=> EchAccepted(m)
<1> DEFINE a == Append(w, m)
<1>1. /\ DOMAIN a = 1 .. Len(w) + 1 /\ DOMAIN w = 1 .. Len(w) /\ a[Len(w) + 1] = m
      /\ \A i \in 1 .. Len(w) : a[i] = w[i]
  OBVIOUS
<1>2. ~Has(a, "ServerHello12")
  BY HasGrows
<1> HIDE DEF a
<1>3. (\E i \in DOMAIN a : a[i].type = "ServerHello13" /\ "ech" \in a[i].arg)
         <=> "ech" \in m.arg
  <2>1. \A i \in DOMAIN w : a[i].type # "ServerHello13"
    BY <1>1 DEF Has
  <2>2. Len(w) + 1 \in DOMAIN a
    BY <1>1
  <2>3. QED
    BY <1>1, <2>1, <2>2
<1>4. QED
  BY <1>2, <1>3 DEF a, ServerAccepts, EchAccepted

(* One message more, and the reference hashes it too.                      *)
LEMMA ReferenceGrows ==
    ASSUME NEW S, NEW w \in Seq(S), NEW m \in S,
           m.type \notin {"ClientHello", "ClientHello2"},
           ServerAccepts(Append(w, m)) <=> ServerAccepts(w)
    PROVE  Reference(Append(w, m)) = PartStep(Reference(w), m)
<1> DEFINE a == Append(w, m)
           hs == HandshakePart(w)
           T == {Hashed(w, hs[i]) : i \in DOMAIN hs} \cup {m}
           r == [i \in DOMAIN hs |-> Hashed(w, hs[i])]
<1>1. Has(a, "ClientHello2") <=> Has(w, "ClientHello2")
  BY HasGrows
<1>2. hs \in Seq(S) /\ HandshakePart(a) = PartStep(hs, m)
  BY PartGrows
<1>3. Reference(w) = r
  BY DEF Reference
<1>4. ServerAccepts(a) <=> ServerAccepts(w)
  OBVIOUS
<1> HIDE DEF a
<1>5. \A x : Hashed(a, x) = Hashed(w, x)
  BY <1>1, <1>4 DEF Hashed
<1>6. Hashed(w, m) = m
  BY DEF Hashed
<1> HIDE DEF hs
<1>7. CASE m.type \in Unhashed
  <2>1. HandshakePart(a) = hs /\ PartStep(Reference(w), m) = r
    BY <1>2, <1>3, <1>7 DEF PartStep
  <2>2. Reference(a) = [i \in DOMAIN hs |-> Hashed(a, hs[i])]
    BY <2>1 DEF Reference
  <2>3. QED
    BY <1>5, <2>1, <2>2 DEF a
<1>8. CASE m.type \notin Unhashed
  <2> DEFINE b == Append(hs, m)
  <2>1. HandshakePart(a) = b /\ PartStep(Reference(w), m) = Append(r, m)
    BY <1>2, <1>3, <1>8 DEF PartStep
  <2>2. Reference(a) = [i \in DOMAIN b |-> Hashed(a, b[i])]
    BY <2>1 DEF Reference
  <2>3. DOMAIN hs = 1 .. Len(hs) /\ Len(hs) \in Nat
    BY <1>2
  <2>4. /\ DOMAIN b = 1 .. Len(hs) + 1 /\ b[Len(hs) + 1] = m
        /\ \A i \in 1 .. Len(hs) : b[i] = hs[i]
    BY <1>2
  <2> HIDE DEF b
  <2>5. \A i \in DOMAIN hs : Hashed(w, hs[i]) \in T
    OBVIOUS
  <2>6. m \in T
    OBVIOUS
  <2> HIDE DEF T
  <2>7. r \in Seq(T) /\ Len(r) = Len(hs)
    BY <2>3, <2>5
  <2>8. \A i \in 1 .. Len(hs) : r[i] = Hashed(w, hs[i])
    BY <2>3
  <2> HIDE DEF r
  <2> DEFINE c == Append(r, m)
  <2>9. /\ c \in Seq(T) /\ Len(c) = Len(hs) + 1 /\ c[Len(hs) + 1] = m
        /\ \A i \in 1 .. Len(hs) : c[i] = r[i]
    BY <2>6, <2>7
  <2> HIDE DEF c
  <2>10. c = [i \in 1 .. Len(hs) + 1 |-> c[i]]
    BY <2>9
  <2>11. \A i \in 1 .. Len(hs) + 1 : c[i] = Hashed(a, b[i])
    <3>1. TAKE i \in 1 .. Len(hs) + 1
    <3>2. CASE i = Len(hs) + 1
      BY <1>5, <1>6, <2>4, <2>9, <3>2
    <3>3. CASE i # Len(hs) + 1
      <4>1. i \in 1 .. Len(hs)
        BY <2>3, <3>3
      <4>2. QED
        BY <1>5, <2>4, <2>8, <2>9, <4>1
    <3>4. QED
      BY <3>2, <3>3
  <2>12. Reference(a) = c
    BY <2>2, <2>4, <2>10, <2>11
  <2>13. QED
    BY <2>1, <2>12 DEF a, c
<1>9. QED
  BY <1>7, <1>8

(* A hash of one, two, three or four messages.                             *)
LEMMA ReferenceShort ==
    ASSUME NEW w
    PROVE  /\ \A a : HandshakePart(w) = <<a>> => Reference(w) = <<Hashed(w, a)>>
           /\ \A a, b : HandshakePart(w) = <<a, b>> =>
                Reference(w) = <<Hashed(w, a), Hashed(w, b)>>
           /\ \A a, b, c : HandshakePart(w) = <<a, b, c>> =>
                Reference(w) = <<Hashed(w, a), Hashed(w, b), Hashed(w, c)>>
           /\ \A a, b, c, d : HandshakePart(w) = <<a, b, c, d>> =>
                Reference(w) = <<Hashed(w, a), Hashed(w, b), Hashed(w, c), Hashed(w, d)>>
<1>1. ASSUME NEW a, HandshakePart(w) = <<a>> PROVE Reference(w) = <<Hashed(w, a)>>
  BY <1>1 DEF Reference
<1>2. ASSUME NEW a, NEW b, HandshakePart(w) = <<a, b>>
      PROVE  Reference(w) = <<Hashed(w, a), Hashed(w, b)>>
  BY <1>2 DEF Reference
<1>3. ASSUME NEW a, NEW b, NEW c, HandshakePart(w) = <<a, b, c>>
      PROVE  Reference(w) = <<Hashed(w, a), Hashed(w, b), Hashed(w, c)>>
  BY <1>3 DEF Reference
<1>4. ASSUME NEW a, NEW b, NEW c, NEW d, HandshakePart(w) = <<a, b, c, d>>
      PROVE  Reference(w) = <<Hashed(w, a), Hashed(w, b), Hashed(w, c), Hashed(w, d)>>
  BY <1>4 DEF Reference
<1>5. QED
  BY <1>1, <1>2, <1>3, <1>4

(* The reference depends on nothing but the configuration.                 *)
LEMMA ReferenceKept ==
    ASSUME conf' = conf, NEW w, NEW v, v = w
    PROVE  Reference(v)' = Reference(w)
BY DEF Reference, Hashed, ServerAccepts

\* What travels: the server's messages, the records they fill, and what the
\* client has seen of them.
CutMsgs == ServerMsgs \cup {NoMsg}
Bodies == Payloads \cup {<<>>}
SentRec == [kind : {"hs", "ccs", "alert", "app"}, msgs : Bodies, cut : CutMsgs,
            keys : Epochs]
AllMsgs == AnyMsg \cup {Plain("Alert")}

Sent ==
    /\ wire \in Seq(AllMsgs) /\ pending \in Seq(ServerMsgs) /\ inbox \in Seq(SentRec)
    /\ srv.cut \in CutMsgs /\ srv.keys \in Epochs /\ srv.sent \in Nat
    /\ srv.version \in {"none", "tls12", "tls13"}
    /\ "resumed" \in facts => conf.ticket = "tls12"

\* Only ChangeCipherSpecs wait behind one another.
Queue ==
    /\ \A i \in 1 .. Len(inbox) - 1 : inbox[i].kind = "ccs"
    /\ inbox # <<>> /\ Latest(inbox).kind = "hs" => Latest(inbox).cut = srv.cut
    /\ conf.quic => \A i \in DOMAIN inbox : inbox[i].kind = "hs"
    /\ conf.quic /\ inbox # <<>> => pending = <<>>
    /\ drv = "WaitServerHello" => pending \in Bodies

\* The message the client looks at next while it waits for the ServerHello.
Front ==
    IF pending # <<>> THEN pending[1].type
    ELSE IF inbox # <<>> /\ Latest(inbox).kind = "hs" /\ Latest(inbox).msgs # <<>>
    THEN Latest(inbox).msgs[1].type ELSE "none"

VersionOf(t) ==
    IF t = "ServerHello13" THEN "tls13" ELSE IF t = "ServerHello12" THEN "tls12" ELSE "none"

\* Client and server speak the same version.
Versions ==
    /\ drv \in {"Start", "WaitServerHello"} => srv.version = VersionOf(Front)
    /\ drv = "Tls13Encrypted" => srv.version = "tls13" /\ wkeys = "handshake"
    /\ drv = "Tls12ServerFlight" =>
         \/ srv.version = "tls12"
         \/ /\ srv.version = "none" /\ srv.cut.type = "ServerHello12"
            /\ inbox = <<>> /\ pending = <<>>
    /\ drv \in {"Tls12Abbreviated", "Tls12WaitServerFinished"} => srv.version = "tls12"

\* What is hashed while the client waits for the ServerHello, without and
\* with a HelloRetryRequest.
AwaitsHello ==
    /\ ~Has(wire, "ServerHello13") /\ ~Has(wire, "ServerHello12")
    /\ "hrr" \notin facts =>
         /\ ~Has(wire, "ClientHello2") /\ transcript = <<>>
         /\ HandshakePart(wire) = <<FirstHello>>
    /\ "hrr" \in facts =>
         /\ Has(wire, "ClientHello2")
         /\ \E m \in ServerMsgs :
              /\ m.type = "HelloRetryRequest"
              /\ HandshakePart(wire) = <<FirstHello, m, SecondHello>>
              /\ transcript = <<Plain("MessageHash"), m, SecondHello>>

Exact == transcript = Reference(wire)

Hashing ==
    /\ drv = "Start" => wire = <<>> /\ transcript = <<>> /\ facts = {}
    /\ drv = "WaitServerHello" => AwaitsHello
    /\ drv = "Tls13Encrypted" => Exact
    /\ drv = "Tls12ServerFlight" =>
         /\ st = "WaitServerHello" => ~Has(wire, "ServerHello13")
         /\ st # "WaitServerHello" => Has(wire, "ServerHello12")
         /\ "hrr" \notin facts => Exact
    /\ drv \in {"Tls12Abbreviated", "Tls12WaitServerFinished"} =>
         Has(wire, "ServerHello12") /\ ("hrr" \notin facts => Exact)

\* The client's Finished is message n and covers those before it.
FinAt(n) ==
    /\ \A j \in DOMAIN wire : wire[j].type = "ClientFinished" <=> j = n
    /\ \E w : w = SubSeq(wire, 1, n - 1) /\ fin.over = Reference(w)
    /\ fin.keys = IF srv.version = "tls13" THEN "handshake" ELSE "app"

FinRight ==
    /\ drv \notin {"Tls12WaitServerFinished", "Complete", "Failed"} => fin = NoFin
    /\ fin = NoFin => ~Has(wire, "ClientFinished")
    /\ fin # NoFin /\ ~RetriedInto12 /\ ~(conf.quic /\ "cert_request" \in facts) =>
         \E n \in DOMAIN wire : FinAt(n)

ViewInv == TypeOK /\ Sent /\ Queue /\ Versions /\ Hashing /\ FinRight

-----------------------------------------------------------------------------

(* The server's messages have their types.                                 *)
LEMMA ServerTypes ==
    /\ \A m \in ServerMsgs :
         /\ m.type \in {"ServerHello13", "HelloRetryRequest", "ServerHello12",
                        "EncryptedExtensions", "CertificateRequest", "Certificate",
                        "CompressedCertificate", "CertificateVerify", "ServerKeyExchange",
                        "CertificateStatus", "ServerHelloDone", "NewSessionTicket",
                        "Finished"}
         /\ m \in AllMsgs /\ m \in CutMsgs
    /\ \A t \in PlainTypes \cup {"Alert"} : Plain(t) \in AllMsgs /\ Plain(t).type = t
    /\ NoMsg \in CutMsgs /\ NoMsg.type = "none" /\ NoMsg \in AllMsgs
    /\ CutMsgs \subseteq AllMsgs
<1>1. ASSUME NEW m \in ServerMsgs PROVE m.type \in DOMAIN ServerChoices
  <2>1. PICK t \in DOMAIN ServerChoices :
           m \in {Msg(t, a, TRUE) : a \in SUBSET ServerChoices[t]} \cup {Msg(t, {}, FALSE)}
    BY DEF ServerMsgs
  <2>2. t = m.type
    BY <2>1 DEF Msg
  <2>3. QED
    BY <2>2
<1>2. DOMAIN ServerChoices =
        {"ServerHello13", "HelloRetryRequest", "ServerHello12",
         "EncryptedExtensions", "CertificateRequest", "Certificate",
         "CompressedCertificate", "CertificateVerify", "ServerKeyExchange",
         "CertificateStatus", "ServerHelloDone", "NewSessionTicket", "Finished"}
  BY DEF ServerChoices
<1>3. \A t \in PlainTypes \cup {"Alert"} : Plain(t) \in AllMsgs /\ Plain(t).type = t
  BY DEF AllMsgs, AnyMsg, Plain, Msg
<1>4. NoMsg = Plain("none") /\ "none" \in PlainTypes
  BY DEF NoMsg, PlainTypes
<1>5. \A m \in ServerMsgs : m \in AllMsgs /\ m \in CutMsgs
  BY DEF AllMsgs, AnyMsg, CutMsgs
<1>6. QED
  BY <1>1, <1>2, <1>3, <1>4, <1>5 DEF CutMsgs

(* What a record may hold.                                                 *)
LEMMA BodyCases ==
    ASSUME NEW p \in Bodies
    PROVE  /\ p \in Seq(ServerMsgs)
           /\ \/ p = <<>>
              \/ \E m \in ServerMsgs : p = <<m>>
              \/ \E a, b \in ServerMsgs :
                   p = <<a, b>> /\ <<a.type, b.type>> \in Coalesced
<1>1. CASE p = <<>>
  BY <1>1
<1>2. CASE p \in {<<m>> : m \in ServerMsgs}
  <2>1. PICK m \in ServerMsgs : p = <<m>>
    BY <1>2
  <2>2. <<m>> \in Seq(ServerMsgs)
    OBVIOUS
  <2>3. QED
    BY <2>1, <2>2
<1>3. CASE p \in {q \in {m \in ServerMsgs : m.ok} \X {m \in ServerMsgs : m.ok} :
                    <<q[1].type, q[2].type>> \in Coalesced}
  <2>1. /\ p = <<p[1], p[2]>> /\ p[1] \in ServerMsgs /\ p[2] \in ServerMsgs
        /\ <<p[1].type, p[2].type>> \in Coalesced
    BY <1>3
  <2>2. <<p[1], p[2]>> \in Seq(ServerMsgs)
    BY <2>1
  <2>3. QED
    BY <2>1, <2>2
<1>4. QED
  BY <1>1, <1>2, <1>3 DEF Bodies, Payloads

(* A HelloRetryRequest travels alone.                                      *)
LEMMA RetryAlone ==
    ASSUME NEW p \in Bodies, p # <<>>, p[1].type = "HelloRetryRequest"
    PROVE  p = <<p[1]>>
<1>1. \A a, b : <<a, b>> \in Coalesced => a # "HelloRetryRequest"
  BY DEF Coalesced
<1>2. CASE \E m \in ServerMsgs : p = <<m>>
  BY <1>2
<1>3. CASE \E a, b \in ServerMsgs : p = <<a, b>> /\ <<a.type, b.type>> \in Coalesced
  BY <1>1, <1>3
<1>4. QED
  BY <1>2, <1>3, BodyCases

(* Bodies joined to what was exchanged.                                    *)
LEMMA JoinShort ==
    ASSUME NEW S, NEW w \in Seq(S)
    PROVE  /\ w \o <<>> = w
           /\ \A a \in S : w \o <<a>> = Append(w, a)
           /\ \A a, b \in S : w \o <<a, b>> = Append(Append(w, a), b)
<1>1. w \o <<>> = w
  OBVIOUS
<1>2. ASSUME NEW a \in S PROVE w \o <<a>> = Append(w, a)
  OBVIOUS
<1>3. ASSUME NEW a \in S, NEW b \in S PROVE w \o <<a, b>> = Append(Append(w, a), b)
  OBVIOUS
<1>4. QED
  BY <1>1, <1>2, <1>3

(* What is held by two parts joined.                                       *)
LEMMA HasEither ==
    ASSUME NEW S, NEW w \in Seq(S), NEW x \in Seq(S)
    PROVE  /\ w \o x \in Seq(S)
           /\ \A t : Has(w \o x, t) <=> Has(w, t) \/ Has(x, t)
<1> DEFINE a == w \o x
<1>1. a \in Seq(S) /\ Len(a) = Len(w) + Len(x)
  OBVIOUS
<1>2. \A i \in 1 .. Len(w) + Len(x) : a[i] = IF i <= Len(w) THEN w[i] ELSE x[i - Len(w)]
  BY ConcatProperties
<1> HIDE DEF a
<1>3. ASSUME NEW t, Has(a, t) PROVE Has(w, t) \/ Has(x, t)
  <2>1. PICK i \in 1 .. Len(w) + Len(x) : a[i].type = t
    BY <1>1, <1>3 DEF Has
  <2>2. CASE i <= Len(w)
    BY <1>2, <2>1, <2>2 DEF Has
  <2>3. CASE ~(i <= Len(w))
    <3>1. i - Len(w) \in 1 .. Len(x)
      BY <2>1, <2>3
    <3>2. a[i] = x[i - Len(w)]
      BY <1>2, <2>1, <2>3
    <3>3. x[i - Len(w)].type = t
      BY <2>1, <3>2
    <3>4. DOMAIN x = 1 .. Len(x)
      OBVIOUS
    <3>5. QED
      BY <3>1, <3>3, <3>4 DEF Has
  <2>4. QED
    BY <2>2, <2>3
<1>4. \A t : Has(w, t) \/ Has(x, t) => Has(a, t)
  BY HasJoined DEF a
<1>5. QED
  BY <1>1, <1>3, <1>4 DEF a

(* Single messages and their types.                                        *)
LEMMA HasOne ==
    ASSUME NEW m
    PROVE  \A t : Has(<<m>>, t) <=> m.type = t
  BY DEF Has

(* No record of the server shows a message of the client.                  *)
LEMMA SeenServers ==
    /\ \A rec \in SentRec : Seen(rec) \in Seq(AllMsgs) /\ ~Has(Seen(rec), "ClientFinished")
    /\ \A x \in Seq(ServerMsgs) : x \in Seq(AllMsgs) /\ ~Has(x, "ClientFinished")
    /\ LET alert == <<Plain("Alert")>>
       IN  alert \in Seq(AllMsgs) /\ ~Has(alert, "ClientFinished")
<1>1. ASSUME NEW x \in Seq(ServerMsgs)
      PROVE  x \in Seq(AllMsgs) /\ ~Has(x, "ClientFinished")
  <2>1. \A i \in DOMAIN x : x[i] \in ServerMsgs
    OBVIOUS
  <2>2. \A m \in ServerMsgs : m \in AllMsgs /\ m.type # "ClientFinished"
    BY ServerTypes
  <2>3. x \in Seq(AllMsgs)
    BY <2>1, <2>2
  <2>4. QED
    BY <2>1, <2>2, <2>3 DEF Has
<1>2. ASSUME NEW t \in {"CCS", "Alert", "AppData"}
      PROVE  <<Plain(t)>> \in Seq(AllMsgs) /\ ~Has(<<Plain(t)>>, "ClientFinished")
  <2>1. Plain(t) \in AllMsgs /\ Plain(t).type = t
    BY ServerTypes DEF PlainTypes
  <2>2. QED
    BY <2>1, HasOne
<1>3. ASSUME NEW rec \in SentRec
      PROVE  Seen(rec) \in Seq(AllMsgs) /\ ~Has(Seen(rec), "ClientFinished")
  <2>1. /\ rec.kind \in {"hs", "ccs", "alert", "app"} /\ rec.msgs \in Bodies
        /\ rec.cut \in CutMsgs
    BY DEF SentRec
  <2>2. CASE rec.kind = "hs"
    <3> DEFINE x == rec.msgs
               y == IF rec.cut = NoMsg THEN <<>> ELSE <<rec.cut>>
    <3>1. x \in Seq(ServerMsgs)
      BY <2>1, BodyCases
    <3>2. y \in Seq(ServerMsgs)
      <4>1. <<>> \in Seq(ServerMsgs)
        OBVIOUS
      <4>2. rec.cut # NoMsg => rec.cut \in ServerMsgs
        BY <2>1 DEF CutMsgs
      <4>3. QED
        BY <4>1, <4>2
    <3>3. Seen(rec) = x \o y
      BY <2>2 DEF Seen, Shown
    <3> HIDE DEF x, y
    <3>4. x \o y \in Seq(ServerMsgs)
      BY <3>1, <3>2
    <3>5. QED
      BY <1>1, <3>3, <3>4
  <2>3. CASE rec.kind # "hs"
    <3>1. Seen(rec) \in {<<Plain("CCS")>>, <<Plain("Alert")>>, <<Plain("AppData")>>}
      BY <2>1, <2>3 DEF Seen
    <3>2. QED
      BY <1>2, <3>1
  <2>4. QED
    BY <2>2, <2>3
<1>4. QED
  BY <1>1, <1>2, <1>3

(* Where the client's Finished is, it stays.                               *)
LEMMA FinStays ==
    ASSUME wire \in Seq(AllMsgs), NEW x \in Seq(AllMsgs), ~Has(x, "ClientFinished"),
           wire' = wire \o x, UNCHANGED <<conf, fin>>, srv'.version = srv.version
    PROVE  /\ ~Has(wire, "ClientFinished") => ~Has(wire, "ClientFinished")'
           /\ \A n \in DOMAIN wire : FinAt(n) => n \in DOMAIN wire' /\ FinAt(n)'
<1>1. ~Has(wire, "ClientFinished") => ~Has(wire, "ClientFinished")'
  BY HasEither
<1>2. /\ Len(wire') = Len(wire) + Len(x) /\ Len(wire) \in Nat /\ Len(x) \in Nat
      /\ DOMAIN wire = 1 .. Len(wire) /\ DOMAIN wire' = 1 .. Len(wire')
      /\ DOMAIN x = 1 .. Len(x)
  OBVIOUS
<1>3. \A i \in 1 .. Len(wire) + Len(x) :
         wire'[i] = IF i <= Len(wire) THEN wire[i] ELSE x[i - Len(wire)]
  BY ConcatProperties
<1>4. ASSUME NEW n \in DOMAIN wire, FinAt(n)
      PROVE  n \in DOMAIN wire' /\ FinAt(n)'
  <2>1. n \in DOMAIN wire'
    BY <1>2
  <2>2. \A j \in DOMAIN wire' : wire'[j].type = "ClientFinished" <=> j = n
    <3>1. TAKE j \in DOMAIN wire'
    <3>2. CASE j <= Len(wire)
      BY <1>2, <1>3, <1>4, <3>2 DEF FinAt
    <3>3. CASE ~(j <= Len(wire))
      <4>1. j - Len(wire) \in DOMAIN x /\ j # n
        BY <1>2, <3>3
      <4>2. x[j - Len(wire)].type # "ClientFinished"
        BY <4>1 DEF Has
      <4>3. QED
        BY <1>2, <1>3, <3>3, <4>1, <4>2
    <3>4. QED
      BY <3>2, <3>3
  <2>3. SubSeq(wire, 1, n - 1) = SubSeq(wire', 1, n - 1)
    <3>1. n - 1 \in Int /\ n - 1 <= Len(wire) /\ n - 1 <= Len(wire')
      BY <1>2
    <3>2. \A j \in 1 .. n - 1 : wire'[j] = wire[j]
      BY <1>2, <1>3
    <3>3. QED
      BY <1>2, <3>1, <3>2
  <2>4. PICK w : w = SubSeq(wire, 1, n - 1) /\ fin.over = Reference(w)
    BY <1>4 DEF FinAt
  <2>5. Reference(w)' = Reference(w)
    BY ReferenceKept
  <2>6. w = SubSeq(wire', 1, n - 1) /\ fin'.over = Reference(w)'
    BY <2>3, <2>4, <2>5
  <2>7. QED
    BY <1>4, <2>1, <2>2, <2>6 DEF FinAt
<1>5. QED
  BY <1>1, <1>4

(* What is hashed is a sequence.                                           *)
LEMMA ReferenceSeq ==
    ASSUME NEW w \in Seq(AllMsgs)
    PROVE  \E T : AllMsgs \subseteq T /\ Reference(w) \in Seq(T)
<1> DEFINE hs == HandshakePart(w)
           T == {Hashed(w, hs[i]) : i \in DOMAIN hs} \cup AllMsgs
<1>1. FirstHello \in AllMsgs
  BY ServerTypes DEF FirstHello, PlainTypes
<1>2. hs \in Seq(AllMsgs)
  BY <1>1, PartGrows
<1>3. Reference(w) = [i \in DOMAIN hs |-> Hashed(w, hs[i])]
  BY DEF Reference
<1>4. (\A i \in DOMAIN hs : Hashed(w, hs[i]) \in T) /\ AllMsgs \subseteq T
  OBVIOUS
<1> HIDE DEF hs, T
<1>5. Reference(w) \in Seq(T)
  BY <1>2, <1>3, <1>4
<1>6. QED
  BY <1>4, <1>5

(* A message of the server that is hashed as it is.                        *)
LEMMA ReferenceTakes ==
    ASSUME NEW w \in Seq(AllMsgs), NEW m \in ServerMsgs,
           \/ m.type \notin {"ServerHello13", "ServerHello12"}
           \/ Has(w, "ServerHello12")
    PROVE  /\ Append(w, m) \in Seq(AllMsgs)
           /\ Reference(Append(w, m)) = Append(Reference(w), m)
           /\ \A t : Has(w, t) => Has(Append(w, m), t)
           /\ Has(Append(w, m), "ClientFinished") => Has(w, "ClientFinished")
<1>1. /\ m \in AllMsgs
      /\ m.type \notin Unhashed \cup {"ClientHello", "ClientHello2", "ClientFinished"}
  BY ServerTypes DEF Unhashed
<1>2. ServerAccepts(Append(w, m)) <=> ServerAccepts(w)
  BY <1>1, AcceptsStays
<1>3. Reference(Append(w, m)) = Append(Reference(w), m)
  BY <1>1, <1>2, ReferenceGrows DEF PartStep
<1>4. QED
  BY <1>1, <1>3, HasGrows

(* What the inbox is, as long as only ChangeCipherSpecs wait.              *)
LEMMA InboxFacts ==
    ASSUME ViewInv, inbox # <<>>
    PROVE  /\ Head(inbox) \in SentRec /\ Tail(inbox) \in Seq(SentRec)
           /\ Head(inbox) = inbox[1] /\ Len(inbox) \in Nat \ {0}
           /\ Len(Tail(inbox)) = Len(inbox) - 1
           /\ \A i \in 1 .. Len(inbox) - 1 : Tail(inbox)[i] = inbox[i + 1]
           /\ Head(inbox).kind # "ccs" => Len(inbox) = 1 /\ Tail(inbox) = <<>>
           /\ Tail(inbox) # <<>> => Latest(Tail(inbox)) = Latest(inbox)
           /\ Head(inbox).msgs \in Bodies /\ Head(inbox).cut \in CutMsgs
           /\ Head(inbox).msgs \in Seq(ServerMsgs)
<1>1. inbox \in Seq(SentRec)
  BY DEF ViewInv, Sent
<1>2. /\ Head(inbox) \in SentRec /\ Tail(inbox) \in Seq(SentRec)
      /\ Head(inbox) = inbox[1] /\ Len(inbox) \in Nat \ {0}
      /\ Len(Tail(inbox)) = Len(inbox) - 1
      /\ \A i \in 1 .. Len(inbox) - 1 : Tail(inbox)[i] = inbox[i + 1]
  BY <1>1
<1>3. Head(inbox).kind # "ccs" => Len(inbox) = 1
  <2>1. Len(inbox) # 1 => 1 \in 1 .. Len(inbox) - 1
    BY <1>2
  <2>2. QED
    BY <1>2, <2>1 DEF ViewInv, Queue
<1>4. Len(inbox) = 1 => Tail(inbox) = <<>>
  <2> DEFINE t == Tail(inbox)
  <2>1. t \in Seq(SentRec) /\ Len(t) = Len(inbox) - 1
    BY <1>2
  <2> HIDE DEF t
  <2>2. Len(t) = 0 => t = <<>>
    BY <2>1
  <2>3. QED
    BY <1>2, <2>1, <2>2 DEF t
<1>5. Tail(inbox) # <<>> => Latest(Tail(inbox)) = Latest(inbox)
  <2>1. SUFFICES ASSUME Tail(inbox) # <<>>
                 PROVE  Latest(Tail(inbox)) = Latest(inbox)
    OBVIOUS
  <2>2. Len(inbox) - 1 \in 1 .. Len(inbox) - 1
    <3>1. Len(inbox) # 1
      BY <1>4, <2>1
    <3>2. QED
      BY <1>2, <3>1
  <2>3. Tail(inbox)[Len(inbox) - 1] = inbox[Len(inbox) - 1 + 1]
    BY <1>2, <2>2
  <2>4. Len(inbox) - 1 + 1 = Len(inbox)
    BY <1>2
  <2>5. QED
    BY <1>2, <2>3, <2>4 DEF Latest
<1>6. Head(inbox).msgs \in Bodies /\ Head(inbox).cut \in CutMsgs
  BY <1>2 DEF SentRec
<1>7. QED
  BY <1>2, <1>3, <1>4, <1>5, <1>6, BodyCases

(* A record taken from the inbox.                                          *)
LEMMA InboxTail ==
    ASSUME ViewInv, inbox # <<>>, inbox' = Tail(inbox), conf' = conf, srv' = srv
    PROVE  /\ inbox' \in Seq(SentRec) /\ Len(inbox') <= MaxInbox
           /\ \A i \in 1 .. Len(inbox') - 1 : inbox'[i].kind = "ccs"
           /\ inbox' # <<>> /\ Latest(inbox)'.kind = "hs" => Latest(inbox)'.cut = srv'.cut
           /\ conf'.quic => inbox' = <<>>
<1>1. /\ Tail(inbox) \in Seq(SentRec) /\ Len(inbox) \in Nat \ {0}
      /\ Len(Tail(inbox)) = Len(inbox) - 1
      /\ \A i \in 1 .. Len(inbox) - 1 : Tail(inbox)[i] = inbox[i + 1]
      /\ Tail(inbox) # <<>> => Latest(Tail(inbox)) = Latest(inbox)
      /\ Head(inbox).kind # "ccs" => Tail(inbox) = <<>>
      /\ Head(inbox) = inbox[1]
  BY InboxFacts
<1>2. Len(inbox) <= MaxInbox /\ MaxInbox \in Nat
  BY ConfigAssumption DEF ViewInv, TypeOK
<1>3. Len(inbox') <= MaxInbox
  BY <1>1, <1>2
<1>4. \A i \in 1 .. Len(inbox) - 1 : inbox[i].kind = "ccs"
  BY DEF ViewInv, Queue
<1>5. ASSUME NEW i \in 1 .. Len(inbox') - 1 PROVE inbox'[i].kind = "ccs"
  <2>1. i \in 1 .. Len(inbox) - 1 /\ i + 1 \in 1 .. Len(inbox) - 1
    BY <1>1
  <2>2. QED
    BY <1>1, <1>4, <2>1
<1>6. inbox' # <<>> => Latest(inbox)' = Latest(inbox)
  BY <1>1 DEF Latest
<1>7. inbox' # <<>> /\ Latest(inbox)'.kind = "hs" => Latest(inbox)'.cut = srv'.cut
  BY <1>6 DEF ViewInv, Queue
<1>8. conf.quic => inbox[1].kind = "hs"
  <2>1. 1 \in DOMAIN inbox
    BY <1>1 DEF ViewInv, Sent
  <2>2. QED
    BY <2>1 DEF ViewInv, Queue
<1>9. QED
  BY <1>1, <1>3, <1>5, <1>7, <1>8

(* An error keeps it all.                                                  *)
LEMMA FailsView ==
    ASSUME ViewInv, NEW x \in Seq(AllMsgs), ~Has(x, "ClientFinished"), Fails(x)
    PROVE  ViewInv'
<1>1. /\ drv' = "Failed" /\ wire' = wire \o x /\ inbox' = <<>> /\ pending' = <<>>
      /\ UNCHANGED <<conf, st, facts, transcript, fin, rkeys, wkeys, srv>>
  BY DEF Fails
<1>2. wire \in Seq(AllMsgs) /\ wire' \in Seq(AllMsgs)
      /\ \A t : Has(wire, t) => Has(wire', t)
  BY <1>1, HasEither DEF ViewInv, Sent
<1>3. TypeOK'
  <2>1. Len(inbox') = 0 /\ MaxInbox \in Nat /\ drv' \in Drivers
    BY <1>1, ConfigAssumption DEF Drivers
  <2>2. QED
    BY <1>1, <2>1 DEF ViewInv, TypeOK
<1>4. Sent'
  <2>1. inbox' \in Seq(SentRec) /\ pending' \in Seq(ServerMsgs)
    BY <1>1
  <2>2. QED
    BY <1>1, <1>2, <2>1 DEF ViewInv, Sent
<1>5. Queue' /\ Versions' /\ Hashing'
  BY <1>1 DEF Queue, Versions, Hashing
<1>6. FinRight'
  <2>1. fin' = NoFin => ~Has(wire, "ClientFinished")'
    BY <1>1, <1>2, FinStays DEF ViewInv, FinRight
  <2>2. ASSUME fin' # NoFin, ~RetriedInto12',
               ~(conf'.quic /\ "cert_request" \in facts')
        PROVE  \E n \in DOMAIN wire' : FinAt(n)'
    <3>1. drv # "Tls12ServerFlight"
      BY <1>1, <2>2 DEF ViewInv, FinRight
    <3>2. ~RetriedInto12
      BY <1>1, <1>2, <2>2, <3>1 DEF RetriedInto12
    <3>3. PICK n \in DOMAIN wire : FinAt(n)
      BY <1>1, <2>2, <3>2 DEF ViewInv, FinRight
    <3>4. QED
      BY <1>1, <1>2, <3>3, FinStays
  <2>3. QED
    BY <1>1, <2>1, <2>2 DEF FinRight
<1>7. QED
  BY <1>3, <1>4, <1>5, <1>6 DEF ViewInv

(* The failing steps.                                                      *)
LEMMA FailuresView ==
    ASSUME ViewInv,
           \/ \E rec \in SentRec : Fails(Seen(rec))
           \/ pending # <<>> /\ Fails(<<Head(pending)>>)
           \/ Fails(<<Plain("Alert")>>)
    PROVE  ViewInv'
<1>1. CASE \E rec \in SentRec : Fails(Seen(rec))
  BY <1>1, SeenServers, FailsView
<1>2. CASE pending # <<>> /\ Fails(<<Head(pending)>>)
  <2>1. Head(pending) \in ServerMsgs
    BY <1>2 DEF ViewInv, Sent
  <2>2. <<Head(pending)>> \in Seq(ServerMsgs)
    BY <2>1
  <2>3. QED
    BY <1>2, <2>2, SeenServers, FailsView
<1>3. CASE Fails(<<Plain("Alert")>>)
  BY <1>3, SeenServers, FailsView
<1>4. QED
  BY <1>1, <1>2, <1>3

(* What is hashed depends on no more than this.                            *)
LEMMA HashingKept ==
    ASSUME Hashing, UNCHANGED <<conf, drv, st, facts, transcript, wire>>
    PROVE  Hashing'
<1>1. Reference(wire)' = Reference(wire)
  BY DEF Reference, Hashed, ServerAccepts
<1>2. Exact' <=> Exact
  BY <1>1 DEF Exact
<1>3. AwaitsHello' <=> AwaitsHello
  BY DEF AwaitsHello
<1>4. QED
  BY <1>2, <1>3 DEF Hashing

(* And the client's Finished.                                              *)
LEMMA FinKept ==
    ASSUME FinRight, wire \in Seq(AllMsgs), srv'.version = srv.version,
           UNCHANGED <<conf, drv, facts, fin, wire>>
    PROVE  FinRight'
<1>1. \A n \in DOMAIN wire : FinAt(n) => FinAt(n)'
  <2>1. TAKE n \in DOMAIN wire
  <2>2. SUFFICES ASSUME FinAt(n) PROVE FinAt(n)'
    OBVIOUS
  <2>3. PICK w : w = SubSeq(wire, 1, n - 1) /\ fin.over = Reference(w)
    BY <2>2 DEF FinAt
  <2>4. Reference(w)' = Reference(w)
    BY ReferenceKept
  <2>5. w = SubSeq(wire', 1, n - 1) /\ fin'.over = Reference(w)'
    BY <2>3, <2>4
  <2>6. QED
    BY <2>2, <2>5 DEF FinAt
<1>2. RetriedInto12' <=> RetriedInto12
  BY DEF RetriedInto12
<1>3. QED
  BY <1>1, <1>2 DEF FinRight

(* The server's version, once it has chosen.                               *)
LEMMA SendsView ==
    ASSUME ViewInv, drv \notin {"Start", "Complete", "Failed"}, pending = <<>>,
           Len(inbox) < MaxInbox, inbox # <<>> => Latest(inbox).kind = "ccs",
           srv.sent < MaxRecords,
           NEW rec \in SentRec, NEW version \in {"none", "tls12", "tls13"},
           NEW keys \in Epochs, NEW cut \in CutMsgs, NEW odd, NEW extra,
           Sends(rec, version, keys, cut, odd, extra),
           rec.kind = "hs" => rec.cut = cut,
           conf.quic => rec.kind = "hs",
           srv.version # "none" => version = srv.version,
           srv.version = "none" =>
             version = IF rec.kind = "hs" /\ rec.msgs # <<>>
                       THEN VersionOf(rec.msgs[1].type) ELSE "none",
           srv.cut # NoMsg => rec.kind = "hs" /\ rec.msgs # <<>> /\ rec.msgs[1] = srv.cut
    PROVE  ViewInv'
<1>1. /\ inbox' = Append(inbox, rec)
      /\ srv' = [version |-> version, keys |-> keys, sent |-> srv.sent + 1,
                 cut |-> cut, odd |-> srv.odd \/ odd, extras |-> srv.extras + extra]
      /\ UNCHANGED <<conf, drv, st, facts, transcript, fin, wire, rkeys, wkeys,
                     pending, partial>>
  BY DEF Sends
<1>2. /\ srv'.version = version /\ srv'.cut = cut /\ srv'.keys = keys
      /\ srv'.sent = srv.sent + 1
  BY <1>1
<1>3. inbox \in Seq(SentRec) /\ wire \in Seq(AllMsgs) /\ srv.sent \in Nat
      /\ pending \in Seq(ServerMsgs)
  BY DEF ViewInv, Sent
<1>4. /\ inbox' \in Seq(SentRec) /\ Len(inbox') = Len(inbox) + 1 /\ inbox' # <<>>
      /\ inbox'[Len(inbox) + 1] = rec /\ Len(inbox) \in Nat
      /\ \A i \in 1 .. Len(inbox) : inbox'[i] = inbox[i]
  BY <1>1, <1>3
<1>5. Latest(inbox)' = rec
  BY <1>4 DEF Latest
<1>6. TypeOK'
  <2>1. Len(inbox') <= MaxInbox /\ srv'.sent <= MaxRecords
    BY <1>2, <1>3, <1>4, ConfigAssumption
  <2>2. QED
    BY <1>1, <2>1 DEF ViewInv, TypeOK
<1>7. Sent'
  <2>1. srv'.sent \in Nat
    BY <1>2, <1>3
  <2>2. QED
    BY <1>1, <1>2, <1>4, <2>1 DEF ViewInv, Sent
<1>8. Queue'
  <2>1. \A i \in 1 .. Len(inbox) : inbox[i].kind = "ccs" \/ conf.quic
    <3>1. TAKE i \in 1 .. Len(inbox)
    <3>2. CASE i = Len(inbox)
      <4>1. inbox # <<>>
        BY <1>4, <3>2
      <4>2. QED
        BY <3>2, <4>1 DEF Latest
    <3>3. CASE i # Len(inbox)
      <4>1. i \in 1 .. Len(inbox) - 1
        BY <1>4, <3>3
      <4>2. QED
        BY <4>1 DEF ViewInv, Queue
    <3>4. QED
      BY <3>2, <3>3
  <2>2. conf.quic => Len(inbox) = 0
    <3>1. SUFFICES ASSUME conf.quic, Len(inbox) # 0 PROVE FALSE
      OBVIOUS
    <3>2. Len(inbox) \in DOMAIN inbox /\ inbox # <<>>
      BY <1>3, <1>4, <3>1
    <3>3. inbox[Len(inbox)].kind = "hs" /\ inbox[Len(inbox)].kind = "ccs"
      BY <3>1, <3>2 DEF ViewInv, Queue, Latest
    <3>4. QED
      BY <3>3
  <2>3. \A i \in 1 .. Len(inbox') - 1 : inbox'[i].kind = "ccs"
    <3>1. TAKE i \in 1 .. Len(inbox') - 1
    <3>2. i \in 1 .. Len(inbox)
      BY <1>4
    <3>3. ~conf.quic
      BY <1>4, <2>2, <3>2
    <3>4. QED
      BY <1>4, <2>1, <3>2, <3>3
  <2>4. conf'.quic => \A i \in DOMAIN inbox' : inbox'[i].kind = "hs"
    <3>1. SUFFICES ASSUME conf.quic, NEW i \in DOMAIN inbox' PROVE inbox'[i].kind = "hs"
      BY <1>1
    <3>2. i = Len(inbox) + 1
      BY <1>4, <2>2, <3>1
    <3>3. QED
      BY <1>4, <3>1, <3>2
  <2>5. pending' = <<>> /\ pending' \in Bodies
    BY <1>1 DEF Bodies
  <2>6. Latest(inbox)'.kind = "hs" => Latest(inbox)'.cut = srv'.cut
    BY <1>2, <1>5
  <2>7. QED
    BY <1>1, <2>3, <2>4, <2>5, <2>6 DEF Queue
<1>9. Versions'
  <2>1. CASE drv = "WaitServerHello"
    <3>1. Front = "none"
      BY DEF Front
    <3>2. srv.version = "none"
      BY <2>1, <3>1 DEF ViewInv, Versions, VersionOf
    <3>3. Front' = IF rec.kind = "hs" /\ rec.msgs # <<>> THEN rec.msgs[1].type ELSE "none"
      BY <1>1, <1>4, <1>5 DEF Front
    <3>4. srv'.version = VersionOf(Front)'
      BY <1>2, <3>2, <3>3 DEF VersionOf
    <3>5. QED
      BY <1>1, <2>1, <3>4 DEF Versions
  <2>2. CASE drv = "Tls12ServerFlight"
    <3>1. CASE srv.version = "tls12"
      BY <1>1, <1>2, <2>2, <3>1 DEF Versions
    <3>2. CASE srv.version = "none" /\ srv.cut.type = "ServerHello12"
      <4>1. srv.cut # NoMsg
        BY <3>2, ServerTypes
      <4>2. rec.kind = "hs" /\ rec.msgs # <<>> /\ rec.msgs[1] = srv.cut
        BY <4>1
      <4>3. version = "tls12"
        BY <3>2, <4>2 DEF VersionOf
      <4>4. QED
        BY <1>1, <1>2, <2>2, <4>3 DEF Versions
    <3>3. QED
      BY <2>2, <3>1, <3>2 DEF ViewInv, Versions
  <2>3. CASE drv \notin {"WaitServerHello", "Tls12ServerFlight"}
    BY <1>1, <1>2, <2>3 DEF ViewInv, Versions
  <2>4. QED
    BY <2>1, <2>2, <2>3
<1>10. Hashing'
  BY <1>1, HashingKept DEF ViewInv
<1>11. FinRight'
  <2>1. CASE drv = "Tls12WaitServerFinished"
    <3>1. srv'.version = srv.version
      BY <1>2, <2>1 DEF ViewInv, Versions
    <3>2. QED
      BY <1>1, <1>3, <3>1, FinKept DEF ViewInv
  <2>2. CASE drv # "Tls12WaitServerFinished"
    <3>1. fin = NoFin
      BY <2>2 DEF ViewInv, FinRight
    <3>2. QED
      BY <1>1, <3>1 DEF ViewInv, FinRight
  <2>3. QED
    BY <2>1, <2>2
<1>12. QED
  BY <1>6, <1>7, <1>8, <1>9, <1>10, <1>11 DEF ViewInv

(* The server sends a record.                                              *)
LEMMA ServerStepView ==
    ASSUME ViewInv, ServerStep
    PROVE  ViewInv'
<1>1. /\ drv \notin {"Start", "Complete", "Failed"} /\ pending = <<>>
      /\ srv.sent < MaxRecords /\ Len(inbox) < MaxInbox
      /\ inbox # <<>> => Latest(inbox).kind = "ccs"
  BY DEF ServerStep, ServerSends, ServerCuts, ServerSendsOther, ServerActs
<1>2. /\ srv.cut \in CutMsgs /\ srv.keys \in Epochs
      /\ srv.version \in {"none", "tls12", "tls13"}
  BY DEF ViewInv, Sent
<1>3. NoMsg \in CutMsgs /\ <<>> \in Bodies
  BY ServerTypes DEF Bodies
<1>4. CASE ServerSends
  <2>1. PICK p \in Payloads :
          /\ srv.cut \in {NoMsg, p[1]}
          /\ \E extra : Sends(Rec("hs", p, NoMsg, srv.keys), ServerVersion(p),
                              ServerKeys(p), NoMsg, Odd(p, NoMsg), extra)
    BY <1>4 DEF ServerSends
  <2>2. srv.cut # NoMsg => p[1] = srv.cut
    BY <2>1
  <2>3. p \in Bodies /\ p # <<>>
    BY PayloadTypes DEF Bodies
  <2> DEFINE rec == Rec("hs", p, NoMsg, srv.keys)
  <2>4. /\ rec \in SentRec /\ rec.kind = "hs" /\ rec.msgs = p /\ rec.cut = NoMsg
    BY <1>2, <1>3, <2>3 DEF Rec, SentRec
  <2>5. ServerKeys(p) \in Epochs
    BY <1>2 DEF ServerKeys, Epochs
  <2>6. /\ srv.version # "none" => ServerVersion(p) = srv.version
        /\ srv.version = "none" => ServerVersion(p) = VersionOf(p[1].type)
        /\ ServerVersion(p) \in {"none", "tls12", "tls13"}
    BY <1>2, <2>3 DEF ServerVersion, VersionOf
  <2> HIDE DEF rec
  <2>7. QED
    BY <1>1, <1>3, <2>1, <2>2, <2>3, <2>4, <2>5, <2>6, SendsView DEF rec
<1>5. CASE ServerCuts
  <2>1. PICK p \in Payloads :
          /\ Latest(p).ok
          /\ Sends(Rec("hs", AllButLast(p), Latest(p), srv.keys), ServerVersion(AllButLast(p)),
                   ServerKeys(AllButLast(p)), Latest(p), Odd(AllButLast(p), Latest(p)), 1)
    BY <1>5 DEF ServerCuts
  <2>2. PICK w, m : w = AllButLast(p) /\ m = Latest(p)
    OBVIOUS
  <2>3. w \in {<<>>} \cup {<<x>> : x \in ServerMsgs} /\ m \in ServerMsgs /\ m.ok
    BY <2>1, <2>2, PayloadSplit
  <2>4. w \in Bodies
    BY <1>3, <2>3 DEF Bodies, Payloads
  <2>5. m \in CutMsgs /\ srv.cut = NoMsg
    BY <1>5, <2>3, ServerTypes DEF ServerCuts
  <2> DEFINE rec == Rec("hs", w, m, srv.keys)
  <2>6. rec \in SentRec /\ rec.kind = "hs" /\ rec.msgs = w /\ rec.cut = m
    BY <1>2, <2>4, <2>5 DEF Rec, SentRec
  <2>7. ServerKeys(w) \in Epochs
    BY <1>2 DEF ServerKeys, Epochs
  <2>8. /\ srv.version # "none" => ServerVersion(w) = srv.version
        /\ srv.version = "none" =>
             ServerVersion(w) = IF w # <<>> THEN VersionOf(w[1].type) ELSE "none"
        /\ ServerVersion(w) \in {"none", "tls12", "tls13"}
    BY <1>2 DEF ServerVersion, VersionOf
  <2>9. Sends(rec, ServerVersion(w), ServerKeys(w), m, Odd(w, m), 1)
    BY <2>1, <2>2
  <2> HIDE DEF rec
  <2>10. QED
    BY <1>1, <2>5, <2>6, <2>7, <2>8, <2>9, SendsView
<1>6. CASE ServerSendsOther
  <2>1. PICK kind \in {"ccs", "alert", "app"} :
          \E extra : Sends(Rec(kind, <<>>, NoMsg, srv.keys), srv.version,
                   IF kind = "ccs" /\ srv.version = "tls12" THEN "app"
                   ELSE srv.keys, NoMsg, FALSE, extra)
    BY <1>6 DEF ServerSendsOther
  <2> DEFINE rec == Rec(kind, <<>>, NoMsg, srv.keys)
             keys == IF kind = "ccs" /\ srv.version = "tls12" THEN "app" ELSE srv.keys
  <2>2. rec \in SentRec /\ rec.kind = kind /\ rec.kind # "hs"
    BY <1>2, <1>3 DEF Rec, SentRec
  <2>3. keys \in Epochs
    BY <1>2 DEF Epochs
  <2>4. ~conf.quic /\ srv.cut = NoMsg
    BY <1>6 DEF ServerSendsOther
  <2> HIDE DEF rec
  <2>5. QED
    BY <1>1, <1>2, <1>3, <2>1, <2>2, <2>3, <2>4, SendsView DEF rec
<1>7. QED
  BY <1>4, <1>5, <1>6 DEF ServerStep

(* What an Append makes.                                                   *)
LEMMA AppendMakes ==
    ASSUME NEW S, NEW s \in Seq(S), NEW x \in S, NEW v \in Seq(S), Len(v) = Len(s) + 1,
           v[Len(s) + 1] = x, \A i \in 1 .. Len(s) : v[i] = s[i]
    PROVE  Append(s, x) = v
<1> DEFINE u == Append(s, x)
<1>1. /\ u \in Seq(S) /\ Len(u) = Len(s) + 1 /\ u[Len(s) + 1] = x
      /\ \A i \in 1 .. Len(s) : u[i] = s[i]
  OBVIOUS
<1> HIDE DEF u
<1>2. \A i \in 1 .. Len(v) : u[i] = v[i]
  BY <1>1
<1>3. u = v
  BY <1>1, <1>2, SeqEqual
<1>4. QED
  BY <1>3 DEF u

(* A tuple and one element more.                                           *)
LEMMA AppendShort ==
    /\ \A a, b : Append(<<a>>, b) = <<a, b>>
    /\ \A a, b, c : Append(<<a, b>>, c) = <<a, b, c>>
    /\ \A a, b, c, d : Append(<<a, b, c>>, d) = <<a, b, c, d>>
<1>1. ASSUME NEW a, NEW b
      PROVE  Append(<<a>>, b) = <<a, b>>
  <2> DEFINE S == {a, b}
             s == <<a>>
             v == <<a, b>>
  <2>1. s \in Seq(S) /\ Len(s) = 1 /\ s[1] = a /\ b \in S
    OBVIOUS
  <2>2. v \in Seq(S) /\ Len(v) = 2 /\ v[1] = a /\ v[2] = b
    OBVIOUS
  <2> HIDE DEF S, s, v
  <2>3. /\ Len(v) = Len(s) + 1 /\ v[Len(s) + 1] = b
        /\ \A i \in 1 .. Len(s) : v[i] = s[i]
    BY <2>1, <2>2
  <2>4. Append(s, b) = v
    BY <2>1, <2>2, <2>3, AppendMakes
  <2>5. QED
    BY <2>4 DEF s, v
<1>2. ASSUME NEW a, NEW b, NEW c
      PROVE  Append(<<a, b>>, c) = <<a, b, c>>
  <2> DEFINE S == {a, b, c}
             s == <<a, b>>
             v == <<a, b, c>>
  <2>1. s \in Seq(S) /\ Len(s) = 2 /\ s[1] = a /\ s[2] = b /\ c \in S
    OBVIOUS
  <2>2. v \in Seq(S) /\ Len(v) = 3 /\ v[1] = a /\ v[2] = b /\ v[3] = c
    OBVIOUS
  <2> HIDE DEF S, s, v
  <2>3. /\ Len(v) = Len(s) + 1 /\ v[Len(s) + 1] = c
        /\ \A i \in 1 .. Len(s) : v[i] = s[i]
    BY <2>1, <2>2
  <2>4. Append(s, c) = v
    BY <2>1, <2>2, <2>3, AppendMakes
  <2>5. QED
    BY <2>4 DEF s, v
<1>3. ASSUME NEW a, NEW b, NEW c, NEW d
      PROVE  Append(<<a, b, c>>, d) = <<a, b, c, d>>
  <2> DEFINE S == {a, b, c, d}
             s == <<a, b, c>>
             v == <<a, b, c, d>>
  <2>1. s \in Seq(S) /\ Len(s) = 3 /\ s[1] = a /\ s[2] = b /\ s[3] = c /\ d \in S
    OBVIOUS
  <2>2. v \in Seq(S) /\ Len(v) = 4 /\ v[1] = a /\ v[2] = b /\ v[3] = c /\ v[4] = d
    OBVIOUS
  <2> HIDE DEF S, s, v
  <2>3. /\ Len(v) = Len(s) + 1 /\ v[Len(s) + 1] = d
        /\ \A i \in 1 .. Len(s) : v[i] = s[i]
    BY <2>1, <2>2
  <2>4. Append(s, d) = v
    BY <2>1, <2>2, <2>3, AppendMakes
  <2>5. QED
    BY <2>4 DEF s, v
<1>4. QED
  BY <1>1, <1>2, <1>3

(* The ClientHello.                                                        *)
LEMMA StartView ==
    ASSUME ViewInv, Start
    PROVE  ViewInv'
<1>1. /\ drv = "Start" /\ drv' = "WaitServerHello" /\ st' = "WaitServerHello"
      /\ wire' = <<FirstHello>>
      /\ UNCHANGED <<conf, facts, transcript, fin, rkeys, wkeys, inbox, pending, partial, srv>>
  BY DEF Start
<1>2. wire = <<>> /\ transcript = <<>> /\ facts = {} /\ pending = <<>> /\ wire \in Seq(AllMsgs)
  BY <1>1 DEF ViewInv, Hashing, TypeOK, Reassembling, Sent
<1>3. FirstHello \in AllMsgs /\ FirstHello.type = "ClientHello"
  BY ServerTypes DEF FirstHello, PlainTypes
<1>4. TypeOK'
  BY <1>1, <1>2 DEF ViewInv, TypeOK, Drivers, States
<1>5. Sent'
  <2>1. <<FirstHello>> \in Seq(AllMsgs)
    BY <1>3
  <2>2. QED
    BY <1>1, <2>1 DEF ViewInv, Sent
<1>6. Queue'
  BY <1>1, <1>2 DEF ViewInv, Queue, Latest, Bodies
<1>7. Versions'
  <2>1. Front' = Front
    BY <1>1 DEF Front, Latest
  <2>2. QED
    BY <1>1, <2>1 DEF ViewInv, Versions, VersionOf
<1>8. Hashing'
  <2>1. \A t : Has(<<FirstHello>>, t) <=> t = "ClientHello"
    BY <1>3, HasOne
  <2>2. HandshakePart(<<FirstHello>>) = <<FirstHello>>
    <3>1. <<>> \in Seq(AllMsgs) /\ Append(<<>>, FirstHello) = <<FirstHello>>
      OBVIOUS
    <3>2. HandshakePart(<<>>) = <<>>
          /\ HandshakePart(Append(<<>>, FirstHello)) = PartStep(HandshakePart(<<>>), FirstHello)
      BY <1>3, <3>1, PartGrows
    <3>3. PartStep(<<>>, FirstHello) = Append(<<>>, FirstHello)
      BY <1>3 DEF PartStep, Unhashed
    <3>4. QED
      BY <3>1, <3>2, <3>3
  <2>3. AwaitsHello'
    BY <1>1, <1>2, <2>1, <2>2 DEF AwaitsHello
  <2>4. QED
    BY <1>1, <2>3 DEF Hashing
<1>9. FinRight'
  <2>1. fin' = NoFin
    BY <1>1 DEF ViewInv, FinRight
  <2>2. ~Has(wire', "ClientFinished")
    BY <1>1, <1>3, HasOne
  <2>3. QED
    BY <2>1, <2>2 DEF FinRight
<1>10. QED
  BY <1>4, <1>5, <1>6, <1>7, <1>8, <1>9 DEF ViewInv

(* A HelloRetryRequest and the second ClientHello.                         *)
LEMMA RetryView ==
    ASSUME ViewInv, drv = "WaitServerHello", NEW m \in ServerMsgs,
           m.type = "HelloRetryRequest", RetryOk(m), HelloRetry(m),
           pending' = <<>>, inbox' = <<>>, srv.version = "none"
    PROVE  ViewInv'
<1>1. /\ facts' = facts \cup {"hrr"} \cup {f \in {"ech_hrr"} : "ech" \in m.arg}
      /\ transcript' = <<Plain("MessageHash"), m, SecondHello>>
      /\ wire' = wire \o <<m, SecondHello>>
      /\ UNCHANGED <<conf, drv, st, fin, rkeys, wkeys, srv>>
  BY DEF HelloRetry
<1>2. /\ "hrr" \notin facts /\ ("ech" \in m.arg => conf.ech)
  BY DEF RetryOk
<1>3. /\ SecondHello \in AllMsgs /\ SecondHello.type = "ClientHello2" /\ m \in AllMsgs
      /\ wire \in Seq(AllMsgs)
  BY ServerTypes DEF SecondHello, PlainTypes, ViewInv, Sent
<1> DEFINE w1 == Append(wire, m)
<1>4. wire' = Append(w1, SecondHello) /\ w1 \in Seq(AllMsgs) /\ wire' \in Seq(AllMsgs)
  BY <1>1, <1>3, JoinShort
<1>5. \A t : Has(wire', t) <=> Has(wire, t) \/ t = "HelloRetryRequest" \/ t = "ClientHello2"
  <2>1. \A t : Has(w1, t) <=> Has(wire, t) \/ m.type = t
    BY <1>3, HasGrows
  <2> HIDE DEF w1
  <2>2. \A t : Has(wire', t) <=> Has(w1, t) \/ SecondHello.type = t
    BY <1>3, <1>4, HasGrows
  <2>3. QED
    BY <1>3, <2>1, <2>2
<1>6. AwaitsHello
  BY DEF ViewInv, Hashing
<1>7. TypeOK'
  <2>1. Len(inbox') = 0 /\ MaxInbox \in Nat
    BY ConfigAssumption
  <2>2. facts' \subseteq Facts
    BY <1>1 DEF ViewInv, TypeOK, Facts
  <2>3. /\ \A f \in {"ech", "psk", "abbreviated"} : f \in facts' <=> f \in facts
        /\ "ech_hrr" \in facts' => "ech_hrr" \in facts \/ conf.ech
    BY <1>1, <1>2
  <2>4. QED
    BY <1>1, <1>2, <2>1, <2>2, <2>3 DEF ViewInv, TypeOK
<1>8. Sent'
  <2>1. inbox' \in Seq(SentRec) /\ pending' \in Seq(ServerMsgs)
    OBVIOUS
  <2>2. "resumed" \in facts' => "resumed" \in facts
    BY <1>1
  <2>3. QED
    BY <1>1, <1>4, <2>1, <2>2 DEF ViewInv, Sent
<1>9. Queue' /\ Versions'
  <2>1. Front' = "none"
    BY DEF Front
  <2>2. QED
    BY <1>1, <2>1 DEF Queue, Versions, VersionOf, Bodies
<1>10. Hashing'
  <2>1. HandshakePart(wire') = <<FirstHello, m, SecondHello>>
    <3>1. HandshakePart(wire) = <<FirstHello>>
      BY <1>2, <1>6 DEF AwaitsHello
    <3>2. HandshakePart(w1) = PartStep(<<FirstHello>>, m)
      BY <1>3, <3>1, PartGrows
    <3>3. PartStep(<<FirstHello>>, m) = <<FirstHello, m>>
      BY AppendShort DEF PartStep, Unhashed
    <3> HIDE DEF w1
    <3>4. HandshakePart(wire') = PartStep(<<FirstHello, m>>, SecondHello)
      BY <1>3, <1>4, <3>2, <3>3, PartGrows
    <3>5. QED
      BY <1>3, <3>4, AppendShort DEF PartStep, Unhashed
  <2>2. "hrr" \in facts'
    BY <1>1
  <2>3. AwaitsHello'
    BY <1>1, <1>5, <1>6, <2>1, <2>2 DEF AwaitsHello
  <2>4. QED
    BY <1>1, <2>3 DEF Hashing
<1>11. FinRight'
  BY <1>1, <1>5 DEF ViewInv, FinRight
<1>12. QED
  BY <1>7, <1>8, <1>9, <1>10, <1>11 DEF ViewInv

(* A ServerHello of TLS 1.3: the hellos are hashed as the server hashes    *)
(* them, with ECH and without, after a retry and without.                  *)
LEMMA Hello13Exact ==
    ASSUME wire \in Seq(AllMsgs), AwaitsHello, NEW m \in ServerMsgs,
           m.type = "ServerHello13"
    PROVE  (IF EchAccepted(m) THEN Inner(m) ELSE Outer(m)) = Reference(Append(wire, m))
<1> DEFINE a == Append(wire, m)
<1>1. m \in AllMsgs
  BY ServerTypes
<1>2. ServerAccepts(a) <=> EchAccepted(m)
  BY <1>1, AcceptsFirst DEF AwaitsHello
<1>3. Has(a, "ClientHello2") <=> Has(wire, "ClientHello2")
  BY <1>1, HasGrows
<1>4. HandshakePart(a) = Append(HandshakePart(wire), m)
  BY <1>1, PartGrows DEF PartStep, Unhashed
<1> HIDE DEF a
<1>5. Hashed(a, m) = m
  BY DEF Hashed
<1>6. /\ FirstHello.type = "ClientHello" /\ SecondHello.type = "ClientHello2"
  BY ServerTypes DEF FirstHello, SecondHello, PlainTypes
<1>7. CASE "hrr" \notin facts
  <2>1. HandshakePart(a) = <<FirstHello, m>> /\ ~Has(a, "ClientHello2")
    BY <1>3, <1>4, <1>7, AppendShort DEF AwaitsHello
  <2>2. Reference(a) = <<Hashed(a, FirstHello), m>>
    BY <1>5, <2>1, ReferenceShort
  <2>3. Hashed(a, FirstHello) = IF EchAccepted(m) THEN Plain("InnerHello") ELSE FirstHello
    BY <1>2, <1>6, <2>1 DEF Hashed
  <2>4. QED
    BY <1>7, <2>2, <2>3 DEF a, Inner, Outer
<1>8. CASE "hrr" \in facts
  <2>1. PICK r \in ServerMsgs :
           /\ r.type = "HelloRetryRequest"
           /\ HandshakePart(wire) = <<FirstHello, r, SecondHello>>
           /\ transcript = <<Plain("MessageHash"), r, SecondHello>>
    BY <1>8 DEF AwaitsHello
  <2>2. HandshakePart(a) = <<FirstHello, r, SecondHello, m>> /\ Has(a, "ClientHello2")
    <3>1. Append(<<FirstHello, r, SecondHello>>, m) = <<FirstHello, r, SecondHello, m>>
      BY AppendShort
    <3>2. HandshakePart(a) = Append(<<FirstHello, r, SecondHello>>, m)
      BY <1>4, <2>1, Zenon
    <3>3. QED
      BY <1>3, <1>8, <3>1, <3>2, Zenon DEF AwaitsHello
  <2>3. Reference(a) = <<Hashed(a, FirstHello), Hashed(a, r), Hashed(a, SecondHello), m>>
    BY <1>5, <2>2, ReferenceShort
  <2>4. Hashed(a, r) = r
    BY <2>1 DEF Hashed
  <2>5. Hashed(a, FirstHello)
          = IF EchAccepted(m) THEN Plain("InnerHash") ELSE Plain("MessageHash")
    BY <1>2, <1>6, <2>2 DEF Hashed
  <2>6. Hashed(a, SecondHello)
          = IF EchAccepted(m) THEN Plain("InnerHello2") ELSE SecondHello
    BY <1>2, <1>6, <2>2 DEF Hashed
  <2>7. CASE EchAccepted(m)
    <3>1. transcript[2] = r
      BY <2>1
    <3>2. Inner(m) = <<Plain("InnerHash"), r, Plain("InnerHello2"), m>>
      BY <1>8, <3>1 DEF Inner
    <3>3. QED
      BY <2>3, <2>4, <2>5, <2>6, <2>7, <3>2 DEF a
  <2>8. CASE ~EchAccepted(m)
    <3>1. Outer(m) = <<Plain("MessageHash"), r, SecondHello, m>>
      <4>1. \A x : Append(<<x, r, SecondHello>>, m) = <<x, r, SecondHello, m>>
        BY AppendShort
      <4>2. Outer(m) = Append(<<Plain("MessageHash"), r, SecondHello>>, m)
        BY <1>8, <2>1, Zenon DEF Outer
      <4>3. QED
        BY <4>1, <4>2, Zenon
    <3>2. QED
      BY <2>3, <2>4, <2>5, <2>6, <2>8, <3>1 DEF a
  <2>9. QED
    BY <2>7, <2>8
<1>9. QED
  BY <1>7, <1>8

(* The reference in the next state.                                        *)
LEMMA ReferencePrimed ==
    ASSUME conf' = conf, NEW w, wire' = w
    PROVE  Reference(wire)' = Reference(w)
BY DEF Reference, Hashed, ServerAccepts

(* The ServerHello of TLS 1.3.                                             *)
LEMMA Hello13View ==
    ASSUME ViewInv, drv = "WaitServerHello", NEW m \in ServerMsgs,
           m.type = "ServerHello13", HelloOk(m), Hello13(m),
           pending' \in Seq(ServerMsgs), inbox' = <<>>, srv.version = "tls13"
    PROVE  ViewInv'
<1>1. /\ drv' = "Tls13Encrypted" /\ st' = "WaitEncryptedExtensions"
      /\ facts' = facts \cup (m.arg \cap {"psk"}) \cup {f \in {"ech"} : EchAccepted(m)}
      /\ transcript' = IF EchAccepted(m) THEN Inner(m) ELSE Outer(m)
      /\ wire' = Append(wire, m)
      /\ rkeys' = "handshake" /\ wkeys' = "handshake"
      /\ UNCHANGED <<conf, fin, srv>>
  BY DEF Hello13
<1>2. m \in AllMsgs /\ wire \in Seq(AllMsgs)
  BY ServerTypes DEF ViewInv, Sent
<1>3. /\ wire' \in Seq(AllMsgs)
      /\ \A t : Has(wire', t) <=> Has(wire, t) \/ t = "ServerHello13"
  BY <1>1, <1>2, HasGrows
<1>4. TypeOK'
  <2>1. Len(inbox') = 0 /\ MaxInbox \in Nat
    BY ConfigAssumption
  <2>2. facts' \subseteq Facts
    BY <1>1 DEF ViewInv, TypeOK, Facts
  <2>3. /\ \A f \in {"ech_hrr", "abbreviated"} : f \in facts' <=> f \in facts
        /\ "ech" \in facts' => "ech" \in facts \/ conf.ech
        /\ "psk" \in facts' => "psk" \in facts \/ conf.ticket = "tls13"
    BY <1>1 DEF EchAccepted, HelloOk
  <2>4. drv' \in Drivers /\ st' \in States /\ rkeys' \in Epochs /\ wkeys' \in Epochs
    BY <1>1 DEF Drivers, States, Epochs
  <2>5. drv' \in Reassembling
    BY <1>1 DEF Reassembling
  <2>6. QED
    BY <1>1, <2>1, <2>2, <2>3, <2>4, <2>5 DEF ViewInv, TypeOK
<1>5. Sent'
  <2>1. inbox' \in Seq(SentRec)
    OBVIOUS
  <2>2. "resumed" \in facts' => "resumed" \in facts
    BY <1>1
  <2>3. QED
    BY <1>1, <1>3, <2>1, <2>2 DEF ViewInv, Sent
<1>6. Queue' /\ Versions'
  BY <1>1 DEF Queue, Versions
<1>7. Hashing'
  <2>1. transcript' = Reference(Append(wire, m))
    BY <1>1, <1>2, Hello13Exact DEF ViewInv, Hashing
  <2>2. Exact'
    BY <1>1, <2>1, ReferencePrimed DEF Exact
  <2>3. QED
    BY <1>1, <2>2 DEF Hashing
<1>8. FinRight'
  BY <1>1, <1>3 DEF ViewInv, FinRight
<1>9. QED
  BY <1>4, <1>5, <1>6, <1>7, <1>8 DEF ViewInv

(* begin_tls12.                                                            *)
LEMMA Begin12View ==
    ASSUME ViewInv, drv = "WaitServerHello", NEW rec \in SentRec, Begin12(rec),
           inbox' = <<>>,
           \/ srv.version = "tls12"
           \/ /\ srv.version = "none" /\ srv.cut.type = "ServerHello12"
              /\ rec.msgs = <<>>
    PROVE  ViewInv'
<1>1. /\ drv' = "Tls12ServerFlight" /\ st' = "WaitServerHello"
      /\ facts' = facts \cup {f \in {"resumed"} : conf.ticket = "tls12"}
      /\ transcript' = <<IF "hrr" \in facts THEN SecondHello ELSE FirstHello>>
      /\ pending' = rec.msgs
      /\ UNCHANGED <<conf, fin, wire, rkeys, wkeys, srv>>
  BY DEF Begin12
<1>2. wire \in Seq(AllMsgs) /\ rec.msgs \in Seq(ServerMsgs) /\ AwaitsHello
  BY BodyCases DEF ViewInv, Sent, SentRec, Hashing
<1>3. TypeOK'
  <2>1. Len(inbox') = 0 /\ MaxInbox \in Nat
    BY ConfigAssumption
  <2>2. /\ facts' \subseteq Facts
        /\ \A f \in {"ech", "ech_hrr", "psk", "abbreviated"} : f \in facts' <=> f \in facts
    BY <1>1 DEF ViewInv, TypeOK, Facts
  <2>3. drv' \in Drivers /\ st' \in States /\ drv' \in Reassembling
    BY <1>1 DEF Drivers, States, Reassembling
  <2>4. QED
    BY <1>1, <2>1, <2>2, <2>3 DEF ViewInv, TypeOK
<1>4. Sent'
  <2>1. inbox' \in Seq(SentRec)
    OBVIOUS
  <2>2. "resumed" \in facts' => conf'.ticket = "tls12"
    BY <1>1 DEF ViewInv, Sent
  <2>3. QED
    BY <1>1, <1>2, <2>1, <2>2 DEF ViewInv, Sent
<1>5. Queue' /\ Versions'
  BY <1>1 DEF Queue, Versions
<1>6. Hashing'
  <2>1. ASSUME "hrr" \notin facts' PROVE Exact'
    <3>1. /\ "hrr" \notin facts /\ transcript' = <<FirstHello>>
          /\ HandshakePart(wire) = <<FirstHello>> /\ ~Has(wire, "ClientHello2")
      BY <1>1, <1>2, <2>1 DEF AwaitsHello
    <3>2. ~ServerAccepts(wire)
      BY <1>2 DEF AwaitsHello, ServerAccepts, Has
    <3>3. FirstHello.type = "ClientHello"
      BY ServerTypes DEF FirstHello, PlainTypes
    <3>4. Hashed(wire, FirstHello) = FirstHello
      BY <3>1, <3>2, <3>3 DEF Hashed
    <3>5. Reference(wire) = <<FirstHello>>
      BY <3>1, <3>4, ReferenceShort
    <3>6. Reference(wire)' = Reference(wire)
      BY <1>1, ReferencePrimed
    <3>7. QED
      BY <3>1, <3>5, <3>6 DEF Exact
  <2>2. QED
    BY <1>1, <1>2, <2>1 DEF Hashing, AwaitsHello
<1>7. FinRight'
  BY <1>1 DEF ViewInv, FinRight
<1>8. QED
  BY <1>3, <1>4, <1>5, <1>6, <1>7 DEF ViewInv

(* The record that answers the ClientHello.                                *)
LEMMA ReadHelloView ==
    ASSUME ViewInv, ReadHello
    PROVE  ViewInv'
<1> DEFINE rec == Head(inbox)
           m == IF rec.msgs = <<>> THEN rec.cut ELSE rec.msgs[1]
<1>1. drv = "WaitServerHello" /\ ~conf.quic /\ inbox # <<>> /\ rec.kind = "hs"
  BY DEF ReadHello
<1>2. /\ rec \in SentRec /\ Tail(inbox) = <<>> /\ Len(inbox) = 1 /\ rec = inbox[1]
      /\ rec.msgs \in Bodies /\ rec.cut \in CutMsgs /\ rec.msgs \in Seq(ServerMsgs)
  BY <1>1, InboxFacts
<1>3. pending = <<>>
  BY <1>1 DEF ViewInv, TypeOK, Reassembling
<1>4. Latest(inbox) = rec /\ rec.cut = srv.cut
  BY <1>1, <1>2 DEF ViewInv, Queue, Latest
<1> HIDE DEF rec
<1>5. srv.version = VersionOf(IF rec.msgs # <<>> THEN rec.msgs[1].type ELSE "none")
  BY <1>1, <1>3, <1>4 DEF ViewInv, Versions, Front
<1>6. rec.msgs # <<>> => m \in ServerMsgs
  BY <1>2
<1>7. CASE /\ m.type = "HelloRetryRequest" /\ Len(rec.msgs) = 1 /\ RetryOk(m)
           /\ HelloRetry(m) /\ UNCHANGED pending /\ inbox' = Tail(inbox)
  <2>1. rec.msgs # <<>>
    <3>1. Len(<<>>) = 0
      OBVIOUS
    <3>2. Len(rec.msgs) # 0
      BY <1>7
    <3>3. QED
      BY <3>1, <3>2, Zenon
  <2>2. srv.version = "none" /\ m \in ServerMsgs
    BY <1>5, <1>6, <1>7, <2>1 DEF VersionOf
  <2>3. QED
    BY <1>1, <1>2, <1>3, <1>7, <2>2, RetryView
<1>8. CASE /\ m.type = "ServerHello13" /\ Len(rec.msgs) = 1 /\ HelloOk(m)
           /\ Hello13(m) /\ UNCHANGED pending /\ inbox' = Tail(inbox)
  <2>1. rec.msgs # <<>>
    <3>1. Len(<<>>) = 0
      OBVIOUS
    <3>2. Len(rec.msgs) # 0
      BY <1>8
    <3>3. QED
      BY <3>1, <3>2, Zenon
  <2>2. srv.version = "tls13" /\ m \in ServerMsgs /\ pending' \in Seq(ServerMsgs)
    BY <1>3, <1>5, <1>6, <1>8, <2>1 DEF VersionOf
  <2>3. QED
    BY <1>1, <1>2, <1>8, <2>2, Hello13View
<1>9. CASE m.type = "ServerHello12" /\ Begin12(rec) /\ inbox' = Tail(inbox)
  <2>1. CASE rec.msgs # <<>>
    <3>1. srv.version = "tls12"
      BY <1>5, <1>9, <2>1 DEF VersionOf
    <3>2. QED
      BY <1>1, <1>2, <1>9, <3>1, Begin12View
  <2>2. CASE rec.msgs = <<>>
    <3>1. srv.version = "none" /\ srv.cut.type = "ServerHello12"
      BY <1>4, <1>5, <1>9, <2>2 DEF VersionOf
    <3>2. QED
      BY <1>1, <1>2, <1>9, <2>2, <3>1, Begin12View
  <2>3. QED
    BY <2>1, <2>2
<1>10. CASE Fails(Seen(rec))
  BY <1>2, <1>10, FailuresView
<1>11. QED
  BY <1>7, <1>8, <1>9, <1>10 DEF ReadHello, rec

(* The message of the CRYPTO stream that answers it.                       *)
LEMMA QuicHelloView ==
    ASSUME ViewInv, QuicHello
    PROVE  ViewInv'
<1> DEFINE m == Head(pending)
<1>1. drv = "WaitServerHello" /\ conf.quic /\ pending # <<>>
  BY DEF QuicHello
<1>2. inbox = <<>> /\ pending \in Bodies /\ pending \in Seq(ServerMsgs)
  BY <1>1 DEF ViewInv, Queue, Sent
<1>3. m = pending[1] /\ m \in ServerMsgs /\ Tail(pending) \in Seq(ServerMsgs)
  BY <1>1, <1>2
<1>4. srv.version = VersionOf(m.type)
  BY <1>1, <1>3 DEF ViewInv, Versions, Front
<1> HIDE DEF m
<1>5. CASE /\ m.type = "HelloRetryRequest" /\ RetryOk(m) /\ HelloRetry(m)
           /\ pending' = Tail(pending) /\ UNCHANGED inbox
  <2>1. pending = <<m>>
    BY <1>1, <1>2, <1>3, <1>5, RetryAlone
  <2>2. Tail(<<m>>) = <<>>
    OBVIOUS
  <2>3. srv.version = "none"
    BY <1>4, <1>5 DEF VersionOf
  <2>4. QED
    BY <1>1, <1>2, <1>3, <1>5, <2>1, <2>2, <2>3, RetryView
<1>6. CASE /\ m.type = "ServerHello13" /\ HelloOk(m) /\ Hello13(m)
           /\ pending' = Tail(pending) /\ UNCHANGED inbox
  <2>1. srv.version = "tls13"
    BY <1>4, <1>6 DEF VersionOf
  <2>2. QED
    BY <1>1, <1>2, <1>3, <1>6, <2>1, Hello13View
<1>7. CASE Fails(<<m>>)
  BY <1>1, <1>7, FailuresView DEF m
<1>8. QED
  BY <1>5, <1>6, <1>7 DEF QuicHello, m

(* Reading a record of handshake messages.                                 *)
LEMMA TakeRecordView ==
    ASSUME ViewInv, inbox # <<>>, Head(inbox).kind = "hs", pending = <<>>,
           drv \in Reassembling \/ (conf.quic /\ drv = "WaitServerHello"),
           pending' = Head(inbox).msgs, inbox' = <<>>,
           UNCHANGED <<conf, drv, st, facts, transcript, fin, wire, rkeys, wkeys, srv>>
    PROVE  ViewInv'
<1> DEFINE rec == Head(inbox)
<1>1. /\ Len(inbox) = 1 /\ rec = inbox[1] /\ rec.kind = "hs"
      /\ rec.msgs \in Bodies /\ rec.msgs \in Seq(ServerMsgs)
  BY InboxFacts
<1>2. Latest(inbox) = rec
  BY <1>1 DEF Latest
<1> HIDE DEF rec
<1>3. pending' = rec.msgs
  BY DEF rec
<1>4. TypeOK'
  <2>1. Len(inbox') = 0 /\ MaxInbox \in Nat
    BY <1>1, ConfigAssumption
  <2>2. QED
    BY <2>1 DEF ViewInv, TypeOK
<1>5. Sent'
  <2>1. inbox' \in Seq(SentRec)
    BY <1>1
  <2>2. QED
    BY <1>1, <1>3, <2>1 DEF ViewInv, Sent
<1>6. Queue'
  BY <1>1, <1>3 DEF ViewInv, Queue
<1>7. Versions'
  <2>1. Front' = Front
    BY <1>1, <1>2, <1>3 DEF Front
  <2>2. VersionOf(Front)' = VersionOf(Front)
    BY <2>1 DEF VersionOf
  <2>3. QED
    BY <2>2 DEF ViewInv, Versions
<1>8. Hashing'
  BY HashingKept DEF ViewInv
<1>9. FinRight'
  BY FinKept DEF ViewInv, Sent
<1>10. QED
  BY <1>4, <1>5, <1>6, <1>7, <1>8, <1>9 DEF ViewInv

(* What is not hashed leaves the hashes alone.                             *)
LEMMA SkippedKept ==
    ASSUME Hashing, drv # "Start", wire \in Seq(AllMsgs), NEW t \in {"CCS", "AppData"},
           wire' = Append(wire, Plain(t)),
           conf' = conf, transcript' = transcript, drv' = drv, st' = st,
           \A f \in {"hrr"} : f \in facts' <=> f \in facts
    PROVE  Hashing'
<1> DEFINE m == Plain(t)
<1>1. m \in AllMsgs /\ m.type = t
  BY ServerTypes DEF PlainTypes
<1> HIDE DEF m
<1>2. wire' = Append(wire, m)
  BY DEF m
<1>3. \A u : Has(wire', u) <=> Has(wire, u) \/ u = t
  BY <1>1, <1>2, HasGrows
<1>4. HandshakePart(wire') = HandshakePart(wire)
  BY <1>1, <1>2, PartGrows DEF PartStep, Unhashed
<1>5. Reference(Append(wire, m)) = Reference(wire)
  BY <1>1, AcceptsStays, ReferenceGrows DEF PartStep, Unhashed
<1>6. Reference(wire)' = Reference(wire)
  BY <1>2, <1>5, ReferencePrimed
<1>7. Exact' <=> Exact
  BY <1>6 DEF Exact
<1>8. AwaitsHello => AwaitsHello'
  BY <1>3, <1>4 DEF AwaitsHello
<1>9. QED
  BY <1>3, <1>7, <1>8 DEF Hashing

(* feed(), a flight, and the records that hold no handshake message.       *)
LEMMA ReadView ==
    ASSUME ViewInv, QuicFeed \/ ReadFlight \/ ReadOther
    PROVE  ViewInv'
<1>1. inbox # <<>>
  BY DEF QuicFeed, ReadFlight, ReadOther
<1>2. /\ Head(inbox) \in SentRec /\ Head(inbox) = inbox[1] /\ 1 \in DOMAIN inbox
      /\ Head(inbox).msgs \in Seq(ServerMsgs)
  BY <1>1, InboxFacts DEF ViewInv, Sent
<1>3. CASE QuicFeed
  <2>1. conf.quic /\ drv \in {"WaitServerHello", "Tls13Encrypted"}
    BY <1>3 DEF QuicFeed
  <2>2. pending = <<>> /\ Head(inbox).kind = "hs"
    BY <1>1, <1>2, <2>1 DEF ViewInv, Queue
  <2>3. pending' = <<>> \o Head(inbox).msgs
    BY <1>3, <2>2 DEF QuicFeed
  <2>4. <<>> \o Head(inbox).msgs = Head(inbox).msgs
    BY <1>2
  <2>5. Tail(inbox) = <<>>
    BY <1>1, <2>2, InboxFacts
  <2>6. QED
    BY <1>1, <1>3, <2>1, <2>2, <2>3, <2>4, <2>5, TakeRecordView DEF QuicFeed, Reassembling
<1>4. CASE ReadFlight
  <2>1. Head(inbox).kind = "hs"
    BY <1>4 DEF ReadFlight
  <2>2. Tail(inbox) = <<>>
    BY <1>1, <2>1, InboxFacts
  <2>3. QED
    BY <1>1, <1>2, <1>4, <2>2, TakeRecordView, FailuresView DEF ReadFlight
<1>5. CASE ReadOther
  <2> DEFINE rec == Head(inbox)
  <2>1. CASE Fails(Seen(rec))
    BY <1>2, <2>1, FailuresView
  <2>2. CASE /\ rec.kind = "ccs" /\ inbox' = Tail(inbox)
             /\ wire' = Append(wire, Plain("CCS"))
             /\ UNCHANGED <<conf, drv, st, facts, transcript, fin, rkeys, wkeys,
                            pending, partial, srv>>
    <3>1. ~conf.quic /\ drv \in {"WaitServerHello"} \cup Reassembling /\ pending = <<>>
      BY <1>5 DEF ReadOther
    <3>2. /\ inbox' \in Seq(SentRec) /\ Len(inbox') <= MaxInbox
          /\ \A i \in 1 .. Len(inbox') - 1 : inbox'[i].kind = "ccs"
          /\ inbox' # <<>> /\ Latest(inbox)'.kind = "hs" => Latest(inbox)'.cut = srv'.cut
          /\ conf'.quic => inbox' = <<>>
      BY <1>1, <2>2, InboxTail
    <3>3. Plain("CCS") \in AllMsgs /\ Plain("CCS").type = "CCS" /\ wire \in Seq(AllMsgs)
      BY ServerTypes DEF PlainTypes, ViewInv, Sent
    <3>4. wire' \in Seq(AllMsgs)
      BY <2>2, <3>3
    <3>5. TypeOK'
      BY <2>2, <3>2 DEF ViewInv, TypeOK
    <3>6. Sent'
      BY <2>2, <3>2, <3>4 DEF ViewInv, Sent
    <3>7. Queue'
      BY <2>2, <3>1, <3>2 DEF ViewInv, Queue
    <3>8. Versions'
      <4>1. CASE drv = "WaitServerHello"
        <5>1. VersionOf(Front)' = VersionOf(Front)
          <6>1. CASE inbox' = <<>>
            <7>1. Front' = "none"
              BY <2>2, <3>1, <6>1 DEF Front
            <7>2. Len(inbox) = 1
              <8>1. Len(Tail(inbox)) = Len(inbox) - 1 /\ Len(inbox) \in Nat
                BY <1>1, InboxFacts
              <8>2. Tail(inbox) = <<>>
                BY <2>2, <6>1, Zenon
              <8>3. Len(<<>>) = 0
                OBVIOUS
              <8>4. Len(Tail(inbox)) = 0
                BY <8>2, <8>3, Zenon
              <8>5. QED
                BY <8>1, <8>4
            <7>3. Latest(inbox).kind = "ccs"
              BY <1>2, <2>2, <7>2 DEF Latest
            <7>4. Front = "none"
              BY <3>1, <7>3 DEF Front
            <7>5. QED
              BY <7>1, <7>4 DEF VersionOf
          <6>2. CASE inbox' # <<>>
            <7>1. Latest(Tail(inbox)) = Latest(inbox)
              BY <1>1, <2>2, <6>2, InboxFacts
            <7>2. Latest(inbox)' = Latest(inbox)
              BY <2>2, <7>1 DEF Latest
            <7>3. QED
              BY <1>1, <2>2, <6>2, <7>2 DEF Front, VersionOf
          <6>3. QED
            BY <6>1, <6>2
        <5>2. QED
          BY <2>2, <4>1, <5>1 DEF ViewInv, Versions
      <4>2. CASE drv # "WaitServerHello"
        BY <1>1, <2>2, <3>1, <4>2 DEF ViewInv, Versions, Reassembling
      <4>3. QED
        BY <4>1, <4>2
    <3>9. Hashing'
      BY <2>2, <3>1, <3>3, SkippedKept DEF ViewInv, Reassembling
    <3>10. FinRight'
      <4>1. fin = NoFin /\ ~Has(wire, "ClientFinished")
        BY <3>1 DEF ViewInv, FinRight, Reassembling
      <4>2. ~Has(wire, "ClientFinished")'
        BY <2>2, <3>3, <4>1, HasGrows
      <4>3. QED
        BY <2>2, <4>1, <4>2 DEF FinRight
    <3>11. QED
      BY <3>5, <3>6, <3>7, <3>8, <3>9, <3>10 DEF ViewInv
  <2>3. QED
    BY <1>5, <2>1, <2>2 DEF ReadOther
<1>6. QED
  BY <1>3, <1>4, <1>5

(* A message of the server is processed.                                   *)
LEMMA OneMoreView ==
    ASSUME ViewInv, NEW m \in ServerMsgs, NEW new,
           drv \in {"Tls13Encrypted", "Tls12ServerFlight"},
           drv = "Tls13Encrypted" => m.type \notin {"ServerHello13", "ServerHello12"},
           drv = "Tls12ServerFlight" =>
             /\ st' # "WaitServerHello"
             /\ st = "WaitServerHello" => m.type = "ServerHello12",
           st' \in States, facts' = new, new \subseteq Facts,
           \A f \in {"hrr", "ech", "ech_hrr", "psk", "abbreviated"} :
              f \in new <=> f \in facts,
           "resumed" \in new => "resumed" \in facts,
           pending # <<>>, pending' = Tail(pending),
           transcript' = Append(transcript, m), wire' = Append(wire, m),
           UNCHANGED <<conf, drv, fin, rkeys, wkeys, inbox, partial, srv>>
    PROVE  ViewInv'
<1>1. /\ wire \in Seq(AllMsgs) /\ pending \in Seq(ServerMsgs) /\ m \in AllMsgs
      /\ m.type \notin Unhashed \cup {"ClientHello", "ClientHello2", "ClientFinished"}
  BY ServerTypes DEF ViewInv, Sent, Unhashed
<1>2. wire' \in Seq(AllMsgs) /\ \A t : Has(wire', t) <=> Has(wire, t) \/ t = m.type
  BY <1>1, HasGrows
<1>3. pending' \in Seq(ServerMsgs)
  BY <1>1
<1>4. TypeOK'
  BY DEF ViewInv, TypeOK, Reassembling
<1>5. Sent'
  BY <1>2, <1>3 DEF ViewInv, Sent
<1>6. Queue'
  BY DEF ViewInv, Queue, Latest
<1>7. Versions'
  BY DEF ViewInv, Versions
<1>8. Hashing'
  <2>1. ASSUME Exact, \/ m.type \notin {"ServerHello13", "ServerHello12"}
                      \/ Has(wire, "ServerHello12")
                      \/ m.type = "ServerHello12" /\ ~Has(wire, "ServerHello13")
        PROVE  Exact'
    <3>1. ServerAccepts(Append(wire, m)) <=> ServerAccepts(wire)
      BY <1>1, <2>1, AcceptsStays
    <3>2. Reference(Append(wire, m)) = Append(Reference(wire), m)
      BY <1>1, <3>1, ReferenceGrows DEF PartStep
    <3>3. Reference(wire)' = Append(Reference(wire), m)
      BY <3>2, ReferencePrimed
    <3>4. QED
      BY <2>1, <3>3 DEF Exact
  <2>2. CASE drv = "Tls13Encrypted"
    BY <2>1, <2>2 DEF ViewInv, Hashing
  <2>3. CASE drv = "Tls12ServerFlight"
    <3>1. Has(wire', "ServerHello12")
      BY <1>2, <2>3 DEF ViewInv, Hashing
    <3>2. "hrr" \notin facts' => Exact'
      BY <2>1, <2>3 DEF ViewInv, Hashing
    <3>3. QED
      BY <2>3, <3>1, <3>2 DEF Hashing
  <2>4. QED
    BY <2>2, <2>3
<1>9. FinRight'
  BY <1>1, <1>2 DEF ViewInv, FinRight
<1>10. QED
  BY <1>4, <1>5, <1>6, <1>7, <1>8, <1>9 DEF ViewInv

(* The messages of TLS 1.3 before the Finished.                            *)
LEMMA Process13View ==
    ASSUME ViewInv,
           \/ ProcessEncryptedExtensions \/ ProcessCertificateRequest
           \/ ProcessCertificate \/ ProcessCertificateVerify
    PROVE  ViewInv'
<1>1. PICK m, from, to, new :
        /\ m \in ServerMsgs
        /\ Next13(m, from, to, new) /\ to \in States
        /\ new \subseteq {"alps", "cert_request", "verified"}
        /\ m.type \notin {"ServerHello13", "ServerHello12"}
  <2>1. CASE ProcessEncryptedExtensions
    BY <2>1, ServerMsgFacts DEF ProcessEncryptedExtensions, States
  <2>2. CASE ProcessCertificateRequest
    BY <2>2 DEF ProcessCertificateRequest, States
  <2>3. CASE ProcessCertificate
    BY <2>3 DEF ProcessCertificate, States
  <2>4. CASE ProcessCertificateVerify
    BY <2>4 DEF ProcessCertificateVerify, States
  <2>5. QED
    BY <2>1, <2>2, <2>3, <2>4
<1> DEFINE next == facts \cup new
<1>2. /\ next \subseteq Facts /\ ("resumed" \in next => "resumed" \in facts)
      /\ \A f \in {"hrr", "ech", "ech_hrr", "psk", "abbreviated"} : f \in next <=> f \in facts
  BY <1>1 DEF ViewInv, TypeOK, Facts
<1> HIDE DEF next
<1>3. /\ drv = "Tls13Encrypted" /\ pending # <<>> /\ st' = to /\ facts' = next
      /\ transcript' = Append(transcript, m) /\ wire' = Append(wire, m)
      /\ pending' = Tail(pending)
      /\ UNCHANGED <<conf, drv, fin, rkeys, wkeys, inbox, partial, srv>>
  BY <1>1 DEF Next13, next
<1>4. QED
  BY <1>1, <1>2, <1>3, OneMoreView

(* And those of TLS 1.2.                                                   *)
LEMMA Process12View ==
    ASSUME ViewInv,
           \/ ProcessServerHello12 \/ AbbreviatedTicket \/ ProcessCertificate12
           \/ ProcessServerKeyExchange \/ ProcessCertificateStatus
           \/ ProcessCertificateRequest12
    PROVE  ViewInv'
<1>1. facts \subseteq Facts
  BY DEF ViewInv, TypeOK
<1>2. PICK m, to, new :
        /\ m \in ServerMsgs
        /\ Next12(m, to, new) /\ to \in States \ {"WaitServerHello"}
        /\ st = "WaitServerHello" => m.type = "ServerHello12"
        /\ new \subseteq facts \cup {"rsa", "verified", "kx", "cert_request"}
        /\ facts \subseteq new \cup {"resumed"}
  <2>1. CASE ProcessServerHello12
    <3>1. PICK m \in ServerMsgs :
            /\ st = "WaitServerHello" /\ m.type = "ServerHello12"
            /\ Next12(m, IF "resumed" \in facts THEN "WaitCertificateOrAbbreviated"
                                                ELSE "WaitCertificate",
                      facts \cup (m.arg \cap {"rsa"}))
      BY <2>1 DEF ProcessServerHello12
    <3> DEFINE to == IF "resumed" \in facts THEN "WaitCertificateOrAbbreviated"
                                            ELSE "WaitCertificate"
               new == facts \cup (m.arg \cap {"rsa"})
    <3>2. /\ to \in States \ {"WaitServerHello"}
          /\ new \subseteq facts \cup {"rsa", "verified", "kx", "cert_request"}
          /\ facts \subseteq new \cup {"resumed"}
      BY DEF States
    <3>3. QED
      BY <3>1, <3>2
  <2>2. CASE AbbreviatedTicket
    BY <2>2 DEF AbbreviatedTicket, States
  <2>3. CASE ProcessCertificate12
    <3>1. PICK m \in ServerMsgs :
            /\ st \in {"WaitCertificate", "WaitCertificateOrAbbreviated"}
            /\ Next12(m, IF "rsa" \in facts THEN "WaitServerHelloDone"
                                            ELSE "WaitServerKeyExchange",
                      (facts \ {"resumed"}) \cup {f \in {"verified"} : "rsa" \in facts})
      BY <2>3 DEF ProcessCertificate12
    <3> DEFINE to == IF "rsa" \in facts THEN "WaitServerHelloDone"
                                        ELSE "WaitServerKeyExchange"
               new == (facts \ {"resumed"}) \cup {f \in {"verified"} : "rsa" \in facts}
    <3>2. /\ to \in States \ {"WaitServerHello"}
          /\ new \subseteq facts \cup {"rsa", "verified", "kx", "cert_request"}
          /\ facts \subseteq new \cup {"resumed"}
      BY DEF States
    <3>3. QED
      BY <3>1, <3>2
  <2>4. CASE ProcessServerKeyExchange
    BY <2>4 DEF ProcessServerKeyExchange, States
  <2>5. CASE ProcessCertificateStatus
    BY <2>5 DEF ProcessCertificateStatus, States
  <2>6. CASE ProcessCertificateRequest12
    BY <2>6 DEF ProcessCertificateRequest12, States
  <2>7. QED
    BY <2>1, <2>2, <2>3, <2>4, <2>5, <2>6
<1>3. /\ new \subseteq Facts /\ ("resumed" \in new => "resumed" \in facts)
      /\ \A f \in {"hrr", "ech", "ech_hrr", "psk", "abbreviated"} : f \in new <=> f \in facts
  BY <1>1, <1>2 DEF Facts
<1>4. /\ drv = "Tls12ServerFlight" /\ pending # <<>> /\ st' = to /\ facts' = new
      /\ transcript' = Append(transcript, m) /\ wire' = Append(wire, m)
      /\ pending' = Tail(pending)
      /\ UNCHANGED <<conf, drv, fin, rkeys, wkeys, inbox, partial, srv>>
  BY <1>2 DEF Next12
<1>5. QED
  BY <1>2, <1>3, <1>4, OneMoreView

-----------------------------------------------------------------------------

\* What the client says in one message, or does not say.
Said(o) ==
    \/ o = <<>>
    \/ \E t \in {"ClientEncryptedExtensions", "ClientCertificate", "ClientKeyExchange",
                 "ClientFinished"} : o = <<Plain(t)>>

(* What the client says is hashed as it is.                                *)
LEMMA ClientSays ==
    ASSUME NEW w \in Seq(AllMsgs), NEW o, Said(o), NEW r, r = Reference(w)
    PROVE  /\ w \o o \in Seq(AllMsgs) /\ Reference(w \o o) = r \o o
           /\ \A t : Has(w \o o, t) <=> Has(w, t) \/ Has(o, t)
<1>1. CASE o = <<>>
  <2>1. w \o <<>> = w /\ ~(\E t : Has(<<>>, t))
    BY JoinShort DEF Has
  <2>2. \E T : r \in Seq(T)
    BY ReferenceSeq
  <2>3. r \o <<>> = r
    BY <2>2, JoinShort
  <2>4. QED
    BY <1>1, <2>1, <2>3
<1>2. CASE o # <<>>
  <2>1. PICK t \in {"ClientEncryptedExtensions", "ClientCertificate", "ClientKeyExchange",
                    "ClientFinished"} : o = <<Plain(t)>>
    BY <1>2 DEF Said
  <2> DEFINE m == Plain(t)
  <2>2. m \in AllMsgs /\ m.type = t
    BY ServerTypes DEF PlainTypes
  <2>3. PICK T : AllMsgs \subseteq T /\ r \in Seq(T)
    BY ReferenceSeq
  <2>4. m \in T
    BY <2>2, <2>3
  <2>5. r \o <<m>> = Append(r, m)
    BY <2>3, <2>4, JoinShort
  <2>6. w \o <<m>> = Append(w, m) /\ o = <<m>>
    BY <2>1, <2>2, JoinShort
  <2> HIDE DEF m
  <2>7. Reference(Append(w, m)) = Append(r, m)
    <3>1. ServerAccepts(Append(w, m)) <=> ServerAccepts(w)
      BY <2>2, AcceptsStays
    <3>2. QED
      BY <2>2, <3>1, ReferenceGrows DEF PartStep, Unhashed
  <2>8. Append(w, m) \in Seq(AllMsgs) /\ \A u : Has(Append(w, m), u) <=> Has(w, u) \/ m.type = u
    BY <2>2, HasGrows
  <2>9. \A u : Has(<<m>>, u) <=> m.type = u
    BY HasOne
  <2>10. QED
    BY <2>5, <2>6, <2>7, <2>8, <2>9
<1>3. QED
  BY <1>1, <1>2

(* The client says its Finished.                                           *)
LEMMA FinSaid ==
    ASSUME NEW w \in Seq(AllMsgs), ~Has(w, "ClientFinished"),
           wire' = w \o <<Plain("ClientFinished")>>, conf' = conf,
           fin'.over = Reference(w),
           fin'.keys = IF srv'.version = "tls13" THEN "handshake" ELSE "app"
    PROVE  \E n \in DOMAIN wire' : FinAt(n)'
<1> DEFINE m == Plain("ClientFinished")
           n == Len(w) + 1
<1>1. m \in AllMsgs /\ m.type = "ClientFinished"
  BY ServerTypes DEF PlainTypes
<1>2. wire' = Append(w, m)
  BY <1>1, JoinShort
<1> HIDE DEF m
<1>3. /\ DOMAIN wire' = 1 .. n /\ n \in Nat \ {0} /\ wire'[n] = m
      /\ \A i \in 1 .. Len(w) : wire'[i] = w[i] /\ i \in DOMAIN w
  BY <1>1, <1>2
<1>4. \A j \in DOMAIN wire' : wire'[j].type = "ClientFinished" <=> j = n
  <2>1. TAKE j \in DOMAIN wire'
  <2>2. j # n => j \in 1 .. Len(w)
    BY <1>3
  <2>3. QED
    BY <1>1, <1>3, <2>2 DEF Has
<1>5. w = SubSeq(wire', 1, n - 1)
  <2>1. n - 1 = Len(w)
    BY <1>3
  <2>2. wire' \in Seq(AllMsgs) /\ Len(wire') = Len(w) + 1
    BY <1>1, <1>2
  <2> DEFINE v == SubSeq(wire', 1, Len(w))
  <2>3. v \in Seq(AllMsgs) /\ Len(v) = Len(w) /\ \A i \in 1 .. Len(w) : v[i] = wire'[i]
    BY <2>2
  <2> HIDE DEF v
  <2>4. v = w
    BY <1>3, <2>3, SeqEqual
  <2>5. QED
    BY <2>1, <2>4 DEF v
<1>6. Reference(w)' = Reference(w)
  BY ReferenceKept
<1>7. n \in DOMAIN wire'
  BY <1>3
<1> HIDE DEF n
<1>8. FinAt(n)'
  BY <1>4, <1>5, <1>6 DEF FinAt
<1>9. QED
  BY <1>7, <1>8

(* What the client may say.                                                *)
LEMMA SaidFacts ==
    /\ Said(ClientExtensions) /\ Said(ClientCertificate) /\ Said(<<>>)
    /\ Said(<<Plain("ClientKeyExchange")>>) /\ Said(<<Plain("ClientFinished")>>)
    /\ \A t : ~Has(<<>>, t)
    /\ \A t \in {"ClientFinished", "ServerHello12"} :
         /\ ~Has(ClientExtensions, t) /\ ~Has(ClientCertificate, t)
         /\ ~Has(<<Plain("ClientKeyExchange")>>, t)
    /\ ~Has(<<Plain("ClientFinished")>>, "ServerHello12")
<1>1. /\ Said(ClientExtensions) /\ Said(ClientCertificate) /\ Said(<<>>)
      /\ Said(<<Plain("ClientKeyExchange")>>) /\ Said(<<Plain("ClientFinished")>>)
  BY DEF Said, ClientExtensions, ClientCertificate
<1>2. \A t : ~Has(<<>>, t)
  BY DEF Has
<1>3. ASSUME NEW u \in {"ClientEncryptedExtensions", "ClientCertificate", "ClientKeyExchange",
                        "ClientFinished"}
      PROVE  \A t : Has(<<Plain(u)>>, t) <=> t = u
  <2>1. Plain(u).type = u
    BY ServerTypes DEF PlainTypes
  <2>2. QED
    BY <2>1, HasOne
<1>4. QED
  BY <1>1, <1>2, <1>3 DEF ClientExtensions, ClientCertificate

(* Client and server agree on the Finished of TLS 1.3.                     *)
LEMMA Finish13View ==
    ASSUME ViewInv, Finish13
    PROVE  ViewInv'
<1> DEFINE m == Head(pending)
           hashed == Append(transcript, m) \o ClientExtensions \o ClientCertificate
           c == IF conf.quic THEN <<>> ELSE ClientCertificate
           w1 == Append(wire, m)
           w2 == w1 \o ClientExtensions
           w3 == w2 \o c
<1>1. /\ drv = "Tls13Encrypted" /\ Len(pending) = 1 /\ GoodFinished(m)
      /\ fin' = [keys |-> wkeys, over |-> hashed]
      /\ wire' = w3 \o <<Plain("ClientFinished")>>
      /\ drv' = "Complete" /\ st' = "Connected" /\ facts' = facts \cup {"finished"}
      /\ rkeys' = "app" /\ wkeys' = "app" /\ pending' = <<>>
      /\ UNCHANGED <<conf, inbox, srv>>
  BY DEF Finish13, Ends13
<1>2. /\ m.type = "Finished" /\ transcript = Reference(wire)
  BY <1>1 DEF GoodFinished
<1>3. /\ wire \in Seq(AllMsgs) /\ wkeys = "handshake" /\ srv.version = "tls13"
      /\ ~Has(wire, "ClientFinished")
  BY <1>1 DEF ViewInv, Sent, Versions, FinRight
<1>4. m \in AllMsgs
  <2>1. Len(<<>>) = 0
    OBVIOUS
  <2>2. Len(pending) # 0
    BY <1>1
  <2>3. pending # <<>>
    BY <2>1, <2>2, Zenon
  <2>4. m \in ServerMsgs
    BY <2>3 DEF ViewInv, Sent
  <2>5. QED
    BY <2>4, ServerTypes
<1> HIDE DEF m
<1>5. /\ w1 \in Seq(AllMsgs) /\ Reference(w1) = Append(transcript, m)
      /\ ~Has(w1, "ClientFinished")
  <2>1. ServerAccepts(Append(wire, m)) <=> ServerAccepts(wire)
    BY <1>2, <1>3, <1>4, AcceptsStays
  <2>2. Reference(Append(wire, m)) = Append(transcript, m)
    BY <1>2, <1>3, <1>4, <2>1, ReferenceGrows DEF PartStep, Unhashed
  <2>3. QED
    BY <1>2, <1>3, <1>4, <2>2, HasGrows
<1> DEFINE r1 == Append(transcript, m)
           r2 == r1 \o ClientExtensions
<1> HIDE DEF w1, r1
<1>6. w2 \in Seq(AllMsgs) /\ Reference(w2) = r2 /\ ~Has(w2, "ClientFinished")
  <2> DEFINE o == ClientExtensions
  <2>1. Said(o) /\ ~Has(o, "ClientFinished")
    BY SaidFacts
  <2> HIDE DEF o
  <2>2. Reference(w1) = r1
    BY <1>5 DEF r1
  <2>3. /\ w1 \o o \in Seq(AllMsgs) /\ Reference(w1 \o o) = r1 \o o
        /\ \A t : Has(w1 \o o, t) <=> Has(w1, t) \/ Has(o, t)
    BY <1>5, <2>1, <2>2, ClientSays
  <2>4. QED
    BY <1>5, <2>1, <2>3 DEF o
<1> HIDE DEF w2, r2
<1>7. w3 \in Seq(AllMsgs) /\ Reference(w3) = r2 \o c /\ ~Has(w3, "ClientFinished")
  BY <1>6, SaidFacts, ClientSays
<1>8. hashed = r2 \o ClientCertificate
  BY DEF r1, r2
<1>9. ~(conf.quic /\ "cert_request" \in facts) => c = ClientCertificate
  BY DEF ClientCertificate
<1> HIDE DEF w3, c, hashed
<1>10. ASSUME ~(conf.quic /\ "cert_request" \in facts)
       PROVE  \E n \in DOMAIN wire' : FinAt(n)'
  <2>1. fin'.over = Reference(w3)
    BY <1>1, <1>7, <1>8, <1>9, <1>10
  <2>2. fin'.keys = "handshake" /\ srv'.version = "tls13"
    BY <1>1, <1>3
  <2>3. QED
    BY <1>1, <1>7, <2>1, <2>2, FinSaid
<1>11. wire' \in Seq(AllMsgs)
  BY <1>1, <1>7, SaidFacts, ClientSays
<1>12. TypeOK'
  <2>1. fin'.keys \in Epochs /\ rkeys' \in Epochs /\ wkeys' \in Epochs
    BY <1>1, <1>3 DEF Epochs
  <2>2. drv' \in Drivers /\ st' \in States
    BY <1>1 DEF Drivers, States
  <2>3. facts' \subseteq Facts /\ \A f : f \in facts' <=> f \in facts \/ f = "finished"
    BY <1>1 DEF ViewInv, TypeOK, Facts
  <2>4. QED
    BY <1>1, <2>1, <2>2, <2>3 DEF ViewInv, TypeOK
<1>13. Sent'
  <2>1. pending' \in Seq(ServerMsgs) /\ ("resumed" \in facts' => "resumed" \in facts)
    BY <1>1
  <2>2. QED
    BY <1>1, <1>11, <2>1 DEF ViewInv, Sent
<1>14. Queue'
  BY <1>1 DEF ViewInv, Queue, Latest
<1>15. Versions' /\ Hashing'
  BY <1>1 DEF Versions, Hashing
<1>16. FinRight'
  <2>1. fin' # NoFin
    <3>1. fin'.keys = "handshake" /\ NoFin.keys = "none"
      BY <1>1, <1>3 DEF NoFin
    <3>2. QED
      BY <3>1
  <2>2. "cert_request" \in facts' <=> "cert_request" \in facts
    BY <1>1
  <2>3. QED
    BY <1>1, <1>10, <2>1, <2>2 DEF FinRight
<1>17. QED
  BY <1>12, <1>13, <1>14, <1>15, <1>16 DEF ViewInv

(* The client answers the ServerHelloDone.                                 *)
LEMMA ServerHelloDoneView ==
    ASSUME ViewInv, ProcessServerHelloDone
    PROVE  ViewInv'
<1> DEFINE m == Head(pending)
           k == <<Plain("ClientKeyExchange")>>
           flight == ClientCertificate \o k
           hashed == Append(transcript, m) \o flight
           w1 == Append(wire, m)
           w2 == w1 \o ClientCertificate
           w3 == w2 \o k
<1>1. /\ drv = "Tls12ServerFlight" /\ pending # <<>> /\ m.type = "ServerHelloDone"
      /\ st \in {"WaitServerKeyExchange", "WaitServerHelloDone"}
      /\ fin' = [keys |-> "app", over |-> hashed]
      /\ transcript' = Append(hashed, Plain("ClientFinished"))
      /\ wire' = w1 \o flight \o <<Plain("ClientFinished")>>
      /\ drv' = "Tls12WaitServerFinished" /\ st' = "WaitServerChangeCipherSpec"
      /\ wkeys' = "app" /\ pending' = <<>>
      /\ UNCHANGED <<conf, facts, rkeys, inbox, srv>>
  BY DEF ProcessServerHelloDone
<1>2. /\ wire \in Seq(AllMsgs) /\ srv.version = "tls12" /\ ~Has(wire, "ClientFinished")
      /\ Has(wire, "ServerHello12") /\ ("hrr" \notin facts => Exact)
  BY <1>1 DEF ViewInv, Sent, Versions, FinRight, Hashing
<1>3. m \in AllMsgs
  <2>1. m \in ServerMsgs
    BY <1>1 DEF ViewInv, Sent
  <2>2. QED
    BY <2>1, ServerTypes
<1> HIDE DEF m
<1>4. /\ w1 \in Seq(AllMsgs) /\ Reference(w1) = Append(Reference(wire), m)
      /\ ~Has(w1, "ClientFinished") /\ Has(w1, "ServerHello12")
  <2>1. ServerAccepts(Append(wire, m)) <=> ServerAccepts(wire)
    BY <1>1, <1>2, <1>3, AcceptsStays
  <2>2. Reference(Append(wire, m)) = Append(Reference(wire), m)
    BY <1>1, <1>2, <1>3, <2>1, ReferenceGrows DEF PartStep, Unhashed
  <2>3. QED
    BY <1>1, <1>2, <1>3, <2>2, HasGrows
<1>5. \E T : m \in T /\ Reference(wire) \in Seq(T) /\ AllMsgs \subseteq T
  BY <1>2, <1>3, ReferenceSeq
<1> DEFINE r == Reference(wire)
           r1 == Append(r, m)
           r2 == r1 \o ClientCertificate
<1> HIDE DEF w1
<1>6. w2 \in Seq(AllMsgs) /\ Reference(w2) = r2 /\ ~Has(w2, "ClientFinished")
      /\ Has(w2, "ServerHello12")
  <2> HIDE DEF r1
  <2>1. Reference(w1) = r1
    BY <1>4 DEF r1
  <2> DEFINE o == ClientCertificate
  <2>2. Said(o)
    BY SaidFacts
  <2> HIDE DEF o
  <2>3. /\ w1 \o o \in Seq(AllMsgs) /\ Reference(w1 \o o) = r1 \o o
        /\ \A t : Has(w1 \o o, t) <=> Has(w1, t) \/ Has(o, t)
    BY <1>4, <2>1, <2>2, ClientSays
  <2>4. ~Has(o, "ClientFinished")
    BY SaidFacts DEF o
  <2>5. QED
    BY <1>4, <2>3, <2>4 DEF o
<1> HIDE DEF w2
<1>7. w3 \in Seq(AllMsgs) /\ Reference(w3) = r2 \o k /\ ~Has(w3, "ClientFinished")
      /\ Has(w3, "ServerHello12")
  <2> HIDE DEF r2, k
  <2>1. Said(k) /\ ~Has(k, "ClientFinished") /\ ~Has(k, "ServerHello12")
    BY SaidFacts DEF k
  <2>2. QED
    BY <1>6, <2>1, ClientSays
<1>8. w3 = w1 \o flight /\ r2 \o k = r1 \o flight
  <2>1. PICK T : m \in T /\ r \in Seq(T) /\ AllMsgs \subseteq T
    BY <1>5
  <2>2. r1 \in Seq(T)
    <3> HIDE DEF r
    <3>1. QED
      BY <2>1
  <2>3. /\ ClientCertificate \in Seq(AllMsgs) /\ k \in Seq(AllMsgs)
        /\ ClientCertificate \in Seq(T) /\ k \in Seq(T)
    <3>1. /\ Plain("ClientCertificate") \in AllMsgs /\ Plain("ClientKeyExchange") \in AllMsgs
          /\ Plain("ClientCertificate") \in T /\ Plain("ClientKeyExchange") \in T
      BY <2>1, ServerTypes DEF PlainTypes
    <3>2. <<>> \in Seq(AllMsgs) /\ <<>> \in Seq(T)
      OBVIOUS
    <3>3. QED
      BY <3>1, <3>2 DEF ClientCertificate
  <2> HIDE DEF r1, k
  <2>4. (w1 \o ClientCertificate) \o k = w1 \o (ClientCertificate \o k)
    BY <1>4, <2>3, ConcatAssociative, SMTT(40)
  <2>5. (r1 \o ClientCertificate) \o k = r1 \o (ClientCertificate \o k)
    BY <2>2, <2>3, ConcatAssociative, SMTT(40)
  <2>6. QED
    BY <2>4, <2>5 DEF w2
<1> HIDE DEF w3
<1>9. wire' = w3 \o <<Plain("ClientFinished")>>
  BY <1>1, <1>8
<1> DEFINE r3 == r2 \o k
<1>10. /\ wire' \in Seq(AllMsgs) /\ Has(wire', "ServerHello12")
       /\ Reference(wire)' = r3 \o <<Plain("ClientFinished")>>
  <2> HIDE DEF r3
  <2>1. Reference(w3) = r3
    BY <1>7 DEF r3
  <2> DEFINE f == <<Plain("ClientFinished")>>
  <2>2. Said(f)
    BY SaidFacts
  <2> HIDE DEF f
  <2>3. /\ w3 \o f \in Seq(AllMsgs) /\ Reference(w3 \o f) = r3 \o f
        /\ Has(w3 \o f, "ServerHello12")
    BY <1>7, <2>1, <2>2, ClientSays
  <2>4. Reference(wire)' = Reference(w3 \o f)
    BY <1>1, <1>9, ReferencePrimed DEF f
  <2>5. QED
    BY <1>9, <2>3, <2>4 DEF f
<1>11. ASSUME "hrr" \notin facts PROVE hashed = r3 /\ Exact'
  <2>1. transcript = r
    BY <1>2, <1>11 DEF Exact
  <2>2. hashed = r3
    BY <1>8, <2>1
  <2>3. PICK T : m \in T /\ r \in Seq(T) /\ AllMsgs \subseteq T
    BY <1>5
  <2>4. Append(r3, Plain("ClientFinished")) = r3 \o <<Plain("ClientFinished")>>
    <3>1. r1 \in Seq(T)
      <4> HIDE DEF r
      <4>1. QED
        BY <2>3
    <3>2. Plain("ClientFinished") \in T /\ Plain("ClientKeyExchange") \in T
          /\ Plain("ClientCertificate") \in T
      BY <2>3, ServerTypes DEF PlainTypes
    <3>3. ClientCertificate \in Seq(T) /\ k \in Seq(T)
      <4>1. <<>> \in Seq(T)
        OBVIOUS
      <4>2. QED
        BY <3>2, <4>1 DEF ClientCertificate
    <3> HIDE DEF r1, k
    <3>4. r2 \in Seq(T)
      BY <3>1, <3>3
    <3> HIDE DEF r2
    <3>5. r3 \in Seq(T)
      BY <3>3, <3>4
    <3> HIDE DEF r3
    <3>6. QED
      BY <3>2, <3>5, JoinShort
  <2> HIDE DEF r3, hashed
  <2>5. QED
    BY <1>1, <1>10, <2>2, <2>4 DEF Exact
<1> HIDE DEF r3
<1>12. TypeOK'
  <2>1. fin'.keys \in Epochs /\ wkeys' \in Epochs /\ drv' \in Drivers /\ st' \in States
    BY <1>1 DEF Drivers, States, Epochs
  <2>2. QED
    BY <1>1, <2>1 DEF ViewInv, TypeOK
<1>13. Sent'
  <2>1. pending' \in Seq(ServerMsgs)
    BY <1>1
  <2>2. QED
    BY <1>1, <1>10, <2>1 DEF ViewInv, Sent
<1>14. Queue'
  BY <1>1 DEF ViewInv, Queue, Latest
<1>15. Versions'
  BY <1>1, <1>2 DEF Versions
<1>16. Hashing'
  BY <1>1, <1>10, <1>11 DEF Hashing
<1>17. FinRight'
  <2>1. fin' # NoFin /\ fin'.keys = "app" /\ fin'.over = hashed
    <3>1. fin'.keys = "app" /\ NoFin.keys = "none" /\ fin'.over = hashed
      BY <1>1 DEF NoFin
    <3>2. QED
      BY <3>1
  <2>2. ~RetriedInto12' => "hrr" \notin facts
    BY <1>1, <1>10 DEF RetriedInto12
  <2>3. ASSUME "hrr" \notin facts PROVE \E n \in DOMAIN wire' : FinAt(n)'
    <3>1. fin'.over = Reference(w3)
      BY <1>7, <1>11, <2>1, <2>3 DEF r3
    <3>2. srv'.version = "tls12"
      BY <1>1, <1>2
    <3>3. QED
      BY <1>1, <1>7, <1>9, <2>1, <3>1, <3>2, FinSaid
  <2>4. QED
    BY <1>1, <2>1, <2>2, <2>3 DEF FinRight
<1>18. QED
  BY <1>12, <1>13, <1>14, <1>15, <1>16, <1>17 DEF ViewInv

(* The server's ChangeCipherSpec accepts the ticket.                       *)
LEMMA AbbreviatedCcsView ==
    ASSUME ViewInv, AbbreviatedCcs
    PROVE  ViewInv'
<1> DEFINE t == Tail(inbox)
           r == AfterCcs(t)
           m == Plain("CCS")
<1>1. /\ drv = "Tls12ServerFlight" /\ st = "WaitCertificateOrAbbreviated"
      /\ "resumed" \in facts /\ st' = "WaitServerFinished"
      /\ facts' = (facts \ {"resumed"}) \cup {"abbreviated", "server_ccs"}
      /\ pending = <<>> /\ inbox # <<>> /\ Head(inbox).kind = "ccs" /\ rkeys' = "app"
      /\ inbox' = r
      /\ drv' \in {"Tls12WaitServerFinished", "Tls12Abbreviated"}
      /\ wire' = Append(wire, m)
      /\ UNCHANGED <<conf, transcript, fin, wkeys, pending, srv>>
  BY DEF AbbreviatedCcs, AcceptsTicket
<1>2. /\ wire \in Seq(AllMsgs) /\ inbox \in Seq(SentRec) /\ Has(wire, "ServerHello12")
      /\ srv.version = "tls12" /\ ("hrr" \notin facts => Exact)
      /\ fin = NoFin /\ ~Has(wire, "ClientFinished") /\ conf.ticket = "tls12"
  BY <1>1 DEF ViewInv, Sent, Hashing, Versions, FinRight
<1>3. /\ t \in Seq(SentRec) /\ Len(inbox) \in Nat \ {0} /\ Len(t) = Len(inbox) - 1
      /\ Head(inbox) = inbox[1]
      /\ \A i \in 1 .. Len(inbox) - 1 : t[i] = inbox[i + 1]
  BY <1>1, InboxFacts
<1>4. m \in AllMsgs /\ m.type = "CCS"
  BY ServerTypes DEF PlainTypes
<1> HIDE DEF t, m
<1>5. /\ r \in Seq(SentRec) /\ Len(r) <= Len(t)
      /\ \A i \in 1 .. Len(r) : r[i] = t[i + (Len(t) - Len(r))]
  BY <1>3, AfterCcsPart
<1> HIDE DEF r
<1>6. \A i \in 1 .. Len(r) : r[i] = inbox[i + (Len(inbox) - Len(r))]
  <2>1. TAKE i \in 1 .. Len(r)
  <2>2. Len(r) \in Nat
    BY <1>5
  <2>3. i + (Len(t) - Len(r)) \in 1 .. Len(inbox) - 1
    BY <1>3, <1>5, <2>2
  <2>4. i + (Len(t) - Len(r)) + 1 = i + (Len(inbox) - Len(r))
    BY <1>3, <2>2
  <2>5. r[i] = t[i + (Len(t) - Len(r))]
    BY <1>5
  <2>6. QED
    BY <1>3, <2>3, <2>4, <2>5
<1>7. ~conf.quic
  <2>1. 1 \in DOMAIN inbox
    BY <1>2, <1>3
  <2>2. QED
    BY <1>1, <1>3, <2>1 DEF ViewInv, Queue
<1>8. wire' \in Seq(AllMsgs) /\ \A u : Has(wire', u) <=> Has(wire, u) \/ u = "CCS"
  BY <1>1, <1>2, <1>4, HasGrows
<1>9. TypeOK'
  <2>1. Len(inbox') <= MaxInbox
    <3>1. Len(inbox) <= MaxInbox /\ MaxInbox \in Nat
      BY ConfigAssumption DEF ViewInv, TypeOK
    <3>2. Len(r) \in Nat
      BY <1>5
    <3>3. QED
      BY <1>1, <1>3, <1>5, <3>1, <3>2
  <2>2. /\ facts' \subseteq Facts
        /\ \A f \in {"ech", "ech_hrr", "psk"} : f \in facts' <=> f \in facts
    BY <1>1 DEF ViewInv, TypeOK, Facts
  <2>3. drv' \in Drivers /\ st' \in States /\ rkeys' \in Epochs
    BY <1>1 DEF Drivers, States, Epochs
  <2>4. QED
    BY <1>1, <1>2, <2>1, <2>2, <2>3 DEF ViewInv, TypeOK
<1>10. Sent'
  BY <1>1, <1>2, <1>5, <1>8 DEF ViewInv, Sent
<1>11. Queue'
  <2>1. Len(r) \in Nat
    BY <1>5
  <2>2. ASSUME NEW i \in 1 .. Len(r) - 1 PROVE r[i].kind = "ccs"
    <3>1. i \in 1 .. Len(r) /\ i + (Len(inbox) - Len(r)) \in 1 .. Len(inbox) - 1
      BY <1>3, <1>5, <2>1
    <3>2. r[i] = inbox[i + (Len(inbox) - Len(r))]
      BY <1>6, <3>1
    <3>3. QED
      BY <3>1, <3>2 DEF ViewInv, Queue
  <2>3. ASSUME r # <<>> PROVE Latest(r) = Latest(inbox)
    <3>1. Len(r) # 0
      BY <1>5, <2>3
    <3>2. Len(r) \in 1 .. Len(r) /\ Len(r) + (Len(inbox) - Len(r)) = Len(inbox)
      BY <1>3, <2>1, <3>1
    <3>3. r[Len(r)] = inbox[Len(inbox)]
      BY <1>6, <3>2
    <3>4. QED
      BY <3>3 DEF Latest
  <2>4. r # <<>> /\ Latest(r).kind = "hs" => Latest(r).cut = srv.cut
    BY <1>1, <2>3 DEF ViewInv, Queue
  <2>5. Latest(inbox)' = Latest(r)
    BY <1>1 DEF Latest
  <2>6. QED
    BY <1>1, <1>7, <2>2, <2>4, <2>5 DEF Queue
<1>12. Versions'
  BY <1>1, <1>2 DEF Versions
<1>13. Hashing'
  <2>1. ServerAccepts(Append(wire, m)) <=> ServerAccepts(wire)
    BY <1>2, <1>4, AcceptsStays
  <2>2. Reference(Append(wire, m)) = Reference(wire)
    BY <1>2, <1>4, <2>1, ReferenceGrows DEF PartStep, Unhashed
  <2>3. Reference(wire)' = Reference(wire)
    BY <1>1, <2>2, ReferencePrimed
  <2>4. "hrr" \notin facts' => Exact'
    BY <1>1, <1>2, <2>3 DEF Exact
  <2>5. QED
    BY <1>1, <1>2, <1>8, <2>4 DEF Hashing
<1>14. FinRight'
  BY <1>1, <1>2, <1>8 DEF FinRight
<1>15. QED
  BY <1>9, <1>10, <1>11, <1>12, <1>13, <1>14 DEF ViewInv

(* The messages of a record of TLS 1.2.                                    *)
LEMMA ReferenceBody ==
    ASSUME NEW w \in Seq(AllMsgs), Has(w, "ServerHello12"), NEW p \in Bodies,
           NEW r, r = Reference(w)
    PROVE  Reference(w \o p) = r \o p
<1>1. PICK T : AllMsgs \subseteq T /\ r \in Seq(T)
  BY ReferenceSeq
<1>2. ServerMsgs \subseteq AllMsgs /\ ServerMsgs \subseteq T
  BY <1>1, ServerTypes
<1>3. CASE p = <<>>
  BY <1>1, <1>3, JoinShort
<1>4. CASE \E m \in ServerMsgs : p = <<m>>
  <2>1. PICK m \in ServerMsgs : p = <<m>>
    BY <1>4
  <2>2. w \o <<m>> = Append(w, m) /\ r \o <<m>> = Append(r, m)
    BY <1>1, <1>2, JoinShort
  <2>3. QED
    BY <2>1, <2>2, ReferenceTakes
<1>5. CASE \E a, b \in ServerMsgs : p = <<a, b>>
  <2>1. PICK a \in ServerMsgs, b \in ServerMsgs : p = <<a, b>>
    BY <1>5
  <2>2. /\ w \o <<a, b>> = Append(Append(w, a), b)
        /\ r \o <<a, b>> = Append(Append(r, a), b)
    BY <1>1, <1>2, JoinShort
  <2> DEFINE v == Append(w, a)
  <2>3. /\ v \in Seq(AllMsgs) /\ Reference(v) = Append(r, a) /\ Has(v, "ServerHello12")
    BY ReferenceTakes
  <2> HIDE DEF v
  <2>4. Reference(Append(v, b)) = Append(Reference(v), b)
    BY <2>3, ReferenceTakes
  <2>5. QED
    BY <2>1, <2>2, <2>3, <2>4 DEF v
<1>6. QED
  BY <1>3, <1>4, <1>5, BodyCases

(* A record that holds a Finished that verifies.                           *)
LEMMA FinishedBody ==
    ASSUME ViewInv, inbox # <<>>, FinishedRecord(Head(inbox))
    PROVE  /\ Head(inbox).msgs[1] \in ServerMsgs /\ Head(inbox).msgs[1].type = "Finished"
           /\ Head(inbox).msgs \in Seq(ServerMsgs) /\ Tail(inbox) = <<>>
           /\ transcript = Reference(wire)
<1> DEFINE p == Head(inbox).msgs
<1>1. /\ Head(inbox).kind = "hs" /\ Len(p) = 1 /\ p[1].type = "Finished"
      /\ transcript = Reference(wire)
  BY DEF FinishedRecord, GoodFinished
<1>2. p \in Seq(ServerMsgs) /\ Tail(inbox) = <<>>
  BY <1>1, InboxFacts
<1> HIDE DEF p
<1>3. p[1] \in ServerMsgs
  <2>1. 1 \in DOMAIN p
    BY <1>1, <1>2
  <2>2. QED
    BY <1>2, <2>1
<1>4. QED
  BY <1>1, <1>2, <1>3 DEF p

(* Client and server agree on both Finished of a resumed session.          *)
LEMMA CompleteAbbreviatedView ==
    ASSUME ViewInv, inbox # <<>>, CompleteAbbreviated
    PROVE  ViewInv'
<1> DEFINE m == Head(inbox).msgs[1]
           f == Plain("ClientFinished")
           w == Append(wire, m)
           hashed == Append(transcript, m)
<1>1. /\ drv = "Tls12Abbreviated" /\ FinishedRecord(Head(inbox))
      /\ fin' = [keys |-> "app", over |-> hashed]
      /\ wire' = wire \o <<m, f>>
      /\ wkeys' = "app" /\ st' = "Connected" /\ drv' = "Complete"
      /\ facts' = facts \cup {"finished"} /\ inbox' = Tail(inbox)
      /\ UNCHANGED <<conf, rkeys, pending, srv>>
  BY DEF CompleteAbbreviated, AbbreviatedFinished
<1>2. /\ m \in ServerMsgs /\ m.type = "Finished" /\ Tail(inbox) = <<>>
      /\ transcript = Reference(wire)
  BY <1>1, FinishedBody
<1>3. /\ wire \in Seq(AllMsgs) /\ srv.version = "tls12" /\ ~Has(wire, "ClientFinished")
      /\ pending = <<>>
  BY <1>1 DEF ViewInv, Sent, Versions, FinRight, TypeOK, Reassembling
<1>4. inbox' = <<>>
  BY <1>1, <1>2, Zenon
<1> HIDE DEF m
<1>5. m \in AllMsgs /\ f \in AllMsgs
  BY <1>2, ServerTypes DEF PlainTypes
<1>6. /\ w \in Seq(AllMsgs) /\ Reference(w) = hashed /\ ~Has(w, "ClientFinished")
  BY <1>2, <1>3, ReferenceTakes
<1>7. wire' = w \o <<f>> /\ wire' \in Seq(AllMsgs)
  <2>1. wire \o <<m, f>> = Append(Append(wire, m), f)
    BY <1>3, <1>5, JoinShort
  <2> HIDE DEF w, f
  <2>2. w \o <<f>> = Append(w, f) /\ Append(w, f) \in Seq(AllMsgs)
    BY <1>5, <1>6, JoinShort
  <2>3. wire' = Append(w, f)
    BY <1>1, <2>1 DEF w
  <2>4. QED
    BY <2>2, <2>3
<1> HIDE DEF w, hashed
<1>8. fin'.over = Reference(w) /\ fin'.keys = "app"
  BY <1>1, <1>6
<1>9. \E n \in DOMAIN wire' : FinAt(n)'
  <2>1. srv'.version = "tls12" /\ conf' = conf
    BY <1>1, <1>3
  <2>2. fin'.keys = IF srv'.version = "tls13" THEN "handshake" ELSE "app"
    BY <1>8, <2>1
  <2>3. QED
    BY <1>6, <1>7, <1>8, <2>1, <2>2, FinSaid
<1>10. TypeOK'
  <2>1. Len(<<>>) = 0 /\ MaxInbox \in Nat
    BY ConfigAssumption
  <2>2. Len(inbox') <= MaxInbox
    BY <1>4, <2>1
  <2>3. /\ facts' \subseteq Facts
        /\ \A a \in {"ech", "ech_hrr", "psk", "abbreviated"} : a \in facts' <=> a \in facts
    BY <1>1 DEF ViewInv, TypeOK, Facts
  <2>4. drv' \in Drivers /\ st' \in States /\ wkeys' \in Epochs /\ fin'.keys \in Epochs
    BY <1>1, <1>8 DEF Drivers, States, Epochs
  <2>5. pending' = <<>> /\ UNCHANGED <<conf, rkeys, srv>>
    BY <1>1, <1>3
  <2>6. QED
    BY <2>2, <2>3, <2>4, <2>5 DEF ViewInv, TypeOK
<1>11. Sent'
  <2>1. inbox' \in Seq(SentRec)
    BY <1>4
  <2>2. "resumed" \in facts' <=> "resumed" \in facts
    BY <1>1
  <2>3. UNCHANGED <<conf, pending, srv>>
    BY <1>1
  <2>4. QED
    BY <1>7, <2>1, <2>2, <2>3 DEF ViewInv, Sent
<1>12. Queue' /\ Versions' /\ Hashing'
  <2>1. drv' = "Complete" /\ pending' = <<>>
    BY <1>1, <1>3
  <2>2. QED
    BY <1>4, <2>1 DEF Queue, Versions, Hashing
<1>13. FinRight'
  <2>1. fin' # NoFin
    <3>1. NoFin.keys = "none"
      BY DEF NoFin
    <3>2. QED
      BY <1>8, <3>1
  <2>2. drv' = "Complete"
    BY <1>1
  <2>3. QED
    BY <1>9, <2>1, <2>2 DEF FinRight
<1>14. QED
  BY <1>10, <1>11, <1>12, <1>13 DEF ViewInv

(* A record read while the client waits for the server's Finished.         *)
LEMMA WaitingView ==
    ASSUME ViewInv, drv = "Tls12WaitServerFinished", inbox # <<>>, inbox' = Tail(inbox),
           NEW x \in Seq(AllMsgs), ~Has(x, "ClientFinished"), wire' = wire \o x,
           drv' \in {drv, "Complete"}, st' \in States, facts' \subseteq Facts,
           \A f \in {"hrr", "ech", "ech_hrr", "psk", "abbreviated", "cert_request",
                     "resumed"} : f \in facts' <=> f \in facts,
           rkeys' \in Epochs, UNCHANGED <<conf, fin, wkeys, pending, srv>>,
           drv' = drv /\ Exact => Exact'
    PROVE  ViewInv'
<1>1. /\ inbox' \in Seq(SentRec) /\ Len(inbox') <= MaxInbox
      /\ \A i \in 1 .. Len(inbox') - 1 : inbox'[i].kind = "ccs"
      /\ inbox' # <<>> /\ Latest(inbox)'.kind = "hs" => Latest(inbox)'.cut = srv'.cut
      /\ conf'.quic => inbox' = <<>>
  BY InboxTail
<1>2. /\ wire \in Seq(AllMsgs) /\ Has(wire, "ServerHello12") /\ srv.version = "tls12"
      /\ ("hrr" \notin facts => Exact) /\ pending = <<>>
  BY DEF ViewInv, Sent, Hashing, Versions, TypeOK, Reassembling
<1>3. wire' \in Seq(AllMsgs) /\ Has(wire', "ServerHello12")
  BY <1>2, HasEither
<1>4. drv' \in {"Tls12WaitServerFinished", "Complete"} /\ drv' \in Drivers
  BY DEF Drivers
<1>5. TypeOK'
  BY <1>1, <1>2, <1>4 DEF ViewInv, TypeOK
<1>6. Sent'
  BY <1>1, <1>3 DEF ViewInv, Sent
<1>7. Queue'
  <2>1. conf'.quic => \A i \in DOMAIN inbox' : inbox'[i].kind = "hs"
    <3>1. DOMAIN <<>> = {}
      OBVIOUS
    <3>2. QED
      BY <1>1, <3>1, Zenon
  <2>2. pending' = <<>> /\ drv' # "WaitServerHello"
    BY <1>2, <1>4
  <2>3. QED
    BY <1>1, <2>1, <2>2 DEF Queue
<1>8. Versions'
  BY <1>2, <1>4 DEF Versions
<1>9. Hashing'
  BY <1>2, <1>3, <1>4 DEF Hashing
<1>10. FinRight'
  <2>1. fin' = NoFin => ~Has(wire, "ClientFinished")'
    BY <1>2, FinStays DEF ViewInv, FinRight
  <2>2. ASSUME fin' # NoFin, ~RetriedInto12',
               ~(conf'.quic /\ "cert_request" \in facts')
        PROVE  \E n \in DOMAIN wire' : FinAt(n)'
    <3>1. ~RetriedInto12
      BY <1>3, <2>2 DEF RetriedInto12
    <3>2. PICK n \in DOMAIN wire : FinAt(n)
      BY <2>2, <3>1 DEF ViewInv, FinRight
    <3>3. n \in DOMAIN wire' /\ FinAt(n)'
      BY <1>2, <3>2, FinStays
    <3>4. QED
      BY <3>3
  <2>3. QED
    BY <1>4, <2>1, <2>2 DEF FinRight
<1>11. QED
  BY <1>5, <1>6, <1>7, <1>8, <1>9, <1>10 DEF ViewInv

(* The server's ChangeCipherSpec, tickets, Finished and data.              *)
LEMMA WaitFinishedView ==
    ASSUME ViewInv,
           \/ WaitFinishedCcs \/ WaitFinishedTicket \/ WaitFinishedDone
           \/ WaitFinishedSkip
    PROVE  ViewInv'
<1>1. /\ drv = "Tls12WaitServerFinished" /\ inbox # <<>> /\ inbox' = Tail(inbox)
      /\ UNCHANGED <<conf, fin, wkeys, pending, srv>> /\ rkeys' \in {rkeys, "app"}
      /\ (drv' = drv /\ st' = st) \/ (drv' = "Complete" /\ st' = "Connected")
  BY DEF WaitFinishedCcs, WaitFinishedTicket, WaitFinishedDone, WaitFinishedSkip
<1>2. /\ wire \in Seq(AllMsgs) /\ Has(wire, "ServerHello12") /\ facts \subseteq Facts
      /\ rkeys' \in Epochs /\ st' \in States /\ drv' \in {drv, "Complete"}
  BY <1>1 DEF ViewInv, Sent, Hashing, TypeOK, Epochs, States
<1>3. /\ Head(inbox).msgs \in Bodies /\ Head(inbox).msgs \in Seq(ServerMsgs)
  BY <1>1, InboxFacts
<1>4. /\ facts' \subseteq Facts
      /\ \A f \in {"hrr", "ech", "ech_hrr", "psk", "abbreviated", "cert_request",
                   "resumed"} : f \in facts' <=> f \in facts
  <2>1. CASE WaitFinishedCcs
    BY <1>2, <2>1 DEF WaitFinishedCcs, Facts
  <2>2. CASE WaitFinishedTicket
    <3>1. facts' = facts \cup {f \in {"stored"} : StoresTicket(Head(inbox))}
      BY <2>2 DEF WaitFinishedTicket
    <3>2. QED
      BY <1>2, <3>1 DEF Facts
  <2>3. CASE WaitFinishedDone
    BY <1>2, <2>3 DEF WaitFinishedDone, Facts
  <2>4. CASE WaitFinishedSkip
    BY <1>2, <2>4 DEF WaitFinishedSkip
  <2>5. QED
    BY <2>1, <2>2, <2>3, <2>4
<1>5. ASSUME NEW t \in {"CCS", "AppData"}, wire' = Append(wire, Plain(t)),
             transcript' = transcript
      PROVE  ViewInv'
  <2> DEFINE m == Plain(t)
  <2>1. m \in AllMsgs /\ m.type = t
    BY ServerTypes DEF PlainTypes
  <2> HIDE DEF m
  <2>2. wire' = Append(wire, m)
    BY <1>5 DEF m
  <2>3. ServerAccepts(Append(wire, m)) <=> ServerAccepts(wire)
    BY <1>2, <2>1, AcceptsStays
  <2>4. Reference(Append(wire, m)) = Reference(wire)
    BY <1>2, <2>1, <2>3, ReferenceGrows DEF PartStep, Unhashed
  <2>5. Reference(wire)' = Reference(wire)
    BY <1>1, <2>2, <2>4, ReferencePrimed
  <2>6. Exact => Exact'
    BY <1>5, <2>5 DEF Exact
  <2> DEFINE x == <<m>>
  <2>7. x \in Seq(AllMsgs) /\ ~Has(x, "ClientFinished")
    BY <2>1, HasOne
  <2>8. wire' = wire \o x
    BY <1>2, <2>1, <2>2, JoinShort
  <2> HIDE DEF x
  <2>9. QED
    BY <1>1, <1>2, <1>4, <2>6, <2>7, <2>8, WaitingView
<1>6. ASSUME wire' = wire \o Head(inbox).msgs,
             drv' = drv => transcript' = transcript \o Head(inbox).msgs
      PROVE  ViewInv'
  <2> DEFINE x == Head(inbox).msgs
  <2>1. x \in Seq(AllMsgs) /\ ~Has(x, "ClientFinished")
    BY <1>3, SeenServers
  <2>2. x \in Bodies /\ wire' = wire \o x /\ (drv' = drv => transcript' = transcript \o x)
    BY <1>3, <1>6
  <2> HIDE DEF x
  <2>3. Reference(wire \o x) = Reference(wire) \o x
    BY <1>2, <2>2, ReferenceBody
  <2>4. Reference(wire)' = Reference(wire) \o x
    BY <1>1, <2>2, <2>3, ReferencePrimed
  <2>5. drv' = drv /\ Exact => Exact'
    BY <2>2, <2>4 DEF Exact
  <2>6. QED
    BY <1>1, <1>2, <1>4, <2>1, <2>2, <2>5, WaitingView
<1>7. CASE WaitFinishedCcs
  BY <1>5, <1>7 DEF WaitFinishedCcs
<1>8. CASE WaitFinishedSkip
  BY <1>5, <1>8 DEF WaitFinishedSkip
<1>9. CASE WaitFinishedTicket
  BY <1>6, <1>9 DEF WaitFinishedTicket
<1>10. CASE WaitFinishedDone
  <2>1. drv' # drv
    BY <1>1, <1>10 DEF WaitFinishedDone
  <2>2. QED
    BY <1>6, <1>10, <2>1 DEF WaitFinishedDone
<1>11. QED
  BY <1>7, <1>8, <1>9, <1>10

(* What the client and the server know of each other, whatever the server  *)
(* sends, in whatever records.                                             *)
THEOREM ViewInvariance == Spec => []ViewInv
<1>1. Init => ViewInv
  <2>1. SUFFICES ASSUME Init PROVE ViewInv
    OBVIOUS
  <2>2. /\ conf \in Configs /\ drv = "Start" /\ st = "Start" /\ facts = {}
        /\ transcript = <<>> /\ fin = NoFin /\ wire = <<>>
        /\ rkeys = "plain" /\ wkeys = "plain" /\ inbox = <<>> /\ pending = <<>>
        /\ srv.version = "none" /\ srv.keys = "plain" /\ srv.sent = 0 /\ srv.cut = NoMsg
    BY <2>1 DEF Init
  <2>3. TypeOK
    <3>1. Len(<<>>) = 0 /\ MaxInbox \in Nat /\ MaxRecords \in Nat
      BY ConfigAssumption
    <3>2. Len(inbox) <= MaxInbox /\ srv.sent <= MaxRecords
      BY <2>2, <3>1
    <3>3. fin.keys = "none"
      BY <2>2 DEF NoFin
    <3>4. drv \in Drivers /\ st \in States /\ rkeys \in Epochs /\ wkeys \in Epochs
      BY <2>2 DEF Drivers, States, Epochs
    <3>5. QED
      BY <2>2, <3>2, <3>3, <3>4 DEF TypeOK
  <2>4. Sent
    <3>1. <<>> \in Seq(AllMsgs) /\ <<>> \in Seq(ServerMsgs) /\ <<>> \in Seq(SentRec)
      OBVIOUS
    <3>2. QED
      BY <2>2, <3>1, ServerTypes DEF Sent, Epochs
  <2>5. Queue
    <3>1. DOMAIN <<>> = {} /\ \A i \in 1 .. Len(<<>>) - 1 : FALSE
      OBVIOUS
    <3>2. (\A i \in 1 .. Len(inbox) - 1 : FALSE) /\ \A i \in DOMAIN inbox : FALSE
      BY <2>2, <3>1, Zenon
    <3>3. QED
      BY <2>2, <3>2 DEF Queue
  <2>6. Versions
    <3>1. Front = "none"
      BY <2>2 DEF Front
    <3>2. QED
      BY <2>2, <3>1 DEF Versions, VersionOf
  <2>7. Hashing
    BY <2>2 DEF Hashing
  <2>8. FinRight
    <3>1. ~Has(<<>>, "ClientFinished")
      BY SaidFacts
    <3>2. QED
      BY <2>2, <3>1 DEF FinRight
  <2>9. QED
    BY <2>3, <2>4, <2>5, <2>6, <2>7, <2>8 DEF ViewInv
<1>2. AuthInv /\ ViewInv /\ [Next]_vars => ViewInv'
  <2>1. SUFFICES ASSUME AuthInv, ViewInv, [Next]_vars PROVE ViewInv'
    OBVIOUS
  <2>2. CASE Tls13Step
    BY <2>1, <2>2, Process13View, Finish13View, FailuresView DEF Tls13Step, Reject13
  <2>3. CASE Tls12Step
    BY <2>1, <2>3, Process12View, ServerHelloDoneView, FailuresView DEF Tls12Step, Reject12
  <2>4. CASE Tls12End
    <3>1. drv = "Tls12Abbreviated" => inbox # <<>>
      BY <2>1 DEF AuthInv, Stage12
    <3>2. inbox # <<>> => Head(inbox) \in SentRec
      BY <2>1, InboxFacts
    <3>3. CASE RejectAbbreviated
      BY <2>1, <3>1, <3>2, <3>3, FailuresView DEF RejectAbbreviated
    <3>4. CASE WaitFinishedFails
      BY <2>1, <3>2, <3>4, FailuresView DEF WaitFinishedFails
    <3>5. CASE CompleteAbbreviated
      <4>1. drv = "Tls12Abbreviated"
        BY <3>5 DEF CompleteAbbreviated
      <4>2. QED
        BY <2>1, <3>1, <3>5, <4>1, CompleteAbbreviatedView
    <3>6. QED
      BY <2>1, <2>4, <3>3, <3>4, <3>5, AbbreviatedCcsView, WaitFinishedView DEF Tls12End
  <2>5. CASE ConnectionLost
    BY <2>1, <2>5, FailuresView DEF ConnectionLost
  <2>6. CASE UNCHANGED vars
    <3>1. UNCHANGED <<conf, drv, st, facts, transcript, fin, wire, rkeys, wkeys, inbox,
                      pending, srv>>
      BY <2>6 DEF vars
    <3>2. TypeOK' /\ Sent' /\ Queue'
      BY <2>1, <3>1 DEF ViewInv, TypeOK, Sent, Queue, Latest
    <3>3. Versions'
      BY <2>1, <3>1 DEF ViewInv, Versions, VersionOf, Front, Latest
    <3>4. Hashing'
      BY <2>1, <3>1, HashingKept DEF ViewInv
    <3>5. FinRight'
      BY <2>1, <3>1, FinKept DEF ViewInv, Sent
    <3>6. QED
      BY <3>2, <3>3, <3>4, <3>5 DEF ViewInv
  <2>7. QED
    BY <2>1, <2>2, <2>3, <2>4, <2>5, <2>6, StartView, ReadHelloView, QuicHelloView,
       ReadView, ServerStepView DEF Next, ClientStep
<1>3. QED
  BY <1>1, <1>2, AuthInvariance, PTL DEF Spec

(* The transcript of the client and its Finished are those of a server     *)
(* that follows the RFCs, through hello retries, ECH, session tickets and  *)
(* records cut and coalesced (process_server_hello, finish_tls13,          *)
(* finish_tls12_full, complete_tls12_abbreviated).                         *)
THEOREM HandshakeIsAgreed == Spec => []HandshakeAgrees
<1>1. ViewInv => HandshakeAgrees
  <2>1. SUFFICES ASSUME ViewInv PROVE TranscriptExact /\ FinishedAgrees
    BY DEF HandshakeAgrees, ViewInv
  <2>2. TranscriptExact
    <3>1. SUFFICES ASSUME drv \notin {"Complete", "Failed"}, transcript # <<>>,
                          ~RetriedInto12
                   PROVE  transcript = Reference(wire)
      BY DEF TranscriptExact
    <3>2. drv # "Start"
      BY <2>1, <3>1 DEF ViewInv, Hashing
    <3>3. CASE drv = "WaitServerHello"
      <4>1. AwaitsHello /\ "hrr" \in facts
        BY <2>1, <3>1, <3>3 DEF ViewInv, Hashing, AwaitsHello
      <4>2. PICK m \in ServerMsgs :
              /\ m.type = "HelloRetryRequest"
              /\ HandshakePart(wire) = <<FirstHello, m, SecondHello>>
              /\ transcript = <<Plain("MessageHash"), m, SecondHello>>
        BY <4>1 DEF AwaitsHello
      <4>3. ~ServerAccepts(wire) /\ Has(wire, "ClientHello2")
        BY <4>1 DEF AwaitsHello, ServerAccepts, Has
      <4>4. FirstHello.type = "ClientHello" /\ SecondHello.type = "ClientHello2"
        BY ServerTypes DEF FirstHello, SecondHello, PlainTypes
      <4>5. /\ Hashed(wire, FirstHello) = Plain("MessageHash")
            /\ Hashed(wire, m) = m /\ Hashed(wire, SecondHello) = SecondHello
        BY <4>2, <4>3, <4>4 DEF Hashed
      <4>6. QED
        BY <4>2, <4>5, ReferenceShort
    <3>4. CASE drv = "Tls13Encrypted"
      BY <2>1, <3>4 DEF ViewInv, Hashing, Exact
    <3>5. CASE drv \in {"Tls12ServerFlight", "Tls12Abbreviated", "Tls12WaitServerFinished"}
      <4>1. "hrr" \notin facts
        BY <2>1, <3>1, <3>5 DEF ViewInv, Hashing, RetriedInto12
      <4>2. QED
        BY <2>1, <3>5, <4>1 DEF ViewInv, Hashing, Exact
    <3>6. QED
      BY <2>1, <3>1, <3>2, <3>3, <3>4, <3>5 DEF ViewInv, TypeOK, Drivers
  <2>3. FinishedAgrees
    <3>1. SUFFICES ASSUME fin # NoFin, ~RetriedInto12,
                          ~(conf.quic /\ "cert_request" \in facts)
                   PROVE  LET at == CHOOSE i \in DOMAIN wire : wire[i].type = "ClientFinished"
                          IN  /\ fin.over = Reference(SubSeq(wire, 1, at - 1))
                              /\ fin.keys = IF srv.version = "tls13" THEN "handshake" ELSE "app"
      BY DEF FinishedAgrees
    <3> DEFINE at == CHOOSE i \in DOMAIN wire : wire[i].type = "ClientFinished"
    <3>2. PICK n \in DOMAIN wire : FinAt(n)
      BY <2>1, <3>1 DEF ViewInv, FinRight
    <3>3. \A j \in DOMAIN wire : wire[j].type = "ClientFinished" <=> j = n
      BY <3>2 DEF FinAt
    <3>4. at \in DOMAIN wire /\ wire[at].type = "ClientFinished"
      BY <3>3, Zenon
    <3> HIDE DEF at
    <3>5. at = n
      BY <3>3, <3>4
    <3>6. /\ fin.over = Reference(SubSeq(wire, 1, at - 1))
          /\ fin.keys = IF srv.version = "tls13" THEN "handshake" ELSE "app"
      BY <3>2, <3>5 DEF FinAt
    <3>7. QED
      BY <3>6 DEF at
  <2>4. QED
    BY <2>2, <2>3
<1>2. QED
  BY <1>1, ViewInvariance, PTL

-----------------------------------------------------------------------------
(* The record stream                                                       *)

InRecord == [msgs : Contents, keys : Nat, no : Nat]
OutRecord == [msgs : {<<"data">>, <<"update">>, <<"close">>}, keys : Nat, no : Nat]

LogType == [sent : Nat, offered : Nat, read : Nat, written : Nat, received : Nat,
            requested : Nat, stored : Nat, coalesced : BOOLEAN, garbled : BOOLEAN,
            over : BOOLEAN]

StreamTypes ==
    /\ read_keys \in [client : Nat, server : Nat]
    /\ write_keys \in [client : Nat, server : Nat]
    /\ inbound \in Seq(InRecord)
    /\ outbound \in Seq(OutRecord) /\ write_buf \in Seq(OutRecord)
    /\ stream \in {"open", "eof", "error"} /\ closed \in BOOLEAN
    /\ log \in LogType

\* The keys of both directions, and the key updates that are not answered.
ReadSound ==
    /\ ReadKeysInStep
    /\ ~log.coalesced => \A i \in DOMAIN inbound : inbound[i].msgs # <<"ticket", "update">>
    /\ log.read + Cardinality(Places(inbound, <<"data">>)) <= log.offered
    /\ write_keys.client + Cardinality(Places(inbound, <<"update_requested">>))
         <= log.requested

WriteSound ==
    /\ Chained(Sealed, write_keys.server, write_keys.client) /\ ~log.garbled
    /\ Len(write_buf) <= MaxWriteBuf + write_keys.client + (IF closed THEN 1 ELSE 0)

CloseSound ==
    /\ CloseIsLast
    /\ ~closed => \A i \in DOMAIN Sealed : Sealed[i].msgs # <<"close">>

WritesKept == WritesConserved /\ log.received <= log.written

StreamInv == StreamTypes /\ ReadSound /\ WriteSound /\ WritesKept /\ CloseSound

(* The contents of a record: only those that end in a KeyUpdate are        *)
(* followed by other keys.                                                 *)
LEMMA ContentsFacts ==
    /\ \A c \in Contents :
         /\ Len(c) \in {1, 2} /\ c # <<>>
         /\ c[Len(c)] \in Updates <=>
               c \in {<<"update">>, <<"update_requested">>, <<"ticket", "update">>}
         /\ c # <<"ticket", "update">> =>
              /\ Head(c) = c[Len(c)]
              /\ (c = <<"data">> <=> Head(c) = "data")
              /\ (c = <<"update_requested">> <=> Head(c) = "update_requested")
              /\ (Head(c) \in Updates <=> c[Len(c)] \in Updates)
         /\ c = <<"ticket", "update">> => Head(c) = "ticket"
         /\ Head(c) \in {"data", "ticket", "update", "update_requested", "close",
                         "warning", "fatal"}
    /\ \A c \in {<<"data">>, <<"update">>, <<"close">>} :
         c[Len(c)] \in Updates <=> c = <<"update">>
    /\ <<"data">> # <<"update">> /\ <<"data">> # <<"close">> /\ <<"update">> # <<"close">>
    /\ <<"data">> # <<"update_requested">>
BY DEF Contents, Updates

-----------------------------------------------------------------------------
(* Chains of records                                                       *)

(* A record sealed with the keys a chain leaves goes on with it.           *)
LEMMA ChainGrows ==
    ASSUME NEW S, NEW s \in Seq(S), NEW r \in S, NEW f, NEW k,
           Chained(s, f, k), r.keys = k
    PROVE  Chained(Append(s, r), f, KeysAfter(r))
<1> DEFINE a == Append(s, r)
<1>1. /\ a \in Seq(S) /\ Len(a) = Len(s) + 1 /\ a[Len(s) + 1] = r /\ a # <<>>
      /\ \A i \in 1 .. Len(s) : a[i] = s[i]
  OBVIOUS
<1> HIDE DEF a
<1>2. CASE s = <<>>
  <2>1. Len(s) = 0 /\ Len(a) = 1 /\ a[1] = r
    BY <1>1, <1>2
  <2>2. QED
    BY <1>1, <1>2, <2>1 DEF Chained, a
<1>3. CASE s # <<>>
  <2>1. Len(s) \in Nat \ {0}
    BY <1>3
  <2>2. a[1].keys = f /\ KeysAfter(a[Len(s)]) = k
    BY <1>1, <1>3, <2>1 DEF Chained
  <2>3. ASSUME NEW i \in 1 .. Len(s) - 1 PROVE a[i + 1].keys = KeysAfter(a[i])
    <3>1. a[i + 1] = s[i + 1] /\ a[i] = s[i]
      BY <1>1, <2>1
    <3>2. QED
      BY <1>3, <3>1 DEF Chained
  <2>4. ASSUME NEW i \in 1 .. Len(a) - 1 PROVE a[i + 1].keys = KeysAfter(a[i])
    <3>1. i \in 1 .. Len(s) - 1 \/ i = Len(s)
      BY <1>1, <2>1
    <3>2. QED
      BY <1>1, <2>2, <2>3, <3>1
  <2>5. QED
    BY <1>1, <2>2, <2>4 DEF Chained, a
<1>4. QED
  BY <1>2, <1>3

(* The first record of a chain is sealed with its first keys, and those it *)
(* leaves are the first of the rest.                                       *)
LEMMA ChainShrinks ==
    ASSUME NEW S, NEW s \in Seq(S), s # <<>>, NEW f, NEW k, Chained(s, f, k)
    PROVE  /\ Head(s).keys = f
           /\ Chained(Tail(s), KeysAfter(Head(s)), k)
<1> DEFINE t == Tail(s)
<1>1. /\ t \in Seq(S) /\ Len(t) = Len(s) - 1 /\ Head(s) = s[1] /\ Len(s) \in Nat \ {0}
      /\ \A i \in 1 .. Len(s) - 1 : t[i] = s[i + 1]
  OBVIOUS
<1>2. Head(s).keys = f
  BY <1>1 DEF Chained
<1>3. /\ \A i \in 1 .. Len(s) - 1 : s[i + 1].keys = KeysAfter(s[i])
      /\ k = KeysAfter(s[Len(s)])
  BY DEF Chained
<1> HIDE DEF t
<1>4. CASE t = <<>>
  <2>1. Len(s) = 1
    BY <1>1, <1>4
  <2>2. QED
    BY <1>1, <1>2, <1>3, <1>4, <2>1 DEF Chained, t
<1>5. CASE t # <<>>
  <2>1. Len(t) \in Nat \ {0}
    BY <1>1, <1>5
  <2>2. t[1].keys = KeysAfter(s[1]) /\ t[Len(t)] = s[Len(s)]
    <3>1. t[1] = s[1 + 1] /\ t[Len(t)] = s[Len(t) + 1] /\ Len(t) + 1 = Len(s)
      BY <1>1, <2>1
    <3>2. s[1 + 1].keys = KeysAfter(s[1])
      BY <1>1, <1>3, <2>1
    <3>3. QED
      BY <3>1, <3>2
  <2>3. ASSUME NEW i \in 1 .. Len(t) - 1 PROVE t[i + 1].keys = KeysAfter(t[i])
    <3>1. i \in 1 .. Len(s) - 1 /\ i + 1 \in 1 .. Len(s) - 1
      BY <1>1, <2>1
    <3>2. t[i] = s[i + 1] /\ t[i + 1] = s[i + 1 + 1]
      BY <1>1, <3>1
    <3>3. QED
      BY <1>3, <3>1, <3>2
  <2>4. QED
    BY <1>1, <1>2, <1>3, <1>5, <2>2, <2>3 DEF Chained, t
<1>6. QED
  BY <1>4, <1>5

-----------------------------------------------------------------------------
(* Counting the records of a kind                                          *)

(* There are finitely many places in a sequence.                           *)
LEMMA PlacesFinite ==
    ASSUME NEW S, NEW s \in Seq(S), NEW c
    PROVE  IsFiniteSet(Places(s, c)) /\ Cardinality(Places(s, c)) \in Nat
<1>1. IsFiniteSet(1 .. Len(s)) /\ Places(s, c) \in SUBSET (1 .. Len(s))
  BY FS_Interval DEF Places
<1>2. IsFiniteSet(Places(s, c))
  BY <1>1, FS_Subset
<1>3. QED
  BY <1>2, FS_CardinalityType

(* One more record is one more place, if it is of the kind.                *)
LEMMA PlacesGrow ==
    ASSUME NEW S, NEW s \in Seq(S), NEW r \in S, NEW c
    PROVE  Cardinality(Places(Append(s, r), c))
             = Cardinality(Places(s, c)) + (IF r.msgs = c THEN 1 ELSE 0)
<1> DEFINE a == Append(s, r)
<1>1. /\ a \in Seq(S) /\ Len(a) = Len(s) + 1 /\ a[Len(s) + 1] = r
      /\ \A i \in 1 .. Len(s) : a[i] = s[i]
  OBVIOUS
<1>2. IsFiniteSet(Places(s, c)) /\ Cardinality(Places(s, c)) \in Nat
  BY PlacesFinite
<1>3. Len(s) + 1 \notin Places(s, c)
  BY DEF Places
<1> HIDE DEF a
<1>4. CASE r.msgs = c
  <2>1. Places(a, c) = Places(s, c) \cup {Len(s) + 1}
    BY <1>1, <1>4 DEF Places
  <2>2. QED
    BY <1>2, <1>3, <1>4, <2>1, FS_AddElement, ZenonT(60) DEF a
<1>5. CASE r.msgs # c
  <2>1. Places(a, c) = Places(s, c)
    BY <1>1, <1>5 DEF Places
  <2>2. QED
    BY <1>2, <1>5, <2>1 DEF a
<1>6. QED
  BY <1>4, <1>5

(* One record less is one place less, if it was of the kind.               *)
LEMMA PlacesShrink ==
    ASSUME NEW S, NEW s \in Seq(S), s # <<>>, NEW c
    PROVE  Cardinality(Places(s, c))
             = Cardinality(Places(Tail(s), c)) + (IF Head(s).msgs = c THEN 1 ELSE 0)
<1> DEFINE t == Tail(s)
           P == Places(t, c)
           Q == Places(s, c) \ {1}
           move == [i \in P |-> i + 1]
<1>1. /\ t \in Seq(S) /\ Len(t) = Len(s) - 1 /\ Head(s) = s[1] /\ 1 \in DOMAIN s
      /\ \A i \in 1 .. Len(s) - 1 : t[i] = s[i + 1]
  OBVIOUS
<1> HIDE DEF t
<1>2. IsFiniteSet(P) /\ Cardinality(P) \in Nat /\ IsFiniteSet(Places(s, c))
      /\ Cardinality(Places(s, c)) \in Nat
  BY <1>1, PlacesFinite
<1>3. \A i \in P : i \in Nat /\ i + 1 \in Q
  BY <1>1 DEF Places
<1>4. \A j \in Q : j - 1 \in P /\ j \in Nat
  BY <1>1 DEF Places
<1>5. move \in Bijection(P, Q)
  <2> HIDE DEF P, Q
  <2>1. move \in [P -> Q]
    BY <1>3
  <2>2. \A i, j \in P : move[i] = move[j] => i = j
    BY <1>3
  <2>3. \A j \in Q : \E i \in P : move[i] = j
    <3>1. ASSUME NEW j \in Q PROVE move[j - 1] = j
      BY <1>4
    <3>2. QED
      BY <1>4, <3>1
  <2> HIDE DEF move
  <2>4. QED
    BY <2>1, <2>2, <2>3 DEF Bijection, Injection, Surjection, IsInjective
<1>6. Cardinality(Q) = Cardinality(P)
  <2> HIDE DEF P, Q, move
  <2>1. ExistsBijection(P, Q)
    BY <1>5 DEF ExistsBijection
  <2>2. QED
    BY <1>2, <2>1, FS_Bijection
<1>7. Cardinality(Q) = IF 1 \in Places(s, c) THEN Cardinality(Places(s, c)) - 1
                                             ELSE Cardinality(Places(s, c))
  BY <1>2, FS_RemoveElement
<1>8. 1 \in Places(s, c) <=> Head(s).msgs = c
  BY <1>1 DEF Places
<1> HIDE DEF P, Q
<1>9. QED
  BY <1>2, <1>6, <1>7, <1>8 DEF P, t

-----------------------------------------------------------------------------
(* What is sealed and not received                                         *)

(* A record added to the buffer comes after all that is sealed.            *)
LEMMA AddedLast ==
    ASSUME NEW S, NEW o \in Seq(S), NEW b \in Seq(S), NEW r \in S
    PROVE  o \o Append(b, r) = Append(o \o b, r)
<1>1. Append(b, r) = b \o <<r>> /\ <<r>> \in Seq(S) /\ o \o b \in Seq(S)
  BY AppendIsConcat
<1>2. o \o (b \o <<r>>) = (o \o b) \o <<r>>
  BY <1>1, ConcatAssociative
<1>3. (o \o b) \o <<r>> = Append(o \o b, r)
  BY <1>1, AppendIsConcat
<1>4. QED
  BY <1>1, <1>2, <1>3

(* The record that arrives is the first of all that are sealed.            *)
LEMMA TakenFirst ==
    ASSUME NEW S, NEW o \in Seq(S), o # <<>>, NEW b \in Seq(S)
    PROVE  /\ o \o b \in Seq(S) /\ o \o b # <<>> /\ Head(o \o b) = Head(o)
           /\ Tail(o \o b) = Tail(o) \o b
<1> DEFINE s == o \o b
           u == Tail(o) \o b
<1>1. /\ s \in Seq(S) /\ Len(s) = Len(o) + Len(b) /\ Len(o) \in Nat \ {0}
      /\ Len(b) \in Nat
  OBVIOUS
<1>2. \A i \in 1 .. Len(o) + Len(b) : s[i] = IF i <= Len(o) THEN o[i] ELSE b[i - Len(o)]
  BY ConcatProperties
<1>3. Tail(o) \in Seq(S) /\ Len(Tail(o)) = Len(o) - 1
      /\ \A i \in 1 .. Len(o) - 1 : Tail(o)[i] = o[i + 1]
  OBVIOUS
<1>4. /\ u \in Seq(S) /\ Len(u) = Len(o) - 1 + Len(b)
      /\ \A i \in 1 .. Len(o) - 1 + Len(b) :
            u[i] = IF i <= Len(o) - 1 THEN Tail(o)[i] ELSE b[i - (Len(o) - 1)]
  BY <1>3, ConcatProperties
<1> HIDE DEF s, u
<1>5. s # <<>> /\ Head(s) = s[1] /\ Head(o) = o[1] /\ s[1] = o[1]
  BY <1>1, <1>2
<1>6. /\ Tail(s) \in Seq(S) /\ Len(Tail(s)) = Len(s) - 1
      /\ \A i \in 1 .. Len(s) - 1 : Tail(s)[i] = s[i + 1]
  BY <1>1, <1>5
<1>7. ASSUME NEW i \in 1 .. Len(Tail(s)) PROVE Tail(s)[i] = u[i]
  <2>1. i \in Nat /\ i \in 1 .. Len(o) + Len(b) - 1 /\ i + 1 \in 1 .. Len(o) + Len(b)
    BY <1>1, <1>6
  <2>2. Tail(s)[i] = s[i + 1]
    BY <1>1, <1>6
  <2>3. CASE i <= Len(o) - 1
    <3>1. i \in 1 .. Len(o) - 1 /\ i + 1 <= Len(o) /\ i \in 1 .. Len(o) - 1 + Len(b)
      BY <1>1, <2>1, <2>3
    <3>2. s[i + 1] = o[i + 1]
      BY <1>2, <2>1, <3>1
    <3>3. u[i] = o[i + 1]
      BY <1>3, <1>4, <2>3, <3>1
    <3>4. QED
      BY <2>2, <3>2, <3>3
  <2>4. CASE ~(i <= Len(o) - 1)
    <3>1. ~(i + 1 <= Len(o)) /\ i \in 1 .. Len(o) - 1 + Len(b)
          /\ i + 1 - Len(o) = i - (Len(o) - 1)
      BY <1>1, <2>1, <2>4
    <3>2. s[i + 1] = b[i + 1 - Len(o)]
      BY <1>2, <2>1, <3>1
    <3>3. u[i] = b[i - (Len(o) - 1)]
      BY <1>4, <2>4, <3>1
    <3>4. QED
      BY <2>2, <3>1, <3>2, <3>3
  <2>5. QED
    BY <2>3, <2>4
<1>8. Len(Tail(s)) = Len(u)
  BY <1>1, <1>4, <1>6
<1>9. Tail(s) = u
  BY <1>4, <1>6, <1>7, <1>8, SeqEqual
<1>10. QED
  BY <1>1, <1>5, <1>9 DEF s, u

(* A write added behind the others keeps their order; what is no data does *)
(* not matter to it.                                                       *)
LEMMA NumbersGrow ==
    ASSUME NEW s \in Seq(OutRecord), NEW r \in OutRecord,
           NEW lo \in Nat, NEW hi \in Nat, lo <= hi, Numbered(s, lo, hi),
           r.msgs = <<"data">> => r.no = hi + 1
    PROVE  Numbered(Append(s, r), lo, IF r.msgs = <<"data">> THEN hi + 1 ELSE hi)
<1> DEFINE d == <<"data">>
           t == Append(s, r)
           D == Places(s, d)
           E == Places(t, d)
<1>1. /\ t \in Seq(OutRecord) /\ Len(t) = Len(s) + 1 /\ t[Len(s) + 1] = r
      /\ \A i \in 1 .. Len(s) : t[i] = s[i]
      /\ DOMAIN s = 1 .. Len(s) /\ DOMAIN t = 1 .. Len(t) /\ Len(s) \in Nat
  OBVIOUS
<1>2. /\ \A i, j \in D : i < j => s[i].no < s[j].no
      /\ {s[i].no : i \in D} = (lo + 1) .. hi
  BY DEF Numbered
<1>3. /\ \A i \in D : i \in 1 .. Len(s) /\ s[i].msgs = d
      /\ \A i \in 1 .. Len(s) : s[i].msgs = d => i \in D
  BY <1>1, Zenon DEF Places
<1>4. /\ \A i \in E : i \in 1 .. Len(t) /\ t[i].msgs = d
      /\ \A i \in 1 .. Len(t) : t[i].msgs = d => i \in E
  BY <1>1, Zenon DEF Places
<1> HIDE DEF D, E, d, t
<1>5. \A i \in D : s[i].no <= hi /\ s[i].no \in Nat
  <2>1. \A i \in D : s[i].no \in (lo + 1) .. hi
    BY <1>2
  <2>2. QED
    BY <2>1
<1>6. \A i \in D : i \in E /\ t[i] = s[i]
  BY <1>1, <1>3, <1>4
<1>7. CASE r.msgs = d
  <2>1. r.no = hi + 1
    BY <1>7 DEF d
  <2>2. \A i \in E : (i \in D /\ t[i] = s[i]) \/ (i = Len(s) + 1 /\ t[i] = r)
    BY <1>1, <1>3, <1>4
  <2>3. Len(s) + 1 \in E
    BY <1>1, <1>4, <1>7
  <2>4. ASSUME NEW i \in E, NEW j \in E, i < j PROVE t[i].no < t[j].no
    <3>1. i \in 1 .. Len(t) /\ j \in 1 .. Len(t)
      BY <1>4
    <3>2. i # Len(s) + 1
      BY <1>1, <2>4, <3>1
    <3>3. i \in D /\ t[i] = s[i]
      BY <2>2, <3>2
    <3>4. QED
      BY <1>2, <1>5, <2>1, <2>2, <2>4, <3>3
  <2>5. ASSUME NEW x \in (lo + 1) .. (hi + 1) PROVE \E i \in E : t[i].no = x
    <3>1. CASE x = hi + 1
      BY <1>1, <2>1, <2>3, <3>1
    <3>2. CASE x # hi + 1
      <4>1. x \in (lo + 1) .. hi
        BY <3>2
      <4>2. PICK i \in D : s[i].no = x
        BY <1>2, <4>1
      <4>3. QED
        BY <1>6, <4>2
    <3>3. QED
      BY <3>1, <3>2
  <2>6. ASSUME NEW i \in E PROVE t[i].no \in (lo + 1) .. (hi + 1)
    <3>1. CASE i \in D /\ t[i] = s[i]
      <4>1. s[i].no \in (lo + 1) .. hi
        BY <1>2, <3>1
      <4>2. QED
        BY <3>1, <4>1
    <3>2. CASE i = Len(s) + 1 /\ t[i] = r
      BY <2>1, <3>2
    <3>3. QED
      BY <2>2, <3>1, <3>2
  <2>7. {t[i].no : i \in E} = (lo + 1) .. (hi + 1)
    BY <2>5, <2>6
  <2>8. Numbered(t, lo, hi + 1)
    BY <2>4, <2>7, Zenon DEF Numbered, E, d
  <2>9. QED
    BY <1>7, <2>8 DEF d, t
<1>8. CASE r.msgs # d
  <2>1. \A i \in E : i \in D /\ t[i] = s[i]
    BY <1>1, <1>3, <1>4, <1>8
  <2>2. E = D
    BY <1>6, <2>1
  <2>3. {t[i].no : i \in E} = {s[i].no : i \in D}
    BY <1>6, <2>2
  <2>4. \A i, j \in E : i < j => t[i].no < t[j].no
    BY <1>2, <2>1
  <2>5. Numbered(t, lo, hi)
    BY <1>2, <2>3, <2>4, Zenon DEF Numbered, E, d
  <2>6. QED
    BY <1>8, <2>5 DEF d, t
<1>9. QED
  BY <1>7, <1>8

(* The first of the writes under way is the one that is due.               *)
LEMMA NumbersShrink ==
    ASSUME NEW s \in Seq(OutRecord), s # <<>>,
           NEW lo \in Nat, NEW hi \in Nat, lo <= hi, Numbered(s, lo, hi)
    PROVE  LET due == IF Head(s).msgs = <<"data">> THEN lo + 1 ELSE lo
           IN  due <= hi /\ Numbered(Tail(s), due, hi)
<1> DEFINE d == <<"data">>
           t == Tail(s)
           D == Places(s, d)
           E == Places(t, d)
<1>1. /\ t \in Seq(OutRecord) /\ Len(t) = Len(s) - 1 /\ Head(s) = s[1]
      /\ \A i \in 1 .. Len(s) - 1 : t[i] = s[i + 1]
      /\ DOMAIN s = 1 .. Len(s) /\ DOMAIN t = 1 .. Len(t) /\ Len(s) \in Nat \ {0}
  OBVIOUS
<1>2. /\ \A i, j \in D : i < j => s[i].no < s[j].no
      /\ {s[i].no : i \in D} = (lo + 1) .. hi
  BY DEF Numbered
<1>3. /\ \A i \in D : i \in 1 .. Len(s) /\ s[i].msgs = d
      /\ \A i \in 1 .. Len(s) : s[i].msgs = d => i \in D
  BY <1>1, Zenon DEF Places
<1>4. /\ \A i \in E : i \in 1 .. Len(t) /\ t[i].msgs = d
      /\ \A i \in 1 .. Len(t) : t[i].msgs = d => i \in E
  BY <1>1, Zenon DEF Places
<1>5. \A i \in D : s[i].no \in (lo + 1) .. hi
  BY <1>2
<1>6. \A x \in (lo + 1) .. hi : \E i \in D : s[i].no = x
  BY <1>2
<1> HIDE DEF D, E, d, t
<1>7. \A i \in E : i + 1 \in D /\ t[i] = s[i + 1] /\ i \in Nat \ {0}
  BY <1>1, <1>3, <1>4
<1>8. \A i \in D : i = 1 \/ (i - 1 \in E /\ t[i - 1] = s[i])
  <2>1. SUFFICES ASSUME NEW i \in D, i # 1 PROVE i - 1 \in E /\ t[i - 1] = s[i]
    OBVIOUS
  <2>2. i \in 1 .. Len(s) /\ i - 1 \in 1 .. Len(t) /\ (i - 1) + 1 = i
    BY <1>1, <1>3, <2>1
  <2>3. t[i - 1] = s[i]
    BY <1>1, <2>2
  <2>4. QED
    BY <1>3, <1>4, <2>2, <2>3
<1>9. \A i, j \in E : i < j => t[i].no < t[j].no
  <2>1. SUFFICES ASSUME NEW i \in E, NEW j \in E, i < j PROVE t[i].no < t[j].no
    OBVIOUS
  <2>2. i + 1 \in D /\ j + 1 \in D /\ i + 1 < j + 1
    BY <1>7, <2>1
  <2>3. QED
    BY <1>2, <1>7, <2>2
<1>10. CASE s[1].msgs = d
  <2>1. 1 \in D
    BY <1>1, <1>3, <1>10
  <2>2. s[1].no \in (lo + 1) .. hi
    BY <1>5, <2>1
  <2>3. lo + 1 <= hi
    BY <2>2
  <2>4. \A i \in E : s[1].no < t[i].no /\ t[i].no \in (lo + 1) .. hi
    <3>1. SUFFICES ASSUME NEW i \in E
                   PROVE  s[1].no < t[i].no /\ t[i].no \in (lo + 1) .. hi
      OBVIOUS
    <3>2. i + 1 \in D /\ t[i] = s[i + 1] /\ 1 < i + 1
      BY <1>7
    <3>3. QED
      BY <1>2, <1>5, <2>1, <3>2
  <2>5. s[1].no = lo + 1
    <3>1. PICK i \in D : s[i].no = lo + 1
      BY <1>6, <2>3
    <3>2. i = 1 \/ s[1].no < lo + 1
      BY <1>8, <2>4, <3>1
    <3>3. QED
      BY <2>2, <3>1, <3>2
  <2>6. ASSUME NEW i \in E PROVE t[i].no \in (lo + 2) .. hi
    BY <2>4, <2>5
  <2>7. ASSUME NEW x \in (lo + 2) .. hi PROVE \E i \in E : t[i].no = x
    <3>1. PICK i \in D : s[i].no = x
      BY <1>6
    <3>2. i # 1
      BY <2>5, <3>1
    <3>3. QED
      BY <1>8, <3>1, <3>2
  <2>8. {t[i].no : i \in E} = (lo + 2) .. hi
    BY <2>6, <2>7
  <2>9. {t[i].no : i \in E} = ((lo + 1) + 1) .. hi
    BY <2>8
  <2>10. Numbered(t, lo + 1, hi)
    BY <1>9, <2>9, Zenon DEF Numbered, E, d
  <2>11. QED
    BY <1>1, <1>10, <2>3, <2>10 DEF d, t
<1>11. CASE s[1].msgs # d
  <2>1. ASSUME NEW i \in E PROVE t[i].no \in (lo + 1) .. hi
    BY <1>5, <1>7
  <2>2. ASSUME NEW x \in (lo + 1) .. hi PROVE \E i \in E : t[i].no = x
    <3>1. PICK i \in D : s[i].no = x
      BY <1>6
    <3>2. i # 1
      BY <1>3, <1>11
    <3>3. QED
      BY <1>8, <3>1, <3>2
  <2>3. {t[i].no : i \in E} = (lo + 1) .. hi
    BY <2>1, <2>2
  <2>4. Numbered(t, lo, hi)
    BY <1>9, <2>3, Zenon DEF Numbered, E, d
  <2>5. QED
    BY <1>1, <1>11, <2>4 DEF d, t
<1>12. QED
  BY <1>10, <1>11

-----------------------------------------------------------------------------
(* The steps of the stream                                                 *)

(* The keys a record leaves.                                               *)
LEMMA KeysLeft ==
    /\ \A r \in OutRecord :
         KeysAfter(r) = IF r.msgs = <<"update">> THEN r.keys + 1 ELSE r.keys
    /\ \A r \in InRecord :
         KeysAfter(r) = IF r.msgs[Len(r.msgs)] \in Updates THEN r.keys + 1 ELSE r.keys
<1>1. ASSUME NEW r \in OutRecord
      PROVE  KeysAfter(r) = IF r.msgs = <<"update">> THEN r.keys + 1 ELSE r.keys
  <2>1. r.msgs \in {<<"data">>, <<"update">>, <<"close">>}
    BY DEF OutRecord
  <2>2. r.msgs[Len(r.msgs)] \in Updates <=> r.msgs = <<"update">>
    BY <2>1, ContentsFacts
  <2>3. QED
    BY <2>2, Zenon DEF KeysAfter
<1>2. QED
  BY <1>1, Zenon DEF KeysAfter

(* What sealing one more record, at the end of all that is sealed, does.   *)
LEMMA SealedGrows ==
    ASSUME StreamInv, NEW r \in OutRecord, r.keys = write_keys.client,
           Sealed' = Append(Sealed, r), r.msgs = <<"data">> => ~closed,
           r.msgs = <<"data">> => r.no = log.written + 1,
           ~closed' => ~closed /\ r.msgs # <<"close">>
    PROVE  /\ Chained(Sealed', write_keys.server, KeysAfter(r))
           /\ Numbered(Sealed', log.received,
                       IF r.msgs = <<"data">> THEN log.written + 1 ELSE log.written)
           /\ CloseSound'
<1>1. Sealed \in Seq(OutRecord)
  BY DEF StreamInv, StreamTypes, Sealed
<1>2. Chained(Sealed, write_keys.server, write_keys.client)
  BY DEF StreamInv, WriteSound
<1>3. Chained(Append(Sealed, r), write_keys.server, KeysAfter(r))
  BY <1>1, <1>2, ChainGrows
<1>4. Numbered(Append(Sealed, r), log.received,
               IF r.msgs = <<"data">> THEN log.written + 1 ELSE log.written)
  <2>1. /\ log.received \in Nat /\ log.written \in Nat /\ log.received <= log.written
        /\ Numbered(Sealed, log.received, log.written)
    BY DEF StreamInv, StreamTypes, LogType, WritesKept, WritesConserved
  <2>2. QED
    BY <1>1, <2>1, NumbersGrow
<1>5. CloseSound'
  <2>1. /\ Len(Sealed') = Len(Sealed) + 1 /\ Sealed'[Len(Sealed) + 1] = r
        /\ Sealed' \in Seq(OutRecord)
        /\ \A i \in 1 .. Len(Sealed) : Sealed'[i] = Sealed[i]
    BY <1>1
  <2>2. \A i \in DOMAIN Sealed' :
           \/ i \in DOMAIN Sealed /\ Sealed'[i] = Sealed[i]
           \/ i = Len(Sealed) + 1 /\ Sealed'[i] = r
    BY <1>1, <2>1
  <2>3. ASSUME NEW i \in DOMAIN Sealed', NEW j \in DOMAIN Sealed', i < j,
               Sealed'[i].msgs = <<"close">>, Sealed'[j].msgs = <<"data">>
        PROVE  FALSE
    <3>1. i \in DOMAIN Sealed /\ Sealed'[i] = Sealed[i]
      BY <1>1, <2>1, <2>2, <2>3
    <3>2. CASE j \in DOMAIN Sealed /\ Sealed'[j] = Sealed[j]
      BY <2>3, <3>1, <3>2 DEF StreamInv, CloseSound, CloseIsLast
    <3>3. CASE Sealed'[j] = r
      BY <2>3, <3>1, <3>3 DEF StreamInv, CloseSound
    <3>4. QED
      BY <2>2, <3>2, <3>3
  <2>4. CloseIsLast'
    BY <2>3, Zenon DEF CloseIsLast
  <2>5. ASSUME ~closed', NEW i \in DOMAIN Sealed' PROVE Sealed'[i].msgs # <<"close">>
    BY <2>2, <2>5 DEF StreamInv, CloseSound
  <2>6. QED
    BY <2>4, <2>5 DEF CloseSound
<1>6. QED
  BY <1>3, <1>4, <1>5

(* Nothing of the reader changes when only the writer moves.               *)
LEMMA ReadKept ==
    ASSUME StreamInv, UNCHANGED <<read_keys, inbound, stream>>,
           write_keys'.client = write_keys.client,
           log'.coalesced = log.coalesced, log'.read = log.read,
           log'.offered = log.offered, log'.requested = log.requested
    PROVE  ReadSound'
BY DEF StreamInv, ReadSound, ReadKeysInStep

(* poll_write, poll_flush and poll_shutdown: the buffer b, with the new     *)
(* record if there is one, is flushed in part.  However much of it the      *)
(* transport takes, the records stay in order and none is lost.            *)
LEMMA FlushedSealed ==
    ASSUME StreamInv, NEW b \in Seq(OutRecord), NEW n \in 0 .. Len(b), Flushed(b, n)
    PROVE  /\ outbound' \in Seq(OutRecord) /\ write_buf' \in Seq(OutRecord)
           /\ Len(write_buf') <= Len(b)
           /\ Sealed' = outbound \o b
<1>1. outbound \in Seq(OutRecord)
  BY DEF StreamInv, StreamTypes
<1> DEFINE x == SubSeq(b, 1, n)
           y == SubSeq(b, n + 1, Len(b))
<1>2. outbound' = outbound \o x /\ write_buf' = y
  BY DEF Flushed
<1>3. x \in Seq(OutRecord) /\ y \in Seq(OutRecord) /\ Len(y) = Len(b) - n
  OBVIOUS
<1>4. x \o y = b
  <2>1. 1 \in 1 .. Len(b) + 1 /\ n \in 1 - 1 .. Len(b) /\ Len(b) \in n .. Len(b)
    OBVIOUS
  <2>2. SubSeq(b, 1, n) \o SubSeq(b, n + 1, Len(b)) = SubSeq(b, 1, Len(b))
    BY <2>1, ConcatAdjacentSubSeq
  <2>3. SubSeq(b, 1, Len(b)) = b
    BY SubSeqFull
  <2>4. QED
    BY <2>2, <2>3
<1> HIDE DEF x, y
<1>5. (outbound \o x) \o y = outbound \o (x \o y)
  <2>1. x \in Seq(OutRecord) /\ y \in Seq(OutRecord)
    BY <1>3
  <2>2. QED
    BY <1>1, <2>1, ConcatAssociative, SMTT(40)
<1>6. outbound \o x \in Seq(OutRecord) /\ Len(b) - n <= Len(b)
  BY <1>1, <1>3
<1>7. QED
  BY <1>2, <1>3, <1>4, <1>5, <1>6 DEF Sealed

(* poll_write: one more record of data, while the buffer has room.         *)
LEMMA PollWriteInv ==
    ASSUME StreamInv, PollWrite
    PROVE  StreamInv'
<1> DEFINE r == Written
           b == Append(write_buf, r)
<1>1. /\ r \in OutRecord /\ r.keys = write_keys.client /\ r.msgs = <<"data">>
      /\ r.no = log.written + 1
  BY DEF StreamInv, StreamTypes, LogType, OutRecord, Written
<1>2. /\ outbound \in Seq(OutRecord) /\ write_buf \in Seq(OutRecord)
      /\ Len(write_buf) \in Nat /\ Len(write_buf) < MaxWriteBuf
  BY DEF StreamInv, StreamTypes, PollWrite
<1> HIDE DEF r
<1>3. b \in Seq(OutRecord) /\ Len(b) = Len(write_buf) + 1
  BY <1>1, <1>2
<1>4. PICK n \in 0 .. Len(b) : Flushed(b, n)
  BY DEF PollWrite, r
<1>5. outbound \o b = Append(Sealed, r)
  BY <1>1, <1>2, AddedLast DEF Sealed
<1> HIDE DEF b
<1>6. /\ outbound' \in Seq(OutRecord) /\ write_buf' \in Seq(OutRecord)
      /\ Len(write_buf') <= Len(b) /\ Sealed' = Append(Sealed, r)
  BY <1>3, <1>4, <1>5, FlushedSealed
<1>7. /\ ~closed /\ closed' = closed /\ log' = [log EXCEPT !.written = @ + 1]
      /\ UNCHANGED <<read_keys, write_keys, inbound, stream>>
  BY DEF PollWrite
<1>8. log \in LogType /\ log' \in LogType
  <2>1. log \in LogType
    BY DEF StreamInv, StreamTypes
  <2>2. QED
    BY <1>7, <2>1 DEF LogType
<1>9. StreamTypes'
  BY <1>6, <1>7, <1>8 DEF StreamInv, StreamTypes
<1>10. /\ log'.written = log.written + 1 /\ log'.received = log.received
       /\ log'.coalesced = log.coalesced /\ log'.read = log.read
       /\ log'.offered = log.offered /\ log'.requested = log.requested
       /\ log'.garbled = log.garbled /\ log.written \in Nat /\ log.received \in Nat
  BY <1>7, <1>8 DEF LogType
<1>11. /\ Chained(Sealed', write_keys.server, KeysAfter(r))
       /\ Numbered(Sealed', log.received, log.written + 1)
       /\ CloseSound'
  BY <1>1, <1>6, <1>7, SealedGrows, ContentsFacts
<1>12. KeysAfter(r) = write_keys.client
  BY <1>1, KeysLeft, ContentsFacts
<1>13. ReadSound'
  BY <1>7, <1>10, ReadKept
<1>14. WriteSound'
  <2>1. write_keys.client \in Nat /\ MaxWriteBuf \in Nat /\ Len(write_buf') \in Nat
    BY <1>6, TlsStreamAssumption DEF StreamInv, StreamTypes
  <2>2. Len(write_buf') <= MaxWriteBuf
    BY <1>2, <1>3, <1>6, <2>1
  <2>3. QED
    BY <1>7, <1>10, <1>11, <1>12, <2>1, <2>2 DEF StreamInv, WriteSound
<1>15. WritesKept'
  <2>1. log.received <= log.written
    BY DEF StreamInv, WritesKept
  <2>2. log'.received <= log'.written
    BY <1>10, <2>1
  <2>3. QED
    BY <1>10, <1>11, <2>2 DEF WritesKept, WritesConserved
<1>16. QED
  BY <1>9, <1>11, <1>13, <1>14, <1>15 DEF StreamInv

(* poll_shutdown: one close_notify.                                        *)
LEMMA PollShutdownInv ==
    ASSUME StreamInv, PollShutdown
    PROVE  StreamInv'
<1> DEFINE r == Record(<<"close">>, write_keys.client)
           b == Append(write_buf, r)
<1>1. r \in OutRecord /\ r.keys = write_keys.client /\ r.msgs = <<"close">>
  BY DEF StreamInv, StreamTypes, OutRecord, Record
<1>2. /\ outbound \in Seq(OutRecord) /\ write_buf \in Seq(OutRecord)
      /\ Len(write_buf) \in Nat
  BY DEF StreamInv, StreamTypes
<1> HIDE DEF r
<1>3. b \in Seq(OutRecord) /\ Len(b) = Len(write_buf) + 1
  BY <1>1, <1>2
<1>4. PICK n \in 0 .. Len(b) : Flushed(b, n)
  BY DEF PollShutdown, r
<1>5. outbound \o b = Append(Sealed, r)
  BY <1>1, <1>2, AddedLast DEF Sealed
<1> HIDE DEF b
<1>6. /\ outbound' \in Seq(OutRecord) /\ write_buf' \in Seq(OutRecord)
      /\ Len(write_buf') <= Len(b) /\ Sealed' = Append(Sealed, r)
  BY <1>3, <1>4, <1>5, FlushedSealed
<1>7. /\ ~closed /\ closed' = TRUE /\ log' = log
      /\ UNCHANGED <<read_keys, write_keys, inbound, stream>>
  BY DEF PollShutdown
<1>8. StreamTypes'
  BY <1>6, <1>7 DEF StreamInv, StreamTypes
<1>9. /\ Chained(Sealed', write_keys.server, KeysAfter(r))
      /\ Numbered(Sealed', log.received, log.written)
      /\ CloseSound'
  BY <1>1, <1>6, <1>7, SealedGrows, ContentsFacts
<1>10. KeysAfter(r) = write_keys.client
  BY <1>1, KeysLeft, ContentsFacts
<1>11. ReadSound'
  BY <1>7, ReadKept
<1>12. WriteSound'
  <2>1. Len(write_buf') <= Len(write_buf) + 1 /\ Len(write_buf') \in Nat
        /\ MaxWriteBuf \in Nat /\ write_keys.client \in Nat
    BY <1>2, <1>3, <1>6, TlsStreamAssumption DEF StreamInv, StreamTypes
  <2>2. Len(write_buf) <= MaxWriteBuf + write_keys.client + 0
    BY <1>7 DEF StreamInv, WriteSound
  <2>3. QED
    BY <1>2, <1>7, <1>9, <1>10, <2>1, <2>2 DEF StreamInv, WriteSound
<1>13. WritesKept'
  BY <1>7, <1>9 DEF StreamInv, WritesKept, WritesConserved
<1>14. QED
  BY <1>8, <1>9, <1>11, <1>12, <1>13 DEF StreamInv

(* poll_flush moves records from the buffer to the transport.              *)
LEMMA PollFlushInv ==
    ASSUME StreamInv, PollFlush
    PROVE  StreamInv'
<1>1. /\ outbound \in Seq(OutRecord) /\ write_buf \in Seq(OutRecord)
      /\ Len(write_buf) \in Nat
  BY DEF StreamInv, StreamTypes
<1>2. PICK n \in 1 .. Len(write_buf) : Flushed(write_buf, n)
  BY DEF PollFlush
<1>3. n \in 0 .. Len(write_buf)
  BY <1>1
<1>4. /\ outbound' \in Seq(OutRecord) /\ write_buf' \in Seq(OutRecord)
      /\ Len(write_buf') <= Len(write_buf) /\ Sealed' = Sealed
  BY <1>1, <1>2, <1>3, FlushedSealed DEF Sealed
<1>5. UNCHANGED <<read_keys, write_keys, inbound, stream, closed, log>>
  BY DEF PollFlush
<1>6. StreamTypes'
  BY <1>4, <1>5 DEF StreamInv, StreamTypes
<1>7. ReadSound'
  BY <1>5, ReadKept
<1>8. WriteSound'
  <2>1. Len(write_buf') \in Nat /\ MaxWriteBuf \in Nat /\ write_keys.client \in Nat
    BY <1>4, TlsStreamAssumption DEF StreamInv, StreamTypes
  <2>2. QED
    BY <1>1, <1>4, <1>5, <2>1 DEF StreamInv, WriteSound
<1>9. WritesKept' /\ CloseSound'
  BY <1>4, <1>5 DEF StreamInv, WritesKept, WritesConserved, CloseSound, CloseIsLast
<1>10. QED
  BY <1>6, <1>7, <1>8, <1>9 DEF StreamInv

(* The server takes the next record, with the keys it was sealed with.     *)
LEMMA TlsServerReceivesInv ==
    ASSUME StreamInv, TlsServerReceives
    PROVE  StreamInv'
<1> DEFINE r == Head(outbound)
<1>1. /\ outbound \in Seq(OutRecord) /\ outbound # <<>> /\ write_buf \in Seq(OutRecord)
      /\ write_keys \in [client : Nat, server : Nat] /\ log \in LogType
  BY DEF StreamInv, StreamTypes, TlsServerReceives
<1>2. r \in OutRecord /\ Tail(outbound) \in Seq(OutRecord)
  BY <1>1
<1>3. /\ Sealed \in Seq(OutRecord) /\ Sealed # <<>> /\ Head(Sealed) = r
      /\ Tail(Sealed) = Tail(outbound) \o write_buf
  BY <1>1, TakenFirst DEF Sealed
<1>4. /\ outbound' = Tail(outbound)
      /\ write_keys' = IF r.msgs = <<"update">> THEN [write_keys EXCEPT !.server = @ + 1]
                                                 ELSE write_keys
      /\ log' = [log EXCEPT !.received = IF r.msgs = <<"data">> THEN @ + 1 ELSE @,
                            !.garbled = @ \/ r.keys # write_keys.server]
      /\ UNCHANGED <<read_keys, inbound, write_buf, stream, closed>>
  BY DEF TlsServerReceives
<1> HIDE DEF r
<1>5. Sealed' = Tail(Sealed)
  BY <1>3, <1>4 DEF Sealed
<1>6. Chained(Sealed, write_keys.server, write_keys.client)
  BY DEF StreamInv, WriteSound
<1>7. r.keys = write_keys.server /\ Chained(Sealed', KeysAfter(r), write_keys.client)
  BY <1>3, <1>5, <1>6, ChainShrinks
<1>8. KeysAfter(r) = IF r.msgs = <<"update">> THEN write_keys.server + 1
                                              ELSE write_keys.server
  BY <1>2, <1>7, KeysLeft
<1>9. /\ write_keys' \in [client : Nat, server : Nat]
      /\ write_keys'.client = write_keys.client /\ write_keys'.server = KeysAfter(r)
  BY <1>1, <1>4, <1>8
<1>10. /\ log' \in LogType /\ ~log'.garbled /\ log'.written = log.written
       /\ log'.received = log.received + (IF r.msgs = <<"data">> THEN 1 ELSE 0)
       /\ log'.coalesced = log.coalesced /\ log'.read = log.read
       /\ log'.offered = log.offered /\ log'.requested = log.requested
       /\ log.received \in Nat /\ log.written \in Nat
  <2>1. ~log.garbled /\ ~(r.keys # write_keys.server)
    BY <1>7 DEF StreamInv, WriteSound
  <2>2. (log.garbled \/ r.keys # write_keys.server) = FALSE
    BY <2>1
  <2> DEFINE n == IF r.msgs = <<"data">> THEN log.received + 1 ELSE log.received
  <2>3. log' = [log EXCEPT !.received = n, !.garbled = FALSE]
    BY <1>4, <2>2
  <2>4. log.received \in Nat /\ log.written \in Nat
    BY <1>1 DEF LogType
  <2>5. n \in Nat /\ n = log.received + (IF r.msgs = <<"data">> THEN 1 ELSE 0)
    BY <2>4
  <2> HIDE DEF n
  <2>6. log' \in LogType
    BY <1>1, <2>3, <2>5 DEF LogType
  <2>7. /\ ~log'.garbled /\ log'.written = log.written /\ log'.received = n
        /\ log'.coalesced = log.coalesced /\ log'.read = log.read
        /\ log'.offered = log.offered /\ log'.requested = log.requested
    BY <1>1, <2>3 DEF LogType
  <2>8. QED
    BY <2>4, <2>5, <2>6, <2>7
<1>11. StreamTypes'
  BY <1>2, <1>4, <1>9, <1>10 DEF StreamInv, StreamTypes
<1>12. ReadSound'
  BY <1>4, <1>9, <1>10, ReadKept
<1>13. WriteSound'
  BY <1>4, <1>7, <1>9, <1>10 DEF StreamInv, WriteSound
<1>14. WritesKept'
  <2> DEFINE n == IF r.msgs = <<"data">> THEN log.received + 1 ELSE log.received
  <2>1. log.received <= log.written /\ Numbered(Sealed, log.received, log.written)
    BY DEF StreamInv, WritesKept, WritesConserved
  <2>2. n <= log.written /\ Numbered(Tail(Sealed), n, log.written)
    BY <1>3, <1>10, <2>1, NumbersShrink
  <2>3. log'.received = n /\ log'.written = log.written
    BY <1>10
  <2> HIDE DEF n
  <2>4. QED
    BY <1>5, <2>2, <2>3 DEF WritesKept, WritesConserved
<1>15. CloseSound'
  <2>1. /\ Len(Sealed') = Len(Sealed) - 1 /\ Sealed' \in Seq(OutRecord)
        /\ \A i \in 1 .. Len(Sealed) - 1 : Sealed'[i] = Sealed[i + 1]
    BY <1>3, <1>5
  <2>2. \A i \in DOMAIN Sealed' : i + 1 \in DOMAIN Sealed /\ Sealed'[i] = Sealed[i + 1]
                                  /\ i \in Nat
    BY <1>3, <2>1
  <2>3. ASSUME NEW i \in DOMAIN Sealed', NEW j \in DOMAIN Sealed', i < j,
               Sealed'[i].msgs = <<"close">>
        PROVE  Sealed'[j].msgs # <<"data">>
    <3>1. i + 1 < j + 1
      BY <2>2, <2>3
    <3>2. QED
      BY <2>2, <2>3, <3>1 DEF StreamInv, CloseSound, CloseIsLast
  <2>4. CloseIsLast'
    BY <2>3, Zenon DEF CloseIsLast
  <2>5. QED
    BY <1>4, <2>2, <2>4 DEF StreamInv, CloseSound
<1>16. QED
  BY <1>11, <1>12, <1>13, <1>14, <1>15 DEF StreamInv

(* The server sends a record, and changes its keys with a KeyUpdate.       *)
LEMMA TlsServerSendsInv ==
    ASSUME StreamInv, TlsServerSends
    PROVE  StreamInv'
<1>1. PICK c \in Contents :
        /\ inbound' = Append(inbound, Record(c, read_keys.server))
        /\ read_keys' = IF c[Len(c)] \in Updates
                        THEN [read_keys EXCEPT !.server = @ + 1] ELSE read_keys
        /\ log' = [log EXCEPT !.sent = @ + 1,
                     !.offered = IF c = <<"data">> THEN @ + 1 ELSE @,
                     !.requested = IF c = <<"update_requested">> THEN @ + 1 ELSE @,
                     !.coalesced = @ \/ c = <<"ticket", "update">>,
                     !.over = c[1] \in {"close", "fatal"}]
  BY DEF TlsServerSends
<1> DEFINE r == Record(c, read_keys.server)
<1>2. UNCHANGED <<write_keys, write_buf, outbound, stream, closed>>
  BY DEF TlsServerSends
<1>3. /\ inbound \in Seq(InRecord) /\ read_keys \in [client : Nat, server : Nat]
      /\ log \in LogType /\ write_keys.client \in Nat
  BY DEF StreamInv, StreamTypes
<1>4. r \in InRecord /\ r.msgs = c /\ r.keys = read_keys.server
  BY <1>3 DEF InRecord, Record
<1> HIDE DEF r
<1>5. inbound' = Append(inbound, r)
  BY <1>1 DEF r
<1>6. inbound' \in Seq(InRecord)
  BY <1>3, <1>4, <1>5
<1>7. /\ read_keys' \in [client : Nat, server : Nat]
      /\ read_keys'.client = read_keys.client /\ read_keys'.server = KeysAfter(r)
  BY <1>1, <1>3, <1>4, KeysLeft
<1>8. /\ log' \in LogType /\ log'.garbled = log.garbled /\ log'.written = log.written
      /\ log'.received = log.received /\ log'.read = log.read
      /\ log'.offered = log.offered + (IF c = <<"data">> THEN 1 ELSE 0)
      /\ log'.requested = log.requested + (IF c = <<"update_requested">> THEN 1 ELSE 0)
      /\ ~log'.coalesced => ~log.coalesced /\ c # <<"ticket", "update">>
      /\ log.read \in Nat /\ log.offered \in Nat /\ log.requested \in Nat
  <2> DEFINE co == log.coalesced \/ c = <<"ticket", "update">>
             ov == c[1] \in {"close", "fatal"}
  <2>1. co \in BOOLEAN /\ ov \in BOOLEAN
    BY <1>3 DEF LogType
  <2> DEFINE d == IF c = <<"data">> THEN log.offered + 1 ELSE log.offered
             q == IF c = <<"update_requested">> THEN log.requested + 1 ELSE log.requested
  <2>2. log' = [log EXCEPT !.sent = @ + 1, !.offered = d, !.requested = q,
                           !.coalesced = co, !.over = ov]
    BY <1>1
  <2>3. ~co => ~log.coalesced /\ c # <<"ticket", "update">>
    OBVIOUS
  <2>4. log.read \in Nat /\ log.offered \in Nat /\ log.requested \in Nat
    BY <1>3 DEF LogType
  <2>5. /\ d \in Nat /\ d = log.offered + (IF c = <<"data">> THEN 1 ELSE 0)
        /\ q \in Nat /\ q = log.requested + (IF c = <<"update_requested">> THEN 1 ELSE 0)
    BY <2>4
  <2> HIDE DEF co, ov, d, q
  <2>6. log' \in LogType
    <3>1. d \in Nat /\ q \in Nat
      BY <2>5
    <3> DEFINE n == log.sent + 1
               l0 == [log EXCEPT !.sent = n]
               l1 == [l0 EXCEPT !.offered = d, !.requested = q]
    <3>2. n \in Nat
      BY <1>3 DEF LogType
    <3>3. l0 \in LogType
      <4> HIDE DEF n
      <4>1. QED
        BY <1>3, <3>2 DEF LogType
    <3>4. l1 \in LogType
      <4> HIDE DEF l0
      <4>1. QED
        BY <3>3, <3>1 DEF LogType
    <3>5. log' = [l1 EXCEPT !.coalesced = co, !.over = ov]
      BY <1>3, <2>2 DEF LogType
    <3> HIDE DEF l1
    <3>6. QED
      BY <2>1, <3>4, <3>5 DEF LogType
  <2>7. /\ log'.garbled = log.garbled /\ log'.written = log.written
        /\ log'.received = log.received /\ log'.read = log.read
        /\ log'.offered = d /\ log'.requested = q
    BY <1>3, <2>2 DEF LogType
  <2>8. log'.coalesced = co
    BY <1>3, <2>2 DEF LogType
  <2>9. ~log'.coalesced => ~log.coalesced /\ c # <<"ticket", "update">>
    BY <2>3, <2>8
  <2>10. QED
    BY <2>4, <2>5, <2>6, <2>7, <2>9
<1>9. StreamTypes'
  BY <1>2, <1>6, <1>7, <1>8 DEF StreamInv, StreamTypes
<1>10. ReadSound'
  <2>1. ReadKeysInStep'
    <3>1. SUFFICES ASSUME stream' = "open", ~log'.coalesced
                   PROVE  Chained(inbound', read_keys'.client, read_keys'.server)
      BY DEF ReadKeysInStep
    <3>2. Chained(inbound, read_keys.client, read_keys.server)
      BY <1>2, <1>8, <3>1 DEF StreamInv, ReadSound, ReadKeysInStep
    <3>3. Chained(Append(inbound, r), read_keys.client, KeysAfter(r))
      BY <1>3, <1>4, <3>2, ChainGrows
    <3>4. QED
      BY <1>5, <1>7, <3>3
  <2>2. ASSUME ~log'.coalesced, NEW i \in DOMAIN inbound'
        PROVE  inbound'[i].msgs # <<"ticket", "update">>
    <3>1. (i \in DOMAIN inbound /\ inbound'[i] = inbound[i]) \/ inbound'[i] = r
      BY <1>3, <1>4, <1>5
    <3>2. QED
      BY <1>4, <1>8, <2>2, <3>1 DEF StreamInv, ReadSound
  <2>3. /\ Cardinality(Places(inbound', <<"data">>))
             = Cardinality(Places(inbound, <<"data">>))
                 + (IF c = <<"data">> THEN 1 ELSE 0)
        /\ Cardinality(Places(inbound', <<"update_requested">>))
             = Cardinality(Places(inbound, <<"update_requested">>))
                 + (IF c = <<"update_requested">> THEN 1 ELSE 0)
    BY <1>3, <1>4, <1>5, PlacesGrow
  <2>4. /\ Cardinality(Places(inbound, <<"data">>)) \in Nat
        /\ Cardinality(Places(inbound, <<"update_requested">>)) \in Nat
    BY <1>3, PlacesFinite
  <2>5. /\ log.read + Cardinality(Places(inbound, <<"data">>)) <= log.offered
        /\ write_keys.client + Cardinality(Places(inbound, <<"update_requested">>))
             <= log.requested
    BY DEF StreamInv, ReadSound
  <2>6. /\ log'.read + Cardinality(Places(inbound', <<"data">>)) <= log'.offered
        /\ write_keys'.client + Cardinality(Places(inbound', <<"update_requested">>))
             <= log'.requested
    <3>1. log'.read + Cardinality(Places(inbound', <<"data">>)) <= log'.offered
      BY <1>8, <2>3, <2>4, <2>5
    <3>2. write_keys.client + Cardinality(Places(inbound', <<"update_requested">>))
            <= log'.requested
      BY <1>3, <1>8, <2>3, <2>4, <2>5
    <3>3. QED
      BY <1>2, <3>1, <3>2
  <2>7. QED
    BY <2>1, <2>2, <2>6 DEF ReadSound
<1>11. WriteSound' /\ WritesKept' /\ CloseSound'
  <2>1. Sealed' = Sealed
    BY <1>2 DEF Sealed
  <2>2. QED
    BY <1>2, <1>8, <2>1 DEF StreamInv, WriteSound, WritesKept, WritesConserved, CloseSound,
           CloseIsLast
<1>12. QED
  BY <1>9, <1>10, <1>11 DEF StreamInv

(* What try_read_app_data does with a record, by what it begins with.      *)
LEMMA ReadEffect ==
    ASSUME StreamInv, TryReadAppData,
           NEW r, r = Head(inbound), NEW m, m = Head(r.msgs),
           NEW good, good = (r.keys = read_keys.client)
    PROVE  /\ read_keys' = IF good /\ m \in Updates
                           THEN [read_keys EXCEPT !.client = @ + 1] ELSE read_keys
           /\ IF good /\ m = "update_requested" THEN AnswerKeyUpdate
              ELSE UNCHANGED <<write_buf, write_keys>>
           /\ \/ good /\ m = "data" /\ log' = [log EXCEPT !.read = @ + 1]
              \/ good /\ m = "ticket" /\ log' = [log EXCEPT !.stored = @ + 1]
              \/ ~(good /\ m = "data") /\ log' = log
           /\ inbound' = Tail(inbound) /\ UNCHANGED <<outbound, closed>>
           /\ stream = "open" /\ inbound # <<>> /\ stream' \in {"open", "error"}
           /\ stream' = "open" => good
<1>1. /\ log \in LogType /\ log = [log EXCEPT !.stored = @]
  BY DEF StreamInv, StreamTypes, LogType
<1>2. CASE ~good
  BY <1>2 DEF TryReadAppData
<1>3. CASE good /\ m = "data"
  BY <1>3 DEF TryReadAppData, Updates
<1>4. CASE good /\ m \in Updates \cup {"ticket"}
  <2>1. HandlePostHandshake(m)
    BY <1>4 DEF TryReadAppData, Updates
  <2>2. m # "data" /\ (m = "ticket" => m \notin Updates) /\ m # "fatal"
    BY <1>4 DEF Updates
  <2>3. \/ m = "ticket" /\ log' = [log EXCEPT !.stored = @ + 1]
        \/ log' = log
    BY <1>1, <2>1 DEF HandlePostHandshake
  <2>4. QED
    BY <1>4, <2>1, <2>2, <2>3 DEF TryReadAppData, HandlePostHandshake
<1>5. CASE good /\ m # "data" /\ m \notin Updates \cup {"ticket"}
  BY <1>5 DEF TryReadAppData, Updates
<1>6. QED
  BY <1>2, <1>3, <1>4, <1>5

(* try_read_app_data keeps both directions in step.                        *)
LEMMA TryReadAppDataInv ==
    ASSUME StreamInv, TryReadAppData
    PROVE  StreamInv'
<1> DEFINE r == Head(inbound)
           m == Head(r.msgs)
           good == r.keys = read_keys.client
           asked == good /\ m = "update_requested"
<1>1. /\ read_keys' = IF good /\ m \in Updates
                      THEN [read_keys EXCEPT !.client = @ + 1] ELSE read_keys
      /\ IF good /\ m = "update_requested" THEN AnswerKeyUpdate
         ELSE UNCHANGED <<write_buf, write_keys>>
      /\ \/ good /\ m = "data" /\ log' = [log EXCEPT !.read = @ + 1]
         \/ good /\ m = "ticket" /\ log' = [log EXCEPT !.stored = @ + 1]
         \/ ~(good /\ m = "data") /\ log' = log
      /\ inbound' = Tail(inbound) /\ UNCHANGED <<outbound, closed>>
      /\ stream = "open" /\ inbound # <<>> /\ stream' \in {"open", "error"}
      /\ stream' = "open" => good
  BY ReadEffect
<1>2. /\ inbound \in Seq(InRecord) /\ inbound # <<>> /\ log \in LogType
      /\ read_keys \in [client : Nat, server : Nat]
      /\ write_keys \in [client : Nat, server : Nat]
      /\ outbound \in Seq(OutRecord) /\ write_buf \in Seq(OutRecord)
  BY <1>1 DEF StreamInv, StreamTypes
<1>3. r \in InRecord /\ Tail(inbound) \in Seq(InRecord)
  BY <1>2
<1>4. r.msgs \in Contents
  BY <1>3 DEF InRecord
<1> HIDE DEF r, m, good
<1>5. /\ m = "data" => r.msgs = <<"data">>
      /\ m = "update_requested" => r.msgs = <<"update_requested">>
      /\ r.msgs # <<"ticket", "update">> =>
            (m \in Updates <=> r.msgs[Len(r.msgs)] \in Updates)
  <2>1. \/ r.msgs = <<"ticket", "update">> /\ m = "ticket"
        \/ /\ r.msgs # <<"ticket", "update">>
           /\ (r.msgs = <<"data">> <=> m = "data")
           /\ (r.msgs = <<"update_requested">> <=> m = "update_requested")
           /\ (m \in Updates <=> r.msgs[Len(r.msgs)] \in Updates)
    BY <1>4, ContentsFacts DEF m
  <2>2. "ticket" # "data" /\ "ticket" # "update_requested"
    OBVIOUS
  <2>3. QED
    BY <2>1, <2>2
<1>6. /\ log' \in LogType
      /\ log'.written = log.written /\ log'.received = log.received
      /\ log'.garbled = log.garbled /\ log'.coalesced = log.coalesced
      /\ log'.offered = log.offered /\ log'.requested = log.requested
      /\ log'.read = log.read \/ (log'.read = log.read + 1 /\ r.msgs = <<"data">>)
      /\ log.read \in Nat /\ log.offered \in Nat /\ log.requested \in Nat
  <2>1. /\ log.read \in Nat /\ log.offered \in Nat /\ log.requested \in Nat
        /\ log.read + 1 \in Nat /\ log.stored + 1 \in Nat
    BY <1>2, SMTT(40) DEF LogType
  <2>2. CASE log' = [log EXCEPT !.read = @ + 1] /\ m = "data"
    <3> DEFINE n == log.read + 1
    <3>1. n \in Nat /\ log' = [log EXCEPT !.read = n]
      BY <2>1, <2>2
    <3> HIDE DEF n
    <3>2. log' \in LogType
      BY <1>2, <3>1 DEF LogType
    <3>3. /\ log'.written = log.written /\ log'.received = log.received
          /\ log'.garbled = log.garbled /\ log'.coalesced = log.coalesced
          /\ log'.offered = log.offered /\ log'.requested = log.requested
          /\ log'.read = n
      BY <1>2, <3>1 DEF LogType
    <3>4. QED
      BY <1>5, <2>1, <2>2, <3>2, <3>3 DEF n
  <2>3. CASE log' = [log EXCEPT !.stored = @ + 1]
    <3> DEFINE n == log.stored + 1
    <3>1. n \in Nat /\ log' = [log EXCEPT !.stored = n]
      BY <2>1, <2>3
    <3> HIDE DEF n
    <3>2. log' \in LogType
      BY <1>2, <3>1 DEF LogType
    <3>3. /\ log'.written = log.written /\ log'.received = log.received
          /\ log'.garbled = log.garbled /\ log'.coalesced = log.coalesced
          /\ log'.offered = log.offered /\ log'.requested = log.requested
          /\ log'.read = log.read
      BY <1>2, <3>1 DEF LogType
    <3>4. QED
      BY <2>1, <3>2, <3>3
  <2>4. CASE log' = log
    BY <1>2, <2>4 DEF LogType
  <2>5. QED
    BY <1>1, <2>2, <2>3, <2>4
<1>7. /\ read_keys' \in [client : Nat, server : Nat]
      /\ read_keys'.server = read_keys.server
      /\ read_keys'.client = IF good /\ m \in Updates THEN read_keys.client + 1
                                                     ELSE read_keys.client
  BY <1>1, <1>2
<1> DEFINE a == Record(<<"update">>, write_keys.client)
<1>8. a \in OutRecord /\ a.keys = write_keys.client /\ a.msgs = <<"update">>
  BY <1>2 DEF OutRecord, Record
<1> DEFINE Moved == /\ StreamTypes' /\ WriteSound' /\ WritesKept' /\ CloseSound'
                    /\ write_keys'.client = IF asked THEN write_keys.client + 1
                                                     ELSE write_keys.client
<1>9. ASSUME asked PROVE Moved
  <2>1. /\ write_buf' = Append(write_buf, a)
        /\ write_keys' = [write_keys EXCEPT !.client = @ + 1]
    BY <1>1, <1>9 DEF AnswerKeyUpdate
  <2> HIDE DEF a
  <2>2. /\ write_keys' \in [client : Nat, server : Nat]
        /\ write_keys'.client = write_keys.client + 1
        /\ write_keys'.server = write_keys.server
    BY <1>2, <2>1, SMTT(40)
  <2>3. /\ write_buf' \in Seq(OutRecord) /\ Len(write_buf') = Len(write_buf) + 1
        /\ Len(write_buf) \in Nat
    BY <1>2, <1>8, <2>1
  <2>4. Sealed' = Append(Sealed, a)
    BY <1>1, <1>2, <1>8, <2>1, AddedLast, SMTT(40) DEF Sealed
  <2>5. /\ Chained(Sealed', write_keys.server, KeysAfter(a))
        /\ Numbered(Sealed', log.received, log.written)
        /\ CloseSound'
    BY <1>1, <1>8, <2>4, SealedGrows, ContentsFacts
  <2>6. KeysAfter(a) = write_keys.client + 1
    BY <1>8, KeysLeft
  <2>7. WriteSound'
    <3>1. Len(write_buf) <= MaxWriteBuf + write_keys.client + (IF closed THEN 1 ELSE 0)
      BY DEF StreamInv, WriteSound
    <3>2. Len(write_buf') <= MaxWriteBuf + write_keys'.client + (IF closed' THEN 1 ELSE 0)
      <4> DEFINE k == IF closed THEN 1 ELSE 0
      <4>1. k \in Nat /\ k = (IF closed' THEN 1 ELSE 0)
        BY <1>1
      <4>2. MaxWriteBuf \in Nat /\ write_keys.client \in Nat
        BY <1>2, TlsStreamAssumption
      <4>3. Len(write_buf) <= MaxWriteBuf + write_keys.client + k
        BY <3>1
      <4> HIDE DEF k
      <4>4. Len(write_buf') <= MaxWriteBuf + write_keys'.client + k
        BY <2>2, <2>3, <4>1, <4>2, <4>3
      <4>5. QED
        BY <4>1, <4>4
    <3>3. QED
      BY <1>6, <2>2, <2>5, <2>6, <3>2 DEF StreamInv, WriteSound
  <2>8. WritesKept'
    BY <1>6, <2>5 DEF StreamInv, WritesKept, WritesConserved
  <2>9. StreamTypes'
    BY <1>1, <1>3, <1>6, <1>7, <2>2, <2>3 DEF StreamInv, StreamTypes
  <2>10. QED
    BY <1>9, <2>2, <2>5, <2>7, <2>8, <2>9
<1>10. ASSUME ~asked PROVE Moved
  <2>1. UNCHANGED <<write_buf, write_keys>> /\ Sealed' = Sealed
    BY <1>1, <1>10 DEF Sealed
  <2>2. WriteSound' /\ WritesKept' /\ CloseSound'
    BY <1>1, <1>6, <2>1
       DEF StreamInv, WriteSound, WritesKept, WritesConserved, CloseSound,
           CloseIsLast
  <2>3. StreamTypes'
    BY <1>1, <1>3, <1>6, <1>7, <2>1 DEF StreamInv, StreamTypes
  <2>4. QED
    BY <1>2, <1>10, <2>1, <2>2, <2>3
<1>11. Moved
  BY <1>9, <1>10
<1> HIDE DEF asked
<1>12. ReadKeysInStep'
  <2>1. SUFFICES ASSUME stream' = "open", ~log'.coalesced
                 PROVE  Chained(inbound', read_keys'.client, read_keys'.server)
    BY DEF ReadKeysInStep
  <2>2. /\ Chained(inbound, read_keys.client, read_keys.server) /\ good
        /\ r.msgs # <<"ticket", "update">>
    <3>1. 1 \in DOMAIN inbound /\ r = inbound[1]
      BY <1>2 DEF r
    <3>2. QED
      BY <1>1, <1>6, <2>1, <3>1 DEF StreamInv, ReadSound, ReadKeysInStep
  <2>3. Chained(Tail(inbound), KeysAfter(r), read_keys.server)
    BY <1>2, <2>2, ChainShrinks DEF r
  <2>4. KeysAfter(r) = IF m \in Updates THEN read_keys.client + 1 ELSE read_keys.client
    BY <1>3, <1>5, <2>2, KeysLeft DEF good
  <2>5. QED
    BY <1>1, <1>7, <2>2, <2>3, <2>4
<1>13. ASSUME ~log'.coalesced, NEW i \in DOMAIN inbound'
       PROVE  inbound'[i].msgs # <<"ticket", "update">>
  <2>1. i + 1 \in DOMAIN inbound /\ inbound'[i] = inbound[i + 1]
    BY <1>1, <1>2
  <2>2. QED
    BY <1>6, <1>13, <2>1 DEF StreamInv, ReadSound
<1>14. /\ log'.read + Cardinality(Places(inbound', <<"data">>)) <= log'.offered
       /\ write_keys'.client + Cardinality(Places(inbound', <<"update_requested">>))
            <= log'.requested
  <2> DEFINE d == Cardinality(Places(inbound', <<"data">>))
             u == Cardinality(Places(inbound', <<"update_requested">>))
  <2>1. /\ Cardinality(Places(inbound, <<"data">>))
             = d + (IF r.msgs = <<"data">> THEN 1 ELSE 0)
        /\ Cardinality(Places(inbound, <<"update_requested">>))
             = u + (IF r.msgs = <<"update_requested">> THEN 1 ELSE 0)
    BY <1>1, <1>2, PlacesShrink DEF r
  <2>2. d \in Nat /\ u \in Nat
    BY <1>1, <1>3, PlacesFinite
  <2>3. /\ log.read + Cardinality(Places(inbound, <<"data">>)) <= log.offered
        /\ write_keys.client + Cardinality(Places(inbound, <<"update_requested">>))
             <= log.requested
    BY DEF StreamInv, ReadSound
  <2> HIDE DEF d, u
  <2>4. log'.read + d <= log'.offered
    BY <1>6, <2>1, <2>2, <2>3
  <2>5. write_keys.client \in Nat
    BY <1>2
  <2>6. write_keys'.client + u <= log'.requested
    <3>1. CASE asked
      BY <1>5, <1>6, <1>11, <2>1, <2>2, <2>3, <2>5, <3>1 DEF asked
    <3>2. CASE ~asked
      BY <1>6, <1>11, <2>1, <2>2, <2>3, <2>5, <3>2
    <3>3. QED
      BY <3>1, <3>2
  <2>7. QED
    BY <2>4, <2>6 DEF d, u
<1>15. QED
  BY <1>11, <1>12, <1>13, <1>14 DEF StreamInv, ReadSound

(* The stream keeps its invariant.                                         *)
THEOREM StreamInvariance == TlsSpec => []StreamInv
<1>1. TlsInit => StreamInv
  <2>1. SUFFICES ASSUME TlsInit PROVE StreamInv
    OBVIOUS
  <2>2. StreamTypes
    <3>1. log \in LogType
      BY <2>1 DEF TlsInit, LogType
    <3>2. <<>> \in Seq(InRecord) /\ <<>> \in Seq(OutRecord)
      BY EmptySeq
    <3>3. /\ read_keys \in [client : Nat, server : Nat]
          /\ write_keys \in [client : Nat, server : Nat]
      BY <2>1 DEF TlsInit
    <3>4. /\ inbound = <<>> /\ outbound = <<>> /\ write_buf = <<>>
          /\ stream \in {"open", "eof", "error"} /\ closed \in BOOLEAN
      BY <2>1 DEF TlsInit
    <3>5. QED
      BY <3>1, <3>2, <3>3, <3>4 DEF StreamTypes
  <2>3. inbound = <<>> /\ Sealed = <<>> /\ DOMAIN inbound = {} /\ DOMAIN Sealed = {}
    BY <2>1 DEF TlsInit, Sealed
  <2>4. \A c : Places(inbound, c) = {} /\ Places(Sealed, c) = {}
    BY <2>3 DEF Places
  <2>5. /\ read_keys.client = 0 /\ read_keys.server = 0
        /\ write_keys.client = 0 /\ write_keys.server = 0
        /\ log.read = 0 /\ log.offered = 0 /\ log.requested = 0 /\ log.written = 0
        /\ log.received = 0 /\ ~log.garbled /\ ~closed /\ Len(write_buf) = 0
    BY <2>1 DEF TlsInit
  <2>6. Cardinality({}) = 0
    BY FS_EmptySet
  <2>7. ReadSound
    <3>1. ReadKeysInStep
      BY <2>3, <2>5 DEF ReadKeysInStep, Chained
    <3>2. /\ Cardinality(Places(inbound, <<"data">>)) = 0
          /\ Cardinality(Places(inbound, <<"update_requested">>)) = 0
      BY <2>4, <2>6
    <3>3. \A i \in DOMAIN inbound : inbound[i].msgs # <<"ticket", "update">>
      BY <2>3
    <3>4. QED
      BY <2>5, <3>1, <3>2, <3>3 DEF ReadSound
  <2>8. WriteSound
    BY <2>3, <2>5, TlsStreamAssumption DEF WriteSound, Chained
  <2>9. WritesKept /\ CloseSound
    <3>1. Places(Sealed, <<"data">>) = {} /\ (0 + 1) .. 0 = {}
      BY <2>4
    <3>2. Numbered(Sealed, 0, 0)
      BY <3>1 DEF Numbered
    <3>3. QED
      BY <2>3, <2>5, <3>2 DEF WritesKept, WritesConserved, CloseSound, CloseIsLast
  <2>10. QED
    BY <2>2, <2>7, <2>8, <2>9 DEF StreamInv
<1>2. StreamInv /\ [TlsNext]_tls_vars => StreamInv'
  <2>1. SUFFICES ASSUME StreamInv, [TlsNext]_tls_vars PROVE StreamInv'
    OBVIOUS
  <2>2. CASE TransportEof
    <3>1. /\ UNCHANGED <<read_keys, write_keys, inbound, write_buf, outbound, closed, log>>
          /\ stream = "open" /\ stream' = "eof" /\ Sealed' = Sealed
      BY <2>2 DEF TransportEof, Sealed
    <3>2. StreamTypes' /\ ReadSound'
      BY <2>1, <3>1 DEF StreamInv, StreamTypes, ReadSound, ReadKeysInStep
    <3>3. WriteSound' /\ WritesKept' /\ CloseSound'
      BY <2>1, <3>1
         DEF StreamInv, WriteSound, WritesKept, WritesConserved, CloseSound,
           CloseIsLast
    <3>4. QED
      BY <3>2, <3>3 DEF StreamInv
  <2>3. CASE UNCHANGED tls_vars
    <3>1. Sealed' = Sealed
      BY <2>3 DEF tls_vars, Sealed
    <3>2. StreamTypes' /\ ReadSound'
      BY <2>1, <2>3 DEF tls_vars, StreamInv, StreamTypes, ReadSound, ReadKeysInStep
    <3>3. WriteSound' /\ WritesKept' /\ CloseSound'
      BY <2>1, <2>3, <3>1
         DEF tls_vars, StreamInv, WriteSound, WritesKept, WritesConserved, CloseSound,
           CloseIsLast
    <3>4. QED
      BY <3>2, <3>3 DEF StreamInv
  <2>4. QED
    BY <2>1, <2>2, <2>3, TlsServerSendsInv, TlsServerReceivesInv, TryReadAppDataInv,
       PollWriteInv, PollFlushInv, PollShutdownInv DEF TlsNext
<1>3. QED
  BY <1>1, <1>2, PTL DEF TlsSpec

(* Both directions of a stream stay in step over key updates, however they *)
(* cross with data and wherever the transport cuts what is written, and    *)
(* what waits to be written stays within the write buffer.                 *)
THEOREM KeysStayInStep == TlsSpec => []KeysInStep
<1>1. StreamInv => KeysInStep
  <2>1. SUFFICES ASSUME StreamInv PROVE KeysInStep
    OBVIOUS
  <2>2. /\ log \in LogType /\ inbound \in Seq(InRecord) /\ write_buf \in Seq(OutRecord)
        /\ Sealed \in Seq(OutRecord) /\ write_keys.client \in Nat
    BY <2>1 DEF StreamInv, StreamTypes, Sealed
  <2>3. /\ log.read \in Nat /\ log.offered \in Nat /\ log.written \in Nat
        /\ log.received \in Nat /\ log.requested \in Nat
    BY <2>2 DEF LogType
  <2> DEFINE d == Cardinality(Places(inbound, <<"data">>))
             u == Cardinality(Places(inbound, <<"update_requested">>))
             k == IF closed THEN 1 ELSE 0
  <2>4. d \in Nat /\ u \in Nat /\ k \in Nat
    BY <2>2, PlacesFinite
  <2>5. /\ log.read + d <= log.offered /\ write_keys.client + u <= log.requested
        /\ log.received <= log.written
        /\ Len(write_buf) <= MaxWriteBuf + write_keys.client + k
    BY <2>1 DEF StreamInv, ReadSound, WriteSound, WritesKept
  <2> HIDE DEF d, u, k
  <2>6. log.read <= log.offered /\ log.received <= log.written
    BY <2>3, <2>4, <2>5, SMTT(40)
  <2>7. Len(write_buf) <= MaxWriteBuf + log.requested + k
    <3>1. MaxWriteBuf \in Nat /\ Len(write_buf) \in Nat
      BY <2>2, TlsStreamAssumption
    <3>2. write_keys.client \in Nat /\ write_keys.client <= log.requested
      BY <2>2, <2>3, <2>4, <2>5, SMTT(40)
    <3>3. QED
      BY <2>3, <2>4, <2>5, <3>1, <3>2
  <2>8. TlsTypeOK
    BY <2>1, <2>6, <2>7 DEF TlsTypeOK, StreamInv, StreamTypes, k
  <2>9. QED
    BY <2>1, <2>8 DEF StreamInv, ReadSound, WriteSound, KeysInStep, WritesReadable
<1>2. QED
  BY <1>1, StreamInvariance, PTL

(* Every write of the caller that the server has not got is on the wire or *)
(* in the buffer, once and in the order of the writes, and none is sealed  *)
(* behind the close_notify (an answer to a key update may be).             *)
THEOREM WritesArrive == TlsSpec => []WritesOrderly
<1>1. StreamInv => WritesOrderly
  BY DEF StreamInv, WritesKept, CloseSound, WritesOrderly
<1>2. QED
  BY <1>1, StreamInvariance, PTL

-----------------------------------------------------------------------------
(* The session store                                                       *)

\* Tickets are queued in the order they were stored, in one queue each, and
\* none of those that were handed out is.
StoreTypes ==
    /\ queue \in [Hosts -> Seq(Nat)]
    /\ minted \in 0 .. MaxStored /\ stale \subseteq 1 .. minted

QueueSound ==
    \A h \in Hosts :
        /\ Len(queue[h]) <= MaxTickets
        /\ \A i \in DOMAIN queue[h] : queue[h][i] \in 1 .. minted
        /\ \A i, j \in DOMAIN queue[h] : i < j => queue[h][i] < queue[h][j]
        /\ \A g \in Hosts \ {h} : \A i \in DOMAIN queue[h] : \A j \in DOMAIN queue[g] :
              queue[h][i] # queue[g][j]

TakenSound ==
    \A x \in taken :
        /\ x.ticket \in 1 .. minted
        /\ \A h \in Hosts : \A i \in DOMAIN queue[h] : queue[h][i] # x.ticket
        /\ \A y \in taken : y.ticket = x.ticket => y = x
        /\ \A t \in x.left : t < x.ticket

StoreInv == StoreTypes /\ QueueSound /\ TakenSound

(* Keep leaves the last n entries of a queue.                              *)
LEMMA KeepPart ==
    ASSUME NEW q \in Seq(Nat), NEW n \in Nat
    PROVE  /\ Keep(q, n) \in Seq(Nat) /\ Len(Keep(q, n)) <= n
           /\ \E k \in Nat : \A i \in DOMAIN Keep(q, n) :
                 i + k \in DOMAIN q /\ Keep(q, n)[i] = q[i + k]
<1>1. CASE Len(q) <= n
  <2>1. \A i \in DOMAIN q : i + 0 \in DOMAIN q /\ q[i] = q[i + 0]
    OBVIOUS
  <2>2. QED
    BY <1>1, <2>1 DEF Keep
<1>2. CASE ~(Len(q) <= n)
  <2> DEFINE k == Len(q) - n
             s == SubSeq(q, k + 1, Len(q))
  <2>1. k \in Nat /\ k + n = Len(q) /\ k <= Len(q) /\ Keep(q, n) = s
    BY <1>2 DEF Keep
  <2>2. s \in Seq(Nat) /\ Len(s) = n
    BY <2>1
  <2>3. \A i \in 1 .. n : s[i] = q[i + k]
    <3>1. \A i \in 1 .. Len(q) - k : s[i] = q[k + 1 + i - 1]
      <4> HIDE DEF k
      <4>1. QED
        BY <2>1, SMTT(40)
    <3>2. QED
      BY <2>1, <3>1
  <2> HIDE DEF k, s
  <2>4. \A i \in DOMAIN s : i + k \in DOMAIN q /\ s[i] = q[i + k]
    BY <2>1, <2>2, <2>3
  <2>5. \E l \in Nat : \A i \in DOMAIN s : i + l \in DOMAIN q /\ s[i] = q[i + l]
    BY <2>1, <2>4
  <2>6. QED
    BY <2>1, <2>2, <2>5
<1>3. QED
  BY <1>1, <1>2

(* Freshest is a place of the queue, or 0.                                 *)
LEMMA FreshestPlace ==
    ASSUME NEW q \in Seq(Nat)
    PROVE  Freshest(q) \in 0 .. Len(q)
<1> DEFINE good == {i \in DOMAIN q : q[i] \notin stale}
           T == {Len(q) - i : i \in good}
<1>1. CASE good = {}
  BY <1>1 DEF Freshest
<1>2. CASE good # {}
  <2>1. T \subseteq Nat /\ T # {}
    BY <1>2
  <2>2. PICK x \in T : \A y \in T : ~(<<y, x>> \in OpToRel(<, Nat))
    <3> HIDE DEF T
    <3>1. QED
      BY <2>1, WFMin, NatLessThanWellFounded
  <2>3. \A y \in T : ~(y < x)
    BY <2>1, <2>2 DEF OpToRel
  <2>4. PICK i \in good : x = Len(q) - i
    OBVIOUS
  <2>5. ASSUME NEW j \in good PROVE j <= i
    <3>1. Len(q) - j \in T
      OBVIOUS
    <3>2. ~(Len(q) - j < Len(q) - i)
      BY <2>3, <2>4, <3>1
    <3>3. i \in Nat /\ j \in Nat /\ Len(q) \in Nat
      OBVIOUS
    <3>4. QED
      BY <3>2, <3>3
  <2>6. Freshest(q) \in good
    <3> DEFINE w == CHOOSE l \in good : \A j \in good : j <= l
    <3>1. w \in good
      <4>1. \E l \in good : \A j \in good : j <= l
        BY <2>5
      <4> HIDE DEF good
      <4>2. QED
        BY <4>1, Zenon
    <3>2. Freshest(q) = w
      BY <1>2, Zenon DEF Freshest
    <3>3. QED
      BY <3>1, <3>2
  <2>7. QED
    BY <2>6
<1>3. QED
  BY <1>1, <1>2

(* store() puts the newest ticket behind what is kept of the queue.        *)
LEMMA StoreTicketInv ==
    ASSUME StoreInv, NEW h \in Hosts, StoreTicket(h)
    PROVE  StoreInv'
<1> DEFINE q == queue[h]
           s == Keep(q, MaxTickets - 1)
           a == Append(s, minted + 1)
<1>1. q \in Seq(Nat) /\ MaxTickets - 1 \in Nat /\ MaxTickets \in Nat
  BY StoreAssumption DEF StoreInv, StoreTypes
<1>2. /\ s \in Seq(Nat) /\ Len(s) <= MaxTickets - 1
      /\ \E k \in Nat : \A i \in DOMAIN s : i + k \in DOMAIN q /\ s[i] = q[i + k]
  BY <1>1, KeepPart
<1>3. PICK k \in Nat : \A i \in DOMAIN s : i + k \in DOMAIN q /\ s[i] = q[i + k]
  BY <1>2
<1>4. queue' = [queue EXCEPT ![h] = a] /\ minted' = minted + 1 /\ minted < MaxStored
      /\ stale' = stale /\ taken' = taken
  BY DEF StoreTicket
<1>5. minted \in Nat /\ minted' \in Nat /\ MaxStored \in Nat
  BY <1>4, StoreAssumption DEF StoreInv, StoreTypes
<1> HIDE DEF s
<1>6. a \in Seq(Nat) /\ Len(a) = Len(s) + 1 /\ a[Len(a)] = minted + 1
  BY <1>2, <1>5
<1>7. \A i \in DOMAIN a : i # Len(a) => i \in DOMAIN s /\ a[i] = s[i]
  BY <1>2, <1>5, <1>6
<1> HIDE DEF a, q
<1>8. StoreTypes'
  BY <1>4, <1>5, <1>6 DEF StoreInv, StoreTypes
<1>9. \A i \in DOMAIN q : q[i] \in 1 .. minted
  BY DEF q, StoreInv, QueueSound
<1>10. \A i, j \in DOMAIN q : i < j => q[i] < q[j]
  BY DEF q, StoreInv, QueueSound
<1>11. \A i \in DOMAIN a : a[i] = minted + 1 \/ \E l \in DOMAIN q : a[i] = q[l]
  BY <1>3, <1>6, <1>7
<1>12. \A i, j \in DOMAIN a : i < j => a[i] < a[j]
  <2>1. SUFFICES ASSUME NEW i \in DOMAIN a, NEW j \in DOMAIN a, i < j
                 PROVE  a[i] < a[j]
    OBVIOUS
  <2>2. i \in DOMAIN s /\ i \in Nat /\ j \in Nat /\ i # Len(a)
    BY <1>6, <1>7, <2>1
  <2>3. a[i] = q[i + k] /\ i + k \in DOMAIN q
    BY <2>2, <1>3, <1>7
  <2>4. CASE j = Len(a)
    BY <2>3, <2>4, <1>6, <1>9, <1>5
  <2>5. CASE j # Len(a)
    <3>1. a[j] = q[j + k] /\ j + k \in DOMAIN q
      BY <2>5, <1>3, <1>7
    <3>2. QED
      BY <2>1, <2>2, <2>3, <3>1, <1>10
  <2>6. QED
    BY <2>4, <2>5
<1>13. QueueSound'
  <2>1. SUFFICES ASSUME NEW g \in Hosts
                 PROVE  /\ Len(queue'[g]) <= MaxTickets
                        /\ \A i \in DOMAIN queue'[g] : queue'[g][i] \in 1 .. minted'
                        /\ \A i, j \in DOMAIN queue'[g] :
                              i < j => queue'[g][i] < queue'[g][j]
                        /\ \A f \in Hosts \ {g} : \A i \in DOMAIN queue'[g] :
                              \A j \in DOMAIN queue'[f] : queue'[g][i] # queue'[f][j]
    BY DEF QueueSound
  <2>2. \A f \in Hosts : queue'[f] = IF f = h THEN a ELSE queue[f]
    BY <1>4 DEF StoreInv, StoreTypes
  <2>3. \A f \in Hosts \ {h} : \A i \in DOMAIN a : \A j \in DOMAIN queue[f] :
           a[i] # queue[f][j]
    BY <1>5, <1>11 DEF StoreInv, QueueSound, q
  <2>4. Len(a) <= MaxTickets
    BY <1>1, <1>2, <1>6
  <2>5. \A i \in DOMAIN a : a[i] \in 1 .. minted'
    BY <1>4, <1>5, <1>9, <1>11
  <2>6. \A f \in Hosts : \A i \in DOMAIN queue[f] : queue[f][i] \in 1 .. minted'
    BY <1>4, <1>5 DEF StoreInv, QueueSound
  <2>7. CASE g = h
    BY <2>2, <2>3, <2>4, <2>5, <2>7, <1>12
  <2>8. CASE g # h
    BY <2>2, <2>3, <2>6, <2>8 DEF StoreInv, QueueSound
  <2>9. QED
    BY <2>7, <2>8
<1>14. TakenSound'
  <2>1. \A x \in taken : x.ticket \in 1 .. minted' /\ x.ticket # minted + 1
    BY <1>4, <1>5 DEF StoreInv, TakenSound
  <2>2. \A f \in Hosts : queue'[f] = IF f = h THEN a ELSE queue[f]
    BY <1>4 DEF StoreInv, StoreTypes
  <2>3. \A x \in taken : \A f \in Hosts : \A i \in DOMAIN queue'[f] :
           queue'[f][i] # x.ticket
    BY <2>1, <2>2, <1>11 DEF StoreInv, TakenSound, q
  <2>4. QED
    BY <2>1, <2>3, <1>4 DEF StoreInv, TakenSound
<1>15. QED
  BY <1>8, <1>13, <1>14 DEF StoreInv

(* take() hands out one ticket and keeps what is in front of it.           *)
LEMMA TakeTicketInv ==
    ASSUME StoreInv, NEW h \in Hosts, TakeTicket(h)
    PROVE  StoreInv'
<1> DEFINE q == queue[h]
           i == Freshest(q)
           s == SubSeq(q, 1, i - 1)
           left == {q[j] : j \in 1 .. i - 1} \ stale
           x == [host |-> h, ticket |-> q[i], left |-> left]
<1>1. q \in Seq(Nat) /\ i \in 0 .. Len(q)
  BY FreshestPlace DEF StoreInv, StoreTypes
<1>2. /\ queue' = [queue EXCEPT ![h] = s] /\ stale' = stale /\ minted' = minted
      /\ taken' = IF i = 0 THEN taken ELSE taken \cup {x}
  BY DEF TakeTicket
<1> HIDE DEF i
<1>3. s \in Seq(Nat) /\ Len(s) = (IF i = 0 THEN 0 ELSE i - 1)
  BY <1>1
<1>4. \A j \in DOMAIN s : j \in DOMAIN q /\ j < i /\ s[j] = q[j]
  <2>1. \A j \in 1 .. i - 1 : s[j] = q[j]
    BY <1>1
  <2>2. QED
    BY <1>1, <1>3, <2>1
<1> HIDE DEF s
<1>5. \A f \in Hosts : queue'[f] = IF f = h THEN s ELSE queue[f]
  BY <1>2 DEF StoreInv, StoreTypes
<1>6. StoreTypes'
  BY <1>2, <1>3 DEF StoreInv, StoreTypes
<1>7. QueueSound'
  <2>1. Len(s) <= MaxTickets /\ (\A j \in DOMAIN s : s[j] \in 1 .. minted)
    BY <1>1, <1>3, <1>4, StoreAssumption DEF StoreInv, QueueSound
  <2>2. \A j, l \in DOMAIN s : j < l => s[j] < s[l]
    BY <1>4 DEF StoreInv, QueueSound
  <2>3. QED
    BY <1>2, <1>4, <1>5, <2>1, <2>2 DEF StoreInv, QueueSound
<1>8. TakenSound'
  <2>1. CASE i = 0
    BY <2>1, <1>2, <1>4, <1>5 DEF StoreInv, TakenSound
  <2>2. CASE i # 0
    <3>1. i \in DOMAIN q
      BY <1>1, <2>2
    <3>2. x.ticket = q[i] /\ x.left = left
      OBVIOUS
    <3> HIDE DEF x
    <3>3. x.ticket \in 1 .. minted
      BY <3>1, <3>2 DEF StoreInv, QueueSound
    <3>4. \A y \in taken : y.ticket # x.ticket
      BY <3>1, <3>2 DEF StoreInv, TakenSound
    <3>5. \A t \in x.left : t < x.ticket
      <4>1. SUFFICES ASSUME NEW j \in 1 .. i - 1 PROVE q[j] < q[i]
        BY <3>2
      <4>2. j \in DOMAIN q /\ j < i
        BY <1>1
      <4>3. QED
        BY <3>1, <4>2 DEF StoreInv, QueueSound
    <3>6. \A f \in Hosts : \A j \in DOMAIN queue'[f] : queue'[f][j] # x.ticket
      <4>1. ASSUME NEW j \in DOMAIN s PROVE s[j] # q[i]
        <5>1. q[j] < q[i] /\ q[j] \in Nat /\ q[i] \in Nat
          BY <1>1, <1>4, <3>1 DEF StoreInv, QueueSound
        <5>2. QED
          BY <1>4, <5>1
      <4>2. \A f \in Hosts \ {h} : \A j \in DOMAIN queue[f] : queue[f][j] # q[i]
        BY <3>1 DEF StoreInv, QueueSound
      <4>3. QED
        BY <1>5, <3>2, <4>1, <4>2
    <3>7. \A y \in taken : \A f \in Hosts : \A j \in DOMAIN queue'[f] :
             queue'[f][j] # y.ticket
      BY <1>4, <1>5 DEF StoreInv, TakenSound
    <3>8. QED
      BY <1>2, <2>2, <3>3, <3>4, <3>5, <3>6, <3>7 DEF StoreInv, TakenSound
  <2>3. QED
    BY <2>1, <2>2
<1>9. QED
  BY <1>6, <1>7, <1>8 DEF StoreInv

(* The store keeps its invariant.                                          *)
THEOREM StoreInvariance == StoreSpec => []StoreInv
<1>1. StoreInit => StoreInv
  BY StoreAssumption DEF StoreInit, StoreInv, StoreTypes, QueueSound, TakenSound
<1>2. StoreInv /\ [StoreNext]_store_vars => StoreInv'
  <2>1. SUFFICES ASSUME StoreInv, [StoreNext]_store_vars PROVE StoreInv'
    OBVIOUS
  <2>2. CASE \E h \in Hosts : StoreTicket(h) \/ TakeTicket(h)
    BY <2>1, <2>2, StoreTicketInv, TakeTicketInv
  <2>3. CASE \E t \in 1 .. MaxStored : Expire(t)
    BY <2>1, <2>3 DEF Expire, StoreInv, StoreTypes, QueueSound, TakenSound
  <2>4. CASE UNCHANGED store_vars
    BY <2>1, <2>4 DEF store_vars, StoreInv, StoreTypes, QueueSound, TakenSound
  <2>5. QED
    BY <2>1, <2>2, <2>3, <2>4 DEF StoreNext
<1>3. QED
  BY <1>1, <1>2, PTL DEF StoreSpec

(* take() hands a ticket out once, whatever is stored and expires between  *)
(* two calls, and none fresher stays behind.                               *)
THEOREM TicketsOnce == StoreSpec => []TicketsUsedOnce
<1>1. StoreInv => TicketsUsedOnce
  BY DEF StoreInv, StoreTypes, QueueSound, TakenSound, TicketsUsedOnce, StoreTypeOK
<1>2. QED
  BY <1>1, StoreInvariance, PTL
=============================================================================
