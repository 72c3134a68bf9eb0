--------------------------- MODULE HandshakeProofs ---------------------------
(***************************************************************************)
(* Proofs about Handshake, for any sets of sockets, any number of channels *)
(* and any number of lost SYNs.                                            *)
(***************************************************************************)
EXTENDS Handshake, SequenceTheorems, TLAPS

-----------------------------------------------------------------------------
(* Every connection has its own ends.                                      *)

HasType(u, type) == \E i \in DOMAIN u : u[i].type = type
SynFirst(u) == \A i \in DOMAIN u : u[i].type = "syn" => i = 1
NoTwice(s) == \A i, j \in DOMAIN s : i # j => s[i] # s[j]

\* The connection of channel c waits to be accepted: its SYN is under way, or it
\* is in the queue.
Waits(c) == c \in ToSet(conns) \/ HasType(up[c], "syn")

\* No channel that does not exist yet is used.
OnlyExisting ==
    /\ Len(chans) =< MaxConnects
    /\ \A c \in Channels : c \notin DOMAIN chans => up[c] = <<>> /\ down[c] = <<>>
    /\ ToSet(conns) \subseteq DOMAIN chans
    /\ \A x \in Sockets :
        /\ chan[x] # 0 => chan[x] \in DOMAIN chans
        /\ ToSet(unread[x]) \subseteq DOMAIN chans
    /\ \A s \in connecting : chan[s] # 0

\* A channel has one SYN, which is its first packet: it is under way, or in the
\* queue once, or was accepted.
OneSyn ==
    /\ NoTwice(conns)
    /\ \A c \in DOMAIN chans :
        /\ SynFirst(up[c])
        /\ HasType(up[c], "syn") => c \notin ToSet(conns)
        /\ Waits(c) => chans[c].dest \notin Peers

RoutesInv == TypeOK /\ OnlyExisting /\ OneSyn /\ OneEndEachSide

-----------------------------------------------------------------------------
(* Every packet is expected.                                               *)

Has(d, type) == \E i \in DOMAIN d : d[i] = type
IsError(type) == type \in {"eof", "reset"}
HasError(d) == \E i \in DOMAIN d : IsError(d[i])

\* Packets to the acceptor's side end where the channel ends, or nowhere.  The end
\* of the stream is sent once, by a connector that leaves the channel; nobody
\* waits for an ack.
UpFits(u, e) ==
    /\ \A i \in DOMAIN u :
        /\ u[i].to \in {e.dest, Nowhere}
        /\ u[i].type = "syn" => u[i].to \notin Peers
        /\ u[i].type = "eof" => u[i].to # Acceptor /\ e.home = Nowhere
        /\ u[i].type = "ack" => u[i].to = Nowhere
    /\ \A i, j \in DOMAIN u : u[i].type = "eof" /\ u[j].type = "eof" => i = j

\* Packets to the connector's side: a SYN+ACK comes first, one error comes at most.
DownFits(d) ==
    /\ \A i \in DOMAIN d : d[i] = "syn_ack" => i = 1
    /\ \A i, j \in DOMAIN d : IsError(d[i]) /\ IsError(d[j]) => i = j

PacketsFit ==
    \A c \in DOMAIN chans : UpFits(up[c], chans[c]) /\ DownFits(down[c])

\* Nothing comes to the connector any more.
Dead(c) == down[c] = <<>> /\ ~Waits(c) /\ chans[c].dest \notin Peers

\* The connector's side of channel c.
HomeFits(c) ==
    LET s == chans[c].home IN
    /\ Has(down[c], "syn_ack") => chans[c].dest # Acceptor /\ (s # Nowhere => s \in connecting)
    /\ Has(down[c], "ack") => s = Nowhere
    /\ HasError(down[c]) => chans[c].dest = Nowhere
    /\ Waits(c) => down[c] = <<>> /\ (s # Nowhere => s \in connecting)
    /\ s # Nowhere => chan[s] = c \/ Dead(c)
    /\ s # Nowhere /\ c \in ToSet(unread[s]) =>
        ~HasError(down[c]) /\ chans[c].dest = Nowhere /\ ~Waits(c)

\* The acceptor's side of channel c.
DestFits(c) ==
    LET p == chans[c].dest IN
    p \in Peers =>
        /\ chan[p] = c \/ (chans[c].home = Nowhere /\ ~HasType(up[c], "eof"))
        /\ c \in ToSet(unread[p]) => chans[c].home = Nowhere /\ ~HasType(up[c], "eof")

\* A connect that is pending: it is answered when it is accepted.
ConnectFits ==
    \A s \in Connectors :
        /\ chan[s] # 0 /\ s \notin connecting => chans[chan[s]].dest # Acceptor
        /\ s \in connecting /\ chans[chan[s]].dest \in Peers => Has(down[chan[s]], "syn_ack")

AcceptorFits ==
    /\ acc.bound => acc.open
    /\ ~acc.bound => \A c \in DOMAIN chans : chans[c].dest # Acceptor
    /\ accepting # NoSocket =>
        /\ chan[accepting] = 0 /\ unread[accepting] = <<>>
        /\ \A c \in DOMAIN chans : chans[c].dest # accepting

TrafficInv ==
    /\ PacketsFit
    /\ \A c \in DOMAIN chans : HomeFits(c) /\ DestFits(c)
    /\ ConnectFits
    /\ AcceptorFits
    /\ ReadsOwnStream
    /\ PacketsExpected

-----------------------------------------------------------------------------
(* Sequences.                                                              *)

LEMMA TailSeq ==
    ASSUME NEW S, NEW s \in Seq(S), s # <<>>
    PROVE  /\ Tail(s) \in Seq(S) /\ Head(s) \in S /\ Head(s) = s[1] /\ 1 \in DOMAIN s
           /\ Len(s) \in Nat \ {0} /\ DOMAIN s = 1..Len(s) /\ DOMAIN Tail(s) = 1..(Len(s)-1)
           /\ \A i \in DOMAIN Tail(s) : i+1 \in DOMAIN s /\ Tail(s)[i] = s[i+1] /\ i+1 # 1
<1>1. Len(s) \in Nat \ {0}
  BY EmptySeq
<1>2. QED
  BY <1>1, HeadTailProperties, LenProperties

LEMMA AppendSeq ==
    ASSUME NEW S, NEW s \in Seq(S), NEW e \in S
    PROVE  /\ Append(s, e) \in Seq(S) /\ Append(s, e) # <<>>
           /\ Len(s) \in Nat /\ DOMAIN s = 1..Len(s)
           /\ DOMAIN Append(s, e) = 1..(Len(s)+1)
           /\ Append(s, e)[Len(s)+1] = e
           /\ \A i \in DOMAIN s : i \in DOMAIN Append(s, e) /\ Append(s, e)[i] = s[i]
           /\ \A i \in DOMAIN Append(s, e) : i \in DOMAIN s \/ i = Len(s)+1
BY AppendProperties, LenProperties

LEMMA ToSetAppend ==
    ASSUME NEW S, NEW s \in Seq(S), NEW e \in S
    PROVE  ToSet(Append(s, e)) = ToSet(s) \cup {e}
<1>1. \A x \in ToSet(Append(s, e)) : x \in ToSet(s) \cup {e}
  BY AppendSeq DEF ToSet
<1>2. \A x \in ToSet(s) : x \in ToSet(Append(s, e))
  BY AppendSeq DEF ToSet
<1>3. e \in ToSet(Append(s, e))
  <2>1. Len(s)+1 \in DOMAIN Append(s, e) /\ Append(s, e)[Len(s)+1] = e
    BY AppendSeq
  <2>2. QED
    BY <2>1 DEF ToSet
<1>4. QED
  BY <1>1, <1>2, <1>3

LEMMA ToSetTail ==
    ASSUME NEW S, NEW s \in Seq(S), s # <<>>
    PROVE  /\ ToSet(s) = ToSet(Tail(s)) \cup {Head(s)} /\ Head(s) \in ToSet(s)
           /\ NoTwice(s) => Head(s) \notin ToSet(Tail(s)) /\ NoTwice(Tail(s))
<1>1. \A x \in ToSet(Tail(s)) : x \in ToSet(s)
  BY TailSeq DEF ToSet
<1>2. Head(s) \in ToSet(s)
  BY TailSeq DEF ToSet
<1>3. ASSUME NEW x \in ToSet(s) PROVE x \in ToSet(Tail(s)) \cup {Head(s)}
  <2>1. PICK i \in DOMAIN s : x = s[i]
    BY <1>3 DEF ToSet
  <2>2. CASE i = 1
    BY <2>1, <2>2, TailSeq
  <2>3. CASE i # 1
    <3>1. i-1 \in DOMAIN Tail(s) /\ (i-1)+1 = i
      BY <2>3, TailSeq
    <3>2. Tail(s)[i-1] = x
      BY <2>1, <3>1, TailSeq
    <3>3. QED
      BY <3>1, <3>2 DEF ToSet
  <2>4. QED
    BY <2>2, <2>3
<1>4. ASSUME NoTwice(s) PROVE Head(s) \notin ToSet(Tail(s)) /\ NoTwice(Tail(s))
  <2>1. Head(s) \notin ToSet(Tail(s))
    BY <1>4, TailSeq DEF NoTwice, ToSet
  <2>2. NoTwice(Tail(s))
    <3>1. ASSUME NEW i \in DOMAIN Tail(s), NEW j \in DOMAIN Tail(s), i # j
          PROVE  Tail(s)[i] # Tail(s)[j]
      <4>1. i+1 \in DOMAIN s /\ j+1 \in DOMAIN s /\ Tail(s)[i] = s[i+1] /\ Tail(s)[j] = s[j+1]
        BY TailSeq
      <4>2. i+1 # j+1
        BY <3>1, TailSeq
      <4>3. QED
        BY <1>4, <4>1, <4>2 DEF NoTwice
    <3>2. QED
      BY <3>1 DEF NoTwice
  <2>3. QED
    BY <2>1, <2>2
<1>5. QED
  BY <1>1, <1>2, <1>3, <1>4

LEMMA NoTwiceAppend ==
    ASSUME NEW S, NEW s \in Seq(S), NEW e \in S, NoTwice(s), e \notin ToSet(s)
    PROVE  NoTwice(Append(s, e))
<1>1. \A i \in DOMAIN s : s[i] # e
  BY DEF ToSet
<1>2. QED
  BY <1>1, AppendSeq DEF NoTwice

LEMMA ToSetEmpty == ToSet(<<>>) = {}
BY DEF ToSet

LEMMA ToSetNotEmpty ==
    ASSUME NEW S, NEW s \in Seq(S), ToSet(s) = {}
    PROVE  s = <<>>
<1>1. DOMAIN s = {}
  BY DEF ToSet
<1>2. Len(s) = 0
  BY <1>1, LenProperties
<1>3. QED
  BY <1>2, EmptySeq

-----------------------------------------------------------------------------
(* Packets on their way.                                                   *)

Ends == [home : Connectors \cup {Nowhere}, dest : Peers \cup {Acceptor, Nowhere}]

CutSeq(u, x) == [i \in DOMAIN u |-> [u[i] EXCEPT !.to = Cut(@, x)]]

LEMMA CutSeqFacts ==
    ASSUME NEW u \in Seq(UpPackets), NEW x
    PROVE  /\ CutSeq(u, x) \in Seq(UpPackets) /\ DOMAIN CutSeq(u, x) = DOMAIN u
           /\ \A i \in DOMAIN u : /\ CutSeq(u, x)[i].type = u[i].type
                                  /\ CutSeq(u, x)[i].to = Cut(u[i].to, x)
           /\ \A t : HasType(CutSeq(u, x), t) <=> HasType(u, t)
           /\ CutSeq(u, x) = <<>> <=> u = <<>>
<1>1. Len(u) \in Nat /\ DOMAIN u = 1..Len(u) /\ \A i \in DOMAIN u : u[i] \in UpPackets
  BY LenProperties
<1>2. \A k \in UpPackets : /\ [k EXCEPT !.to = Cut(@, x)] \in UpPackets
                           /\ [k EXCEPT !.to = Cut(@, x)].type = k.type
                           /\ [k EXCEPT !.to = Cut(@, x)].to = Cut(k.to, x)
  BY DEF UpPackets, Cut
<1>3. DOMAIN CutSeq(u, x) = DOMAIN u /\ \A i \in DOMAIN u : CutSeq(u, x)[i] = [u[i] EXCEPT !.to = Cut(@, x)]
  BY DEF CutSeq
<1>4. CutSeq(u, x) \in Seq(UpPackets)
  <2>1. \A i \in 1..Len(u) : [u[i] EXCEPT !.to = Cut(@, x)] \in UpPackets
    BY <1>1, <1>2
  <2>2. QED
    BY <1>1, <2>1 DEF CutSeq
<1>5. \A i \in DOMAIN u : /\ CutSeq(u, x)[i].type = u[i].type
                          /\ CutSeq(u, x)[i].to = Cut(u[i].to, x)
  BY <1>1, <1>2, <1>3
<1>6. \A t : HasType(CutSeq(u, x), t) <=> HasType(u, t)
  BY <1>3, <1>5 DEF HasType
<1>7. CutSeq(u, x) = <<>> <=> u = <<>>
  <2>1. \A v \in Seq(UpPackets) : v = <<>> <=> DOMAIN v = {}
    <3>1. ASSUME NEW v \in Seq(UpPackets), DOMAIN v = {} PROVE v = <<>>
      <4>1. Len(v) = 0
        BY <3>1, LenProperties
      <4>2. QED
        BY <4>1, EmptySeq
    <3>2. QED
      BY <3>1
  <2>2. QED
    BY <1>3, <1>4, <2>1
<1>8. QED
  BY <1>3, <1>4, <1>5, <1>6, <1>7

LEMMA CutSeqSyn ==
    ASSUME NEW u \in Seq(UpPackets), NEW x
    PROVE  SynFirst(u) => SynFirst(CutSeq(u, x))
BY CutSeqFacts DEF SynFirst

LEMMA TailTypes ==
    ASSUME NEW u \in Seq(UpPackets), u # <<>>
    PROVE  /\ \A t : HasType(Tail(u), t) => HasType(u, t)
           /\ HasType(u, Head(u).type)
           /\ SynFirst(u) => ~HasType(Tail(u), "syn") /\ SynFirst(Tail(u))
BY TailSeq DEF HasType, SynFirst

LEMMA AppendTypes ==
    ASSUME NEW u \in Seq(UpPackets), NEW k \in UpPackets
    PROVE  \A t : HasType(Append(u, k), t) <=> (HasType(u, t) \/ k.type = t)
<1>1. \A t : HasType(Append(u, k), t) => HasType(u, t) \/ k.type = t
  BY AppendSeq DEF HasType
<1>2. \A t : HasType(u, t) => HasType(Append(u, k), t)
  BY AppendSeq DEF HasType
<1>3. HasType(Append(u, k), k.type)
  <2>1. Len(u)+1 \in DOMAIN Append(u, k) /\ Append(u, k)[Len(u)+1] = k
    BY AppendSeq
  <2>2. QED
    BY <2>1 DEF HasType
<1>4. QED
  BY <1>1, <1>2, <1>3

LEMMA NoTypes == \A t : ~HasType(<<>>, t)
BY DEF HasType

LEMMA AppendSyn ==
    ASSUME NEW u \in Seq(UpPackets), NEW k \in UpPackets, SynFirst(u), k.type # "syn"
    PROVE  SynFirst(Append(u, k))
BY AppendSeq DEF SynFirst

-----------------------------------------------------------------------------
(* What the operators of closing and sending do to each channel.           *)

LEMMA EndsOfChannels ==
    ASSUME TypeOK
    PROVE  /\ chans \in Seq(Ends) /\ Len(chans) \in Nat /\ DOMAIN chans = 1..Len(chans)
           /\ \A c \in DOMAIN chans :
                /\ chans[c] \in Ends
                /\ chans[c].home \in Connectors \cup {Nowhere}
                /\ chans[c].dest \in Peers \cup {Acceptor, Nowhere}
<1>1. chans \in Seq(Ends)
  BY DEF TypeOK, Ends
<1>2. Len(chans) \in Nat /\ DOMAIN chans = 1..Len(chans)
  BY <1>1, LenProperties
<1>3. \A c \in DOMAIN chans : chans[c] \in Ends
  BY <1>1, <1>2
<1>4. \A e \in Ends : e.home \in Connectors \cup {Nowhere} /\ e.dest \in Peers \cup {Acceptor, Nowhere}
  BY DEF Ends
<1>5. QED
  BY <1>1, <1>2, <1>3, <1>4

LEMMA CutChannelsFacts ==
    ASSUME TypeOK, NEW x
    PROVE  /\ CutChannels(x) \in Seq(Ends) /\ DOMAIN CutChannels(x) = DOMAIN chans
           /\ Len(CutChannels(x)) = Len(chans)
           /\ \A c \in DOMAIN chans :
                /\ CutChannels(x)[c].home = Cut(chans[c].home, x)
                /\ CutChannels(x)[c].dest = Cut(chans[c].dest, x)
<1>1. chans \in Seq(Ends) /\ Len(chans) \in Nat /\ DOMAIN chans = 1..Len(chans)
  BY EndsOfChannels
<1>2. \A c \in 1..Len(chans) : chans[c].home \in Connectors \cup {Nowhere} /\ chans[c].dest \in Peers \cup {Acceptor, Nowhere}
  BY <1>1, EndsOfChannels
<1>3. \A c \in 1..Len(chans) :
        [home |-> Cut(chans[c].home, x), dest |-> Cut(chans[c].dest, x)] \in Ends
  BY <1>2 DEF Ends, Cut
<1>4. CutChannels(x) = [c \in 1..Len(chans) |->
        [home |-> Cut(chans[c].home, x), dest |-> Cut(chans[c].dest, x)]]
  BY <1>1 DEF CutChannels
<1>5. CutChannels(x) \in Seq(Ends) /\ Len(CutChannels(x)) = Len(chans)
  BY <1>1, <1>3, <1>4
<1>6. QED
  BY <1>1, <1>4, <1>5

LEMMA CutPacketsFacts ==
    ASSUME NEW u \in [Channels -> Seq(UpPackets)], NEW x
    PROVE  /\ CutPackets(u, x) \in [Channels -> Seq(UpPackets)]
           /\ \A c \in Channels : CutPackets(u, x)[c] = CutSeq(u[c], x)
<1>1. \A c \in Channels : CutPackets(u, x)[c] = CutSeq(u[c], x)
  BY DEF CutPackets, CutSeq
<1>2. \A c \in Channels : CutSeq(u[c], x) \in Seq(UpPackets)
  BY CutSeqFacts
<1>3. CutPackets(u, x) = [c \in Channels |-> CutSeq(u[c], x)]
  BY DEF CutPackets, CutSeq
<1>4. QED
  BY <1>1, <1>2, <1>3

\* The packet a connector sends along channel c.
UpPacket(type, c) == [type |-> type, to |-> chans[c].dest]

LEMMA UpPacketFacts ==
    ASSUME TypeOK, NEW c \in DOMAIN chans, NEW type \in {"syn", "eof", "ack"}
    PROVE  /\ UpPacket(type, c) \in UpPackets
           /\ UpPacket(type, c).type = type /\ UpPacket(type, c).to = chans[c].dest
<1>1. chans[c].dest \in Peers \cup {Acceptor, Nowhere}
  BY EndsOfChannels
<1>2. QED
  BY <1>1 DEF UpPacket, UpPackets

LEMMA SendUpFacts ==
    ASSUME TypeOK, NEW u \in [Channels -> Seq(UpPackets)], NEW c \in Channels,
           c \in DOMAIN chans, NEW type \in {"syn", "eof", "ack"}
    PROVE  /\ UpPacket(type, c) \in UpPackets
           /\ SendUp(u, c, type) \in [Channels -> Seq(UpPackets)]
           /\ \A b \in Channels : SendUp(u, c, type)[b] =
                IF b = c THEN Append(u[c], UpPacket(type, c)) ELSE u[b]
<1>1. chans[c] \in Ends
  BY EndsOfChannels
<1>2. UpPacket(type, c) \in UpPackets
  BY <1>1 DEF UpPacket, UpPackets, Ends
<1>3. Append(u[c], UpPacket(type, c)) \in Seq(UpPackets)
  BY <1>2, AppendSeq
<1>4. SendUp(u, c, type) = [u EXCEPT ![c] = Append(u[c], UpPacket(type, c))]
  BY DEF SendUp, UpPacket
<1>5. QED
  BY <1>2, <1>3, <1>4

LEMMA SendDownFacts ==
    ASSUME NEW d \in [Channels -> Seq(DownPackets)], NEW c \in Channels, NEW type \in DownPackets
    PROVE  /\ SendDown(d, c, type) \in [Channels -> Seq(DownPackets)]
           /\ \A b \in Channels : SendDown(d, c, type)[b] =
                IF b = c THEN Append(d[c], type) ELSE d[b]
<1>1. Append(d[c], type) \in Seq(DownPackets)
  BY AppendSeq
<1>2. QED
  BY <1>1 DEF SendDown

\* Does x send the end of the stream along channel c when it is closed?
SendsEnd(x, c) == Established(x) /\ chan[x] = c

LEMMA UpClosedFacts ==
    ASSUME TypeOK, OnlyExisting, NEW x \in Sockets
    PROVE  /\ UpClosed(x) \in [Channels -> Seq(UpPackets)]
           /\ \A c \in Channels : UpClosed(x)[c] =
                IF x \in Connectors /\ SendsEnd(x, c)
                THEN CutSeq(Append(up[c], UpPacket("eof", c)), x) ELSE CutSeq(up[c], x)
<1>0. up \in [Channels -> Seq(UpPackets)] /\ chan[x] \in 0..MaxConnects /\ MaxConnects \in Nat
  BY ConstantsAssumption DEF TypeOK
<1>1. CASE x \in Connectors /\ Established(x)
  <2>1. chan[x] \in Channels /\ chan[x] \in DOMAIN chans
    BY <1>0, <1>1 DEF Channels, Established, OnlyExisting
  <2>2. UpClosed(x) = CutPackets(SendUp(up, chan[x], "eof"), x)
    BY <1>1 DEF UpClosed
  <2>3. /\ SendUp(up, chan[x], "eof") \in [Channels -> Seq(UpPackets)]
        /\ \A b \in Channels : SendUp(up, chan[x], "eof")[b] =
             IF b = chan[x] THEN Append(up[b], UpPacket("eof", b)) ELSE up[b]
    BY <1>0, <2>1, SendUpFacts
  <2>4. /\ UpClosed(x) \in [Channels -> Seq(UpPackets)]
        /\ \A c \in Channels : UpClosed(x)[c] = CutSeq(SendUp(up, chan[x], "eof")[c], x)
    BY <2>2, <2>3, CutPacketsFacts
  <2>5. \A c \in Channels : x \in Connectors /\ SendsEnd(x, c) <=> c = chan[x]
    BY <1>1 DEF SendsEnd
  <2>6. QED
    BY <2>3, <2>4, <2>5
<1>2. CASE ~(x \in Connectors /\ Established(x))
  <2>1. UpClosed(x) = CutPackets(up, x)
    BY <1>2 DEF UpClosed
  <2>2. QED
    BY <1>0, <1>2, <2>1, CutPacketsFacts DEF SendsEnd
<1>3. QED
  BY <1>1, <1>2

LEMMA DownClosedFacts ==
    ASSUME TypeOK, OnlyExisting, NEW x \in Sockets
    PROVE  /\ DownClosed(x) \in [Channels -> Seq(DownPackets)]
           /\ \A c \in Channels : DownClosed(x)[c] =
                IF x \in Peers /\ SendsEnd(x, c) THEN Append(down[c], "eof") ELSE down[c]
<1>0. down \in [Channels -> Seq(DownPackets)] /\ chan[x] \in 0..MaxConnects /\ MaxConnects \in Nat
  BY ConstantsAssumption DEF TypeOK
<1>1. CASE x \in Peers /\ Established(x)
  <2>1. chan[x] \in Channels
    BY <1>0, <1>1 DEF Channels, Established
  <2>2. DownClosed(x) = SendDown(down, chan[x], "eof")
    BY <1>1 DEF DownClosed
  <2>3. "eof" \in DownPackets
    BY DEF DownPackets
  <2>4. QED
    BY <1>0, <1>1, <2>1, <2>2, <2>3, SendDownFacts DEF SendsEnd
<1>2. CASE ~(x \in Peers /\ Established(x))
  <2>1. DownClosed(x) = down
    BY <1>2 DEF DownClosed
  <2>2. QED
    BY <1>0, <1>2, <2>1 DEF SendsEnd
<1>3. QED
  BY <1>1, <1>2

-----------------------------------------------------------------------------
(* Types.                                                                  *)

LEMMA TypeFacts ==
    ASSUME TypeOK
    PROVE  /\ conns \in Seq(Channels) /\ up \in [Channels -> Seq(UpPackets)]
           /\ down \in [Channels -> Seq(DownPackets)]
           /\ chan \in [Sockets -> 0..MaxConnects] /\ unread \in [Sockets -> Seq(Channels)]
           /\ MaxConnects \in Nat /\ Channels = 1..MaxConnects /\ 0 \in 0..MaxConnects
           /\ Channels \subseteq 0..MaxConnects /\ 0 \notin Channels
           /\ accepting \in Peers \cup {NoSocket} /\ Connectors \subseteq Sockets /\ Peers \subseteq Sockets
           /\ Acceptor \notin Sockets /\ Nowhere \notin Sockets /\ NoSocket \notin Sockets
           /\ Acceptor # Nowhere /\ Connectors \cap Peers = {} /\ Sockets = Connectors \cup Peers
           /\ connecting \subseteq Connectors
BY ConstantsAssumption DEF TypeOK, Channels, Sockets

LEMMA ExistingAreChannels ==
    ASSUME TypeOK, OnlyExisting
    PROVE  DOMAIN chans \subseteq Channels
BY EndsOfChannels, TypeFacts DEF OnlyExisting

LEMMA TailOfPackets ==
    ASSUME NEW S, NEW u \in [Channels -> Seq(S)], NEW c \in Channels, u[c] # <<>>
    PROVE  /\ [u EXCEPT ![c] = Tail(@)] \in [Channels -> Seq(S)]
           /\ \A b \in Channels : [u EXCEPT ![c] = Tail(@)][b] = IF b = c THEN Tail(u[c]) ELSE u[b]
<1>1. Tail(u[c]) \in Seq(S)
  BY TailSeq
<1>2. QED
  BY <1>1

LEMMA AcceptorTypes ==
    ASSUME TypeOK, OnlyExisting, AcceptorOp
    PROVE  TypeOK'
<1>1. CASE acc_open
  <2>1. acc' \in [open : BOOLEAN, bound : BOOLEAN, listening : BOOLEAN]
    BY <1>1 DEF acc_open, TypeOK
  <2>2. chans' \in Seq(Ends) /\ up' \in [Channels -> Seq(UpPackets)]
    BY <1>1, CutChannelsFacts, CutPacketsFacts, TypeFacts DEF acc_open
  <2>3. gone' \subseteq Channels
    <3>1. ToSet(conns) \subseteq Channels
      BY TypeFacts DEF ToSet
    <3>2. QED
      BY <1>1, <3>1 DEF acc_open, TypeOK
  <2>4. QED
    BY <1>1, <2>1, <2>2, <2>3 DEF acc_open, TypeOK, Ends, socketVars
<1>2. CASE acc_close
  <2>1. acc' \in [open : BOOLEAN, bound : BOOLEAN, listening : BOOLEAN]
    BY <1>2 DEF acc_close
  <2>2. chans' \in Seq(Ends) /\ up' \in [Channels -> Seq(UpPackets)]
    BY <1>2, CutChannelsFacts, CutPacketsFacts, TypeFacts DEF acc_close
  <2>3. gone' \subseteq Channels
    <3>1. ToSet(conns) \subseteq Channels
      BY TypeFacts DEF ToSet
    <3>2. QED
      BY <1>2, <3>1 DEF acc_close, TypeOK
  <2>4. QED
    BY <1>2, <2>1, <2>2, <2>3 DEF acc_close, TypeOK, Ends, socketVars
<1>3. CASE acc_bind \/ listen
  <2>1. acc' \in [open : BOOLEAN, bound : BOOLEAN, listening : BOOLEAN]
    BY <1>3 DEF acc_bind, listen, TypeOK
  <2>2. QED
    BY <1>3, <2>1 DEF acc_bind, listen, TypeOK, socketVars, netVars
<1>4. CASE acc_cancel
  BY <1>4 DEF acc_cancel, TypeOK, socketVars, netVars
<1>5. QED
  BY <1>1, <1>2, <1>3, <1>4 DEF AcceptorOp

LEMMA SocketTypes ==
    ASSUME TypeOK, OnlyExisting, NEW x \in Sockets, close(x) \/ renew(x) \/ read_some(x)
    PROVE  TypeOK'
<1>1. CASE close(x)
  <2>1. chans' \in Seq(Ends) /\ up' \in [Channels -> Seq(UpPackets)] /\ down' \in [Channels -> Seq(DownPackets)]
    BY <1>1, CutChannelsFacts, UpClosedFacts, DownClosedFacts DEF close
  <2>2. chan' \in [Sockets -> 0..MaxConnects]
    BY <1>1, TypeFacts DEF close
  <2>3. abandoned' \subseteq Channels
    <3>1. CASE x \in connecting /\ chan[x] # 0
      BY <1>1, <3>1, TypeFacts DEF close, TypeOK
    <3>2. CASE x \notin connecting
      BY <1>1, <3>2 DEF close, TypeOK
    <3>3. QED
      BY <3>1, <3>2 DEF OnlyExisting
  <2>4. QED
    BY <1>1, <2>1, <2>2, <2>3 DEF close, TypeOK, Ends, accVars
<1>2. CASE renew(x)
  <2>1. chans' \in Seq(Ends) /\ up' \in [Channels -> Seq(UpPackets)]
    BY <1>2, CutChannelsFacts, CutPacketsFacts, TypeFacts DEF renew
  <2>2. chan' \in [Sockets -> 0..MaxConnects] /\ unread' \in [Sockets -> Seq(Channels)]
    BY <1>2, TypeFacts, EmptySeq DEF renew
  <2>3. abandoned' \subseteq Channels
    BY <1>2, TypeFacts DEF renew, TypeOK
  <2>4. QED
    BY <1>2, <2>1, <2>2, <2>3 DEF renew, TypeOK, Ends, accVars
<1>3. CASE read_some(x)
  <2>1. chan' \in [Sockets -> 0..MaxConnects]
    BY <1>3, TypeFacts DEF read_some
  <2>2. unread' \in [Sockets -> Seq(Channels)]
    BY <1>3, TypeFacts, TailSeq DEF read_some
  <2>3. QED
    BY <1>3, <2>1, <2>2 DEF read_some, TypeOK, accVars, netVars
<1>4. QED
  BY <1>1, <1>2, <1>3

LEMMA ConnectTypes ==
    ASSUME TypeOK, OnlyExisting, NEW s \in Connectors,
           async_connect(s) \/ ConnectFails(s) \/ ConnectRefused(s) \/ cancel(s)
    PROVE  TypeOK'
<1>1. CASE async_connect(s)
  <2>1. PICK c : /\ c = Len(chans) + 1 /\ chans' = Append(chans, [home |-> s, dest |-> Acceptor])
                 /\ up' = [up EXCEPT ![c] = <<[type |-> "syn", to |-> Acceptor]>>]
                 /\ chan' = [chan EXCEPT ![s] = c]
    BY <1>1 DEF async_connect
  <2>2. c \in Channels
    BY <1>1, <2>1, EndsOfChannels, TypeFacts DEF async_connect
  <2>3. chan' \in [Sockets -> 0..MaxConnects]
    BY <2>1, <2>2, TypeFacts
  <2>4. up' \in [Channels -> Seq(UpPackets)]
    <3>1. [type |-> "syn", to |-> Acceptor] \in UpPackets
      BY DEF UpPackets
    <3>2. <<[type |-> "syn", to |-> Acceptor]>> \in Seq(UpPackets)
      BY <3>1
    <3>3. QED
      BY <2>1, <2>2, <3>2, TypeFacts
  <2>5. chans' \in Seq(Ends)
    <3>1. [home |-> s, dest |-> Acceptor] \in Ends
      BY DEF Ends
    <3>2. QED
      BY <2>1, <3>1, EndsOfChannels, AppendSeq
  <2>6. QED
    BY <1>1, <2>3, <2>4, <2>5, TypeFacts DEF async_connect, TypeOK, Ends, accVars
<1>2. CASE ConnectFails(s)
  BY <1>2, TypeFacts DEF ConnectFails, TypeOK, accVars, netVars
<1>3. CASE ConnectRefused(s)
  BY <1>3, TypeFacts DEF ConnectRefused, TypeOK, accVars, netVars
<1>4. CASE cancel(s)
  <2>1. chan[s] \in Channels
    BY <1>4, TypeFacts DEF cancel, OnlyExisting
  <2>2. chan' \in [Sockets -> 0..MaxConnects]
    BY <1>4, TypeFacts DEF cancel
  <2>3. QED
    BY <1>4, <2>1, <2>2, TypeFacts DEF cancel, TypeOK, accVars, netVars
<1>5. QED
  BY <1>1, <1>2, <1>3, <1>4

\* What Accepted() makes of the channels.
LEMMA AcceptedFacts ==
    ASSUME TypeOK, OnlyExisting, NEW c \in DOMAIN chans, NEW p \in Peers,
           NEW cs \in Seq(Ends), NEW d \in [Channels -> Seq(DownPackets)],
           DOMAIN cs = DOMAIN chans, Accepted(c, p, cs, d)
    PROVE  /\ chans' \in Seq(Ends) /\ DOMAIN chans' = DOMAIN chans
           /\ \A b \in DOMAIN chans : /\ chans'[b].home = cs[b].home
                                      /\ chans'[b].dest = IF b = c THEN p ELSE cs[b].dest
           /\ down' \in [Channels -> Seq(DownPackets)]
           /\ \A b \in Channels : down'[b] = IF b = c THEN Append(d[b], "syn_ack") ELSE d[b]
           /\ chan' \in [Sockets -> 0..MaxConnects] /\ chan' = [chan EXCEPT ![p] = c]
           /\ opened' = opened \cup {p} /\ opened' \subseteq Sockets /\ accepting' = NoSocket
<1>1. c \in Channels
  BY ExistingAreChannels
<1>2. /\ down' \in [Channels -> Seq(DownPackets)]
      /\ \A b \in Channels : down'[b] = IF b = c THEN Append(d[b], "syn_ack") ELSE d[b]
  <2>1. "syn_ack" \in DownPackets
    BY DEF DownPackets
  <2>2. QED
    BY <1>1, <2>1, SendDownFacts DEF Accepted
<1>3. chan' \in [Sockets -> 0..MaxConnects] /\ chan' = [chan EXCEPT ![p] = c]
  BY <1>1, TypeFacts DEF Accepted
<1>4. opened' = opened \cup {p} /\ opened' \subseteq Sockets /\ accepting' = NoSocket
  BY TypeFacts DEF Accepted, TypeOK
<1>5. \A e \in Ends : /\ [e EXCEPT !.dest = p] \in Ends
                      /\ [e EXCEPT !.dest = p].home = e.home /\ [e EXCEPT !.dest = p].dest = p
  BY DEF Ends
<1>6. \A b \in DOMAIN cs : cs[b] \in Ends
  BY LenProperties
<1>7. chans' = [cs EXCEPT ![c] = [cs[c] EXCEPT !.dest = p]]
  BY DEF Accepted
<1>8. chans' \in Seq(Ends) /\ DOMAIN chans' = DOMAIN chans
  BY <1>5, <1>6, <1>7, LenProperties
<1>9. \A b \in DOMAIN chans : chans'[b] = IF b = c THEN [cs[c] EXCEPT !.dest = p] ELSE cs[b]
  BY <1>7
<1>10. \A b \in DOMAIN chans : /\ chans'[b].home = cs[b].home
                               /\ chans'[b].dest = IF b = c THEN p ELSE cs[b].dest
  BY <1>5, <1>6, <1>9, ZenonT(30)
<1>11. QED
  BY <1>2, <1>3, <1>4, <1>8, <1>10, Zenon

LEMMA AcceptTypes ==
    ASSUME TypeOK, OnlyExisting, NEW p \in Peers, async_accept(p)
    PROVE  TypeOK'
<1>0. p \in Sockets
  BY TypeFacts
<1>1. CASE AcceptNow(p)
  <2>1. Head(conns) \in DOMAIN chans /\ Tail(conns) \in Seq(Channels)
    BY <1>1, TypeFacts, TailSeq, ToSetTail DEF AcceptNow, OnlyExisting
  <2>2. Accepted(Head(conns), p, CutChannels(p), DownClosed(p))
    BY <1>1 DEF AcceptNow
  <2>3. /\ chans' \in Seq(Ends) /\ down' \in [Channels -> Seq(DownPackets)]
        /\ chan' \in [Sockets -> 0..MaxConnects] /\ opened' \subseteq Sockets /\ accepting' = NoSocket
    BY <1>0, <2>1, <2>2, AcceptedFacts, CutChannelsFacts, DownClosedFacts
  <2>4. up' \in [Channels -> Seq(UpPackets)]
    BY <1>0, <1>1, UpClosedFacts DEF AcceptNow
  <2>5. QED
    BY <1>1, <2>1, <2>3, <2>4 DEF AcceptNow, TypeOK, Ends
<1>2. CASE AcceptLater(p)
  <2>1. chans' \in Seq(Ends) /\ up' \in [Channels -> Seq(UpPackets)] /\ down' \in [Channels -> Seq(DownPackets)]
    BY <1>0, <1>2, CutChannelsFacts, UpClosedFacts, DownClosedFacts DEF AcceptLater
  <2>2. chan' \in [Sockets -> 0..MaxConnects]
    BY <1>2, TypeFacts DEF AcceptLater
  <2>3. QED
    BY <1>2, <2>1, <2>2 DEF AcceptLater, TypeOK, Ends
<1>3. CASE AcceptClosed(p)
  <2>1. chans' \in Seq(Ends) /\ up' \in [Channels -> Seq(UpPackets)]
    BY <1>0, <1>3, CutChannelsFacts, UpClosedFacts DEF AcceptClosed
  <2>2. down' \in [Channels -> Seq(DownPackets)]
    <3>1. DownClosed(p) \in [Channels -> Seq(DownPackets)]
      BY <1>0, DownClosedFacts
    <3>2. \A c \in Channels : Append(DownClosed(p)[c], "reset") \in Seq(DownPackets)
      <4>1. "reset" \in DownPackets
        BY DEF DownPackets
      <4>2. QED
        BY <3>1, <4>1, AppendSeq
    <3>3. down' = [c \in Channels |->
                    IF c \in ToSet(conns) THEN Append(DownClosed(p)[c], "reset") ELSE DownClosed(p)[c]]
      BY <1>3 DEF AcceptClosed
    <3>4. QED
      BY <3>1, <3>2, <3>3
  <2>3. chan' \in [Sockets -> 0..MaxConnects]
    BY <1>3, TypeFacts DEF AcceptClosed
  <2>4. conns' \in Seq(Channels)
    BY <1>3, EmptySeq DEF AcceptClosed
  <2>5. QED
    BY <1>3, <2>1, <2>2, <2>3, <2>4 DEF AcceptClosed, TypeOK, Ends
<1>4. QED
  BY <1>1, <1>2, <1>3 DEF async_accept

\* What an error packet does at a socket with a channel: it is acknowledged.
LEMMA ErrorFacts ==
    ASSUME TypeOK, OnlyExisting, NEW x \in Sockets, NEW c \in Channels,
           NEW u \in [Channels -> Seq(UpPackets)], NEW d \in [Channels -> Seq(DownPackets)],
           ErrorArrives(x, c, u, d), chan[x] # 0
    PROVE  /\ up' \in [Channels -> Seq(UpPackets)] /\ down' \in [Channels -> Seq(DownPackets)]
           /\ unread' \in [Sockets -> Seq(Channels)]
           /\ chan[x] \in Channels /\ chan[x] \in DOMAIN chans
           /\ status' = status /\ unread' = [unread EXCEPT ![x] = Append(@, c)]
           /\ \A b \in Channels : up'[b] = IF x \in Connectors /\ b = chan[x]
                                           THEN Append(u[b], UpPacket("ack", b)) ELSE u[b]
           /\ \A b \in Channels : down'[b] = IF x \in Peers /\ b = chan[x]
                                             THEN Append(d[b], "ack") ELSE d[b]
<1>1. chan[x] \in Channels /\ chan[x] \in DOMAIN chans
  BY TypeFacts DEF OnlyExisting
<1>2. status' = status /\ unread' = [unread EXCEPT ![x] = Append(@, c)]
  BY DEF ErrorArrives
<1>3. unread' \in [Sockets -> Seq(Channels)]
  BY <1>2, TypeFacts, AppendSeq
<1>4. /\ up' \in [Channels -> Seq(UpPackets)]
      /\ \A b \in Channels : up'[b] = IF x \in Connectors /\ b = chan[x]
                                      THEN Append(u[b], UpPacket("ack", b)) ELSE u[b]
  <2>1. CASE x \in Connectors
    <3>1. up' = SendUp(u, chan[x], "ack")
      BY <2>1 DEF ErrorArrives
    <3>2. /\ SendUp(u, chan[x], "ack") \in [Channels -> Seq(UpPackets)]
          /\ \A b \in Channels : SendUp(u, chan[x], "ack")[b] =
               IF b = chan[x] THEN Append(u[b], UpPacket("ack", b)) ELSE u[b]
      <4>1. PICK k \in Channels : k = chan[x] /\ k \in DOMAIN chans
        BY <1>1
      <4>2. /\ SendUp(u, k, "ack") \in [Channels -> Seq(UpPackets)]
            /\ \A b \in Channels : SendUp(u, k, "ack")[b] =
                 IF b = k THEN Append(u[k], UpPacket("ack", k)) ELSE u[b]
        BY <4>1, SendUpFacts
      <4>3. QED
        BY <4>1, <4>2
    <3>3. QED
      BY <2>1, <3>1, <3>2
  <2>2. CASE x \notin Connectors
    BY <2>2 DEF ErrorArrives
  <2>3. QED
    BY <2>1, <2>2
<1>5. /\ down' \in [Channels -> Seq(DownPackets)]
      /\ \A b \in Channels : down'[b] = IF x \in Peers /\ b = chan[x]
                                        THEN Append(d[b], "ack") ELSE d[b]
  <2>1. CASE x \in Peers
    <3>1. down' = SendDown(d, chan[x], "ack")
      BY <2>1 DEF ErrorArrives
    <3>2. "ack" \in DownPackets
      BY DEF DownPackets
    <3>3. /\ SendDown(d, chan[x], "ack") \in [Channels -> Seq(DownPackets)]
          /\ \A b \in Channels : SendDown(d, chan[x], "ack")[b] =
               IF b = chan[x] THEN Append(d[b], "ack") ELSE d[b]
      <4>1. PICK k \in Channels : k = chan[x]
        BY <1>1
      <4>2. /\ SendDown(d, k, "ack") \in [Channels -> Seq(DownPackets)]
            /\ \A b \in Channels : SendDown(d, k, "ack")[b] =
                 IF b = k THEN Append(d[k], "ack") ELSE d[b]
        BY <3>2, SendDownFacts
      <4>3. QED
        BY <4>1, <4>2
    <3>4. QED
      BY <2>1, <3>1, <3>3
  <2>2. CASE x \notin Peers
    BY <2>2 DEF ErrorArrives
  <2>3. QED
    BY <2>1, <2>2
<1>6. QED
  BY <1>1, <1>2, <1>3, <1>4, <1>5, Zenon

\* The effect of an error packet that finds a channel.
ErrorTaken(x, c, u, d) ==
    /\ chan[x] \in Channels /\ chan[x] \in DOMAIN chans
    /\ status' = status
    /\ unread' = [unread EXCEPT ![x] = Append(@, c)]
    /\ \A b \in Channels : up'[b] = IF x \in Connectors /\ b = chan[x]
                                    THEN Append(u[b], UpPacket("ack", b)) ELSE u[b]
    /\ \A b \in Channels : down'[b] = IF x \in Peers /\ b = chan[x]
                                      THEN Append(d[b], "ack") ELSE d[b]

LEMMA ErrorTakenFacts ==
    ASSUME TypeOK, OnlyExisting, NEW x \in Sockets, NEW c \in Channels,
           NEW u \in [Channels -> Seq(UpPackets)], NEW d \in [Channels -> Seq(DownPackets)],
           ErrorArrives(x, c, u, d), chan[x] # 0
    PROVE  ErrorTaken(x, c, u, d)
BY ErrorFacts DEF ErrorTaken

LEMMA ErrorTypes ==
    ASSUME TypeOK, OnlyExisting, NEW x \in Sockets, NEW c \in Channels,
           NEW u \in [Channels -> Seq(UpPackets)], NEW d \in [Channels -> Seq(DownPackets)],
           ErrorArrives(x, c, u, d)
    PROVE  TypeOK'
<1>1. up' \in [Channels -> Seq(UpPackets)] /\ down' \in [Channels -> Seq(DownPackets)] /\ unread' \in [Sockets -> Seq(Channels)]
  <2>1. CASE chan[x] = 0
    BY <2>1, TypeFacts DEF ErrorArrives
  <2>2. CASE chan[x] # 0
    BY <2>2, ErrorFacts
  <2>3. QED
    BY <2>1, <2>2
<1>2. status' \in {"ok", "assert", "null"}
  BY DEF ErrorArrives, TypeOK
<1>3. QED
  BY <1>1, <1>2 DEF ErrorArrives, TypeOK, accVars

LEMMA NetworkTypes ==
    ASSUME TypeOK, OnlyExisting, NEW c \in Channels, NetDrop(c) \/ Network(c)
    PROVE  TypeOK'
<1>1. CASE NetDrop(c)
  <2>1. up' \in [Channels -> Seq(UpPackets)]
    BY <1>1, TypeFacts, TailOfPackets DEF NetDrop
  <2>2. drops' \in 0..MaxDrops
    BY <1>1, ConstantsAssumption DEF NetDrop, TypeOK
  <2>3. QED
    BY <1>1, <2>1, <2>2 DEF NetDrop, TypeOK, accVars, socketVars
<1>2. CASE DeliverUp(c)
  <2> DEFINE u == [up EXCEPT ![c] = Tail(@)]
  <2>0. u \in [Channels -> Seq(UpPackets)] /\ Head(up[c]) \in UpPackets /\ c \in DOMAIN chans
    BY <1>2, TypeFacts, TailOfPackets, TailSeq DEF DeliverUp, OnlyExisting
  <2>1. CASE Swallowed(u, down) /\ gone' = IF Head(up[c]).type = "syn" THEN gone \cup {c} ELSE gone
    BY <2>0, <2>1 DEF Swallowed, TypeOK, accVars, socketVars
  <2>2. CASE Unexpected(u, down)
    BY <2>0, <2>2 DEF Unexpected, TypeOK, accVars, socketVars
  <2>3. CASE SynArrives(c)
    <3>1. up' = u
      BY <2>3 DEF SynArrives
    <3> HIDE DEF u
    <3>5. conns \in Seq(Channels)
      BY TypeFacts
    <3>6. Append(conns, c) \in Seq(Channels) /\ Append(conns, c) # <<>>
      BY <3>5, AppendSeq
    <3>2. CASE accepting = NoSocket
      <4>1. conns' \in Seq(Channels)
        BY <2>3, <3>2, <3>6 DEF SynArrives
      <4>2. QED
        BY <2>0, <2>3, <3>1, <3>2, <4>1 DEF SynArrives, TypeOK
    <3>3. CASE accepting # NoSocket
      <4>1. /\ Accepted(Head(Append(conns, c)), accepting, chans, down)
            /\ conns' = Tail(Append(conns, c))
        BY <2>3, <3>3 DEF SynArrives
      <4>3. conns' \in Seq(Channels)
        BY <3>6, <4>1, TailSeq
      <4>4. Head(Append(conns, c)) \in DOMAIN chans
        BY <2>0, <3>5, <3>6, ToSetTail, ToSetAppend DEF OnlyExisting
      <4>5. accepting \in Peers
        BY <3>3, TypeFacts
      <4>6. /\ chans' \in Seq(Ends) /\ down' \in [Channels -> Seq(DownPackets)]
            /\ chan' \in [Sockets -> 0..MaxConnects] /\ opened' \subseteq Sockets /\ accepting' = NoSocket
        BY <4>1, <4>4, <4>5, AcceptedFacts, EndsOfChannels, TypeFacts
      <4>7. QED
        BY <2>0, <2>3, <3>1, <4>3, <4>6 DEF SynArrives, TypeOK, Ends
    <3>4. QED
      BY <3>2, <3>3
  <2>4. CASE Head(up[c]).to \in Peers /\ ErrorArrives(Head(up[c]).to, c, u, down)
    BY <2>0, <2>4, TypeFacts, ErrorTypes
  <2>5. QED
    BY <1>2, <2>1, <2>2, <2>3, <2>4, Zenon DEF DeliverUp
<1>3. CASE DeliverDown(c)
  <2> DEFINE d == [down EXCEPT ![c] = Tail(@)]
  <2>0. d \in [Channels -> Seq(DownPackets)] /\ c \in DOMAIN chans
    BY <1>3, TypeFacts, TailOfPackets, TailSeq DEF DeliverDown, OnlyExisting
  <2>1. CASE Swallowed(up, d) /\ gone' = gone
    BY <2>0, <2>1 DEF Swallowed, TypeOK, accVars, socketVars
  <2>2. CASE Unexpected(up, d)
    BY <2>0, <2>2 DEF Unexpected, TypeOK, accVars, socketVars
  <2>3. CASE SynAckArrives(chans[c].home, d)
    BY <2>0, <2>3 DEF SynAckArrives, TypeOK, accVars
  <2>4. CASE chans[c].home # Nowhere /\ ErrorArrives(chans[c].home, c, up, d)
    <3>1. chans[c].home \in Sockets
      BY <2>0, <2>4, EndsOfChannels, TypeFacts
    <3>2. QED
      BY <2>0, <2>4, <3>1, TypeFacts, ErrorTypes
  <2>5. QED
    BY <1>3, <2>1, <2>2, <2>3, <2>4, Zenon DEF DeliverDown
<1>4. QED
  BY <1>1, <1>2, <1>3 DEF Network

LEMMA TypeStep ==
    ASSUME TypeOK, OnlyExisting, Next
    PROVE  TypeOK'
BY AcceptorTypes, AcceptTypes, ConnectTypes, SocketTypes, NetworkTypes DEF Next

-----------------------------------------------------------------------------
(* Every connection has its own ends: each step.                           *)

\* Packets u hold no SYN that was not under way before.
SynsKept(u) ==
    /\ \A c \in Channels : c \notin DOMAIN chans => u[c] = <<>>
    /\ \A c \in DOMAIN chans : SynFirst(u[c]) /\ (HasType(u[c], "syn") => HasType(up[c], "syn"))
NoNewChannels(d) == \A c \in Channels : c \notin DOMAIN chans => d[c] = <<>>

LEMMA RoutesFacts ==
    ASSUME RoutesInv
    PROVE  /\ TypeOK /\ OnlyExisting /\ OneSyn /\ OneEndEachSide /\ DOMAIN chans \subseteq Channels
           /\ SynsKept(up) /\ NoNewChannels(down) /\ ToSet(conns) \subseteq DOMAIN chans /\ NoTwice(conns)
           /\ \A x \in Sockets : ToSet(unread[x]) \subseteq DOMAIN chans
           /\ \A s \in connecting : chan[s] # 0
           /\ \A x \in Sockets : chan[x] # 0 => chan[x] \in DOMAIN chans /\ chan[x] \in Channels
BY ExistingAreChannels, TypeFacts DEF RoutesInv, SynsKept, NoNewChannels, OneSyn, OnlyExisting

LEMMA CutKeepsSyns ==
    ASSUME RoutesInv, NEW x
    PROVE  SynsKept(CutPackets(up, x))
<1>1. up \in [Channels -> Seq(UpPackets)] /\ DOMAIN chans \subseteq Channels /\ SynsKept(up)
  BY RoutesFacts, TypeFacts
<1>2. \A c \in Channels : CutPackets(up, x)[c] = CutSeq(up[c], x)
  BY <1>1, CutPacketsFacts
<1>3. QED
  BY <1>1, <1>2, CutSeqFacts, CutSeqSyn DEF SynsKept

LEMMA CloseKeepsSyns ==
    ASSUME RoutesInv, NEW x \in Sockets
    PROVE  SynsKept(UpClosed(x)) /\ NoNewChannels(DownClosed(x))
<1>1. /\ up \in [Channels -> Seq(UpPackets)] /\ DOMAIN chans \subseteq Channels
      /\ SynsKept(up) /\ NoNewChannels(down) /\ TypeOK /\ OnlyExisting
  BY RoutesFacts, TypeFacts
<1>2. ASSUME NEW c \in Channels, c \notin DOMAIN chans
      PROVE  ~SendsEnd(x, c)
  <2>1. chan[x] # 0 => chan[x] \in DOMAIN chans
    BY RoutesFacts
  <2>2. QED
    BY <1>2, <2>1 DEF SendsEnd, Established
<1>3. ASSUME NEW c \in Channels, c \notin DOMAIN chans
      PROVE  UpClosed(x)[c] = <<>> /\ DownClosed(x)[c] = <<>>
  <2>1. ~SendsEnd(x, c) /\ up[c] \in Seq(UpPackets) /\ up[c] = <<>> /\ down[c] = <<>>
    BY <1>1, <1>2, <1>3 DEF SynsKept, NoNewChannels
  <2>2. UpClosed(x)[c] = CutSeq(up[c], x)
    BY <1>1, <2>1, UpClosedFacts
  <2>3. DownClosed(x)[c] = down[c]
    BY <1>1, <2>1, DownClosedFacts
  <2>4. CutSeq(up[c], x) = <<>>
    BY <2>1, CutSeqFacts
  <2>5. QED
    BY <2>1, <2>2, <2>3, <2>4
<1>4. ASSUME NEW c \in DOMAIN chans
      PROVE  SynFirst(UpClosed(x)[c]) /\ (HasType(UpClosed(x)[c], "syn") => HasType(up[c], "syn"))
  <2>1. up[c] \in Seq(UpPackets) /\ SynFirst(up[c]) /\ c \in Channels
    BY <1>1 DEF SynsKept
  <2>2. CASE x \in Connectors /\ SendsEnd(x, c)
    <3>1. UpPacket("eof", c) \in UpPackets /\ UpPacket("eof", c).type = "eof"
      BY <1>1, <2>1, SendUpFacts DEF UpPacket
    <3>2. /\ Append(up[c], UpPacket("eof", c)) \in Seq(UpPackets)
          /\ SynFirst(Append(up[c], UpPacket("eof", c)))
          /\ HasType(Append(up[c], UpPacket("eof", c)), "syn") => HasType(up[c], "syn")
      BY <2>1, <3>1, AppendSyn, AppendTypes, AppendSeq
    <3>3. UpClosed(x)[c] = CutSeq(Append(up[c], UpPacket("eof", c)), x)
      BY <1>1, <2>1, <2>2, UpClosedFacts
    <3>4. PICK v \in Seq(UpPackets) : v = Append(up[c], UpPacket("eof", c))
      BY <3>2
    <3>5. SynFirst(CutSeq(v, x)) /\ (HasType(CutSeq(v, x), "syn") => HasType(v, "syn"))
      BY <3>2, <3>4, CutSeqFacts, CutSeqSyn
    <3>6. QED
      BY <3>2, <3>3, <3>4, <3>5
  <2>3. CASE ~(x \in Connectors /\ SendsEnd(x, c))
    <3>1. UpClosed(x)[c] = CutSeq(up[c], x)
      BY <1>1, <2>1, <2>3, UpClosedFacts
    <3>2. QED
      BY <2>1, <3>1, CutSeqFacts, CutSeqSyn
  <2>4. QED
    BY <2>2, <2>3
<1>5. QED
  BY <1>3, <1>4 DEF SynsKept, NoNewChannels

LEMMA TailKeepsSyns ==
    ASSUME RoutesInv, NEW c \in Channels, up[c] # <<>>
    PROVE  SynsKept([up EXCEPT ![c] = Tail(@)]) /\ c \in DOMAIN chans
           /\ ~HasType([up EXCEPT ![c] = Tail(@)][c], "syn")
<1>1. up \in [Channels -> Seq(UpPackets)] /\ DOMAIN chans \subseteq Channels /\ SynsKept(up)
  BY RoutesFacts, TypeFacts
<1>2. \A b \in Channels : [up EXCEPT ![c] = Tail(@)][b] = IF b = c THEN Tail(up[c]) ELSE up[b]
  BY <1>1, TailOfPackets
<1>3. c \in DOMAIN chans
  BY <1>1 DEF SynsKept
<1>4. SynFirst(Tail(up[c])) /\ ~HasType(Tail(up[c]), "syn")
  BY <1>1, <1>3, TailTypes DEF SynsKept
<1>5. QED
  BY <1>1, <1>2, <1>3, <1>4 DEF SynsKept

LEMMA TailKeepsChannels ==
    ASSUME RoutesInv, NEW c \in Channels, down[c] # <<>>
    PROVE  NoNewChannels([down EXCEPT ![c] = Tail(@)]) /\ c \in DOMAIN chans
<1>1. down \in [Channels -> Seq(DownPackets)] /\ NoNewChannels(down)
  BY RoutesFacts, TypeFacts
<1>2. \A b \in Channels : [down EXCEPT ![c] = Tail(@)][b] = IF b = c THEN Tail(down[c]) ELSE down[b]
  BY <1>1, TailOfPackets
<1>3. QED
  BY <1>1, <1>2 DEF NoNewChannels

\* A step that lets go of channels.
LEMMA LeaveRoutes ==
    ASSUME RoutesInv, TypeOK', NEW x,
           DOMAIN chans' = DOMAIN chans, Len(chans') = Len(chans),
           \A c \in DOMAIN chans : /\ chans'[c].home = Cut(chans[c].home, x)
                                   /\ chans'[c].dest = Cut(chans[c].dest, x),
           SynsKept(up'), NoNewChannels(down'),
           NoTwice(conns'), ToSet(conns') \subseteq ToSet(conns),
           \A y \in Sockets : /\ chan'[y] \in {chan[y], 0} /\ (y = x => chan'[y] = 0)
                              /\ ToSet(unread'[y]) \subseteq DOMAIN chans,
           \A s \in connecting' : s \in connecting /\ chan'[s] = chan[s]
    PROVE  RoutesInv'
<1>1. /\ TypeOK /\ OnlyExisting /\ OneSyn /\ OneEndEachSide
      /\ Nowhere \notin Sockets /\ Connectors \subseteq Sockets /\ Peers \subseteq Sockets
  BY RoutesFacts, TypeFacts
<1>2. OnlyExisting'
  BY <1>1 DEF OnlyExisting, SynsKept, NoNewChannels
<1>3. OneSyn'
  <2>1. ASSUME NEW c \in DOMAIN chans'
        PROVE  /\ SynFirst(up'[c])
               /\ HasType(up'[c], "syn") => c \notin ToSet(conns')
               /\ (c \in ToSet(conns') \/ HasType(up'[c], "syn")) => chans'[c].dest \notin Peers
    <3>1. c \in DOMAIN chans /\ SynFirst(up'[c]) /\ (HasType(up'[c], "syn") => HasType(up[c], "syn"))
      BY <2>1 DEF SynsKept
    <3>2. HasType(up[c], "syn") => c \notin ToSet(conns)
      BY <1>1, <3>1 DEF OneSyn
    <3>3. c \in ToSet(conns) \/ HasType(up[c], "syn") => chans[c].dest \notin Peers
      BY <1>1, <3>1 DEF OneSyn, Waits
    <3>4. chans'[c].dest \in {chans[c].dest, Nowhere}
      BY <3>1 DEF Cut
    <3>5. QED
      BY <1>1, <3>1, <3>2, <3>3, <3>4
  <2>2. QED
    BY <2>1 DEF OneSyn, Waits
<1>4. OneEndEachSide'
  <2>1. ASSUME NEW p \in Peers, chan'[p] # 0 PROVE chans'[chan'[p]].dest = p
    <3>1. chan'[p] = chan[p] /\ p # x /\ chans[chan[p]].dest = p /\ chan[p] \in DOMAIN chans
      BY <1>1, <2>1 DEF OneEndEachSide, OnlyExisting
    <3>2. QED
      BY <3>1 DEF Cut
  <2>2. ASSUME NEW s \in Connectors, chan'[s] # 0 PROVE chans'[chan'[s]].home = s
    <3>1. chan'[s] = chan[s] /\ s # x /\ chans[chan[s]].home = s /\ chan[s] \in DOMAIN chans
      BY <1>1, <2>2 DEF OneEndEachSide, OnlyExisting
    <3>2. QED
      BY <3>1 DEF Cut
  <2>3. QED
    BY <2>1, <2>2 DEF OneEndEachSide
<1>5. QED
  BY <1>2, <1>3, <1>4 DEF RoutesInv

\* A step that accepts connection c, which waited, into p.
LEMMA AcceptRoutes ==
    ASSUME RoutesInv, TypeOK', NEW c \in DOMAIN chans, NEW p \in Peers,
           DOMAIN chans' = DOMAIN chans, Len(chans') = Len(chans),
           \A b \in DOMAIN chans :
                /\ chans'[b].home = chans[b].home
                /\ chans'[b].dest = p \/ b # c
                /\ b # c => chans'[b].dest \in {chans[b].dest, Cut(chans[b].dest, p)},
           SynsKept(up'), NoNewChannels(down'),
           NoTwice(conns'), ToSet(conns') \subseteq DOMAIN chans, unread' = unread, connecting' = connecting,
           chan' = [chan EXCEPT ![p] = c],
           chans[c].dest \notin Peers,
           c \notin ToSet(conns'), ~HasType(up'[c], "syn"),
           \A b \in DOMAIN chans :
                /\ b # c /\ b \in ToSet(conns') => chans[b].dest \notin Peers
                /\ HasType(up'[b], "syn") => b \notin ToSet(conns')
    PROVE  RoutesInv'
<1>1. /\ TypeOK /\ OnlyExisting /\ OneSyn /\ OneEndEachSide /\ chan \in [Sockets -> 0..MaxConnects]
      /\ Nowhere \notin Sockets /\ Connectors \subseteq Sockets /\ Peers \subseteq Sockets
      /\ Connectors \cap Peers = {} /\ c # 0 /\ connecting \subseteq Connectors
  BY RoutesFacts, TypeFacts
<1>2. \A x \in Sockets : chan'[x] = IF x = p THEN c ELSE chan[x]
  BY <1>1
<1>3. OnlyExisting'
  <2>1. \A x \in Sockets : chan'[x] # 0 => chan'[x] \in DOMAIN chans
    BY <1>1, <1>2 DEF OnlyExisting
  <2>2. \A s \in connecting : chan'[s] # 0
    BY <1>1, <1>2 DEF OnlyExisting
  <2>3. QED
    BY <1>1, <2>1, <2>2 DEF OnlyExisting, SynsKept, NoNewChannels
<1>4. OneSyn'
  <2>1. ASSUME NEW b \in DOMAIN chans'
        PROVE  /\ SynFirst(up'[b])
               /\ HasType(up'[b], "syn") => b \notin ToSet(conns')
               /\ (b \in ToSet(conns') \/ HasType(up'[b], "syn")) => chans'[b].dest \notin Peers
    <3>1. b \in DOMAIN chans /\ SynFirst(up'[b]) /\ (HasType(up'[b], "syn") => HasType(up[b], "syn"))
      BY <2>1 DEF SynsKept
    <3>2. HasType(up[b], "syn") => chans[b].dest \notin Peers
      BY <1>1, <3>1 DEF OneSyn, Waits
    <3>3. b # c => chans'[b].dest \in {chans[b].dest, Nowhere}
      BY <3>1 DEF Cut
    <3>4. QED
      BY <1>1, <3>1, <3>2, <3>3
  <2>2. QED
    BY <2>1 DEF OneSyn, Waits
<1>5. OneEndEachSide'
  <2>1. ASSUME NEW q \in Peers, chan'[q] # 0 PROVE chans'[chan'[q]].dest = q
    <3>1. CASE q = p
      BY <1>1, <1>2, <3>1
    <3>2. CASE q # p
      <4>1. chan'[q] = chan[q] /\ chans[chan[q]].dest = q /\ chan[q] \in DOMAIN chans
        BY <1>1, <1>2, <2>1, <3>2 DEF OneEndEachSide, OnlyExisting
      <4>2. chan[q] # c
        BY <4>1
      <4>3. QED
        BY <3>2, <4>1, <4>2 DEF Cut
    <3>3. QED
      BY <3>1, <3>2
  <2>2. ASSUME NEW s \in Connectors, chan'[s] # 0 PROVE chans'[chan'[s]].home = s
    <3>1. chan'[s] = chan[s] /\ chans[chan[s]].home = s /\ chan[s] \in DOMAIN chans
      BY <1>1, <1>2, <2>2 DEF OneEndEachSide, OnlyExisting
    <3>2. QED
      BY <3>1
  <2>3. QED
    BY <2>1, <2>2 DEF OneEndEachSide
<1>6. QED
  BY <1>3, <1>4, <1>5 DEF RoutesInv

\* A SYN that reaches the acceptor goes from the network to the queue.
LEMMA SynRoutes ==
    ASSUME RoutesInv, TypeOK', NEW c \in Channels, up[c] # <<>>, Head(up[c]).type = "syn", SynArrives(c)
    PROVE  RoutesInv'
<1> DEFINE u == [up EXCEPT ![c] = Tail(@)]
<1>1. SynsKept(u) /\ c \in DOMAIN chans /\ ~HasType(u[c], "syn")
  BY TailKeepsSyns
<1>2. /\ TypeOK /\ OnlyExisting /\ OneSyn /\ OneEndEachSide /\ conns \in Seq(Channels)
      /\ NoTwice(conns) /\ ToSet(conns) \subseteq DOMAIN chans /\ NoNewChannels(down)
      /\ up[c] \in Seq(UpPackets)
  BY RoutesFacts, TypeFacts
<1>3. HasType(up[c], "syn")
  BY <1>2, TailTypes
<1>4. c \notin ToSet(conns) /\ chans[c].dest \notin Peers
  BY <1>1, <1>2, <1>3 DEF OneSyn, Waits
<1>5. Append(conns, c) \in Seq(Channels) /\ Append(conns, c) # <<>>
  BY <1>2, AppendSeq
<1>6. ToSet(Append(conns, c)) = ToSet(conns) \cup {c} /\ NoTwice(Append(conns, c))
  BY <1>2, <1>4, ToSetAppend, NoTwiceAppend
<1>7. \A b \in DOMAIN chans : b \in ToSet(Append(conns, c)) => chans[b].dest \notin Peers /\ ~HasType(u[b], "syn")
  <2>1. ASSUME NEW b \in DOMAIN chans, b \in ToSet(conns) PROVE chans[b].dest \notin Peers /\ ~HasType(u[b], "syn")
    BY <1>1, <1>2, <2>1 DEF OneSyn, Waits, SynsKept
  <2>2. QED
    BY <1>1, <1>4, <1>6, <2>1
<1>8. up' = u /\ unread' = unread /\ connecting' = connecting
  BY DEF SynArrives
<1> HIDE DEF u
<1>9. CASE accepting = NoSocket
  <2>1. conns' = Append(conns, c) /\ chan' = chan /\ chans' = chans /\ down' = down
    BY <1>9 DEF SynArrives
  <2>2. OnlyExisting'
    BY <1>1, <1>2, <1>6, <1>8, <2>1 DEF OnlyExisting, SynsKept
  <2>3. OneSyn'
    <3>1. ASSUME NEW b \in DOMAIN chans
          PROVE  /\ SynFirst(u[b])
                 /\ HasType(u[b], "syn") => b \notin ToSet(Append(conns, c))
                 /\ (b \in ToSet(Append(conns, c)) \/ HasType(u[b], "syn")) => chans[b].dest \notin Peers
      <4>1. SynFirst(u[b]) /\ (HasType(u[b], "syn") => HasType(up[b], "syn"))
        BY <1>1 DEF SynsKept
      <4>2. HasType(up[b], "syn") => chans[b].dest \notin Peers
        BY <1>2 DEF OneSyn, Waits
      <4>3. QED
        BY <1>7, <4>1, <4>2
    <3>2. QED
      BY <1>6, <1>8, <2>1, <3>1 DEF OneSyn, Waits
  <2>4. OneEndEachSide'
    BY <1>2, <2>1 DEF OneEndEachSide
  <2>5. QED
    BY <2>2, <2>3, <2>4 DEF RoutesInv
<1>10. CASE accepting # NoSocket
  <2>1. PICK h : h = Head(Append(conns, c))
    OBVIOUS
  <2>2. Accepted(h, accepting, chans, down) /\ conns' = Tail(Append(conns, c)) /\ accepting \in Peers
    BY <1>2, <1>10, <2>1, TypeFacts DEF SynArrives
  <2>3. /\ ToSet(Append(conns, c)) = ToSet(conns') \cup {h} /\ h \in ToSet(Append(conns, c))
        /\ h \notin ToSet(conns') /\ NoTwice(conns')
    BY <1>5, <1>6, <2>1, <2>2, ToSetTail
  <2>4. h \in DOMAIN chans /\ ToSet(conns') \subseteq DOMAIN chans
    BY <1>1, <1>2, <1>6, <2>3
  <2>5. /\ DOMAIN chans' = DOMAIN chans /\ chans' \in Seq(Ends) /\ chan' = [chan EXCEPT ![accepting] = h]
        /\ \A b \in DOMAIN chans : /\ chans'[b].home = chans[b].home
                                   /\ chans'[b].dest = IF b = h THEN accepting ELSE chans[b].dest
        /\ \A b \in Channels : down'[b] = IF b = h THEN Append(down[b], "syn_ack") ELSE down[b]
    <3>1. chans \in Seq(Ends) /\ down \in [Channels -> Seq(DownPackets)]
      BY <1>2, EndsOfChannels, TypeFacts
    <3>2. PICK p \in Peers : p = accepting
      BY <2>2
    <3>3. Accepted(h, p, chans, down)
      BY <2>2, <3>2
    <3>4. /\ DOMAIN chans' = DOMAIN chans /\ chans' \in Seq(Ends) /\ chan' = [chan EXCEPT ![p] = h]
          /\ \A b \in DOMAIN chans : /\ chans'[b].home = chans[b].home
                                     /\ chans'[b].dest = IF b = h THEN p ELSE chans[b].dest
          /\ \A b \in Channels : down'[b] = IF b = h THEN Append(down[b], "syn_ack") ELSE down[b]
      BY <1>2, <2>4, <3>1, <3>3, AcceptedFacts
    <3>5. QED
      BY <3>2, <3>4
  <2>6. Len(chans') = Len(chans)
    BY <1>2, <2>5, EndsOfChannels, LenProperties
  <2>7. NoNewChannels(down')
    BY <1>2, <2>4, <2>5 DEF NoNewChannels
  <2>8. ~HasType(up'[h], "syn") /\ chans[h].dest \notin Peers
    BY <1>7, <1>8, <2>3, <2>4
  <2>9. SynsKept(up')
    BY <1>1, <1>8
  <2>10. \A b \in DOMAIN chans :
            /\ b # h /\ b \in ToSet(conns') => chans[b].dest \notin Peers
            /\ HasType(up'[b], "syn") => b \notin ToSet(conns')
    BY <1>7, <1>8, <2>3
  <2>11. \A b \in DOMAIN chans :
            /\ chans'[b].home = chans[b].home
            /\ chans'[b].dest = accepting \/ b # h
            /\ b # h => chans'[b].dest \in {chans[b].dest, Cut(chans[b].dest, accepting)}
    BY <2>5
  <2>12. QED
    BY <1>8, <2>2, <2>3, <2>4, <2>5, <2>6, <2>7, <2>8, <2>9, <2>10, <2>11, AcceptRoutes
<1>11. QED
  BY <1>9, <1>10

\* async_accept() with a connection in the queue.
LEMMA AcceptNowRoutes ==
    ASSUME RoutesInv, TypeOK', NEW p \in Peers, AcceptNow(p)
    PROVE  RoutesInv'
<1>1. /\ TypeOK /\ OnlyExisting /\ OneSyn /\ OneEndEachSide /\ conns \in Seq(Channels) /\ conns # <<>>
      /\ NoTwice(conns) /\ ToSet(conns) \subseteq DOMAIN chans /\ p \in Sockets /\ DOMAIN chans \subseteq Channels
  BY RoutesFacts, TypeFacts DEF AcceptNow
<1>2. PICK h : h = Head(conns)
  OBVIOUS
<1>3. /\ Accepted(h, p, CutChannels(p), DownClosed(p)) /\ conns' = Tail(conns) /\ up' = UpClosed(p)
      /\ unread' = unread /\ connecting' = connecting
  BY <1>2 DEF AcceptNow
<1>4. /\ ToSet(conns) = ToSet(conns') \cup {h} /\ h \in ToSet(conns)
      /\ h \notin ToSet(conns') /\ NoTwice(conns')
  BY <1>1, <1>2, <1>3, ToSetTail
<1>5. h \in DOMAIN chans /\ ToSet(conns') \subseteq DOMAIN chans
  BY <1>1, <1>4
<1>6. SynsKept(up') /\ NoNewChannels(DownClosed(p))
  BY <1>1, <1>3, CloseKeepsSyns
<1>7. /\ CutChannels(p) \in Seq(Ends) /\ DOMAIN CutChannels(p) = DOMAIN chans
      /\ DownClosed(p) \in [Channels -> Seq(DownPackets)]
      /\ \A c \in DOMAIN chans : /\ CutChannels(p)[c].home = Cut(chans[c].home, p)
                                 /\ CutChannels(p)[c].dest = Cut(chans[c].dest, p)
  BY <1>1, CutChannelsFacts, DownClosedFacts
<1>8. /\ DOMAIN chans' = DOMAIN chans /\ chans' \in Seq(Ends) /\ chan' = [chan EXCEPT ![p] = h]
      /\ \A b \in DOMAIN chans : /\ chans'[b].home = CutChannels(p)[b].home
                                 /\ chans'[b].dest = IF b = h THEN p ELSE CutChannels(p)[b].dest
      /\ \A b \in Channels : down'[b] = IF b = h THEN Append(DownClosed(p)[b], "syn_ack") ELSE DownClosed(p)[b]
  BY <1>1, <1>3, <1>5, <1>7, AcceptedFacts
<1>9. Len(chans') = Len(chans)
  BY <1>1, <1>8, EndsOfChannels, LenProperties
<1>10. NoNewChannels(down')
  BY <1>5, <1>6, <1>8 DEF NoNewChannels
<1>11. \A b \in DOMAIN chans : chans[b].home \in Connectors \cup {Nowhere} /\ p \notin Connectors \cup {Nowhere}
  BY <1>1, EndsOfChannels, TypeFacts
<1>12. \A b \in DOMAIN chans :
            /\ chans'[b].home = chans[b].home
            /\ chans'[b].dest = p \/ b # h
            /\ b # h => chans'[b].dest \in {chans[b].dest, Cut(chans[b].dest, p)}
  BY <1>7, <1>8, <1>11 DEF Cut
<1>13. \A b \in ToSet(conns) : chans[b].dest \notin Peers /\ ~HasType(up'[b], "syn")
  BY <1>1, <1>6 DEF OneSyn, Waits, SynsKept
<1>14. chans[h].dest \notin Peers /\ ~HasType(up'[h], "syn")
  BY <1>4, <1>13
<1>15. \A b \in DOMAIN chans :
            /\ b # h /\ b \in ToSet(conns') => chans[b].dest \notin Peers
            /\ HasType(up'[b], "syn") => b \notin ToSet(conns')
  BY <1>4, <1>13
<1>16. QED
  BY <1>3, <1>4, <1>5, <1>6, <1>8, <1>9, <1>10, <1>12, <1>14, <1>15, AcceptRoutes

LEMMA NoCut == \A e : Cut(e, Nowhere) = e
BY DEF Cut

\* A step that leaves the ends of the channels alone.
LEMMA StayRoutes ==
    ASSUME RoutesInv, TypeOK', chans' = chans, SynsKept(up'), NoNewChannels(down'), conns' = conns,
           \A y \in Sockets : /\ chan'[y] \in {chan[y], 0}
                              /\ ToSet(unread'[y]) \subseteq DOMAIN chans,
           \A s \in connecting' : s \in connecting /\ chan'[s] = chan[s]
    PROVE  RoutesInv'
<1>1. NoTwice(conns') /\ ToSet(conns') \subseteq ToSet(conns) /\ DOMAIN chans' = DOMAIN chans /\ Len(chans') = Len(chans)
  BY RoutesFacts
<1>2. \A y \in Sockets : /\ chan'[y] \in {chan[y], 0} /\ (y = Nowhere => chan'[y] = 0)
                         /\ ToSet(unread'[y]) \subseteq DOMAIN chans
  BY RoutesFacts, TypeFacts
<1>3. \A c \in DOMAIN chans : /\ chans'[c].home = Cut(chans[c].home, Nowhere)
                              /\ chans'[c].dest = Cut(chans[c].dest, Nowhere)
  BY NoCut
<1>4. QED
  BY <1>1, <1>2, <1>3, LeaveRoutes

\* A step that resets the forwarder of x.
LEMMA CutRoutes ==
    ASSUME RoutesInv, TypeOK', NEW x, chans' = CutChannels(x), SynsKept(up'), NoNewChannels(down'),
           conns' \in {conns, <<>>}, connecting' \subseteq connecting, x \notin connecting',
           \A y \in Sockets : /\ chan'[y] = IF y = x THEN 0 ELSE chan[y]
                              /\ ToSet(unread'[y]) \subseteq DOMAIN chans
    PROVE  RoutesInv'
<1>1. NoTwice(conns') /\ ToSet(conns') \subseteq ToSet(conns)
  BY RoutesFacts, ToSetEmpty DEF NoTwice
<1>2. /\ DOMAIN chans' = DOMAIN chans /\ Len(chans') = Len(chans)
      /\ \A c \in DOMAIN chans : /\ chans'[c].home = Cut(chans[c].home, x)
                                 /\ chans'[c].dest = Cut(chans[c].dest, x)
  BY RoutesFacts, CutChannelsFacts
<1>3. \A y \in Sockets : /\ chan'[y] \in {chan[y], 0} /\ (y = x => chan'[y] = 0)
                         /\ ToSet(unread'[y]) \subseteq DOMAIN chans
  OBVIOUS
<1>4. \A s \in connecting' : s \in connecting /\ chan'[s] = chan[s]
  <2>1. connecting \subseteq Sockets
    BY RoutesFacts, TypeFacts
  <2>2. QED
    BY <2>1
<1>5. QED
  BY <1>1, <1>2, <1>3, <1>4, LeaveRoutes

\* async_connect(): a new channel.
LEMMA NewRoutes ==
    ASSUME RoutesInv, TypeOK', NEW s \in Connectors, async_connect(s)
    PROVE  RoutesInv'
<1>1. /\ TypeOK /\ OnlyExisting /\ OneSyn /\ OneEndEachSide /\ DOMAIN chans \subseteq Channels
      /\ up \in [Channels -> Seq(UpPackets)] /\ chan \in [Sockets -> 0..MaxConnects]
      /\ Connectors \subseteq Sockets /\ Peers \subseteq Sockets /\ connecting \subseteq Connectors
      /\ ToSet(conns) \subseteq DOMAIN chans /\ MaxConnects \in Nat /\ Channels = 1..MaxConnects
      /\ Connectors \cap Peers = {} /\ Acceptor \notin Sockets
  BY RoutesFacts, TypeFacts
<1>2. PICK c : /\ c = Len(chans) + 1 /\ chans' = Append(chans, [home |-> s, dest |-> Acceptor])
               /\ up' = [up EXCEPT ![c] = <<[type |-> "syn", to |-> Acceptor]>>]
               /\ chan' = [chan EXCEPT ![s] = c]
  BY DEF async_connect
<1>3. /\ conns' = conns /\ unread' = unread /\ down' = down
      /\ connecting' = connecting \cup {s} /\ Len(chans) < MaxConnects
  BY DEF async_connect, accVars
<1>4. [home |-> s, dest |-> Acceptor] \in Ends
  BY DEF Ends
<1>5. /\ chans \in Seq(Ends) /\ Len(chans) \in Nat /\ DOMAIN chans = 1..Len(chans)
  BY <1>1, EndsOfChannels
<1>6. /\ chans' \in Seq(Ends) /\ DOMAIN chans' = 1..(Len(chans)+1) /\ chans'[c] = [home |-> s, dest |-> Acceptor]
      /\ \A b \in DOMAIN chans : b \in DOMAIN chans' /\ chans'[b] = chans[b]
      /\ \A b \in DOMAIN chans' : b \in DOMAIN chans \/ b = c
  BY <1>2, <1>4, <1>5, AppendSeq
<1>7. /\ c \in Channels /\ c \notin DOMAIN chans /\ c \in DOMAIN chans' /\ Len(chans') =< MaxConnects /\ c # 0
  BY <1>1, <1>2, <1>3, <1>5, <1>6, LenProperties
<1>8. \A b \in Channels : up'[b] = IF b = c THEN <<[type |-> "syn", to |-> Acceptor]>> ELSE up[b]
  BY <1>1, <1>2, <1>7
<1>9. \A x \in Sockets : chan'[x] = IF x = s THEN c ELSE chan[x]
  BY <1>1, <1>2
<1>10. SynFirst(<<[type |-> "syn", to |-> Acceptor]>>)
  BY DEF SynFirst
<1>11. OnlyExisting'
  <2>1. \A b \in Channels : b \notin DOMAIN chans' => up'[b] = <<>> /\ down'[b] = <<>>
    BY <1>1, <1>3, <1>6, <1>7, <1>8 DEF OnlyExisting
  <2>2. \A x \in Sockets : (chan'[x] # 0 => chan'[x] \in DOMAIN chans') /\ ToSet(unread'[x]) \subseteq DOMAIN chans'
    BY <1>1, <1>3, <1>6, <1>7, <1>9 DEF OnlyExisting
  <2>3. \A x \in connecting' : chan'[x] # 0
    BY <1>1, <1>3, <1>7, <1>9 DEF OnlyExisting
  <2>4. ToSet(conns') \subseteq DOMAIN chans'
    BY <1>1, <1>3, <1>6
  <2>5. QED
    BY <1>7, <2>1, <2>2, <2>3, <2>4 DEF OnlyExisting
<1>12. OneSyn'
  <2>1. ASSUME NEW b \in DOMAIN chans'
        PROVE  /\ SynFirst(up'[b])
               /\ HasType(up'[b], "syn") => b \notin ToSet(conns')
               /\ (b \in ToSet(conns') \/ HasType(up'[b], "syn")) => chans'[b].dest \notin Peers
    <3>1. CASE b = c
      <4>1. chans'[b].dest = Acceptor
        BY <1>6, <3>1
      <4>2. b \notin ToSet(conns')
        BY <1>1, <1>3, <1>7, <3>1
      <4>3. SynFirst(up'[b])
        BY <1>7, <1>8, <1>10, <3>1
      <4>4. QED
        BY <1>1, <4>1, <4>2, <4>3
    <3>2. CASE b # c
      <4>1. b \in DOMAIN chans /\ up'[b] = up[b] /\ chans'[b] = chans[b]
        BY <1>1, <1>6, <1>8, <3>2
      <4>2. QED
        BY <1>1, <1>3, <4>1 DEF OneSyn, Waits
    <3>3. QED
      BY <3>1, <3>2
  <2>2. NoTwice(conns')
    BY <1>1, <1>3 DEF OneSyn
  <2>3. QED
    BY <2>1, <2>2 DEF OneSyn, Waits
<1>13. OneEndEachSide'
  <2>1. ASSUME NEW p \in Peers, chan'[p] # 0 PROVE chans'[chan'[p]].dest = p
    BY <1>1, <1>6, <1>9, <2>1 DEF OneEndEachSide, OnlyExisting
  <2>2. ASSUME NEW t \in Connectors, chan'[t] # 0 PROVE chans'[chan'[t]].home = t
    <3>1. CASE t = s
      BY <1>1, <1>6, <1>9, <3>1
    <3>2. CASE t # s
      BY <1>1, <1>6, <1>9, <2>2, <3>2 DEF OneEndEachSide, OnlyExisting
    <3>3. QED
      BY <3>1, <3>2
  <2>3. QED
    BY <2>1, <2>2 DEF OneEndEachSide
<1>14. QED
  BY <1>11, <1>12, <1>13 DEF RoutesInv

LEMMA SocketRoutes ==
    ASSUME RoutesInv, TypeOK', NEW x \in Sockets, close(x) \/ renew(x) \/ read_some(x)
    PROVE  RoutesInv'
<1>1. /\ chan \in [Sockets -> 0..MaxConnects] /\ unread \in [Sockets -> Seq(Channels)]
      /\ SynsKept(up) /\ NoNewChannels(down)
      /\ \A y \in Sockets : ToSet(unread[y]) \subseteq DOMAIN chans
  BY RoutesFacts, TypeFacts
<1>2. CASE close(x)
  <2>1. SynsKept(up') /\ NoNewChannels(down')
    BY <1>2, CloseKeepsSyns DEF close
  <2>2. \A y \in Sockets : chan'[y] = (IF y = x THEN 0 ELSE chan[y]) /\ ToSet(unread'[y]) \subseteq DOMAIN chans
    BY <1>1, <1>2 DEF close
  <2>3. chans' = CutChannels(x) /\ conns' \in {conns, <<>>} /\ connecting' \subseteq connecting /\ x \notin connecting'
    BY <1>2 DEF close, accVars
  <2>4. QED
    BY <2>1, <2>2, <2>3, CutRoutes
<1>3. CASE renew(x)
  <2>1. SynsKept(up') /\ NoNewChannels(down')
    BY <1>1, <1>3, CutKeepsSyns DEF renew
  <2>2. \A y \in Sockets : chan'[y] = (IF y = x THEN 0 ELSE chan[y]) /\ ToSet(unread'[y]) \subseteq DOMAIN chans
    BY <1>1, <1>3, ToSetEmpty DEF renew
  <2>3. chans' = CutChannels(x) /\ conns' \in {conns, <<>>} /\ connecting' \subseteq connecting /\ x \notin connecting'
    BY <1>3 DEF renew, accVars
  <2>4. QED
    BY <2>1, <2>2, <2>3, CutRoutes
<1>4. CASE read_some(x)
  <2>1. ToSet(Tail(unread[x])) \subseteq ToSet(unread[x])
    BY <1>1, <1>4, ToSetTail DEF read_some
  <2>2. \A y \in Sockets : chan'[y] = (IF y = x THEN 0 ELSE chan[y]) /\ ToSet(unread'[y]) \subseteq DOMAIN chans
    BY <1>1, <1>4, <2>1 DEF read_some
  <2>3. chans' = chans /\ up' = up /\ down' = down /\ conns' = conns /\ connecting' = connecting
    BY <1>4 DEF read_some, accVars, netVars
  <2>4. \A s \in connecting' : s \in connecting /\ chan'[s] = chan[s]
    BY <1>1, <1>4 DEF read_some, Established
  <2>5. QED
    BY <1>1, <2>2, <2>3, <2>4, StayRoutes
<1>5. QED
  BY <1>2, <1>3, <1>4

LEMMA AcceptorRoutes ==
    ASSUME RoutesInv, TypeOK', AcceptorOp
    PROVE  RoutesInv'
<1>1. /\ SynsKept(up) /\ NoNewChannels(down) /\ Acceptor \notin Sockets /\ connecting \subseteq Sockets
      /\ \A y \in Sockets : ToSet(unread[y]) \subseteq DOMAIN chans
  BY RoutesFacts, TypeFacts
<1>2. CASE acc_open \/ acc_close
  <2>1. SynsKept(up') /\ NoNewChannels(down')
    BY <1>1, <1>2, CutKeepsSyns DEF acc_open, acc_close
  <2>2. /\ chans' = CutChannels(Acceptor) /\ conns' \in {conns, <<>>} /\ connecting' \subseteq connecting
        /\ Acceptor \notin connecting' /\ chan' = chan /\ unread' = unread
    BY <1>1, <1>2 DEF acc_open, acc_close, socketVars
  <2>3. \A y \in Sockets : /\ chan'[y] = IF y = Acceptor THEN 0 ELSE chan[y]
                           /\ ToSet(unread'[y]) \subseteq DOMAIN chans
    BY <1>1, <2>2
  <2>4. QED
    BY <2>1, <2>2, <2>3, CutRoutes
<1>3. CASE acc_bind \/ listen \/ acc_cancel
  <2>1. /\ chans' = chans /\ up' = up /\ down' = down /\ conns' = conns /\ connecting' = connecting
        /\ chan' = chan /\ unread' = unread
    BY <1>3 DEF acc_bind, listen, acc_cancel, socketVars, netVars
  <2>2. QED
    BY <1>1, <2>1, StayRoutes
<1>4. QED
  BY <1>2, <1>3 DEF AcceptorOp

LEMMA AcceptStepRoutes ==
    ASSUME RoutesInv, TypeOK', NEW p \in Peers, async_accept(p)
    PROVE  RoutesInv'
<1>1. /\ chan \in [Sockets -> 0..MaxConnects] /\ p \in Sockets /\ p \notin connecting
      /\ \A y \in Sockets : ToSet(unread[y]) \subseteq DOMAIN chans
  BY RoutesFacts, TypeFacts
<1>2. SynsKept(UpClosed(p)) /\ NoNewChannels(DownClosed(p)) /\ ToSet(conns) \subseteq DOMAIN chans
  BY <1>1, CloseKeepsSyns, RoutesFacts
<1>3. CASE AcceptLater(p) \/ AcceptClosed(p)
  <2>1. SynsKept(up') /\ NoNewChannels(down')
    BY <1>2, <1>3 DEF AcceptLater, AcceptClosed, NoNewChannels
  <2>2. /\ chans' = CutChannels(p) /\ conns' \in {conns, <<>>} /\ connecting' = connecting
        /\ chan' = [chan EXCEPT ![p] = 0] /\ unread' = unread
    BY <1>3 DEF AcceptLater, AcceptClosed
  <2>3. \A y \in Sockets : chan'[y] = (IF y = p THEN 0 ELSE chan[y]) /\ ToSet(unread'[y]) \subseteq DOMAIN chans
    BY <1>1, <2>2
  <2>4. QED
    BY <1>1, <2>1, <2>2, <2>3, CutRoutes
<1>4. QED
  BY <1>3, AcceptNowRoutes DEF async_accept

LEMMA ConnectRoutes ==
    ASSUME RoutesInv, TypeOK', NEW s \in Connectors,
           async_connect(s) \/ ConnectFails(s) \/ ConnectRefused(s) \/ cancel(s)
    PROVE  RoutesInv'
<1>1. /\ SynsKept(up) /\ NoNewChannels(down) /\ connecting \subseteq Sockets
      /\ chan \in [Sockets -> 0..MaxConnects]
      /\ \A y \in Sockets : ToSet(unread[y]) \subseteq DOMAIN chans
  BY RoutesFacts, TypeFacts
<1>2. CASE ConnectFails(s) \/ ConnectRefused(s)
  <2>1. /\ chans' = chans /\ up' = up /\ down' = down /\ conns' = conns /\ connecting' = connecting
        /\ chan' = chan /\ unread' = unread
    BY <1>2 DEF ConnectFails, ConnectRefused, accVars, netVars
  <2>2. QED
    BY <1>1, <2>1, StayRoutes
<1>3. CASE cancel(s)
  <2>1. /\ chans' = chans /\ up' = up /\ down' = down /\ conns' = conns /\ connecting' = connecting \ {s}
        /\ chan' = [chan EXCEPT ![s] = 0] /\ unread' = unread
    BY <1>3 DEF cancel, accVars, netVars
  <2>2. /\ \A y \in Sockets : chan'[y] \in {chan[y], 0} /\ ToSet(unread'[y]) \subseteq DOMAIN chans
        /\ \A t \in connecting' : t \in connecting /\ chan'[t] = chan[t]
    BY <1>1, <2>1
  <2>3. QED
    BY <1>1, <2>1, <2>2, StayRoutes
<1>4. QED
  BY <1>2, <1>3, NewRoutes

LEMMA ErrorRoutes ==
    ASSUME RoutesInv, TypeOK', NEW x \in Sockets, NEW c \in Channels, c \in DOMAIN chans,
           NEW u \in [Channels -> Seq(UpPackets)], NEW d \in [Channels -> Seq(DownPackets)],
           SynsKept(u), NoNewChannels(d), ErrorArrives(x, c, u, d)
    PROVE  RoutesInv'
<1>1. /\ TypeOK /\ OnlyExisting /\ c \in Channels /\ unread \in [Sockets -> Seq(Channels)]
      /\ DOMAIN chans \subseteq Channels
      /\ \A y \in Sockets : ToSet(unread[y]) \subseteq DOMAIN chans
  BY RoutesFacts, TypeFacts
<1>2. /\ chans' = chans /\ conns' = conns /\ chan' = chan /\ connecting' = connecting
  BY DEF ErrorArrives, accVars
<1>3. CASE chan[x] = 0
  <2>1. up' = u /\ down' = d /\ unread' = unread
    BY <1>3 DEF ErrorArrives
  <2>2. QED
    BY <1>1, <1>2, <2>1, StayRoutes
<1>4. CASE chan[x] # 0
  <2>1. /\ chan[x] \in Channels /\ chan[x] \in DOMAIN chans
        /\ unread' = [unread EXCEPT ![x] = Append(@, c)]
        /\ \A b \in Channels : up'[b] = IF x \in Connectors /\ b = chan[x]
                                        THEN Append(u[b], UpPacket("ack", b)) ELSE u[b]
        /\ \A b \in Channels : down'[b] = IF x \in Peers /\ b = chan[x]
                                          THEN Append(d[b], "ack") ELSE d[b]
    <3>1. TypeOK /\ OnlyExisting
      BY <1>1
    <3>2. ErrorTaken(x, c, u, d)
      BY <1>4, <3>1, ErrorTakenFacts
    <3>3. QED
      BY <3>2 DEF ErrorTaken
  <2>2. NoNewChannels(down')
    BY <2>1 DEF NoNewChannels
  <2>3. SynsKept(up')
    <3>1. \A b \in Channels : b \notin DOMAIN chans => up'[b] = <<>>
      BY <2>1 DEF SynsKept
    <3>2. ASSUME NEW b \in DOMAIN chans
          PROVE  SynFirst(up'[b]) /\ (HasType(up'[b], "syn") => HasType(up[b], "syn"))
      <4>1. b \in Channels /\ u[b] \in Seq(UpPackets) /\ SynFirst(u[b]) /\ (HasType(u[b], "syn") => HasType(up[b], "syn"))
        BY <1>1 DEF SynsKept
      <4>2. UpPacket("ack", b) \in UpPackets /\ UpPacket("ack", b).type = "ack"
        BY <1>1, <4>1, SendUpFacts DEF UpPacket
      <4>3. SynFirst(Append(u[b], UpPacket("ack", b))) /\ (HasType(Append(u[b], UpPacket("ack", b)), "syn") => HasType(up[b], "syn"))
        BY <4>1, <4>2, AppendSyn, AppendTypes
      <4>4. up'[b] = Append(u[b], UpPacket("ack", b)) \/ up'[b] = u[b]
        BY <2>1, <4>1
      <4>5. QED
        BY <4>1, <4>3, <4>4
    <3>3. QED
      BY <3>1, <3>2 DEF SynsKept
  <2>4. \A y \in Sockets : ToSet(unread'[y]) \subseteq DOMAIN chans
    <3>1. ToSet(Append(unread[x], c)) = ToSet(unread[x]) \cup {c}
      BY <1>1, ToSetAppend
    <3>2. QED
      BY <1>1, <2>1, <3>1
  <2>5. QED
    BY <1>2, <2>2, <2>3, <2>4, StayRoutes
<1>5. QED
  BY <1>3, <1>4

LEMMA NetworkRoutes ==
    ASSUME RoutesInv, TypeOK', NEW c \in Channels, NetDrop(c) \/ Network(c)
    PROVE  RoutesInv'
<1>0. /\ TypeOK /\ up \in [Channels -> Seq(UpPackets)] /\ down \in [Channels -> Seq(DownPackets)]
      /\ SynsKept(up) /\ NoNewChannels(down) /\ connecting \subseteq Connectors /\ Peers \subseteq Sockets
      /\ Connectors \subseteq Sockets
      /\ \A y \in Sockets : ToSet(unread[y]) \subseteq DOMAIN chans
  BY RoutesFacts, TypeFacts
<1>1. CASE NetDrop(c)
  <2>1. SynsKept(up')
    BY <1>1, TailKeepsSyns DEF NetDrop
  <2>2. chans' = chans /\ down' = down /\ conns' = conns /\ chan' = chan /\ unread' = unread /\ connecting' = connecting
    BY <1>1 DEF NetDrop, accVars, socketVars
  <2>3. QED
    BY <1>0, <2>1, <2>2, StayRoutes
<1>2. CASE DeliverUp(c)
  <2>1. PICK u : u = [up EXCEPT ![c] = Tail(@)]
    OBVIOUS
  <2>2. u \in [Channels -> Seq(UpPackets)] /\ SynsKept(u) /\ c \in DOMAIN chans
    BY <1>0, <1>2, <2>1, TailOfPackets, TailKeepsSyns DEF DeliverUp
  <2>3. CASE Swallowed(u, down) \/ Unexpected(u, down)
    <3>1. /\ chans' = chans /\ down' = down /\ conns' = conns /\ chan' = chan /\ unread' = unread
          /\ connecting' = connecting /\ up' = u
      BY <2>3 DEF Swallowed, Unexpected, accVars, socketVars
    <3>2. QED
      BY <1>0, <2>2, <3>1, StayRoutes
  <2>4. CASE Head(up[c]).type = "syn" /\ SynArrives(c)
    BY <1>2, <2>4, SynRoutes DEF DeliverUp
  <2>5. CASE Head(up[c]).to \in Peers /\ ErrorArrives(Head(up[c]).to, c, u, down)
    BY <1>0, <2>2, <2>5, ErrorRoutes
  <2>6. QED
    BY <1>2, <2>1, <2>3, <2>4, <2>5, Zenon DEF DeliverUp
<1>3. CASE DeliverDown(c)
  <2>1. PICK d : d = [down EXCEPT ![c] = Tail(@)]
    OBVIOUS
  <2>2. d \in [Channels -> Seq(DownPackets)] /\ NoNewChannels(d) /\ c \in DOMAIN chans
    BY <1>0, <1>3, <2>1, TailOfPackets, TailKeepsChannels DEF DeliverDown
  <2>3. CASE Swallowed(up, d) \/ Unexpected(up, d) \/ SynAckArrives(chans[c].home, d)
    <3>1. /\ chans' = chans /\ down' = d /\ conns' = conns /\ chan' = chan /\ unread' = unread
          /\ connecting' \subseteq connecting /\ up' = up
      BY <2>3 DEF Swallowed, Unexpected, SynAckArrives, accVars, socketVars
    <3>2. QED
      BY <1>0, <2>2, <3>1, StayRoutes
  <2>4. CASE chans[c].home # Nowhere /\ ErrorArrives(chans[c].home, c, up, d)
    <3>1. chans[c].home \in Sockets
      BY <1>0, <2>2, <2>4, EndsOfChannels
    <3>2. QED
      BY <1>0, <2>2, <2>4, <3>1, ErrorRoutes
  <2>5. QED
    BY <1>3, <2>1, <2>3, <2>4, Zenon DEF DeliverDown
<1>4. QED
  BY <1>1, <1>2, <1>3 DEF Network

LEMMA RoutesStep ==
    ASSUME RoutesInv, [Next]_vars
    PROVE  RoutesInv'
<1>1. CASE Next
  <2>1. TypeOK'
    BY <1>1, RoutesFacts, TypeStep
  <2>2. QED
    BY <1>1, <2>1, AcceptorRoutes, AcceptStepRoutes, ConnectRoutes, SocketRoutes, NetworkRoutes DEF Next
<1>2. CASE UNCHANGED vars
  BY <1>2 DEF vars, accVars, socketVars, netVars, RoutesInv, TypeOK, OnlyExisting, OneSyn, Waits, OneEndEachSide
<1>3. QED
  BY <1>1, <1>2

LEMMA InitRoutes == Init => RoutesInv
<1>1. ASSUME Init PROVE RoutesInv
  <2>1. <<>> \in Seq(Channels) /\ <<>> \in Seq(UpPackets) /\ <<>> \in Seq(DownPackets) /\ <<>> \in Seq(Ends)
    BY EmptySeq
  <2>2. MaxDrops \in Nat /\ MaxConnects \in Nat
    BY ConstantsAssumption
  <2>3. TypeOK
    <3>1. acc \in [open : BOOLEAN, bound : BOOLEAN, listening : BOOLEAN]
      BY <1>1 DEF Init
    <3>2. /\ conns \in Seq(Channels) /\ unread \in [Sockets -> Seq(Channels)] /\ chans \in Seq(Ends)
          /\ up \in [Channels -> Seq(UpPackets)] /\ down \in [Channels -> Seq(DownPackets)]
          /\ chan \in [Sockets -> 0..MaxConnects] /\ drops \in 0..MaxDrops
      BY <1>1, <2>1, <2>2 DEF Init
    <3>3. QED
      BY <1>1, <3>1, <3>2 DEF Init, TypeOK, Ends
  <2>4. DOMAIN chans = {} /\ Len(chans) = 0
    BY <1>1 DEF Init
  <2>5. OnlyExisting
    BY <1>1, <2>2, <2>4, ToSetEmpty DEF Init, OnlyExisting
  <2>6. OneSyn
    BY <1>1, <2>4 DEF Init, OneSyn, NoTwice
  <2>7. OneEndEachSide
    BY <1>1, ConstantsAssumption DEF Init, OneEndEachSide, Sockets
  <2>8. QED
    BY <2>3, <2>5, <2>6, <2>7 DEF RoutesInv
<1>2. QED
  BY <1>1

\* The channels, the queue of the acceptor and the SYNs under way fit together
\* (internal_connect(), acceptor::check_accept_queue()), whatever user code does.
THEOREM RoutesInvariance == Spec => []RoutesInv
<1>1. RoutesInv /\ [Next]_vars => RoutesInv'
  BY RoutesStep
<1>2. QED
  BY InitRoutes, <1>1, PTL DEF Spec

\* A channel has one end on each side, whose packets it carries as long as it is
\* attached (acceptor.cpp:145-171, tcp_socket.cpp:209-261): no connection is
\* accepted twice and none is taken over, however user code closes, cancels and
\* reuses the sockets.
THEOREM ChannelsHaveTheirEnds == Spec => []OneEndEachSide
<1>1. RoutesInv => OneEndEachSide
  BY DEF RoutesInv
<1>2. QED
  BY RoutesInvariance, <1>1, PTL

-----------------------------------------------------------------------------
(* Every packet is expected: what happens to the packets of a channel.     *)

LEMMA UpElements ==
    ASSUME NEW u \in Seq(UpPackets)
    PROVE  /\ Len(u) \in Nat /\ DOMAIN u = 1..Len(u)
           /\ \A i \in DOMAIN u : u[i] \in UpPackets /\ u[i].type \in {"syn", "eof", "ack"}
<1>1. Len(u) \in Nat /\ DOMAIN u = 1..Len(u) /\ \A i \in DOMAIN u : u[i] \in UpPackets
  BY LenProperties
<1>2. \A k \in UpPackets : k.type \in {"syn", "eof", "ack"}
  BY DEF UpPackets
<1>3. QED
  BY <1>1, <1>2

\* A packet that arrives.
LEMMA UpFitsTail ==
    ASSUME NEW u \in Seq(UpPackets), u # <<>>, NEW e \in Ends, UpFits(u, e)
    PROVE  /\ UpFits(Tail(u), e)
           /\ Head(u).to \in {e.dest, Nowhere} /\ Head(u).type \in {"syn", "eof", "ack"}
           /\ Head(u).type = "syn" => Head(u).to \notin Peers
           /\ Head(u).type = "eof" => /\ Head(u).to # Acceptor /\ e.home = Nowhere
                                      /\ HasType(u, "eof") /\ ~HasType(Tail(u), "eof")
           /\ Head(u).type = "ack" => Head(u).to = Nowhere
<1>1. /\ Head(u) = u[1] /\ 1 \in DOMAIN u /\ DOMAIN u = 1..Len(u) /\ Len(u) \in Nat \ {0}
      /\ DOMAIN Tail(u) = 1..(Len(u)-1)
      /\ \A i \in DOMAIN Tail(u) : i+1 \in DOMAIN u /\ Tail(u)[i] = u[i+1] /\ i+1 # 1
  BY TailSeq
<1>2. Head(u).type \in {"syn", "eof", "ack"}
  BY <1>1, UpElements
<1>3. UpFits(Tail(u), e)
  <2>1. \A i, j \in DOMAIN Tail(u) : i+1 = j+1 => i = j
    BY <1>1
  <2>2. QED
    BY <1>1, <2>1 DEF UpFits
<1>4. Head(u).type = "eof" => HasType(u, "eof") /\ ~HasType(Tail(u), "eof")
  BY <1>1 DEF UpFits, HasType
<1>5. QED
  BY <1>1, <1>2, <1>3, <1>4 DEF UpFits

\* A forwarder is reset.
LEMMA UpFitsCut ==
    ASSUME NEW u \in Seq(UpPackets), NEW e \in Ends, UpFits(u, e), NEW x, NEW f \in Ends,
           f.home = Cut(e.home, x), f.dest = Cut(e.dest, x)
    PROVE  UpFits(CutSeq(u, x), f)
<1>1. /\ DOMAIN CutSeq(u, x) = DOMAIN u
      /\ \A i \in DOMAIN u : CutSeq(u, x)[i].type = u[i].type /\ CutSeq(u, x)[i].to = Cut(u[i].to, x)
  BY CutSeqFacts
<1>2. Acceptor # Nowhere /\ Nowhere \notin Peers
  BY ConstantsAssumption DEF Sockets
<1>3. ASSUME NEW i \in DOMAIN u
      PROVE  /\ Cut(u[i].to, x) \in {f.dest, Nowhere}
             /\ u[i].type = "syn" => Cut(u[i].to, x) \notin Peers
             /\ u[i].type = "eof" => Cut(u[i].to, x) # Acceptor /\ f.home = Nowhere
             /\ u[i].type = "ack" => Cut(u[i].to, x) = Nowhere
  BY <1>2 DEF UpFits, Cut
<1>4. QED
  BY <1>1, <1>3 DEF UpFits

\* A connector leaves the channel and sends the end of its stream.
LEMMA UpFitsEnd ==
    ASSUME NEW u \in Seq(UpPackets), NEW e \in Ends, UpFits(u, e), e.home # Nowhere, e.dest # Acceptor,
           NEW k \in UpPackets, k.type = "eof", k.to = e.dest, NEW f \in Ends, f.home = Nowhere, f.dest = e.dest
    PROVE  UpFits(Append(u, k), f)
<1>1. /\ Len(u) \in Nat /\ DOMAIN u = 1..Len(u) /\ DOMAIN Append(u, k) = 1..(Len(u)+1)
      /\ Append(u, k)[Len(u)+1] = k
      /\ \A i \in DOMAIN u : Append(u, k)[i] = u[i]
      /\ \A i \in DOMAIN Append(u, k) : i \in DOMAIN u \/ i = Len(u)+1
  BY AppendSeq
<1>2. \A i \in DOMAIN u : u[i].type # "eof"
  BY DEF UpFits
<1>3. ASSUME NEW i \in DOMAIN Append(u, k)
      PROVE  /\ Append(u, k)[i].to \in {f.dest, Nowhere}
             /\ Append(u, k)[i].type = "syn" => Append(u, k)[i].to \notin Peers
             /\ Append(u, k)[i].type = "eof" => Append(u, k)[i].to # Acceptor /\ f.home = Nowhere /\ i = Len(u)+1
             /\ Append(u, k)[i].type = "ack" => Append(u, k)[i].to = Nowhere
  <2>1. CASE i \in DOMAIN u
    BY <1>1, <1>2, <2>1 DEF UpFits
  <2>2. CASE i = Len(u)+1
    BY <1>1, <2>2
  <2>3. QED
    BY <1>1, <2>1, <2>2
<1>4. QED
  BY <1>3 DEF UpFits

\* An ack that nobody gets.
LEMMA UpFitsAck ==
    ASSUME NEW u \in Seq(UpPackets), NEW e \in Ends, UpFits(u, e),
           NEW k \in UpPackets, k.type = "ack", k.to = Nowhere
    PROVE  UpFits(Append(u, k), e)
<1>1. /\ Len(u) \in Nat /\ DOMAIN u = 1..Len(u) /\ DOMAIN Append(u, k) = 1..(Len(u)+1)
      /\ Append(u, k)[Len(u)+1] = k
      /\ \A i \in DOMAIN u : Append(u, k)[i] = u[i]
      /\ \A i \in DOMAIN Append(u, k) : i \in DOMAIN u \/ i = Len(u)+1
  BY AppendSeq
<1>2. ASSUME NEW i \in DOMAIN Append(u, k)
      PROVE  /\ Append(u, k)[i].to \in {e.dest, Nowhere}
             /\ Append(u, k)[i].type = "syn" => Append(u, k)[i].to \notin Peers
             /\ Append(u, k)[i].type = "eof" => Append(u, k)[i].to # Acceptor /\ e.home = Nowhere /\ i \in DOMAIN u
             /\ Append(u, k)[i].type = "ack" => Append(u, k)[i].to = Nowhere
  <2>1. CASE i \in DOMAIN u
    BY <1>1, <2>1 DEF UpFits
  <2>2. CASE i = Len(u)+1
    BY <1>1, <2>2
  <2>3. QED
    BY <1>1, <2>1, <2>2
<1>3. QED
  BY <1>1, <1>2 DEF UpFits

\* A connection that is accepted has nothing under way to the acceptor.
LEMMA UpFitsAccepted ==
    ASSUME NEW u \in Seq(UpPackets), NEW e \in Ends, UpFits(u, e), e.dest \notin Peers, ~HasType(u, "syn"),
           NEW f \in Ends, f.home = e.home
    PROVE  UpFits(u, f)
<1>1. ASSUME NEW i \in DOMAIN u PROVE u[i].to = Nowhere
  <2>1. u[i].type \in {"eof", "ack"}
    BY UpElements DEF HasType
  <2>2. e.dest \in {Acceptor, Nowhere}
    BY DEF Ends
  <2>3. QED
    BY <2>1, <2>2 DEF UpFits
<1>2. Nowhere \notin Peers /\ Nowhere # Acceptor
  BY ConstantsAssumption DEF Sockets
<1>3. QED
  BY <1>1, <1>2 DEF UpFits

LEMMA DownElements ==
    ASSUME NEW d \in Seq(DownPackets)
    PROVE  /\ \A i \in DOMAIN d : d[i] \in DownPackets
           /\ d # <<>> => Has(d, "syn_ack") \/ Has(d, "ack") \/ HasError(d)
<1>1. \A i \in DOMAIN d : d[i] \in DownPackets
  BY LenProperties
<1>2. ASSUME d # <<>> PROVE Has(d, "syn_ack") \/ Has(d, "ack") \/ HasError(d)
  <2>1. 1 \in DOMAIN d
    BY <1>2, TailSeq
  <2>2. d[1] \in {"syn_ack", "reset", "eof", "ack"}
    BY <1>1, <2>1 DEF DownPackets
  <2>3. QED
    BY <2>1, <2>2 DEF Has, HasError, IsError
<1>3. QED
  BY <1>1, <1>2

LEMMA DownEmpty == (\A t : ~Has(<<>>, t)) /\ ~HasError(<<>>) /\ DownFits(<<>>)
BY DEF Has, HasError, DownFits

LEMMA DownFitsTail ==
    ASSUME NEW d \in Seq(DownPackets), d # <<>>, DownFits(d)
    PROVE  /\ DownFits(Tail(d)) /\ ~Has(Tail(d), "syn_ack") /\ Has(d, Head(d)) /\ Head(d) \in DownPackets
           /\ Has(Tail(d), "ack") => Has(d, "ack")
           /\ HasError(Tail(d)) => HasError(d)
           /\ IsError(Head(d)) => HasError(d) /\ ~HasError(Tail(d))
<1>1. /\ Head(d) = d[1] /\ 1 \in DOMAIN d /\ DOMAIN d = 1..Len(d) /\ Len(d) \in Nat \ {0}
      /\ DOMAIN Tail(d) = 1..(Len(d)-1) /\ Head(d) \in DownPackets
      /\ \A i \in DOMAIN Tail(d) : i+1 \in DOMAIN d /\ Tail(d)[i] = d[i+1] /\ i+1 # 1
  BY TailSeq
<1>2. ~Has(Tail(d), "syn_ack")
  BY <1>1 DEF DownFits, Has
<1>3. DownFits(Tail(d))
  <2>1. \A i, j \in DOMAIN Tail(d) : i+1 = j+1 => i = j
    BY <1>1
  <2>2. QED
    BY <1>1, <2>1 DEF DownFits
<1>4. Has(d, Head(d)) /\ (Has(Tail(d), "ack") => Has(d, "ack")) /\ (HasError(Tail(d)) => HasError(d))
  BY <1>1 DEF Has, HasError
<1>5. ASSUME IsError(Head(d)) PROVE HasError(d) /\ ~HasError(Tail(d))
  BY <1>1, <1>5 DEF DownFits, HasError
<1>6. QED
  BY <1>1, <1>2, <1>3, <1>4, <1>5

LEMMA DownFitsAppend ==
    ASSUME NEW d \in Seq(DownPackets), NEW k \in DownPackets, DownFits(d),
           k = "syn_ack" => d = <<>>, IsError(k) => ~HasError(d)
    PROVE  /\ DownFits(Append(d, k)) /\ Append(d, k) # <<>>
           /\ \A t : Has(Append(d, k), t) <=> (Has(d, t) \/ t = k)
           /\ HasError(Append(d, k)) <=> (HasError(d) \/ IsError(k))
<1>1. /\ Len(d) \in Nat /\ DOMAIN d = 1..Len(d) /\ DOMAIN Append(d, k) = 1..(Len(d)+1)
      /\ Append(d, k)[Len(d)+1] = k /\ Append(d, k) # <<>>
      /\ \A i \in DOMAIN d : i \in DOMAIN Append(d, k) /\ Append(d, k)[i] = d[i]
      /\ \A i \in DOMAIN Append(d, k) : i \in DOMAIN d \/ i = Len(d)+1
  BY AppendSeq
<1>2. Len(d)+1 \in DOMAIN Append(d, k)
  BY <1>1
<1>3. \A t : Has(Append(d, k), t) <=> (Has(d, t) \/ t = k)
  BY <1>1, <1>2 DEF Has
<1>4. HasError(Append(d, k)) <=> (HasError(d) \/ IsError(k))
  BY <1>1, <1>2 DEF HasError
<1>5. DownFits(Append(d, k))
  <2>1. ASSUME NEW i \in DOMAIN Append(d, k), Append(d, k)[i] = "syn_ack" PROVE i = 1
    <3>1. CASE i \in DOMAIN d
      BY <1>1, <2>1, <3>1 DEF DownFits
    <3>2. CASE i = Len(d)+1
      <4>1. d = <<>> /\ Len(d) = 0
        BY <1>1, <2>1, <3>2
      <4>2. QED
        BY <3>2, <4>1
    <3>3. QED
      BY <1>1, <3>1, <3>2
  <2>2. ASSUME NEW i \in DOMAIN Append(d, k), NEW j \in DOMAIN Append(d, k),
               IsError(Append(d, k)[i]), IsError(Append(d, k)[j])
        PROVE  i = j
    BY <1>1, <2>2 DEF DownFits, HasError
  <2>3. QED
    BY <2>1, <2>2 DEF DownFits
<1>6. QED
  BY <1>1, <1>3, <1>4, <1>5

-----------------------------------------------------------------------------
(* Every packet is expected: what happens to the ends of a channel.        *)

LEMMA EndFacts ==
    ASSUME RoutesInv, NEW c \in DOMAIN chans
    PROVE  /\ c \in Channels /\ c # 0 /\ chans[c] \in Ends
           /\ up[c] \in Seq(UpPackets) /\ down[c] \in Seq(DownPackets)
           /\ chans[c].home \in Connectors \cup {Nowhere}
           /\ chans[c].dest \in Peers \cup {Acceptor, Nowhere}
           /\ Connectors \subseteq Sockets /\ Peers \subseteq Sockets /\ Connectors \cap Peers = {}
           /\ Nowhere \notin Sockets /\ Acceptor \notin Sockets /\ Nowhere # Acceptor /\ Nowhere \notin Peers
BY RoutesFacts, TypeFacts, EndsOfChannels

\* Nothing new for the connector's side of c, which may be cut off.
LEMMA HomeKept ==
    ASSUME RoutesInv, NEW c \in DOMAIN chans, HomeFits(c), down'[c] = down[c],
           chans'[c].home \in {chans[c].home, Nowhere}, chans'[c].dest \in {chans[c].dest, Nowhere},
           Waits(c)' => Waits(c),
           chans'[c].home # Nowhere =>
                /\ chans[c].home \in connecting => chans[c].home \in connecting'
                /\ chan'[chans[c].home] = chan[chans[c].home]
                /\ c \in ToSet(unread'[chans[c].home]) => c \in ToSet(unread[chans[c].home])
    PROVE  HomeFits(c)'
<1>1. Nowhere # Acceptor /\ Nowhere \notin Peers
  BY EndFacts
<1>2. Dead(c) => Dead(c)'
  BY <1>1 DEF Dead
<1> HIDE DEF Dead
<1>3. QED
  BY <1>1, <1>2 DEF HomeFits

\* An error is sent to the connector's side of c, whose other end is cut off.
LEMMA HomeEnded ==
    ASSUME RoutesInv, NEW c \in DOMAIN chans, HomeFits(c), DownFits(down[c]),
           NEW k \in {"eof", "reset"}, down'[c] = Append(down[c], k),
           chans[c].dest \in Peers \/ Waits(c),
           chans'[c].home = chans[c].home, chans'[c].dest = Nowhere, ~Waits(c)',
           chans[c].home # Nowhere =>
                /\ chans[c].home \in connecting => chans[c].home \in connecting'
                /\ chan'[chans[c].home] = chan[chans[c].home]
                /\ c \in ToSet(unread'[chans[c].home]) => c \in ToSet(unread[chans[c].home])
    PROVE  HomeFits(c)' /\ DownFits(down'[c])
<1>1. /\ Nowhere # Acceptor /\ Nowhere \notin Peers /\ down[c] \in Seq(DownPackets)
  BY EndFacts
<1>2. ~HasError(down[c])
  BY <1>1, DownEmpty DEF HomeFits
<1>3. k \in DownPackets /\ IsError(k) /\ k # "syn_ack" /\ k # "ack"
  BY DEF DownPackets, IsError
<1>4. /\ DownFits(down'[c]) /\ (Has(down'[c], "syn_ack") <=> Has(down[c], "syn_ack"))
      /\ (Has(down'[c], "ack") <=> Has(down[c], "ack"))
  BY <1>1, <1>2, <1>3, DownFitsAppend
<1>5. ~Dead(c)
  BY DEF Dead
<1>6. chans[c].home # Nowhere => c \notin ToSet(unread[chans[c].home])
  BY <1>1 DEF HomeFits
<1>7. HomeFits(c)'
  BY <1>1, <1>4, <1>5, <1>6 DEF HomeFits
<1>8. QED
  BY <1>4, <1>7

\* Nothing new for the acceptor's side of c, which may be cut off.
LEMMA DestKept ==
    ASSUME RoutesInv, NEW c \in DOMAIN chans, DestFits(c),
           chans'[c].home \in {chans[c].home, Nowhere}, chans'[c].dest \in {chans[c].dest, Nowhere},
           chans[c].home = Nowhere /\ HasType(up'[c], "eof") => HasType(up[c], "eof"),
           chans'[c].dest # Nowhere /\ chans[c].dest \in Peers =>
                /\ chan'[chans[c].dest] = chan[chans[c].dest]
                /\ c \in ToSet(unread'[chans[c].dest]) => c \in ToSet(unread[chans[c].dest])
    PROVE  DestFits(c)'
<1>1. Nowhere \notin Peers
  BY EndFacts
<1>2. QED
  BY <1>1 DEF DestFits

\* The packets to the acceptor's side after close().
LEMMA ClosedUpFits ==
    ASSUME RoutesInv, TrafficInv, NEW x \in Sockets, NEW c \in DOMAIN chans, NEW f \in Ends,
           f.home = Cut(chans[c].home, x), f.dest = Cut(chans[c].dest, x)
    PROVE  /\ UpFits(UpClosed(x)[c], f)
           /\ chans[c].home = Nowhere /\ HasType(UpClosed(x)[c], "eof") => HasType(up[c], "eof")
<1>1. /\ c \in Channels /\ chans[c] \in Ends /\ up[c] \in Seq(UpPackets) /\ UpFits(up[c], chans[c])
      /\ TypeOK /\ OnlyExisting /\ OneEndEachSide /\ Nowhere \notin Sockets /\ ConnectFits
  BY EndFacts, RoutesFacts DEF TrafficInv, PacketsFit
<1>2. CASE x \in Connectors /\ SendsEnd(x, c)
  <2>1. chans[c].home = x /\ chans[c].home # Nowhere /\ chans[c].dest # Acceptor
    BY <1>1, <1>2 DEF SendsEnd, Established, OneEndEachSide, ConnectFits
  <2>2. PICK k \in UpPackets : k = UpPacket("eof", c) /\ k.type = "eof" /\ k.to = chans[c].dest
    BY <1>1, UpPacketFacts
  <2>3. PICK g \in Ends : g.home = Nowhere /\ g.dest = chans[c].dest
    <3>1. [home |-> Nowhere, dest |-> chans[c].dest] \in Ends
      BY EndFacts DEF Ends
    <3>2. QED
      BY <3>1
  <2>4. PICK v \in Seq(UpPackets) : v = Append(up[c], k)
    BY <1>1, AppendSeq
  <2>5. UpFits(v, g)
    BY <1>1, <2>1, <2>2, <2>3, <2>4, UpFitsEnd
  <2>6. f.home = Cut(g.home, x) /\ f.dest = Cut(g.dest, x)
    BY <2>1, <2>3 DEF Cut
  <2>7. UpFits(CutSeq(v, x), f)
    BY <2>5, <2>6, UpFitsCut
  <2>8. UpClosed(x)[c] = CutSeq(v, x)
    BY <1>1, <1>2, <2>2, <2>4, UpClosedFacts
  <2>9. QED
    BY <2>1, <2>7, <2>8
<1>3. CASE ~(x \in Connectors /\ SendsEnd(x, c))
  <2>1. UpClosed(x)[c] = CutSeq(up[c], x)
    BY <1>1, <1>3, UpClosedFacts
  <2>2. QED
    BY <1>1, <2>1, UpFitsCut, CutSeqFacts
<1>4. QED
  BY <1>2, <1>3

\* The packets to the connector's side after close().
LEMMA ClosedDown ==
    ASSUME RoutesInv, NEW x \in Sockets, NEW c \in DOMAIN chans
    PROVE  \/ DownClosed(x)[c] = down[c]
           \/ /\ x \in Peers /\ chans[c].dest = x /\ ~Waits(c)
              /\ DownClosed(x)[c] = Append(down[c], "eof")
<1>1. c \in Channels /\ TypeOK /\ OnlyExisting /\ OneEndEachSide /\ OneSyn
  BY EndFacts, RoutesFacts
<1>2. CASE x \in Peers /\ SendsEnd(x, c)
  <2>1. chans[c].dest = x /\ ~Waits(c)
    BY <1>1, <1>2 DEF SendsEnd, Established, OneEndEachSide, OneSyn
  <2>2. DownClosed(x)[c] = Append(down[c], "eof")
    BY <1>1, <1>2, DownClosedFacts
  <2>3. QED
    BY <1>2, <2>1, <2>2
<1>3. CASE ~(x \in Peers /\ SendsEnd(x, c))
  BY <1>1, <1>3, DownClosedFacts
<1>4. QED
  BY <1>2, <1>3

\* An error is put in the channel while its end on the acceptor's side goes away.
Errored(c) ==
    /\ \E k \in {"eof", "reset"} : down'[c] = Append(down[c], k)
    /\ chans[c].dest \in Peers \/ Waits(c)
    /\ chans'[c].dest = Nowhere
    /\ ~Waits(c)'

\* Channel c when the forwarder of x is reset.
LEMMA CutChannel ==
    ASSUME RoutesInv, TrafficInv, NEW c \in DOMAIN chans, NEW x,
           chans'[c].home = Cut(chans[c].home, x), chans'[c].dest = Cut(chans[c].dest, x),
           chans[c].home = Nowhere /\ HasType(up'[c], "eof") => HasType(up[c], "eof"),
           down'[c] = down[c] \/ (Errored(c) /\ x \notin Connectors),
           Waits(c)' => Waits(c), connecting' = connecting \ {x},
           \A y \in Sockets : y # x => /\ chan'[y] = chan[y]
                                       /\ ToSet(unread'[y]) \subseteq ToSet(unread[y])
    PROVE  HomeFits(c)' /\ DestFits(c)' /\ DownFits(down'[c])
<1>1. /\ HomeFits(c) /\ DestFits(c) /\ DownFits(down[c])
  BY DEF TrafficInv, PacketsFit
<1>2. /\ chans[c].home \in Connectors \cup {Nowhere} /\ Connectors \subseteq Sockets /\ Peers \subseteq Sockets
      /\ Nowhere \notin Sockets
  BY EndFacts
<1>3. chans'[c].home \in {chans[c].home, Nowhere} /\ chans'[c].dest \in {chans[c].dest, Nowhere}
  BY DEF Cut
<1>4. chans'[c].home # Nowhere =>
        /\ chans[c].home \in connecting => chans[c].home \in connecting'
        /\ chan'[chans[c].home] = chan[chans[c].home]
        /\ c \in ToSet(unread'[chans[c].home]) => c \in ToSet(unread[chans[c].home])
  BY <1>2 DEF Cut
<1>5. chans'[c].dest # Nowhere /\ chans[c].dest \in Peers =>
        /\ chan'[chans[c].dest] = chan[chans[c].dest]
        /\ c \in ToSet(unread'[chans[c].dest]) => c \in ToSet(unread[chans[c].dest])
  BY <1>2 DEF Cut
<1>6. DestFits(c)'
  BY <1>1, <1>3, <1>5, DestKept
<1>7. CASE down'[c] = down[c]
  BY <1>1, <1>3, <1>4, <1>6, <1>7, HomeKept
<1>8. CASE Errored(c) /\ x \notin Connectors
  <2>1. chans'[c].home = chans[c].home
    BY <1>2, <1>8 DEF Cut
  <2>2. PICK k \in {"eof", "reset"} : down'[c] = Append(down[c], k)
    BY <1>8 DEF Errored
  <2>3. chans[c].home # Nowhere =>
          /\ chans[c].home \in connecting => chans[c].home \in connecting'
          /\ chan'[chans[c].home] = chan[chans[c].home]
          /\ c \in ToSet(unread'[chans[c].home]) => c \in ToSet(unread[chans[c].home])
    BY <1>4, <2>1
  <2>4. (chans[c].dest \in Peers \/ Waits(c)) /\ chans'[c].dest = Nowhere /\ ~Waits(c)'
    BY <1>8 DEF Errored
  <2>5. QED
    BY <1>1, <1>6, <2>1, <2>2, <2>3, <2>4, HomeEnded
<1>9. QED
  BY <1>7, <1>8

\* Errors leave what was under way before them.
LEMMA ErroredKeeps ==
    ASSUME RoutesInv, TrafficInv, NEW c \in DOMAIN chans, down'[c] = down[c] \/ Errored(c)
    PROVE  Has(down[c], "syn_ack") => Has(down'[c], "syn_ack")
<1>1. down[c] \in Seq(DownPackets)
  BY EndFacts
<1>2. \A k \in {"eof", "reset"} : k \in DownPackets
  BY DEF DownPackets
<1>3. ASSUME NEW k \in {"eof", "reset"} PROVE Has(down[c], "syn_ack") => Has(Append(down[c], k), "syn_ack")
  BY <1>1, <1>2, AppendSeq DEF Has
<1>4. QED
  BY <1>3 DEF Errored

\* The forwarder of x is reset.
LEMMA CutTraffic ==
    ASSUME RoutesInv, TrafficInv, NEW x, chans' = CutChannels(x),
           \A c \in DOMAIN chans :
                /\ UpFits(up'[c], chans'[c])
                /\ chans[c].home = Nowhere /\ HasType(up'[c], "eof") => HasType(up[c], "eof"),
           \A c \in DOMAIN chans : down'[c] = down[c] \/ (Errored(c) /\ x \notin Connectors),
           \A c \in DOMAIN chans : Waits(c)' => Waits(c),
           connecting' = connecting \ {x},
           \A y \in Sockets : /\ chan'[y] = IF y = x THEN 0 ELSE chan[y]
                              /\ ToSet(unread'[y]) \subseteq ToSet(unread[y]),
           AcceptorFits', status' = status
    PROVE  TrafficInv'
<1>1. /\ DOMAIN chans' = DOMAIN chans
      /\ \A c \in DOMAIN chans : /\ chans'[c].home = Cut(chans[c].home, x)
                                 /\ chans'[c].dest = Cut(chans[c].dest, x)
  BY RoutesFacts, CutChannelsFacts
<1>2. /\ ConnectFits /\ ReadsOwnStream /\ PacketsExpected
  BY DEF TrafficInv
<1>3. \A c \in DOMAIN chans : HomeFits(c)' /\ DestFits(c)' /\ DownFits(down'[c])
  BY <1>1, CutChannel
<1>4. PacketsFit'
  BY <1>1, <1>3 DEF PacketsFit
<1>5. Connectors \subseteq Sockets /\ Nowhere \notin Peers /\ Acceptor # Nowhere
  BY RoutesFacts, TypeFacts
<1>6. ConnectFits'
  <2>1. ASSUME NEW s \in Connectors, chan'[s] # 0 PROVE chan'[s] = chan[s] /\ s # x /\ chan[s] \in DOMAIN chans
    BY <1>5, <2>1, RoutesFacts
  <2>2. ASSUME NEW s \in Connectors, chan'[s] # 0, s \notin connecting'
        PROVE  chans'[chan'[s]].dest # Acceptor
    <3>1. chan'[s] = chan[s] /\ s \notin connecting /\ chan[s] \in DOMAIN chans /\ chan[s] # 0
      BY <2>1, <2>2
    <3>2. chans[chan[s]].dest # Acceptor
      BY <1>2, <3>1 DEF ConnectFits
    <3>3. QED
      BY <1>1, <1>5, <3>1, <3>2 DEF Cut
  <2>3. ASSUME NEW s \in Connectors, s \in connecting', chans'[chan'[s]].dest \in Peers
        PROVE  Has(down'[chan'[s]], "syn_ack")
    <3>1. s \in connecting /\ s # x /\ chan'[s] = chan[s] /\ chan[s] \in DOMAIN chans
      BY <1>5, <2>3, RoutesFacts
    <3>2. chans[chan[s]].dest \in Peers
      BY <1>1, <1>5, <2>3, <3>1 DEF Cut
    <3>3. Has(down[chan[s]], "syn_ack")
      BY <1>2, <3>1, <3>2 DEF ConnectFits
    <3>4. QED
      BY <3>1, <3>3, ErroredKeeps
  <2>4. QED
    BY <2>2, <2>3 DEF ConnectFits
<1>7. ReadsOwnStream'
  <2>1. ASSUME NEW y \in Sockets, chan'[y] # 0 PROVE ToSet(unread'[y]) \subseteq {chan'[y]}
    <3>1. chan'[y] = chan[y] /\ ToSet(unread'[y]) \subseteq ToSet(unread[y])
      BY <2>1
    <3>2. QED
      BY <1>2, <2>1, <3>1 DEF ReadsOwnStream
  <2>2. QED
    BY <2>1 DEF ReadsOwnStream
<1>8. PacketsExpected'
  BY <1>2 DEF PacketsExpected
<1>9. QED
  BY <1>1, <1>3, <1>4, <1>6, <1>7, <1>8 DEF TrafficInv

LEMMA WaitsTypes ==
    ASSUME RoutesInv, NEW c \in DOMAIN chans, SynsKept(up'), ToSet(conns') \subseteq ToSet(conns)
    PROVE  Waits(c)' => Waits(c)
BY DEF Waits, SynsKept

LEMMA CutFits ==
    ASSUME RoutesInv, TrafficInv, NEW x, NEW c \in DOMAIN chans, chans' = CutChannels(x),
           up' = CutPackets(up, x)
    PROVE  /\ UpFits(up'[c], chans'[c])
           /\ chans[c].home = Nowhere /\ HasType(up'[c], "eof") => HasType(up[c], "eof")
<1>1. /\ c \in Channels /\ chans[c] \in Ends /\ up[c] \in Seq(UpPackets) /\ UpFits(up[c], chans[c])
      /\ up \in [Channels -> Seq(UpPackets)] /\ TypeOK
  BY EndFacts, RoutesFacts, TypeFacts DEF TrafficInv, PacketsFit
<1>2. up'[c] = CutSeq(up[c], x)
  BY <1>1, CutPacketsFacts
<1>3. PICK f \in Ends : f = chans'[c] /\ f.home = Cut(chans[c].home, x) /\ f.dest = Cut(chans[c].dest, x)
  <2>1. chans' \in Seq(Ends) /\ DOMAIN chans' = DOMAIN chans
    BY <1>1, CutChannelsFacts
  <2>2. chans'[c] \in Ends
    BY <2>1, LenProperties
  <2>3. QED
    BY <1>1, <2>2, CutChannelsFacts
<1>4. UpFits(CutSeq(up[c], x), f)
  BY <1>1, <1>3, UpFitsCut
<1>5. QED
  BY <1>1, <1>2, <1>3, <1>4, CutSeqFacts

LEMMA CloseFits ==
    ASSUME RoutesInv, TrafficInv, NEW x \in Sockets, NEW c \in DOMAIN chans, chans' = CutChannels(x),
           up' = UpClosed(x)
    PROVE  /\ UpFits(up'[c], chans'[c])
           /\ chans[c].home = Nowhere /\ HasType(up'[c], "eof") => HasType(up[c], "eof")
<1>1. TypeOK
  BY RoutesFacts
<1>2. PICK f \in Ends : f = chans'[c] /\ f.home = Cut(chans[c].home, x) /\ f.dest = Cut(chans[c].dest, x)
  <2>1. chans' \in Seq(Ends) /\ DOMAIN chans' = DOMAIN chans
    BY <1>1, CutChannelsFacts
  <2>2. chans'[c] \in Ends
    BY <2>1, LenProperties
  <2>3. QED
    BY <1>1, <2>2, CutChannelsFacts
<1>3. QED
  BY <1>2, ClosedUpFits

\* The end of the stream that close() sends.
LEMMA CloseErrors ==
    ASSUME RoutesInv, NEW x \in Sockets, NEW c \in DOMAIN chans, chans' = CutChannels(x),
           down'[c] = DownClosed(x)[c], Waits(c)' => Waits(c)
    PROVE  down'[c] = down[c] \/ (Errored(c) /\ x \notin Connectors)
<1>1. TypeOK /\ Connectors \cap Peers = {}
  BY RoutesFacts, TypeFacts
<1>2. CASE /\ x \in Peers /\ chans[c].dest = x /\ ~Waits(c) /\ DownClosed(x)[c] = Append(down[c], "eof")
  <2>1. chans'[c].dest = Nowhere
    BY <1>1, <1>2, CutChannelsFacts DEF Cut
  <2>2. Errored(c)
    BY <1>2, <2>1 DEF Errored
  <2>3. QED
    BY <1>1, <1>2, <2>2
<1>3. QED
  BY <1>2, ClosedDown

\* A pending accept has a socket of its own.
LEMMA AcceptorKept ==
    ASSUME RoutesInv, AcceptorFits, TypeOK', DOMAIN chans' = DOMAIN chans,
           \A c \in DOMAIN chans : chans'[c].dest \in {chans[c].dest, Nowhere},
           acc' = acc, accepting' \in {accepting, NoSocket},
           accepting # NoSocket => chan'[accepting] = 0 /\ unread'[accepting] = <<>>
    PROVE  AcceptorFits'
<1>1. Nowhere # Acceptor /\ Nowhere \notin Sockets /\ accepting \in Peers \cup {NoSocket} /\ Peers \subseteq Sockets
  BY RoutesFacts, TypeFacts
<1>2. QED
  BY <1>1 DEF AcceptorFits

-----------------------------------------------------------------------------
(* Every packet is expected: each step.                                    *)

LEMMA CloseTraffic ==
    ASSUME RoutesInv, TrafficInv, TypeOK', NEW x \in Sockets, close(x) \/ renew(x)
    PROVE  TrafficInv'
<1>1. /\ chan \in [Sockets -> 0..MaxConnects] /\ unread \in [Sockets -> Seq(Channels)]
      /\ connecting \subseteq Connectors /\ AcceptorFits /\ TypeOK
      /\ accepting \in Peers \cup {NoSocket} /\ Peers \subseteq Sockets
  BY RoutesFacts, TypeFacts DEF TrafficInv
<1>2. /\ chans' = CutChannels(x) /\ connecting' = connecting \ {x} /\ status' = status
      /\ chan' = [chan EXCEPT ![x] = 0] /\ acc' = acc /\ accepting' = accepting /\ conns' = conns
      /\ unread' \in {unread, [unread EXCEPT ![x] = <<>>]}
  BY DEF close, renew, accVars
<1>3. \A y \in Sockets : /\ chan'[y] = IF y = x THEN 0 ELSE chan[y]
                         /\ ToSet(unread'[y]) \subseteq ToSet(unread[y])
                         /\ unread'[y] \in {unread[y], <<>>}
  BY <1>1, <1>2, ToSetEmpty
<1>4. /\ DOMAIN chans' = DOMAIN chans
      /\ \A c \in DOMAIN chans : chans'[c].dest \in {chans[c].dest, Nowhere}
  BY <1>1, <1>2, CutChannelsFacts DEF Cut
<1>5. AcceptorFits'
  <2>1. accepting # NoSocket => chan'[accepting] = 0 /\ unread'[accepting] = <<>>
    BY <1>1, <1>3 DEF AcceptorFits
  <2>2. QED
    BY <1>1, <1>2, <1>4, <2>1, AcceptorKept
<1>6. CASE close(x)
  <2>1. up' = UpClosed(x) /\ down' = DownClosed(x)
    BY <1>6 DEF close
  <2>2. \A c \in DOMAIN chans : Waits(c)' => Waits(c)
    BY <1>2, <2>1, CloseKeepsSyns, WaitsTypes
  <2>3. \A c \in DOMAIN chans :
            /\ UpFits(up'[c], chans'[c])
            /\ chans[c].home = Nowhere /\ HasType(up'[c], "eof") => HasType(up[c], "eof")
    BY <1>2, <2>1, CloseFits
  <2>4. \A c \in DOMAIN chans : down'[c] = down[c] \/ (Errored(c) /\ x \notin Connectors)
    BY <1>2, <2>1, <2>2, CloseErrors
  <2>5. QED
    BY <1>2, <1>3, <1>5, <2>2, <2>3, <2>4, CutTraffic
<1>7. CASE renew(x)
  <2>1. up' = CutPackets(up, x) /\ down' = down
    BY <1>7 DEF renew
  <2>2. \A c \in DOMAIN chans : Waits(c)' => Waits(c)
    BY <1>2, <2>1, CutKeepsSyns, WaitsTypes
  <2>3. \A c \in DOMAIN chans :
            /\ UpFits(up'[c], chans'[c])
            /\ chans[c].home = Nowhere /\ HasType(up'[c], "eof") => HasType(up[c], "eof")
    BY <1>2, <2>1, CutFits
  <2>4. \A c \in DOMAIN chans : down'[c] = down[c] \/ (Errored(c) /\ x \notin Connectors)
    BY <2>1
  <2>5. QED
    BY <1>2, <1>3, <1>5, <2>2, <2>3, <2>4, CutTraffic
<1>8. QED
  BY <1>6, <1>7

\* A step that touches no socket and no channel.
LEMMA StayTraffic ==
    ASSUME TrafficInv, AcceptorFits', chans' = chans, up' = up, down' = down, conns' = conns,
           chan' = chan, unread' = unread, connecting' = connecting, status' = status
    PROVE  TrafficInv'
<1>1. \A c : Waits(c)' = Waits(c)
  BY DEF Waits
<1>2. PacketsFit' /\ ConnectFits' /\ ReadsOwnStream' /\ PacketsExpected'
  BY DEF TrafficInv, PacketsFit, ConnectFits, ReadsOwnStream, PacketsExpected
<1>3. \A c \in DOMAIN chans' : HomeFits(c)' /\ DestFits(c)'
  BY DEF TrafficInv, HomeFits, DestFits, Dead, Waits
<1>4. QED
  BY <1>2, <1>3 DEF TrafficInv

LEMMA AcceptorTraffic ==
    ASSUME RoutesInv, TrafficInv, TypeOK', AcceptorOp
    PROVE  TrafficInv'
<1>1. /\ AcceptorFits /\ TypeOK /\ Acceptor \notin Sockets /\ Acceptor # Nowhere
      /\ accepting \in Peers \cup {NoSocket} /\ Peers \subseteq Sockets /\ Nowhere \notin Sockets
      /\ Acceptor \notin connecting /\ Acceptor \notin Connectors
      /\ acc \in [open : BOOLEAN, bound : BOOLEAN, listening : BOOLEAN]
  BY RoutesFacts, TypeFacts DEF TrafficInv, TypeOK
<1>2. CASE acc_open \/ acc_close
  <2>1. /\ chans' = CutChannels(Acceptor) /\ connecting' = connecting \ {Acceptor} /\ status' = status
        /\ chan' = chan /\ accepting' \in {accepting, NoSocket} /\ conns' = conns
        /\ unread' = unread /\ up' = CutPackets(up, Acceptor) /\ down' = down
    BY <1>1, <1>2 DEF acc_open, acc_close, socketVars
  <2>2. ~acc'.bound
    <3>1. \A r \in [open : BOOLEAN, bound : BOOLEAN, listening : BOOLEAN] :
            [r EXCEPT !.open = TRUE, !.bound = FALSE].bound = FALSE
      OBVIOUS
    <3>2. acc' \in {[acc EXCEPT !.open = TRUE, !.bound = FALSE], [open |-> FALSE, bound |-> FALSE, listening |-> FALSE]}
      BY <1>2 DEF acc_open, acc_close
    <3>3. [open |-> FALSE, bound |-> FALSE, listening |-> FALSE].bound = FALSE
      OBVIOUS
    <3>4. QED
      BY <1>1, <3>1, <3>2, <3>3, Zenon
  <2>3. /\ DOMAIN chans' = DOMAIN chans
        /\ \A c \in DOMAIN chans : chans'[c].dest \in {chans[c].dest, Nowhere} /\ chans'[c].dest # Acceptor
    BY <1>1, <2>1, CutChannelsFacts DEF Cut
  <2>4. AcceptorFits'
    BY <1>1, <2>1, <2>2, <2>3 DEF AcceptorFits
  <2>5. \A y \in Sockets : /\ chan'[y] = IF y = Acceptor THEN 0 ELSE chan[y]
                           /\ ToSet(unread'[y]) \subseteq ToSet(unread[y])
    BY <1>1, <2>1
  <2>6. \A c \in DOMAIN chans : Waits(c)' => Waits(c)
    BY <2>1, CutKeepsSyns, WaitsTypes
  <2>7. \A c \in DOMAIN chans :
            /\ UpFits(up'[c], chans'[c])
            /\ chans[c].home = Nowhere /\ HasType(up'[c], "eof") => HasType(up[c], "eof")
    BY <2>1, CutFits
  <2>8. \A c \in DOMAIN chans : down'[c] = down[c] \/ (Errored(c) /\ Acceptor \notin Connectors)
    BY <2>1
  <2>9. QED
    BY <2>1, <2>4, <2>5, <2>6, <2>7, <2>8, CutTraffic
<1>3. CASE acc_bind \/ listen \/ acc_cancel
  <2>1. /\ chans' = chans /\ up' = up /\ down' = down /\ conns' = conns /\ connecting' = connecting
        /\ chan' = chan /\ unread' = unread /\ status' = status
    BY <1>3 DEF acc_bind, listen, acc_cancel, socketVars, netVars
  <2>2. (acc.bound => acc'.bound) /\ (acc'.bound => acc'.open) /\ accepting' \in {accepting, NoSocket}
    BY <1>1, <1>3 DEF acc_bind, listen, acc_cancel, AcceptorFits
  <2>3. AcceptorFits'
    BY <1>1, <2>1, <2>2 DEF AcceptorFits
  <2>4. QED
    BY <2>1, <2>3, StayTraffic
<1>4. QED
  BY <1>2, <1>3 DEF AcceptorOp

\* async_accept() that accepts nothing.
LEMMA AcceptNoneTraffic ==
    ASSUME RoutesInv, TrafficInv, TypeOK', MayReuseUnread = FALSE, NEW p \in Peers,
           AcceptLater(p) \/ AcceptClosed(p)
    PROVE  TrafficInv'
<1>1. /\ AcceptorFits /\ TypeOK /\ OneSyn /\ Acceptor # Nowhere /\ Nowhere \notin Sockets
      /\ p \in Sockets /\ p \notin connecting /\ p \notin Connectors /\ chan \in [Sockets -> 0..MaxConnects]
      /\ ToSet(conns) \subseteq DOMAIN chans /\ DOMAIN chans \subseteq Channels
      /\ \A c \in DOMAIN chans : HomeFits(c)
      /\ Acceptor \notin Sockets
  BY RoutesFacts, TypeFacts DEF TrafficInv
<1>2. /\ chans' = CutChannels(p) /\ up' = UpClosed(p) /\ connecting' = connecting \ {p} /\ status' = status
      /\ chan' = [chan EXCEPT ![p] = 0] /\ accepting' \in {p, NoSocket} /\ conns' \in {conns, <<>>}
      /\ unread' = unread /\ acc' = acc /\ unread[p] = <<>>
  BY <1>1 DEF AcceptLater, AcceptClosed, Reusable
<1>3. /\ DOMAIN chans' = DOMAIN chans
      /\ \A c \in DOMAIN chans : /\ chans'[c].dest = Cut(chans[c].dest, p)
                                 /\ chans'[c].dest \in {chans[c].dest, Nowhere} /\ chans'[c].dest # p
  BY <1>1, <1>2, CutChannelsFacts DEF Cut
<1>4. \A y \in Sockets : /\ chan'[y] = IF y = p THEN 0 ELSE chan[y]
                         /\ ToSet(unread'[y]) \subseteq ToSet(unread[y])
  BY <1>1, <1>2
<1>5. AcceptorFits'
  BY <1>1, <1>2, <1>3, <1>4 DEF AcceptorFits
<1>6. \A c \in DOMAIN chans : Waits(c)' => Waits(c)
  <2>1. ToSet(conns') \subseteq ToSet(conns)
    BY <1>2, ToSetEmpty
  <2>2. SynsKept(up')
    BY <1>1, <1>2, CloseKeepsSyns
  <2>3. QED
    BY <2>1, <2>2, WaitsTypes
<1>7. \A c \in DOMAIN chans :
          /\ UpFits(up'[c], chans'[c])
          /\ chans[c].home = Nowhere /\ HasType(up'[c], "eof") => HasType(up[c], "eof")
  BY <1>1, <1>2, CloseFits
<1>8. ASSUME NEW c \in DOMAIN chans PROVE down'[c] = down[c] \/ (Errored(c) /\ p \notin Connectors)
  <2>1. CASE down'[c] = DownClosed(p)[c]
    BY <1>1, <1>2, <1>6, <2>1, CloseErrors
  <2>2. CASE AcceptClosed(p) /\ c \in ToSet(conns)
    <3>1. Waits(c) /\ chans[c].dest \notin Peers
      BY <1>1, <2>2 DEF Waits, OneSyn
    <3>2. chans[c].dest # Acceptor
      BY <1>1, <2>2 DEF AcceptClosed, AcceptorFits
    <3>3. chans[c].dest = Nowhere /\ chans'[c].dest = Nowhere
      BY <1>3, <3>1, <3>2, EndFacts DEF Cut
    <3>4. DownClosed(p)[c] = down[c]
      BY <1>1, <3>1, ClosedDown
    <3>5. down'[c] = Append(down[c], "reset")
      BY <1>1, <2>2, <3>4 DEF AcceptClosed
    <3>6. ~Waits(c)'
      <4>1. conns' = <<>>
        BY <2>2 DEF AcceptClosed
      <4>2. ~HasType(up'[c], "syn")
        <5>1. SynsKept(up')
          BY <1>1, <1>2, CloseKeepsSyns
        <5>2. ~HasType(up[c], "syn")
          BY <1>1, <2>2 DEF OneSyn
        <5>3. QED
          BY <5>1, <5>2 DEF SynsKept
      <4>3. QED
        BY <4>1, <4>2, ToSetEmpty DEF Waits
    <3>7. QED
      BY <1>1, <3>1, <3>3, <3>5, <3>6 DEF Errored
  <2>3. QED
    BY <1>1, <2>1, <2>2 DEF AcceptLater, AcceptClosed
<1>9. QED
  BY <1>2, <1>4, <1>5, <1>6, <1>7, <1>8, CutTraffic

\* The channel of a connection that is accepted into p.
LEMMA AcceptedChannel ==
    ASSUME RoutesInv, TrafficInv, NEW h \in DOMAIN chans, Waits(h), NEW p \in Peers, NEW f \in Ends,
           f = chans'[h], f.home = chans[h].home, f.dest = p, down'[h] = Append(down[h], "syn_ack"),
           up'[h] \in Seq(UpPackets), NEW g \in Ends, UpFits(up'[h], g), g.home = chans[h].home, g.dest \notin Peers,
           ~HasType(up'[h], "syn"), ~Waits(h)', connecting' = connecting,
           chan'[p] = h, \A y \in Sockets : y # p => chan'[y] = chan[y], unread' = unread, unread[p] = <<>>
    PROVE  /\ UpFits(up'[h], chans'[h]) /\ DownFits(down'[h]) /\ Has(down'[h], "syn_ack")
           /\ HomeFits(h)' /\ DestFits(h)'
<1>1. /\ down[h] \in Seq(DownPackets) /\ chans[h].home \in Connectors \cup {Nowhere} /\ Acceptor \notin Sockets
      /\ Connectors \subseteq Sockets /\ Peers \subseteq Sockets /\ Connectors \cap Peers = {} /\ Nowhere \notin Peers
  BY EndFacts
<1>2. HomeFits(h) /\ DownFits(down[h])
  BY DEF TrafficInv, PacketsFit
<1>3. down[h] = <<>> /\ (chans[h].home # Nowhere => chans[h].home \in connecting)
  BY <1>2 DEF HomeFits
<1>4. "syn_ack" \in DownPackets /\ ~IsError("syn_ack") /\ "ack" # "syn_ack"
  BY DEF DownPackets, IsError
<1>5. /\ DownFits(down'[h]) /\ Has(down'[h], "syn_ack") /\ ~Has(down'[h], "ack") /\ ~HasError(down'[h])
  <2>1. PICK k \in DownPackets : k = "syn_ack"
    BY <1>4
  <2>2. ~Has(down[h], "ack") /\ ~HasError(down[h])
    BY <1>3, DownEmpty
  <2>3. /\ DownFits(Append(down[h], k)) /\ (HasError(Append(down[h], k)) => HasError(down[h]) \/ IsError(k))
        /\ Has(Append(down[h], k), "syn_ack") /\ (Has(Append(down[h], k), "ack") => Has(down[h], "ack"))
    BY <1>1, <1>2, <1>3, <1>4, <2>1, <2>2, DownFitsAppend
  <2>4. QED
    BY <1>4, <2>1, <2>2, <2>3
<1>6. UpFits(up'[h], f)
  BY UpFitsAccepted
<1>7. ~Dead(h)
  BY DEF Dead
<1>8. chans[h].home # Nowhere => /\ chan[chans[h].home] = h /\ chan'[chans[h].home] = h
                                 /\ h \notin ToSet(unread[chans[h].home])
  BY <1>1, <1>2, <1>7 DEF HomeFits
<1>9. HomeFits(h)'
  BY <1>1, <1>3, <1>5, <1>8 DEF HomeFits
<1>10. DestFits(h)'
  BY <1>1, ToSetEmpty DEF DestFits
<1>11. QED
  BY <1>5, <1>6, <1>9, <1>10

\* A connection is accepted.
LEMMA AcceptTraffic ==
    ASSUME RoutesInv, TrafficInv, NEW h \in DOMAIN chans, Waits(h), NEW p \in Peers,
           chans' \in Seq(Ends), DOMAIN chans' = DOMAIN chans,
           \A b \in DOMAIN chans : /\ chans'[b].home = chans[b].home
                                   /\ chans'[b].dest = IF b = h THEN p ELSE Cut(chans[b].dest, p),
           down'[h] = Append(down[h], "syn_ack"), up'[h] \in Seq(UpPackets),
           NEW g \in Ends, UpFits(up'[h], g), g.home = chans[h].home, g.dest \notin Peers,
           ~HasType(up'[h], "syn"), ~Waits(h)',
           \A b \in DOMAIN chans : b # h =>
                /\ UpFits(up'[b], chans'[b])
                /\ chans[b].home = Nowhere /\ HasType(up'[b], "eof") => HasType(up[b], "eof")
                /\ down'[b] = down[b] \/ Errored(b)
                /\ Waits(b)' => Waits(b),
           connecting' = connecting, chan' = [chan EXCEPT ![p] = h], unread' = unread, unread[p] = <<>>,
           accepting' = NoSocket, acc' = acc, status' = status
    PROVE  TrafficInv'
<1>1. /\ chan \in [Sockets -> 0..MaxConnects] /\ Connectors \subseteq Sockets /\ Peers \subseteq Sockets
      /\ Connectors \cap Peers = {} /\ Nowhere \notin Sockets /\ Acceptor \notin Sockets /\ Acceptor # Nowhere
      /\ connecting \subseteq Connectors
  BY RoutesFacts, TypeFacts
<1>2. chan'[p] = h /\ \A y \in Sockets : y # p => chan'[y] = chan[y]
  BY <1>1
<1>3. ConnectFits /\ ReadsOwnStream /\ PacketsExpected /\ AcceptorFits
  BY DEF TrafficInv
<1>4. PICK f \in Ends : f = chans'[h] /\ f.home = chans[h].home /\ f.dest = p
  <2>1. chans'[h] \in Ends
    BY LenProperties
  <2>2. QED
    BY <2>1
<1>5. /\ UpFits(up'[h], chans'[h]) /\ DownFits(down'[h]) /\ Has(down'[h], "syn_ack")
      /\ HomeFits(h)' /\ DestFits(h)'
  BY <1>2, <1>4, AcceptedChannel
<1>6. ASSUME NEW b \in DOMAIN chans, b # h
      PROVE  HomeFits(b)' /\ DestFits(b)' /\ DownFits(down'[b])
  <2>1. chans'[b].home = Cut(chans[b].home, p) /\ chans'[b].dest = Cut(chans[b].dest, p)
    BY <1>1, <1>6, EndFacts DEF Cut
  <2>2. down'[b] = down[b] \/ (Errored(b) /\ p \notin Connectors)
    BY <1>1, <1>6
  <2>3. connecting' = connecting \ {p}
    BY <1>1
  <2>4. QED
    BY <1>2, <1>6, <2>1, <2>2, <2>3, CutChannel
<1>7. PacketsFit'
  BY <1>5, <1>6 DEF PacketsFit
<1>8. ConnectFits'
  <2>1. \A s \in Connectors : chan'[s] = chan[s] /\ (chan[s] # 0 => chan[s] \in DOMAIN chans)
    BY <1>1, <1>2, RoutesFacts
  <2>2. ASSUME NEW s \in Connectors, chan'[s] # 0, s \notin connecting'
        PROVE  chans'[chan'[s]].dest # Acceptor
    <3>1. chans[chan[s]].dest # Acceptor /\ chan[s] \in DOMAIN chans
      BY <1>3, <2>1, <2>2 DEF ConnectFits
    <3>2. QED
      BY <1>1, <2>1, <3>1 DEF Cut
  <2>3. ASSUME NEW s \in Connectors, s \in connecting', chans'[chan'[s]].dest \in Peers
        PROVE  Has(down'[chan'[s]], "syn_ack")
    <3>1. s \in connecting /\ chan'[s] = chan[s] /\ chan[s] \in DOMAIN chans
      BY <2>1, <2>3, RoutesFacts
    <3>2. CASE chan[s] = h
      BY <1>5, <3>1, <3>2
    <3>3. CASE chan[s] # h
      <4>1. chans[chan[s]].dest \in Peers
        BY <1>1, <2>3, <3>1, <3>3 DEF Cut
      <4>2. Has(down[chan[s]], "syn_ack")
        BY <1>3, <3>1, <4>1 DEF ConnectFits
      <4>3. QED
        BY <3>1, <3>3, <4>2, ErroredKeeps
    <3>4. QED
      BY <3>2, <3>3
  <2>4. QED
    BY <2>2, <2>3 DEF ConnectFits
<1>9. ReadsOwnStream'
  <2>1. ASSUME NEW y \in Sockets, chan'[y] # 0 PROVE ToSet(unread'[y]) \subseteq {chan'[y]}
    BY <1>2, <1>3, <2>1, ToSetEmpty DEF ReadsOwnStream
  <2>2. QED
    BY <2>1 DEF ReadsOwnStream
<1>10. PacketsExpected'
  BY <1>3 DEF PacketsExpected
<1>11. AcceptorFits'
  <2>1. ASSUME ~acc.bound, NEW b \in DOMAIN chans PROVE chans'[b].dest # Acceptor
    BY <1>1, <1>3, <2>1 DEF AcceptorFits, Cut
  <2>2. QED
    BY <1>3, <2>1 DEF AcceptorFits
<1>12. QED
  BY <1>5, <1>6, <1>7, <1>8, <1>9, <1>10, <1>11 DEF TrafficInv

\* async_accept() with a connection in the queue.
LEMMA AcceptNowTraffic ==
    ASSUME RoutesInv, TrafficInv, RoutesInv', MayReuseUnread = FALSE, NEW p \in Peers, AcceptNow(p)
    PROVE  TrafficInv'
<1>1. /\ TypeOK /\ OnlyExisting /\ OneSyn /\ conns \in Seq(Channels) /\ conns # <<>>
      /\ NoTwice(conns) /\ ToSet(conns) \subseteq DOMAIN chans /\ p \in Sockets /\ DOMAIN chans \subseteq Channels
      /\ p \notin Connectors /\ p # Nowhere
  BY RoutesFacts, TypeFacts DEF AcceptNow
<1>2. PICK h : h = Head(conns)
  OBVIOUS
<1>3. /\ Accepted(h, p, CutChannels(p), DownClosed(p)) /\ conns' = Tail(conns) /\ up' = UpClosed(p)
      /\ unread' = unread /\ connecting' = connecting /\ acc' = acc /\ status' = status
      /\ accepting' = NoSocket /\ unread[p] = <<>>
  BY <1>2 DEF AcceptNow, Reusable, Accepted
<1>4. ToSet(conns) = ToSet(conns') \cup {h} /\ h \in ToSet(conns) /\ h \notin ToSet(conns')
  BY <1>1, <1>2, <1>3, ToSetTail
<1>5. h \in DOMAIN chans
  BY <1>1, <1>4
<1>6. SynsKept(up')
  BY <1>1, <1>3, CloseKeepsSyns
<1>7. /\ CutChannels(p) \in Seq(Ends) /\ DOMAIN CutChannels(p) = DOMAIN chans
      /\ DownClosed(p) \in [Channels -> Seq(DownPackets)]
      /\ \A c \in DOMAIN chans : /\ CutChannels(p)[c].home = Cut(chans[c].home, p)
                                 /\ CutChannels(p)[c].dest = Cut(chans[c].dest, p)
  BY <1>1, CutChannelsFacts, DownClosedFacts
<1>8. /\ DOMAIN chans' = DOMAIN chans /\ chans' \in Seq(Ends) /\ chan' = [chan EXCEPT ![p] = h]
      /\ \A b \in DOMAIN chans : /\ chans'[b].home = CutChannels(p)[b].home
                                 /\ chans'[b].dest = IF b = h THEN p ELSE CutChannels(p)[b].dest
      /\ \A b \in Channels : down'[b] = IF b = h THEN Append(DownClosed(p)[b], "syn_ack") ELSE DownClosed(p)[b]
  BY <1>1, <1>3, <1>5, <1>7, AcceptedFacts
<1>9. Waits(h) /\ chans[h].dest \notin Peers /\ ~HasType(up'[h], "syn") /\ ~Waits(h)'
  BY <1>1, <1>4, <1>5, <1>6 DEF Waits, OneSyn, SynsKept
<1>10. down'[h] = Append(down[h], "syn_ack")
  BY <1>1, <1>5, <1>8, <1>9, ClosedDown
<1>11. \A c \in DOMAIN chans : CutChannels(p)[c] \in Ends
  BY <1>7, LenProperties
<1>12. \A c \in DOMAIN chans :
            /\ UpFits(up'[c], CutChannels(p)[c])
            /\ chans[c].home = Nowhere /\ HasType(up'[c], "eof") => HasType(up[c], "eof")
  BY <1>1, <1>3, <1>7, <1>11, ClosedUpFits
<1>13. \A c \in DOMAIN chans : chans[c].home \in Connectors \cup {Nowhere}
  BY EndFacts
<1>14. \A b \in DOMAIN chans : /\ chans'[b].home = chans[b].home
                               /\ chans'[b].dest = IF b = h THEN p ELSE Cut(chans[b].dest, p)
  BY <1>1, <1>7, <1>8, <1>13 DEF Cut
<1>15. PICK g \in Ends : UpFits(up'[h], g) /\ g.home = chans[h].home /\ g.dest \notin Peers
  <2>1. CutChannels(p)[h].home = chans[h].home
    BY <1>1, <1>5, <1>7, <1>13 DEF Cut
  <2>2. CutChannels(p)[h].dest \notin Peers
    BY <1>5, <1>7, <1>9, EndFacts DEF Cut
  <2>3. QED
    BY <1>5, <1>11, <1>12, <2>1, <2>2
<1>16. up'[h] \in Seq(UpPackets)
  BY <1>1, <1>3, <1>5, UpClosedFacts
<1>17. ASSUME NEW b \in DOMAIN chans, b # h
       PROVE  /\ UpFits(up'[b], chans'[b]) /\ (down'[b] = down[b] \/ Errored(b)) /\ (Waits(b)' => Waits(b))
  <2>1. Waits(b)' => Waits(b)
    BY <1>4, <1>6, WaitsTypes
  <2>2. chans'[b] = CutChannels(p)[b]
    BY <1>3, <1>5, <1>7, <1>17 DEF Accepted
  <2>3. UpFits(up'[b], chans'[b])
    BY <1>12, <2>2
  <2>4. CASE /\ chans[b].dest = p /\ ~Waits(b) /\ DownClosed(p)[b] = Append(down[b], "eof")
    <3>1. chans'[b].dest = Nowhere
      BY <1>14, <1>17, <2>4 DEF Cut
    <3>2. down'[b] = Append(down[b], "eof")
      BY <1>1, <1>8, <1>17, <2>4
    <3>3. Errored(b)
      BY <2>1, <2>4, <3>1, <3>2 DEF Errored
    <3>4. QED
      BY <2>1, <2>3, <3>3
  <2>5. CASE DownClosed(p)[b] = down[b]
    BY <1>1, <1>8, <1>17, <2>1, <2>3, <2>5
  <2>6. QED
    BY <1>1, <2>4, <2>5, ClosedDown
<1>18. QED
  BY <1>3, <1>5, <1>8, <1>9, <1>10, <1>12, <1>14, <1>15, <1>16, <1>17, AcceptTraffic

\* Channel c, on which nothing comes to the connector any more.
LEMMA HomeDead ==
    ASSUME RoutesInv, NEW c \in DOMAIN chans, HomeFits(c), Dead(c), down'[c] = <<>>,
           chans'[c].home = chans[c].home, chans'[c].dest = chans[c].dest, ~Waits(c)',
           chans[c].home # Nowhere =>
                (c \in ToSet(unread'[chans[c].home]) => c \in ToSet(unread[chans[c].home]))
    PROVE  HomeFits(c)'
<1>1. Dead(c)'
  BY DEF Dead
<1>2. (\A t : ~Has(down'[c], t)) /\ ~HasError(down'[c])
  BY DownEmpty
<1>3. QED
  BY <1>1, <1>2 DEF HomeFits

LEMMA CancelTraffic ==
    ASSUME RoutesInv, TrafficInv, MayCancel = FALSE, NEW s \in Connectors, cancel(s)
    PROVE  TrafficInv'
<1>1. /\ chan \in [Sockets -> 0..MaxConnects] /\ Connectors \subseteq Sockets /\ Peers \subseteq Sockets
      /\ Connectors \cap Peers = {} /\ accepting \in Peers \cup {NoSocket} /\ OneEndEachSide
  BY RoutesFacts, TypeFacts
<1>2. /\ s \in connecting /\ TimedOut(chan[s]) /\ connecting' = connecting \ {s} /\ chan' = [chan EXCEPT ![s] = 0]
      /\ chans' = chans /\ up' = up /\ down' = down /\ conns' = conns /\ unread' = unread /\ status' = status
      /\ acc' = acc /\ accepting' = accepting
  BY DEF cancel, accVars, netVars
<1>3. \A y \in Sockets : chan'[y] = IF y = s THEN 0 ELSE chan[y]
  BY <1>1, <1>2
<1>4. PacketsFit /\ ConnectFits /\ ReadsOwnStream /\ PacketsExpected /\ AcceptorFits
  BY DEF TrafficInv
<1>5. chan[s] # 0 /\ chan[s] \in DOMAIN chans
  BY <1>1, <1>2, RoutesFacts
<1>6. Dead(chan[s])
  <2>1. down[chan[s]] = <<>> /\ ~Waits(chan[s])
    BY <1>2, NoTypes DEF TimedOut, Waits
  <2>2. chans[chan[s]].dest \notin Peers
    BY <1>2, <1>4, <2>1, DownEmpty DEF ConnectFits
  <2>3. QED
    BY <2>1, <2>2 DEF Dead
<1>7. ASSUME NEW c \in DOMAIN chans PROVE HomeFits(c)' /\ DestFits(c)'
  <2>1. HomeFits(c) /\ DestFits(c)
    BY DEF TrafficInv
  <2>2. Waits(c)' = Waits(c)
    BY <1>2 DEF Waits
  <2>3. CASE chans[c].home = s
    <3>1. s # Nowhere
      BY <1>1, EndFacts
    <3>2. Dead(c)
      BY <1>6, <2>1, <2>3, <3>1 DEF HomeFits
    <3>3. down'[c] = <<>> /\ ~Waits(c)'
      BY <1>2, <2>2, <3>2 DEF Dead
    <3>4. HomeFits(c)'
      BY <1>2, <2>1, <3>2, <3>3, HomeDead
    <3>5. DestFits(c)'
      BY <1>1, <1>2, <1>3, <2>1, DestKept
    <3>6. QED
      BY <3>4, <3>5
  <2>4. CASE chans[c].home # s
    <3>1. chans[c].home # Nowhere => chans[c].home \in Sockets
      BY <1>1, EndFacts
    <3>2. HomeFits(c)'
      BY <1>2, <1>3, <2>1, <2>2, <2>4, <3>1, HomeKept
    <3>3. DestFits(c)'
      BY <1>1, <1>2, <1>3, <2>1, DestKept
    <3>4. QED
      BY <3>2, <3>3
  <2>5. QED
    BY <2>3, <2>4
<1>8. PacketsFit'
  BY <1>2, <1>4 DEF PacketsFit
<1>9. ConnectFits'
  BY <1>1, <1>2, <1>3, <1>4 DEF ConnectFits
<1>10. ReadsOwnStream'
  BY <1>2, <1>3, <1>4 DEF ReadsOwnStream
<1>11. AcceptorFits'
  BY <1>1, <1>2, <1>3, <1>4 DEF AcceptorFits
<1>12. PacketsExpected'
  BY <1>2, <1>4 DEF PacketsExpected
<1>13. QED
  BY <1>2, <1>7, <1>8, <1>9, <1>10, <1>11, <1>12 DEF TrafficInv

LEMMA ReadTraffic ==
    ASSUME RoutesInv, TrafficInv, NEW x \in Sockets, read_some(x)
    PROVE  TrafficInv'
<1>1. /\ chan \in [Sockets -> 0..MaxConnects] /\ Connectors \subseteq Sockets /\ Peers \subseteq Sockets
      /\ Connectors \cap Peers = {} /\ accepting \in Peers \cup {NoSocket} /\ OneEndEachSide
      /\ unread \in [Sockets -> Seq(Channels)] /\ Sockets = Connectors \cup Peers /\ Nowhere \notin Sockets
  BY RoutesFacts, TypeFacts
<1>2. /\ Established(x) /\ unread[x] # <<>> /\ chan' = [chan EXCEPT ![x] = 0]
      /\ unread' = [unread EXCEPT ![x] = Tail(@)] /\ connecting' = connecting
      /\ chans' = chans /\ up' = up /\ down' = down /\ conns' = conns /\ status' = status
      /\ acc' = acc /\ accepting' = accepting
  BY DEF read_some, accVars, netVars
<1>3. \A y \in Sockets : chan'[y] = IF y = x THEN 0 ELSE chan[y]
  BY <1>1, <1>2
<1>4. ToSet(Tail(unread[x])) \subseteq ToSet(unread[x]) /\ Head(unread[x]) \in ToSet(unread[x])
  BY <1>1, <1>2, ToSetTail
<1>5. \A y \in Sockets : ToSet(unread'[y]) \subseteq ToSet(unread[y])
  BY <1>1, <1>2, <1>4
<1>6. PacketsFit /\ ConnectFits /\ ReadsOwnStream /\ PacketsExpected /\ AcceptorFits
  BY DEF TrafficInv
<1>7. chan[x] # 0 /\ chan[x] \in DOMAIN chans /\ x \notin connecting
  BY <1>2, RoutesFacts DEF Established
<1>8. chan[x] \in ToSet(unread[x])
  BY <1>4, <1>6, <1>7 DEF ReadsOwnStream
<1>9. ASSUME NEW c \in DOMAIN chans PROVE HomeFits(c)' /\ DestFits(c)'
  <2>1. HomeFits(c) /\ DestFits(c)
    BY DEF TrafficInv
  <2>2. Waits(c)' = Waits(c)
    BY <1>2 DEF Waits
  <2>3. HomeFits(c)'
    <3>1. CASE chans[c].home = x
      <4>1. x # Nowhere
        BY <1>1
      <4>2. CASE c = chan[x]
        <5>1. ~HasError(down[c]) /\ chans[c].dest = Nowhere /\ ~Waits(c)
          BY <1>8, <2>1, <3>1, <4>1, <4>2 DEF HomeFits
        <5>2. ~Has(down[c], "syn_ack") /\ ~Has(down[c], "ack")
          BY <1>7, <2>1, <3>1, <4>1 DEF HomeFits
        <5>3. down[c] = <<>>
          BY <5>1, <5>2, DownElements, EndFacts
        <5>4. Nowhere \notin Peers
          BY EndFacts
        <5>5. Dead(c)
          BY <5>1, <5>3, <5>4 DEF Dead
        <5>6. QED
          BY <1>2, <1>5, <2>1, <2>2, <3>1, <5>1, <5>3, <5>5, HomeDead
      <4>3. CASE c # chan[x]
        <5>1. Dead(c)
          BY <2>1, <3>1, <4>1, <4>3 DEF HomeFits
        <5>2. down'[c] = <<>> /\ ~Waits(c)'
          BY <1>2, <2>2, <5>1 DEF Dead
        <5>3. QED
          BY <1>2, <1>5, <2>1, <3>1, <5>1, <5>2, HomeDead
      <4>4. QED
        BY <4>2, <4>3
    <3>2. CASE chans[c].home # x
      <4>1. chans[c].home # Nowhere => chans[c].home \in Sockets
        BY <1>1, EndFacts
      <4>2. QED
        BY <1>2, <1>3, <1>5, <2>1, <2>2, <3>2, <4>1, HomeKept
    <3>3. QED
      BY <3>1, <3>2
  <2>4. DestFits(c)'
    <3>1. CASE chans[c].dest = x /\ x \in Peers
      <4>1. chans[c].home = Nowhere /\ ~HasType(up[c], "eof")
        BY <1>8, <2>1, <3>1 DEF DestFits
      <4>2. QED
        BY <1>2, <4>1 DEF DestFits
    <3>2. CASE chans[c].dest # x \/ x \notin Peers
      <4>1. chans[c].dest \in Peers => chan'[chans[c].dest] = chan[chans[c].dest] /\ chans[c].dest \in Sockets
        BY <1>1, <1>3, <3>2
      <4>2. QED
        BY <1>2, <1>5, <2>1, <4>1, DestKept
    <3>3. QED
      BY <3>1, <3>2
  <2>5. QED
    BY <2>3, <2>4
<1>10. PacketsFit'
  BY <1>2, <1>6 DEF PacketsFit
<1>11. ConnectFits'
  BY <1>1, <1>2, <1>3, <1>6, <1>7 DEF ConnectFits
<1>12. ReadsOwnStream'
  BY <1>3, <1>5, <1>6 DEF ReadsOwnStream
<1>13. AcceptorFits'
  <2>1. accepting # NoSocket => accepting # x
    BY <1>2, <1>6 DEF AcceptorFits
  <2>2. QED
    BY <1>1, <1>2, <1>3, <1>6, <2>1 DEF AcceptorFits
<1>14. PacketsExpected'
  BY <1>2, <1>6 DEF PacketsExpected
<1>15. QED
  BY <1>2, <1>9, <1>10, <1>11, <1>12, <1>13, <1>14 DEF TrafficInv

LEMMA ConnectTraffic ==
    ASSUME RoutesInv, TrafficInv, RoutesInv', MayReuseUnread = FALSE, NEW s \in Connectors, async_connect(s)
    PROVE  TrafficInv'
<1>1. /\ TypeOK /\ OnlyExisting /\ OneSyn /\ DOMAIN chans \subseteq Channels
      /\ up \in [Channels -> Seq(UpPackets)] /\ chan \in [Sockets -> 0..MaxConnects]
      /\ Connectors \subseteq Sockets /\ Peers \subseteq Sockets /\ connecting \subseteq Connectors
      /\ MaxConnects \in Nat /\ Channels = 1..MaxConnects /\ accepting \in Peers \cup {NoSocket}
      /\ Connectors \cap Peers = {} /\ Acceptor \notin Sockets /\ Nowhere \notin Sockets /\ Acceptor # Nowhere
  BY RoutesFacts, TypeFacts
<1>2. PICK c : /\ c = Len(chans) + 1 /\ chans' = Append(chans, [home |-> s, dest |-> Acceptor])
               /\ up' = [up EXCEPT ![c] = <<[type |-> "syn", to |-> Acceptor]>>]
               /\ chan' = [chan EXCEPT ![s] = c]
  BY DEF async_connect
<1>3. /\ conns' = conns /\ unread' = unread /\ down' = down /\ acc' = acc /\ accepting' = accepting /\ status' = status
      /\ connecting' = connecting \cup {s} /\ Len(chans) < MaxConnects /\ chan[s] = 0 /\ unread[s] = <<>> /\ acc.bound
  BY DEF async_connect, accVars, MayConnect, Reusable
<1>4. [home |-> s, dest |-> Acceptor] \in Ends
  BY DEF Ends
<1>5. /\ chans \in Seq(Ends) /\ Len(chans) \in Nat /\ DOMAIN chans = 1..Len(chans)
  BY <1>1, EndsOfChannels
<1>6. /\ DOMAIN chans' = 1..(Len(chans)+1) /\ chans'[c] = [home |-> s, dest |-> Acceptor]
      /\ \A b \in DOMAIN chans : b \in DOMAIN chans' /\ chans'[b] = chans[b]
      /\ \A b \in DOMAIN chans' : b \in DOMAIN chans \/ b = c
  BY <1>2, <1>4, <1>5, AppendSeq
<1>7. c \in Channels /\ c \notin DOMAIN chans /\ c \in DOMAIN chans' /\ c # 0
  BY <1>1, <1>2, <1>3, <1>5, <1>6
<1>8. \A b \in Channels : up'[b] = IF b = c THEN <<[type |-> "syn", to |-> Acceptor]>> ELSE up[b]
  BY <1>1, <1>2, <1>7
<1>9. \A y \in Sockets : chan'[y] = IF y = s THEN c ELSE chan[y]
  BY <1>1, <1>2
<1>10. PacketsFit /\ ConnectFits /\ ReadsOwnStream /\ PacketsExpected /\ AcceptorFits
  BY DEF TrafficInv
<1>11. /\ chans'[c].home = s /\ chans'[c].dest = Acceptor /\ down'[c] = <<>>
       /\ up'[c] = <<[type |-> "syn", to |-> Acceptor]>>
  BY <1>1, <1>3, <1>6, <1>7, <1>8 DEF OnlyExisting
<1>12. UpFits(up'[c], chans'[c])
  BY <1>1, <1>11 DEF UpFits
<1>13. HomeFits(c)' /\ DestFits(c)'
  <2>1. (\A t : ~Has(down'[c], t)) /\ ~HasError(down'[c])
    BY <1>11, DownEmpty
  <2>2. s # Nowhere /\ s \in connecting' /\ chan'[s] = c /\ c \notin ToSet(unread'[s])
    BY <1>1, <1>3, <1>9, ToSetEmpty
  <2>3. Acceptor \notin Peers
    BY <1>1
  <2>4. QED
    BY <1>11, <2>1, <2>2, <2>3 DEF HomeFits, DestFits
<1>14. ASSUME NEW b \in DOMAIN chans PROVE HomeFits(b)' /\ DestFits(b)'
  <2>1. HomeFits(b) /\ DestFits(b) /\ chans'[b] = chans[b] /\ up'[b] = up[b] /\ b # 0 /\ b # c
    BY <1>1, <1>6, <1>7, <1>8, EndFacts DEF TrafficInv
  <2>2. Waits(b)' = Waits(b)
    BY <1>3, <2>1 DEF Waits
  <2>3. HomeFits(b)'
    <3>1. CASE chans[b].home = s
      <4>1. Dead(b)
        BY <1>1, <1>3, <2>1, <3>1 DEF HomeFits
      <4>2. down'[b] = <<>> /\ ~Waits(b)'
        BY <1>3, <2>2, <4>1 DEF Dead
      <4>3. QED
        BY <1>3, <2>1, <4>1, <4>2, HomeDead
    <3>2. CASE chans[b].home # s
      <4>1. chans[b].home # Nowhere => chans[b].home \in Sockets
        BY <1>1, EndFacts
      <4>2. QED
        BY <1>3, <1>9, <2>1, <2>2, <3>2, <4>1, HomeKept
    <3>3. QED
      BY <3>1, <3>2
  <2>4. DestFits(b)'
    BY <1>1, <1>3, <1>9, <2>1, DestKept
  <2>5. QED
    BY <2>3, <2>4
<1>15. PacketsFit'
  <2>1. \A b \in DOMAIN chans : UpFits(up'[b], chans'[b]) /\ DownFits(down'[b])
    BY <1>1, <1>3, <1>6, <1>7, <1>8, <1>10 DEF PacketsFit
  <2>2. DownFits(down'[c])
    BY <1>11, DownEmpty
  <2>3. QED
    BY <1>6, <1>12, <2>1, <2>2 DEF PacketsFit
<1>16. ConnectFits'
  <2>1. ASSUME NEW t \in Connectors, chan'[t] # 0, t \notin connecting'
        PROVE  chans'[chan'[t]].dest # Acceptor
    <3>1. t # s /\ chan'[t] = chan[t] /\ t \notin connecting /\ chan[t] \in DOMAIN chans
      BY <1>1, <1>3, <1>9, <2>1, RoutesFacts
    <3>2. QED
      BY <1>6, <1>10, <2>1, <3>1 DEF ConnectFits
  <2>2. ASSUME NEW t \in Connectors, t \in connecting', chans'[chan'[t]].dest \in Peers
        PROVE  Has(down'[chan'[t]], "syn_ack")
    <3>1. t # s
      BY <1>1, <1>9, <1>11, <2>2
    <3>2. chan'[t] = chan[t] /\ t \in connecting /\ chan[t] \in DOMAIN chans
      BY <1>1, <1>3, <1>9, <2>2, <3>1, RoutesFacts
    <3>3. QED
      BY <1>3, <1>6, <1>10, <2>2, <3>2 DEF ConnectFits
  <2>3. QED
    BY <2>1, <2>2 DEF ConnectFits
<1>17. ReadsOwnStream'
  BY <1>3, <1>9, <1>10, ToSetEmpty DEF ReadsOwnStream
<1>18. AcceptorFits'
  <2>1. accepting # NoSocket => chan'[accepting] = chan[accepting] /\ accepting # Acceptor
    BY <1>1, <1>9
  <2>2. \A b \in DOMAIN chans' : (b \in DOMAIN chans /\ chans'[b].dest = chans[b].dest) \/ chans'[b].dest = Acceptor
    BY <1>6, <1>11
  <2>3. QED
    BY <1>3, <1>10, <2>1, <2>2 DEF AcceptorFits
<1>19. PacketsExpected'
  BY <1>3, <1>10 DEF PacketsExpected
<1>20. QED
  BY <1>6, <1>13, <1>14, <1>15, <1>16, <1>17, <1>18, <1>19 DEF TrafficInv

\* A packet to the acceptor's side is taken from the network, and nothing is sent.
LEMMA TailTraffic ==
    ASSUME RoutesInv, TrafficInv, NEW c \in Channels, up[c] # <<>>, up' = [up EXCEPT ![c] = Tail(@)],
           \A b \in DOMAIN chans : Waits(b)' => Waits(b),
           chans' = chans, down' = down, chan' = chan, unread' = unread, connecting' = connecting,
           status' = status, acc' = acc, accepting' = accepting
    PROVE  TrafficInv'
<1>1. up \in [Channels -> Seq(UpPackets)] /\ DOMAIN chans \subseteq Channels
  BY RoutesFacts, TypeFacts
<1>2. PacketsFit /\ ConnectFits /\ ReadsOwnStream /\ PacketsExpected /\ AcceptorFits
  BY DEF TrafficInv
<1>3. \A b \in Channels : up'[b] = IF b = c THEN Tail(up[c]) ELSE up[b]
  BY <1>1, TailOfPackets
<1>4. ASSUME NEW b \in DOMAIN chans
      PROVE  UpFits(up'[b], chans'[b]) /\ (HasType(up'[b], "eof") => HasType(up[b], "eof"))
  <2>1. UpFits(up[b], chans[b]) /\ chans[b] \in Ends /\ up[b] \in Seq(UpPackets) /\ b \in Channels
    BY <1>2, EndFacts DEF PacketsFit
  <2>2. CASE b = c
    BY <1>3, <2>1, <2>2, UpFitsTail, TailTypes
  <2>3. CASE b # c
    BY <1>3, <2>1, <2>3
  <2>4. QED
    BY <2>2, <2>3
<1>5. ASSUME NEW b \in DOMAIN chans PROVE HomeFits(b)' /\ DestFits(b)'
  <2>1. HomeFits(b) /\ DestFits(b)
    BY DEF TrafficInv
  <2>2. HomeFits(b)'
    BY <2>1, HomeKept
  <2>3. DestFits(b)'
    BY <1>4, <2>1, DestKept
  <2>4. QED
    BY <2>2, <2>3
<1>6. PacketsFit'
  BY <1>2, <1>4 DEF PacketsFit
<1>7. ConnectFits' /\ ReadsOwnStream' /\ PacketsExpected' /\ AcceptorFits'
  BY <1>2 DEF ConnectFits, ReadsOwnStream, PacketsExpected, AcceptorFits
<1>8. QED
  BY <1>5, <1>6, <1>7 DEF TrafficInv

\* A SYN reaches the acceptor.
LEMMA SynTraffic ==
    ASSUME RoutesInv, TrafficInv, RoutesInv', NEW c \in Channels, up[c] # <<>>, Head(up[c]).type = "syn",
           SynArrives(c)
    PROVE  TrafficInv'
<1>1. /\ TypeOK /\ OnlyExisting /\ OneSyn /\ OneSyn' /\ up \in [Channels -> Seq(UpPackets)]
      /\ conns \in Seq(Channels) /\ ToSet(conns) \subseteq DOMAIN chans /\ DOMAIN chans \subseteq Channels
      /\ down \in [Channels -> Seq(DownPackets)] /\ chans \in Seq(Ends)
      /\ accepting \in Peers \cup {NoSocket} /\ up' \in [Channels -> Seq(UpPackets)] /\ NoTwice(conns)
  BY RoutesFacts, TypeFacts, EndsOfChannels DEF RoutesInv, TypeOK
<1>2. PacketsFit /\ AcceptorFits
  BY DEF TrafficInv
<1>3. up' = [up EXCEPT ![c] = Tail(@)] /\ c \in DOMAIN chans
  BY TailKeepsSyns DEF SynArrives
<1>4. \A b \in Channels : up'[b] = IF b = c THEN Tail(up[c]) ELSE up[b]
  BY <1>1, <1>3, TailOfPackets
<1>5. HasType(up[c], "syn") /\ Waits(c) /\ SynsKept(up') /\ ~HasType(up'[c], "syn")
  BY <1>1, <1>3, TailTypes, TailKeepsSyns DEF Waits
<1>6. ToSet(Append(conns, c)) = ToSet(conns) \cup {c} /\ NoTwice(Append(conns, c))
  BY <1>1, <1>3, <1>5, ToSetAppend, NoTwiceAppend DEF OneSyn
<1>7. unread' = unread /\ connecting' = connecting /\ status' = status /\ acc' = acc
  BY DEF SynArrives
<1>8. CASE accepting = NoSocket
  <2>1. /\ conns' = Append(conns, c) /\ accepting' = accepting /\ chan' = chan
        /\ chans' = chans /\ down' = down
    BY <1>8 DEF SynArrives
  <2>2. \A b \in DOMAIN chans : Waits(b)' => Waits(b)
    BY <1>5, <1>6, <2>1 DEF Waits, SynsKept
  <2>3. QED
    BY <1>3, <1>7, <2>1, <2>2, TailTraffic
<1>9. CASE accepting # NoSocket
  <2>1. PICK h : h = Head(Append(conns, c))
    OBVIOUS
  <2>2. PICK p \in Peers : p = accepting
    BY <1>1, <1>9
  <2>3. Accepted(h, p, chans, down) /\ conns' = Tail(Append(conns, c))
    BY <1>9, <2>1, <2>2 DEF SynArrives
  <2>4. Append(conns, c) \in Seq(Channels) /\ Append(conns, c) # <<>>
    BY <1>1, AppendSeq
  <2>5. /\ ToSet(Append(conns, c)) = ToSet(conns') \cup {h} /\ h \in ToSet(Append(conns, c))
        /\ h \notin ToSet(conns')
    BY <1>6, <2>1, <2>3, <2>4, ToSetTail
  <2>6. h \in DOMAIN chans /\ Waits(h)
    BY <1>1, <1>3, <1>5, <1>6, <2>5 DEF Waits
  <2>7. /\ DOMAIN chans' = DOMAIN chans /\ chans' \in Seq(Ends) /\ chan' = [chan EXCEPT ![p] = h]
        /\ \A b \in DOMAIN chans : /\ chans'[b].home = chans[b].home
                                   /\ chans'[b].dest = IF b = h THEN p ELSE chans[b].dest
        /\ \A b \in Channels : down'[b] = IF b = h THEN Append(down[b], "syn_ack") ELSE down[b]
        /\ accepting' = NoSocket
    <3>1. TypeOK /\ OnlyExisting /\ chans \in Seq(Ends) /\ down \in [Channels -> Seq(DownPackets)] /\ h \in DOMAIN chans
      BY <1>1, <2>6
    <3>2. QED
      BY <2>3, <3>1, AcceptedFacts
  <2>8. unread[p] = <<>> /\ \A b \in DOMAIN chans : chans[b].dest # p
    BY <1>2, <1>9, <2>2 DEF AcceptorFits
  <2>9. \A b \in DOMAIN chans : /\ chans'[b].home = chans[b].home
                                /\ chans'[b].dest = IF b = h THEN p ELSE Cut(chans[b].dest, p)
    BY <2>7, <2>8 DEF Cut
  <2>10. ~HasType(up'[h], "syn") /\ ~Waits(h)'
    <3>1. ~HasType(up'[h], "syn")
      BY <1>1, <1>5, <1>6, <2>5, <2>6 DEF SynsKept, OneSyn
    <3>2. QED
      BY <2>5, <3>1 DEF Waits
  <2>11. chans[h].dest \notin Peers
    BY <1>1, <2>6 DEF OneSyn
  <2>12. ASSUME NEW b \in DOMAIN chans
         PROVE  UpFits(up'[b], chans[b]) /\ (HasType(up'[b], "eof") => HasType(up[b], "eof"))
    <3>1. UpFits(up[b], chans[b]) /\ chans[b] \in Ends /\ up[b] \in Seq(UpPackets) /\ b \in Channels
      BY <1>2, EndFacts DEF PacketsFit
    <3>2. CASE b = c
      BY <1>4, <3>1, <3>2, UpFitsTail, TailTypes
    <3>3. CASE b # c
      BY <1>4, <3>1, <3>3
    <3>4. QED
      BY <3>2, <3>3
  <2>13. PICK g \in Ends : UpFits(up'[h], g) /\ g.home = chans[h].home /\ g.dest \notin Peers
    BY <2>6, <2>11, <2>12, EndFacts
  <2>14. ASSUME NEW b \in DOMAIN chans, b # h
         PROVE  /\ UpFits(up'[b], chans'[b]) /\ (down'[b] = down[b] \/ Errored(b)) /\ (Waits(b)' => Waits(b))
    <3>1. chans'[b] = chans[b]
      BY <2>3, <2>6, <2>14 DEF Accepted
    <3>2. Waits(b)' => Waits(b)
      BY <1>5, <1>6, <2>5, <2>14 DEF Waits, SynsKept
    <3>3. down'[b] = down[b]
      BY <1>1, <2>7, <2>14
    <3>4. QED
      BY <2>12, <3>1, <3>2, <3>3
  <2>15. up'[h] \in Seq(UpPackets) /\ down'[h] = Append(down[h], "syn_ack")
    BY <1>1, <2>6, <2>7
  <2>16. QED
    BY <1>7, <2>6, <2>7, <2>8, <2>9, <2>10, <2>12, <2>13, <2>14, <2>15, AcceptTraffic
<1>10. QED
  BY <1>8, <1>9

\* The end of the stream reaches the accepted socket, which has the channel.
LEMMA UpErrorExpected ==
    ASSUME RoutesInv, TrafficInv, NEW c \in Channels, up[c] # <<>>, Head(up[c]).type = "eof",
           NEW x \in Peers, Head(up[c]).to \in {x}
    PROVE  /\ c \in DOMAIN chans /\ chans[c].dest = x /\ chan[x] = c /\ ~Waits(c) /\ c # 0
           /\ chans[c].home = Nowhere /\ HasType(up[c], "eof") /\ ~HasType(Tail(up[c]), "eof")
<1>1. OneSyn /\ Nowhere # x /\ c \in DOMAIN chans /\ c # 0
  BY RoutesFacts, TypeFacts, TailKeepsSyns
<1>2. UpFits(up[c], chans[c]) /\ chans[c] \in Ends /\ up[c] \in Seq(UpPackets) /\ DestFits(c)
  BY <1>1, EndFacts DEF TrafficInv, PacketsFit
<1>3. /\ x \in {chans[c].dest, Nowhere} /\ chans[c].home = Nowhere
      /\ HasType(up[c], "eof") /\ ~HasType(Tail(up[c]), "eof")
  BY <1>2, UpFitsTail
<1>4. chans[c].dest = x
  BY <1>1, <1>3
<1>5. chan[x] = c
  BY <1>2, <1>3, <1>4 DEF DestFits
<1>6. ~Waits(c)
  BY <1>1, <1>4 DEF OneSyn
<1>7. QED
  BY <1>1, <1>3, <1>4, <1>5, <1>6

LEMMA UpErrorTraffic ==
    ASSUME RoutesInv, TrafficInv, NEW c \in Channels, up[c] # <<>>, Head(up[c]).type = "eof",
           NEW x \in Peers, Head(up[c]).to \in {x}, NEW u \in [Channels -> Seq(UpPackets)], SynsKept(u),
           \A b \in Channels : u[b] = IF b = c THEN Tail(up[c]) ELSE up[b],
           chans' = chans, conns' = conns, chan' = chan, connecting' = connecting,
           acc' = acc, accepting' = accepting, status' = status,
           unread' = [unread EXCEPT ![x] = Append(@, c)],
           \A b \in Channels : up'[b] = u[b],
           \A b \in Channels : down'[b] = IF b = c THEN Append(down[b], "ack") ELSE down[b]
    PROVE  TrafficInv'
<1>1. /\ TypeOK /\ OnlyExisting /\ OneSyn /\ up \in [Channels -> Seq(UpPackets)] /\ DOMAIN chans \subseteq Channels
      /\ down \in [Channels -> Seq(DownPackets)] /\ unread \in [Sockets -> Seq(Channels)] /\ x \in Sockets
      /\ x \notin Connectors /\ Connectors \subseteq Sockets /\ Peers \subseteq Sockets
      /\ Nowhere \notin Sockets /\ accepting \in Peers \cup {NoSocket}
  BY RoutesFacts, TypeFacts
<1>2. PacketsFit /\ ConnectFits /\ ReadsOwnStream /\ PacketsExpected /\ AcceptorFits
  BY DEF TrafficInv
<1>3. c \in DOMAIN chans
  BY TailKeepsSyns
<1>4. \A b \in Channels : u[b] = IF b = c THEN Tail(up[c]) ELSE up[b]
  OBVIOUS
<1>5. /\ UpFits(up[c], chans[c]) /\ chans[c] \in Ends /\ up[c] \in Seq(UpPackets) /\ down[c] \in Seq(DownPackets)
      /\ HomeFits(c) /\ DestFits(c) /\ DownFits(down[c])
  BY <1>3, EndFacts DEF TrafficInv, PacketsFit
<1>6. chans[c].home = Nowhere /\ HasType(up[c], "eof") /\ ~HasType(Tail(up[c]), "eof")
  BY UpErrorExpected
<1>7. chans[c].dest = x /\ chan[x] = c /\ ~Waits(c) /\ c # 0
  BY UpErrorExpected
<1>8. /\ chans' = chans /\ conns' = conns /\ chan' = chan /\ connecting' = connecting
      /\ acc' = acc /\ accepting' = accepting /\ status' = status
      /\ unread' = [unread EXCEPT ![x] = Append(@, c)]
  OBVIOUS
<1>9. chans' = chans /\ conns' = conns /\ chan' = chan /\ connecting' = connecting /\ acc' = acc /\ accepting' = accepting
  BY <1>8
<1>10. /\ \A b \in Channels : up'[b] = IF b = c THEN Tail(up[c]) ELSE up[b]
       /\ \A b \in Channels : down'[b] = IF b = c THEN Append(down[c], "ack") ELSE down[b]
  BY <1>4
<1>11. ToSet(Append(unread[x], c)) = ToSet(unread[x]) \cup {c}
  BY <1>1, ToSetAppend
<1>12. \A y \in Sockets : ToSet(unread'[y]) = IF y = x THEN ToSet(unread[x]) \cup {c} ELSE ToSet(unread[y])
  BY <1>1, <1>8, <1>11
<1>13. \A b \in DOMAIN chans : Waits(b)' => Waits(b)
  <2>1. \A b \in DOMAIN chans : up'[b] = u[b]
    BY <1>1, <1>4, <1>10
  <2>2. QED
    BY <1>3, <1>9, <2>1 DEF Waits, SynsKept
<1>14. "ack" \in DownPackets /\ ~IsError("ack") /\ "ack" # "syn_ack"
  BY DEF DownPackets, IsError
<1>15. PICK k \in DownPackets : k = "ack"
  BY <1>14
<1>16. /\ DownFits(down'[c]) /\ (Has(down'[c], "syn_ack") => Has(down[c], "syn_ack"))
       /\ (HasError(down'[c]) => HasError(down[c]))
  <2>1. /\ DownFits(Append(down[c], k)) /\ (Has(Append(down[c], k), "syn_ack") => Has(down[c], "syn_ack"))
        /\ (HasError(Append(down[c], k)) => HasError(down[c]))
    BY <1>5, <1>14, <1>15, DownFitsAppend
  <2>2. QED
    BY <1>10, <1>15, <2>1
<1>17. HomeFits(c)' /\ DestFits(c)'
  <2>1. chans'[c].home = Nowhere /\ chans'[c].dest = x /\ ~Waits(c)'
    BY <1>3, <1>6, <1>7, <1>9, <1>13
  <2>2. HomeFits(c)'
    BY <1>5, <1>6, <1>7, <1>16, <2>1 DEF HomeFits
  <2>3. ~HasType(up'[c], "eof")
    BY <1>6, <1>10
  <2>4. DestFits(c)'
    BY <2>1, <2>3 DEF DestFits
  <2>5. QED
    BY <2>2, <2>4
<1>18. ASSUME NEW b \in DOMAIN chans, b # c PROVE HomeFits(b)' /\ DestFits(b)'
  <2>1. HomeFits(b) /\ DestFits(b) /\ b \in Channels /\ down'[b] = down[b] /\ up'[b] = up[b]
    BY <1>1, <1>10, <1>18 DEF TrafficInv
  <2>2. \A y \in Sockets : b \in ToSet(unread'[y]) => b \in ToSet(unread[y])
    BY <1>12, <1>18
  <2>3. chans[b].home # Nowhere => chans[b].home \in Sockets
    BY <1>1, EndFacts
  <2>4. HomeFits(b)'
    BY <1>9, <1>13, <2>1, <2>2, <2>3, HomeKept
  <2>5. DestFits(b)'
    BY <1>1, <1>9, <2>1, <2>2, DestKept
  <2>6. QED
    BY <2>4, <2>5
<1>19. PacketsFit'
  <2>1. UpFits(up'[c], chans'[c])
    BY <1>5, <1>9, <1>10, UpFitsTail
  <2>2. QED
    BY <1>1, <1>2, <1>9, <1>10, <1>16, <2>1 DEF PacketsFit
<1>20. ConnectFits'
  <2>1. ASSUME NEW s \in Connectors, s \in connecting, chans[chan[s]].dest \in Peers
        PROVE  Has(down'[chan[s]], "syn_ack")
    <3>1. Has(down[chan[s]], "syn_ack") /\ chan[s] \in DOMAIN chans
      BY <1>1, <1>2, <2>1, RoutesFacts DEF ConnectFits
    <3>2. chan[s] # c
      <4>1. chan[s] # 0 => chans[chan[s]].home = s
        BY RoutesFacts DEF OneEndEachSide
      <4>2. QED
        BY <1>1, <1>6, <1>7, <4>1
    <3>3. QED
      BY <1>1, <1>10, <3>1, <3>2
  <2>2. QED
    BY <1>2, <1>9, <2>1 DEF ConnectFits
<1>21. ReadsOwnStream'
  <2>1. ASSUME NEW y \in Sockets, chan'[y] # 0 PROVE ToSet(unread'[y]) \subseteq {chan'[y]}
    <3>1. chan'[y] = chan[y] /\ ToSet(unread[y]) \subseteq {chan[y]}
      BY <1>2, <1>9, <2>1 DEF ReadsOwnStream
    <3>2. CASE y = x
      <4>1. ToSet(unread'[y]) = ToSet(unread[y]) \cup {c} /\ chan[y] = c
        BY <1>1, <1>7, <1>12, <3>2
      <4>2. QED
        BY <3>1, <4>1
    <3>3. CASE y # x
      BY <1>12, <3>1, <3>3
    <3>4. QED
      BY <3>2, <3>3
  <2>2. QED
    BY <2>1 DEF ReadsOwnStream
<1>22. AcceptorFits'
  <2>1. accepting # NoSocket => accepting # x /\ accepting \in Sockets
    BY <1>1, <1>2, <1>3, <1>7 DEF AcceptorFits
  <2>2. accepting # NoSocket => unread'[accepting] = unread[accepting]
    BY <1>1, <1>8, <2>1
  <2>3. QED
    BY <1>2, <1>9, <2>2 DEF AcceptorFits
<1>23. PacketsExpected'
  BY <1>2, <1>8 DEF PacketsExpected
<1>24. QED
  BY <1>9, <1>17, <1>18, <1>19, <1>20, <1>21, <1>22, <1>23 DEF TrafficInv

\* A packet to the connector's side is taken from the network and nothing is sent:
\* it is swallowed, or it is the SYN+ACK that completes the connect.
LEMMA DownTailTraffic ==
    ASSUME RoutesInv, TrafficInv, NEW c \in Channels, down[c] # <<>>,
           down' = [down EXCEPT ![c] = Tail(@)],
           \/ chans[c].home = Nowhere /\ connecting' = connecting
           \/ /\ chans[c].home \in connecting /\ Head(down[c]) = "syn_ack"
              /\ connecting' = connecting \ {chans[c].home},
           chans' = chans, up' = up, conns' = conns, chan' = chan, unread' = unread,
           status' = status, acc' = acc, accepting' = accepting
    PROVE  TrafficInv'
<1>1. /\ down \in [Channels -> Seq(DownPackets)] /\ DOMAIN chans \subseteq Channels
      /\ Nowhere \notin Sockets /\ Connectors \subseteq Sockets /\ connecting \subseteq Connectors
  BY RoutesFacts, TypeFacts
<1>2. PacketsFit /\ ConnectFits /\ ReadsOwnStream /\ PacketsExpected /\ AcceptorFits
  BY DEF TrafficInv
<1>3. c \in DOMAIN chans
  BY TailKeepsChannels
<1>4. \A b \in Channels : down'[b] = IF b = c THEN Tail(down[c]) ELSE down[b]
  BY <1>1, TailOfPackets
<1>5. PICK s : s = chans[c].home
  OBVIOUS
<1>6. HomeFits(c) /\ DownFits(down[c]) /\ down[c] \in Seq(DownPackets) /\ c # 0
  BY <1>2, <1>3, EndFacts DEF TrafficInv, PacketsFit
<1>7. s # Nowhere => chan[s] = c /\ s \in connecting /\ connecting' = connecting \ {s}
  BY <1>5, <1>6 DEF HomeFits, Dead
<1>8. s # Nowhere => chans[c].dest # Acceptor
  <2>1. Has(down[c], Head(down[c]))
    BY <1>6, DownFitsTail
  <2>2. QED
    BY <1>5, <1>6, <2>1 DEF HomeFits
<1>9. s = Nowhere => connecting' = connecting
  BY <1>1, <1>5
<1>10. \A b \in DOMAIN chans : Waits(b)' = Waits(b)
  BY DEF Waits
<1>11. /\ DownFits(down'[c]) /\ ~Has(down'[c], "syn_ack") /\ (Has(down'[c], "ack") => Has(down[c], "ack"))
       /\ (HasError(down'[c]) => HasError(down[c]))
  BY <1>4, <1>6, DownFitsTail
<1>12. HomeFits(c)'
  <2>1. ~Waits(c)
    BY <1>6 DEF HomeFits
  <2>2. chans[c].home # Nowhere => chan[chans[c].home] = c
    BY <1>5, <1>7
  <2>3. QED
    BY <1>3, <1>6, <1>10, <1>11, <2>1, <2>2 DEF HomeFits
<1>13. ASSUME NEW b \in DOMAIN chans, b # c PROVE HomeFits(b)'
  <2>1. HomeFits(b) /\ b \in Channels /\ down'[b] = down[b] /\ (chans[b].home # Nowhere => chans[b].home \in Sockets)
    BY <1>1, <1>4, <1>13, EndFacts DEF TrafficInv
  <2>2. CASE chans[b].home = s /\ s # Nowhere
    <3>1. Dead(b)
      BY <1>7, <1>13, <2>1, <2>2 DEF HomeFits
    <3>2. down'[b] = <<>> /\ ~Waits(b)'
      BY <1>10, <2>1, <3>1 DEF Dead
    <3>3. QED
      BY <2>1, <3>1, <3>2, HomeDead
  <2>3. CASE chans[b].home # s \/ s = Nowhere
    <3>1. chans[b].home \in connecting => chans[b].home \in connecting'
      BY <1>7, <1>9, <2>3
    <3>2. QED
      BY <1>10, <2>1, <3>1, HomeKept
  <2>4. QED
    BY <2>2, <2>3
<1>14. ASSUME NEW b \in DOMAIN chans PROVE DestFits(b)'
  <2>1. DestFits(b)
    BY DEF TrafficInv
  <2>2. QED
    BY <2>1, DestKept
<1>15. PacketsFit'
  BY <1>1, <1>2, <1>4, <1>11 DEF PacketsFit
<1>16. ConnectFits'
  <2>1. ASSUME NEW t \in Connectors, chan[t] # 0, t \notin connecting' PROVE chans[chan[t]].dest # Acceptor
    <3>1. CASE t = s
      BY <1>1, <1>7, <1>8, <3>1
    <3>2. CASE t # s
      BY <1>2, <1>7, <1>9, <2>1, <3>2 DEF ConnectFits
    <3>3. QED
      BY <3>1, <3>2
  <2>2. ASSUME NEW t \in Connectors, t \in connecting', chans[chan[t]].dest \in Peers
        PROVE  Has(down'[chan[t]], "syn_ack")
    <3>1. t \in connecting /\ t # s
      BY <1>1, <1>7, <1>9, <2>2
    <3>2. chan[t] # 0 /\ chan[t] \in Channels /\ chans[chan[t]].home = t
      BY <1>1, <3>1, RoutesFacts DEF OneEndEachSide
    <3>3. chan[t] # c
      BY <1>5, <3>1, <3>2
    <3>4. Has(down[chan[t]], "syn_ack")
      BY <1>2, <2>2, <3>1 DEF ConnectFits
    <3>5. QED
      BY <1>4, <3>2, <3>3, <3>4
  <2>3. QED
    BY <2>1, <2>2 DEF ConnectFits
<1>17. ReadsOwnStream' /\ PacketsExpected' /\ AcceptorFits'
  BY <1>2 DEF ReadsOwnStream, PacketsExpected, AcceptorFits
<1>18. QED
  BY <1>12, <1>13, <1>14, <1>15, <1>16, <1>17 DEF TrafficInv

\* An error packet reaches the socket that connected, which has the channel; the
\* other end has left it.
LEMMA DownErrorExpected ==
    ASSUME RoutesInv, TrafficInv, NEW c \in Channels, down[c] # <<>>, Head(down[c]) \in {"reset", "eof"},
           NEW x \in Connectors, chans[c].home \in {x}
    PROVE  /\ c \in DOMAIN chans /\ chans[c].home = x /\ chan[x] = c /\ chans[c].dest = Nowhere
           /\ ~Waits(c) /\ c # 0 /\ DownFits(Tail(down[c])) /\ ~HasError(Tail(down[c]))
           /\ ~Has(Tail(down[c]), "syn_ack") /\ ~Has(Tail(down[c]), "ack")
<1>1. Nowhere # x /\ c \in DOMAIN chans /\ c # 0
  BY RoutesFacts, TypeFacts, TailKeepsChannels
<1>2. HomeFits(c) /\ DownFits(down[c]) /\ down[c] \in Seq(DownPackets)
  BY <1>1, EndFacts DEF TrafficInv, PacketsFit
<1>3. IsError(Head(down[c]))
  BY DEF IsError
<1>4. /\ HasError(down[c]) /\ ~HasError(Tail(down[c])) /\ DownFits(Tail(down[c]))
      /\ ~Has(Tail(down[c]), "syn_ack") /\ (Has(Tail(down[c]), "ack") => Has(down[c], "ack"))
  BY <1>2, <1>3, DownFitsTail
<1>5. chans[c].home = x
  OBVIOUS
<1>6. chan[x] = c /\ chans[c].dest = Nowhere /\ ~Waits(c) /\ ~Has(down[c], "ack")
  BY <1>1, <1>2, <1>4, <1>5 DEF HomeFits, Dead
<1>7. QED
  BY <1>1, <1>4, <1>5, <1>6

LEMMA DownErrorTraffic ==
    ASSUME RoutesInv, TrafficInv, NEW c \in Channels, down[c] # <<>>, Head(down[c]) \in {"reset", "eof"},
           NEW x \in Connectors, chans[c].home \in {x},
           chans' = chans, conns' = conns, chan' = chan, connecting' = connecting,
           acc' = acc, accepting' = accepting, status' = status,
           unread' = [unread EXCEPT ![x] = Append(@, c)],
           \A b \in Channels : up'[b] = IF b = c THEN Append(up[b], UpPacket("ack", b)) ELSE up[b],
           \A b \in Channels : down'[b] = IF b = c THEN Tail(down[b]) ELSE down[b]
    PROVE  TrafficInv'
<1>1. /\ TypeOK /\ up \in [Channels -> Seq(UpPackets)] /\ DOMAIN chans \subseteq Channels
      /\ unread \in [Sockets -> Seq(Channels)] /\ x \in Sockets /\ x \notin Peers
      /\ Connectors \subseteq Sockets /\ Peers \subseteq Sockets /\ NoSocket # x
      /\ Nowhere \notin Sockets /\ accepting \in Peers \cup {NoSocket}
  BY RoutesFacts, TypeFacts
<1>2. PacketsFit /\ ConnectFits /\ ReadsOwnStream /\ PacketsExpected /\ AcceptorFits
  BY DEF TrafficInv
<1>3. c \in DOMAIN chans /\ chans[c].home = x /\ chan[x] = c /\ chans[c].dest = Nowhere /\ ~Waits(c) /\ c # 0
  BY DownErrorExpected
<1>4. /\ DownFits(Tail(down[c])) /\ ~HasError(Tail(down[c]))
      /\ ~Has(Tail(down[c]), "syn_ack") /\ ~Has(Tail(down[c]), "ack")
  BY DownErrorExpected
<1>5. UpFits(up[c], chans[c]) /\ chans[c] \in Ends /\ up[c] \in Seq(UpPackets)
  BY <1>2, <1>3, EndFacts DEF PacketsFit
<1>6. /\ chans' = chans /\ conns' = conns /\ chan' = chan /\ connecting' = connecting
      /\ acc' = acc /\ accepting' = accepting /\ status' = status
      /\ unread' = [unread EXCEPT ![x] = Append(@, c)]
  OBVIOUS
<1>7. PICK k \in UpPackets : k = UpPacket("ack", c) /\ k.type = "ack" /\ k.to = Nowhere
  BY <1>1, <1>3, UpPacketFacts
<1>8. /\ \A b \in Channels : up'[b] = IF b = c THEN Append(up[c], k) ELSE up[b]
      /\ \A b \in Channels : down'[b] = IF b = c THEN Tail(down[c]) ELSE down[b]
  BY <1>7
<1>9. UpFits(Append(up[c], k), chans[c]) /\ (\A t : HasType(Append(up[c], k), t) <=> (HasType(up[c], t) \/ t = "ack"))
  <2>1. UpFits(Append(up[c], k), chans[c])
    BY <1>5, <1>7, UpFitsAck
  <2>2. QED
    BY <1>5, <1>7, <2>1, AppendTypes
<1>10. ToSet(Append(unread[x], c)) = ToSet(unread[x]) \cup {c}
  BY <1>1, ToSetAppend
<1>11. \A y \in Sockets : ToSet(unread'[y]) = IF y = x THEN ToSet(unread[x]) \cup {c} ELSE ToSet(unread[y])
  BY <1>1, <1>6, <1>10
<1>12. \A b \in DOMAIN chans : Waits(b)' => Waits(b)
  BY <1>1, <1>6, <1>8, <1>9 DEF Waits
<1>13. HomeFits(c)' /\ DestFits(c)'
  <2>1. chans'[c].home = x /\ chans'[c].dest = Nowhere /\ ~Waits(c)' /\ chan'[x] = c /\ Nowhere \notin Peers
    BY <1>1, <1>3, <1>6, <1>12
  <2>2. /\ ~Has(down'[c], "syn_ack") /\ ~Has(down'[c], "ack") /\ ~HasError(down'[c])
    BY <1>4, <1>8
  <2>3. QED
    BY <2>1, <2>2 DEF HomeFits, DestFits
<1>14. ASSUME NEW b \in DOMAIN chans, b # c PROVE HomeFits(b)' /\ DestFits(b)'
  <2>1. HomeFits(b) /\ DestFits(b) /\ b \in Channels /\ down'[b] = down[b] /\ up'[b] = up[b]
    BY <1>1, <1>8, <1>14 DEF TrafficInv
  <2>2. \A y \in Sockets : b \in ToSet(unread'[y]) => b \in ToSet(unread[y])
    BY <1>11, <1>14
  <2>3. chans[b].home # Nowhere => chans[b].home \in Sockets
    BY <1>1, EndFacts
  <2>4. HomeFits(b)'
    BY <1>6, <1>12, <2>1, <2>2, <2>3, HomeKept
  <2>5. DestFits(b)'
    BY <1>1, <1>6, <2>1, <2>2, DestKept
  <2>6. QED
    BY <2>4, <2>5
<1>15. PacketsFit'
  BY <1>1, <1>2, <1>4, <1>6, <1>8, <1>9 DEF PacketsFit
<1>16. ConnectFits'
  <2>1. ASSUME NEW s \in Connectors, s \in connecting, chans[chan[s]].dest \in Peers
        PROVE  Has(down'[chan[s]], "syn_ack")
    <3>1. Has(down[chan[s]], "syn_ack") /\ chan[s] \in Channels
      BY <1>1, <1>2, <2>1, RoutesFacts DEF ConnectFits
    <3>2. chan[s] # c
      BY <1>1, <1>3, <2>1
    <3>3. QED
      BY <1>8, <3>1, <3>2
  <2>2. QED
    BY <1>2, <1>6, <2>1 DEF ConnectFits
<1>17. ReadsOwnStream'
  <2>1. ASSUME NEW y \in Sockets, chan'[y] # 0 PROVE ToSet(unread'[y]) \subseteq {chan'[y]}
    <3>1. chan'[y] = chan[y] /\ ToSet(unread[y]) \subseteq {chan[y]}
      BY <1>2, <1>6, <2>1 DEF ReadsOwnStream
    <3>2. CASE y = x
      <4>1. ToSet(unread'[y]) = ToSet(unread[y]) \cup {c} /\ chan[y] = c
        BY <1>1, <1>3, <1>11, <3>2
      <4>2. QED
        BY <3>1, <4>1
    <3>3. CASE y # x
      BY <1>11, <3>1, <3>3
    <3>4. QED
      BY <3>2, <3>3
  <2>2. QED
    BY <2>1 DEF ReadsOwnStream
<1>18. AcceptorFits'
  <2>1. accepting # NoSocket => accepting # x /\ accepting \in Sockets
    BY <1>1
  <2>2. accepting # NoSocket => unread'[accepting] = unread[accepting]
    BY <1>1, <1>6, <2>1
  <2>3. QED
    BY <1>2, <1>6, <2>2 DEF AcceptorFits
<1>19. PacketsExpected'
  BY <1>2, <1>6 DEF PacketsExpected
<1>20. QED
  BY <1>6, <1>13, <1>14, <1>15, <1>16, <1>17, <1>18, <1>19 DEF TrafficInv

\* What reaches the side of the acceptor finds what the code asserts.
LEMMA UpExpected ==
    ASSUME RoutesInv, TrafficInv, NEW c \in Channels, up[c] # <<>>
    PROVE  /\ Head(up[c]).to = Acceptor => Head(up[c]).type = "syn"
           /\ Head(up[c]).to \in Peers => Head(up[c]).type = "eof"
<1>1. c \in DOMAIN chans
  BY TailKeepsSyns
<1>2. UpFits(up[c], chans[c]) /\ chans[c] \in Ends /\ up[c] \in Seq(UpPackets) /\ Nowhere # Acceptor /\ Nowhere \notin Peers
  BY <1>1, EndFacts DEF TrafficInv, PacketsFit
<1>3. QED
  BY <1>2, UpFitsTail

LEMMA DownExpected ==
    ASSUME RoutesInv, TrafficInv, NEW c \in Channels, down[c] # <<>>, chans[c].home # Nowhere
    PROVE  /\ Head(down[c]) # "ack" /\ (Head(down[c]) = "syn_ack" => chans[c].home \in connecting)
           /\ chans[c].home \in Connectors
<1>1. c \in DOMAIN chans
  BY TailKeepsChannels
<1>2. /\ HomeFits(c) /\ DownFits(down[c]) /\ down[c] \in Seq(DownPackets)
      /\ chans[c].home \in Connectors \cup {Nowhere}
  BY <1>1, EndFacts DEF TrafficInv, PacketsFit
<1>3. Has(down[c], Head(down[c]))
  BY <1>2, DownFitsTail
<1>4. QED
  BY <1>2, <1>3 DEF HomeFits

LEMMA UpErrorArrives ==
    ASSUME RoutesInv, TrafficInv, NEW c \in Channels, up[c] # <<>>, Head(up[c]).type = "eof",
           NEW x \in Peers, Head(up[c]).to \in {x},
           NEW u \in [Channels -> Seq(UpPackets)], SynsKept(u),
           \A b \in Channels : u[b] = IF b = c THEN Tail(up[c]) ELSE up[b],
           NEW d \in [Channels -> Seq(DownPackets)], \A b \in Channels : d[b] = down[b],
           ErrorTaken(x, c, u, d), ErrorArrives(x, c, u, d)
    PROVE  TrafficInv'
<1>1. x \in Sockets /\ x \notin Connectors
  BY RoutesFacts, TypeFacts
<1>2. chan[x] = c
  BY UpErrorExpected
<1>3. /\ \A b \in Channels : up'[b] = u[b]
      /\ \A b \in Channels : down'[b] = IF b = c THEN Append(down[b], "ack") ELSE down[b]
  BY <1>1, <1>2 DEF ErrorTaken
<1>4. /\ chans' = chans /\ conns' = conns /\ chan' = chan /\ connecting' = connecting
      /\ acc' = acc /\ accepting' = accepting
  BY DEF ErrorArrives, accVars
<1>5. status' = status /\ unread' = [unread EXCEPT ![x] = Append(@, c)]
  BY DEF ErrorTaken
<1>6. QED
  BY <1>3, <1>4, <1>5, UpErrorTraffic

LEMMA DownErrorArrives ==
    ASSUME RoutesInv, TrafficInv, NEW c \in Channels, down[c] # <<>>, Head(down[c]) \in {"reset", "eof"},
           NEW x \in Connectors, chans[c].home \in {x},
           NEW d \in [Channels -> Seq(DownPackets)],
           \A b \in Channels : d[b] = IF b = c THEN Tail(down[c]) ELSE down[b],
           NEW u \in [Channels -> Seq(UpPackets)], \A b \in Channels : u[b] = up[b],
           ErrorTaken(x, c, u, d), ErrorArrives(x, c, u, d)
    PROVE  TrafficInv'
<1>1. x \in Sockets /\ x \notin Peers
  BY RoutesFacts, TypeFacts
<1>2. chan[x] = c
  BY DownErrorExpected
<1>3. /\ \A b \in Channels : up'[b] = IF b = c THEN Append(up[b], UpPacket("ack", b)) ELSE up[b]
      /\ \A b \in Channels : down'[b] = IF b = c THEN Tail(down[b]) ELSE down[b]
  BY <1>1, <1>2 DEF ErrorTaken
<1>4. /\ chans' = chans /\ conns' = conns /\ chan' = chan /\ connecting' = connecting
      /\ acc' = acc /\ accepting' = accepting
  BY DEF ErrorArrives, accVars
<1>5. status' = status /\ unread' = [unread EXCEPT ![x] = Append(@, c)]
  BY DEF ErrorTaken
<1>6. QED
  BY <1>3, <1>4, <1>5, DownErrorTraffic

LEMMA NetworkTraffic ==
    ASSUME RoutesInv, TrafficInv, RoutesInv', NEW c \in Channels, NetDrop(c) \/ Network(c)
    PROVE  TrafficInv'
<1>0. /\ TypeOK /\ OnlyExisting /\ up \in [Channels -> Seq(UpPackets)] /\ down \in [Channels -> Seq(DownPackets)]
      /\ Peers \subseteq Sockets /\ Connectors \subseteq Sockets
  BY RoutesFacts, TypeFacts
<1>1. ASSUME up' = [up EXCEPT ![c] = Tail(@)], up[c] # <<>>, conns' = conns
      PROVE  \A b \in DOMAIN chans : Waits(b)' => Waits(b)
  <2>1. SynsKept(up')
    BY <1>1, TailKeepsSyns
  <2>2. QED
    BY <1>1, <2>1, WaitsTypes
<1>2. CASE NetDrop(c)
  <2>1. /\ up' = [up EXCEPT ![c] = Tail(@)] /\ up[c] # <<>>
        /\ chans' = chans /\ down' = down /\ conns' = conns /\ chan' = chan /\ unread' = unread
        /\ connecting' = connecting /\ status' = status /\ acc' = acc /\ accepting' = accepting
    BY <1>2 DEF NetDrop, accVars, socketVars
  <2>2. QED
    BY <1>1, <2>1, TailTraffic
<1>3. CASE DeliverUp(c)
  <2>1. PICK u : u = [up EXCEPT ![c] = Tail(@)]
    OBVIOUS
  <2>2. up[c] # <<>>
    BY <1>3 DEF DeliverUp
  <2>3. CASE Swallowed(u, down)
    <3>1. /\ up' = [up EXCEPT ![c] = Tail(@)] /\ chans' = chans /\ down' = down /\ conns' = conns
          /\ chan' = chan /\ unread' = unread
          /\ connecting' = connecting /\ status' = status /\ acc' = acc /\ accepting' = accepting
      BY <2>1, <2>3 DEF Swallowed, accVars, socketVars
    <3>2. QED
      BY <1>1, <2>2, <3>1, TailTraffic
  <2>4. CASE Head(up[c]).type = "syn" /\ SynArrives(c)
    BY <2>2, <2>4, SynTraffic
  <2>5. CASE Head(up[c]).to \in Peers /\ Head(up[c]).type = "eof" /\ ErrorArrives(Head(up[c]).to, c, u, down)
    <3>1. PICK x \in Peers : x = Head(up[c]).to
      BY <2>5
    <3>2. PICK d : d = down
      OBVIOUS
    <3>3. Head(up[c]).to \in {x} /\ ErrorArrives(x, c, u, d) /\ chan[x] # 0
      <4>1. Head(up[c]).to \in {x}
        BY <3>1
      <4>2. chan[x] # 0
        BY <2>2, <2>5, <4>1, UpErrorExpected
      <4>3. QED
        BY <2>5, <3>1, <3>2, <4>1, <4>2
    <3>4. /\ TypeOK /\ OnlyExisting /\ x \in Sockets /\ u \in [Channels -> Seq(UpPackets)]
          /\ d \in [Channels -> Seq(DownPackets)]
      BY <1>0, <2>1, <2>2, <3>1, <3>2, TailOfPackets
    <3>5. SynsKept(u) /\ \A b \in Channels : u[b] = IF b = c THEN Tail(up[c]) ELSE up[b]
      BY <1>0, <2>1, <2>2, TailOfPackets, TailKeepsSyns
    <3>6. ErrorTaken(x, c, u, d)
      BY <3>3, <3>4, ErrorTakenFacts
    <3>7. \A b \in Channels : d[b] = down[b]
      BY <3>2
    <3>8. QED
      BY <2>2, <2>5, <3>3, <3>4, <3>5, <3>6, <3>7, UpErrorArrives
  <2>6. /\ Head(up[c]).to = Acceptor => Head(up[c]).type = "syn"
        /\ Head(up[c]).to \in Peers => Head(up[c]).type = "eof"
    BY <2>2, UpExpected
  <2>7. QED
    BY <1>3, <2>1, <2>3, <2>4, <2>5, <2>6, Zenon DEF DeliverUp
<1>4. CASE DeliverDown(c)
  <2>1. PICK d : d = [down EXCEPT ![c] = Tail(@)]
    OBVIOUS
  <2>2. down[c] # <<>>
    BY <1>4 DEF DeliverDown
  <2>3. CASE chans[c].home = Nowhere /\ Swallowed(up, d)
    <3>1. /\ down' = [down EXCEPT ![c] = Tail(@)] /\ chans' = chans /\ up' = up /\ conns' = conns
          /\ chan' = chan /\ unread' = unread
          /\ connecting' = connecting /\ status' = status /\ acc' = acc /\ accepting' = accepting
      BY <2>1, <2>3 DEF Swallowed, accVars, socketVars
    <3>2. QED
      BY <2>2, <2>3, <3>1, DownTailTraffic
  <2>4. CASE Head(down[c]) = "syn_ack" /\ chans[c].home \in connecting /\ SynAckArrives(chans[c].home, d)
    <3>1. /\ down' = [down EXCEPT ![c] = Tail(@)] /\ chans' = chans /\ up' = up /\ conns' = conns
          /\ chan' = chan /\ unread' = unread
          /\ connecting' = connecting \ {chans[c].home} /\ status' = status /\ acc' = acc /\ accepting' = accepting
      BY <2>1, <2>4 DEF SynAckArrives, accVars
    <3>2. QED
      BY <2>2, <2>4, <3>1, DownTailTraffic
  <2>5. CASE chans[c].home # Nowhere /\ Head(down[c]) \in {"reset", "eof"} /\ ErrorArrives(chans[c].home, c, up, d)
    <3>1. PICK x \in Connectors : x = chans[c].home
      BY <2>2, <2>5, DownExpected
    <3>2. PICK u : u = up
      OBVIOUS
    <3>3. chans[c].home \in {x} /\ ErrorArrives(x, c, u, d) /\ chan[x] # 0
      <4>1. chans[c].home \in {x}
        BY <3>1
      <4>2. chan[x] # 0
        BY <2>2, <2>5, <4>1, DownErrorExpected
      <4>3. QED
        BY <2>5, <3>1, <3>2, <4>1, <4>2
    <3>4. /\ TypeOK /\ OnlyExisting /\ x \in Sockets /\ u \in [Channels -> Seq(UpPackets)]
          /\ d \in [Channels -> Seq(DownPackets)]
      BY <1>0, <2>1, <2>2, <3>1, <3>2, TailOfPackets
    <3>5. \A b \in Channels : d[b] = IF b = c THEN Tail(down[c]) ELSE down[b]
      BY <1>0, <2>1, <2>2, TailOfPackets
    <3>6. ErrorTaken(x, c, u, d)
      BY <3>3, <3>4, ErrorTakenFacts
    <3>7. \A b \in Channels : u[b] = up[b]
      BY <3>2
    <3>8. QED
      BY <2>2, <2>5, <3>3, <3>4, <3>5, <3>6, <3>7, DownErrorArrives
  <2>6. chans[c].home # Nowhere =>
            Head(down[c]) # "ack" /\ (Head(down[c]) = "syn_ack" => chans[c].home \in connecting)
    BY <2>2, DownExpected
  <2>7. CASE chans[c].home = Nowhere
    BY <1>4, <2>1, <2>3, <2>7, Zenon DEF DeliverDown
  <2>8. CASE chans[c].home # Nowhere
    <3>1. CASE Head(down[c]) \in {"reset", "eof"} /\ ErrorArrives(chans[c].home, c, up, d)
      BY <2>5, <2>8, <3>1
    <3>2. CASE /\ Head(down[c]) \in {"syn_ack", "ack"}
               /\ IF Head(down[c]) = "syn_ack" /\ chans[c].home \in connecting
                  THEN SynAckArrives(chans[c].home, d) ELSE Unexpected(up, d)
      BY <2>4, <2>6, <2>8, <3>2
    <3>3. QED
      BY <1>4, <2>1, <2>8, <3>1, <3>2, Zenon DEF DeliverDown
  <2>9. QED
    BY <2>7, <2>8
<1>5. QED
  BY <1>2, <1>3, <1>4 DEF Network

LEMMA TrafficStep ==
    ASSUME RoutesInv, TrafficInv, MayCancel = FALSE, MayReuseUnread = FALSE, [Next]_vars
    PROVE  TrafficInv'
<1>1. RoutesInv'
  BY RoutesStep
<1>2. TypeOK'
  BY <1>1 DEF RoutesInv
<1>3. ASSUME NEW s \in Connectors, ConnectFails(s) \/ ConnectRefused(s) PROVE TrafficInv'
  <2>1. /\ acc' = acc /\ accepting' = accepting /\ chans' = chans /\ up' = up /\ down' = down /\ conns' = conns
        /\ chan' = chan /\ unread' = unread /\ connecting' = connecting /\ status' = status
    BY <1>3 DEF ConnectFails, ConnectRefused, accVars, netVars
  <2>2. AcceptorFits'
    BY <2>1 DEF TrafficInv, AcceptorFits
  <2>3. QED
    BY <2>1, <2>2, StayTraffic
<1>4. CASE Next
  <2>1. CASE AcceptorOp
    BY <1>2, <2>1, AcceptorTraffic
  <2>2. ASSUME NEW p \in Peers, async_accept(p) PROVE TrafficInv'
    BY <1>1, <1>2, <2>2, AcceptNowTraffic, AcceptNoneTraffic DEF async_accept
  <2>3. ASSUME NEW s \in Connectors, async_connect(s) \/ ConnectFails(s) \/ ConnectRefused(s) \/ cancel(s)
        PROVE  TrafficInv'
    BY <1>1, <1>3, <2>3, ConnectTraffic, CancelTraffic
  <2>4. ASSUME NEW x \in Sockets, close(x) \/ renew(x) \/ read_some(x) PROVE TrafficInv'
    BY <1>2, <2>4, CloseTraffic, ReadTraffic
  <2>5. ASSUME NEW c \in Channels, NetDrop(c) \/ Network(c) PROVE TrafficInv'
    BY <1>1, <2>5, NetworkTraffic
  <2>6. QED
    BY <1>4, <2>1, <2>2, <2>3, <2>4, <2>5 DEF Next
<1>5. CASE UNCHANGED vars
  <2>1. /\ acc' = acc /\ accepting' = accepting /\ chans' = chans /\ up' = up /\ down' = down /\ conns' = conns
        /\ chan' = chan /\ unread' = unread /\ connecting' = connecting /\ status' = status
    BY <1>5 DEF vars, accVars, socketVars, netVars
  <2>2. AcceptorFits'
    BY <2>1 DEF TrafficInv, AcceptorFits
  <2>3. QED
    BY <2>1, <2>2, StayTraffic
<1>6. QED
  BY <1>4, <1>5

LEMMA InitTraffic == Init => TrafficInv
<1>1. ASSUME Init PROVE TrafficInv
  <2>1. DOMAIN chans = {}
    BY <1>1 DEF Init
  <2>2. PacketsFit /\ \A c \in DOMAIN chans : HomeFits(c) /\ DestFits(c)
    BY <2>1 DEF PacketsFit
  <2>3. Connectors \subseteq Sockets
    BY DEF Sockets
  <2>4. ConnectFits
    BY <1>1, <2>3 DEF Init, ConnectFits
  <2>5. AcceptorFits /\ ReadsOwnStream /\ PacketsExpected
    BY <1>1, <2>1 DEF Init, AcceptorFits, ReadsOwnStream, PacketsExpected
  <2>6. QED
    BY <2>2, <2>4, <2>5 DEF TrafficInv
<1>2. QED
  BY <1>1

\* The invariant of the packets in flight, when user code cancels a connect only
\* after its time is up and takes a new socket object once unread packets are left
\* in the old one.
THEOREM TrafficInvariance ==
    ASSUME MayCancel = FALSE, MayReuseUnread = FALSE
    PROVE  Spec => [](RoutesInv /\ TrafficInv)
<1>1. Init => RoutesInv /\ TrafficInv
  BY InitRoutes, InitTraffic
<1>2. RoutesInv /\ TrafficInv /\ [Next]_vars => (RoutesInv /\ TrafficInv)'
  BY RoutesStep, TrafficStep
<1>3. QED
  BY <1>1, <1>2, PTL DEF Spec

\* The assertions on incoming packets hold (assert(m_connect_handler) and the null
\* m_channel in tcp::socket::incoming_packet(), assert(false) in
\* acceptor::incoming_packet()), however closing, reading and accepting interleave
\* with the packets in flight.
THEOREM PacketsAreExpected ==
    ASSUME MayCancel = FALSE, MayReuseUnread = FALSE
    PROVE  Spec => []PacketsExpected
<1>1. RoutesInv /\ TrafficInv => PacketsExpected
  BY DEF TrafficInv
<1>2. QED
  BY TrafficInvariance, <1>1, PTL

\* What a socket can read was sent on the connection it has now ("reset socket
\* state", tcp_socket.cpp:233).
THEOREM SocketsReadTheirStream ==
    ASSUME MayCancel = FALSE, MayReuseUnread = FALSE
    PROVE  Spec => []ReadsOwnStream
<1>1. RoutesInv /\ TrafficInv => ReadsOwnStream
  BY DEF TrafficInv
<1>2. QED
  BY TrafficInvariance, <1>1, PTL

\* A socket whose connect completed (the SYN+ACK came, tcp_socket.cpp:875-884) is
\* connected to a socket that was accepted, or that is gone, and never to the acceptor.
THEOREM ConnectedSocketsAreAccepted ==
    ASSUME MayCancel = FALSE, MayReuseUnread = FALSE
    PROVE  Spec => []ConnectedIsAccepted
<1>1. RoutesInv /\ TrafficInv => ConnectedIsAccepted
  BY DEF TrafficInv, ConnectFits, ConnectedIsAccepted, Established
<1>2. QED
  BY TrafficInvariance, <1>1, PTL

=============================================================================
