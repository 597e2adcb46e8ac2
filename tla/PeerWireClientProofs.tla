------------------------ MODULE PeerWireClientProofs ------------------------
(***************************************************************************)
(* Theorems about PeerWireClient, for every set of blocks, every length of *)
(* a block and its header, and every bound.                                *)
(***************************************************************************)
EXTENDS PeerWireClient, SequenceTheorems, TLAPS

\* What the peer has been told at the end of the buffer is what the flag says, and no
\* block waits for a choked peer.
Believed == ToldChoked(outgoingBuffer, peerChoked, Len(outgoingBuffer) + 1) <=> choking

NothingForChoked == choking => pendingBlocks = <<>>

StreamInv == Believed /\ NothingForChoked /\ BlocksOnlyToUnchoked

IInv == TypeOK /\ QueueBounded /\ StreamInv

-----------------------------------------------------------------------------
(* Streams.                                                                *)

\* Messages added to a stream tell nothing to who has not read so far.
LEMMA ToldOfPrefix ==
  ASSUME NEW s \in Seq(Messages), NEW m \in Messages, NEW c \in BOOLEAN,
         NEW i \in 1 .. Len(s) + 1
  PROVE  ToldChoked(Append(s, m), c, i) <=> ToldChoked(s, c, i)
<1>1. \A j \in 1 .. i - 1 : Append(s, m)[j] = s[j]
  OBVIOUS
<1> QED
  BY <1>1 DEF ToldChoked

\* The last message of a stream decides, if it is about choking.
LEMMA ToldByLast ==
  ASSUME NEW s \in Seq(Messages), NEW m \in Messages, NEW c \in BOOLEAN
  PROVE  LET told == ToldChoked(Append(s, m), c, Len(Append(s, m)) + 1) IN
           /\ m = "choke" => told
           /\ m = "unchoke" => ~told
           /\ m \notin {"choke", "unchoke"} => (told <=> ToldChoked(s, c, Len(s) + 1))
<1> DEFINE t == Append(s, m)
           n == Len(s) + 1
<1>1. Len(t) = n /\ n \in Nat /\ n >= 1 /\ t[n] = m /\ \A j \in 1 .. n - 1 : t[j] = s[j]
  OBVIOUS
<1>2. ToldChoked(t, c, Len(t) + 1) <=>
        \/ c /\ \A j \in 1 .. n : t[j] # "unchoke"
        \/ \E j \in 1 .. n : t[j] = "choke" /\ \A k \in j + 1 .. n : t[k] # "unchoke"
  BY <1>1 DEF ToldChoked
<1>3. ToldChoked(s, c, n) <=>
        \/ c /\ \A j \in 1 .. n - 1 : t[j] # "unchoke"
        \/ \E j \in 1 .. n - 1 : t[j] = "choke" /\ \A k \in j + 1 .. n - 1 : t[k] # "unchoke"
  BY <1>1 DEF ToldChoked
<1> HIDE DEF t
<1>4. m = "choke" => ToldChoked(t, c, Len(t) + 1)
  BY <1>1, <1>2
<1>5. m = "unchoke" => ~ToldChoked(t, c, Len(t) + 1)
  BY <1>1, <1>2
<1>6. m \notin {"choke", "unchoke"} => (ToldChoked(t, c, Len(t) + 1) <=> ToldChoked(s, c, n))
  BY <1>1, <1>2, <1>3
<1> QED
  BY <1>4, <1>5, <1>6 DEF t

\* Reading the first message of a stream is the same as having been told it.
LEMMA ToldByFirst ==
  ASSUME NEW s \in Seq(Messages), s # <<>>, NEW c \in BOOLEAN, NEW i \in 1 .. Len(s)
  PROVE  ToldChoked(Tail(s), IF Head(s) \in {"choke", "unchoke"} THEN Head(s) = "choke" ELSE c, i)
           <=> ToldChoked(s, c, i + 1)
<1> DEFINE d == IF s[1] \in {"choke", "unchoke"} THEN s[1] = "choke" ELSE c
           t == Tail(s)
<1>1. Head(s) = s[1] /\ Len(t) = Len(s) - 1 /\ \A j \in 1 .. i - 1 : t[j] = s[j + 1]
  OBVIOUS
<1>2. ToldChoked(t, d, i) <=>
        \/ d /\ \A j \in 1 .. i - 1 : s[j + 1] # "unchoke"
        \/ \E j \in 1 .. i - 1 : s[j + 1] = "choke" /\ \A k \in j + 1 .. i - 1 : s[k + 1] # "unchoke"
  BY <1>1 DEF ToldChoked
<1>3. ToldChoked(s, c, i + 1) <=>
        \/ c /\ \A j \in 1 .. i : s[j] # "unchoke"
        \/ \E j \in 1 .. i : s[j] = "choke" /\ \A k \in j + 1 .. i : s[k] # "unchoke"
  BY DEF ToldChoked
<1> HIDE DEF t
<1>4. ASSUME ToldChoked(t, d, i) PROVE ToldChoked(s, c, i + 1)
  <2>1. CASE d /\ \A j \in 1 .. i - 1 : s[j + 1] # "unchoke"
    <3>1. \A j \in 2 .. i : s[j] # "unchoke"
      <4> SUFFICES ASSUME NEW j \in 2 .. i PROVE s[j] # "unchoke"
        OBVIOUS
      <4>1. j - 1 \in 1 .. i - 1 /\ (j - 1) + 1 = j
        OBVIOUS
      <4> QED
        BY <2>1, <4>1
    <3> QED
      BY <2>1, <3>1, <1>3
  <2>2. CASE \E j \in 1 .. i - 1 : s[j + 1] = "choke" /\ \A k \in j + 1 .. i - 1 : s[k + 1] # "unchoke"
    <3>1. PICK j \in 1 .. i - 1 : s[j + 1] = "choke" /\ \A k \in j + 1 .. i - 1 : s[k + 1] # "unchoke"
      BY <2>2
    <3>2. \A k \in (j + 1) + 1 .. i : s[k] # "unchoke"
      <4> SUFFICES ASSUME NEW k \in (j + 1) + 1 .. i PROVE s[k] # "unchoke"
        OBVIOUS
      <4>1. k - 1 \in j + 1 .. i - 1 /\ (k - 1) + 1 = k
        OBVIOUS
      <4> QED
        BY <3>1, <4>1
    <3>3. j + 1 \in 1 .. i
      OBVIOUS
    <3> QED
      BY <3>1, <3>2, <3>3, <1>3
  <2> QED
    BY <1>4, <1>2, <2>1, <2>2
<1>5. ASSUME ToldChoked(s, c, i + 1) PROVE ToldChoked(t, d, i)
  <2>1. CASE c /\ \A j \in 1 .. i : s[j] # "unchoke"
    <3>1. 1 \in 1 .. i
      OBVIOUS
    <3>2. d
      BY <2>1, <3>1
    <3>3. \A j \in 1 .. i - 1 : s[j + 1] # "unchoke"
      BY <2>1
    <3> QED
      BY <3>2, <3>3, <1>2
  <2>2. CASE \E j \in 1 .. i : s[j] = "choke" /\ \A k \in j + 1 .. i : s[k] # "unchoke"
    <3>1. PICK j \in 1 .. i : s[j] = "choke" /\ \A k \in j + 1 .. i : s[k] # "unchoke"
      BY <2>2
    <3>2. CASE j = 1
      BY <3>1, <3>2, <1>2
    <3>3. CASE j # 1
      <4>1. j - 1 \in 1 .. i - 1 /\ (j - 1) + 1 = j
        BY <3>3
      <4>2. \A k \in (j - 1) + 1 .. i - 1 : s[k + 1] # "unchoke"
        BY <3>1
      <4> QED
        BY <3>1, <4>1, <4>2, <1>2
    <3> QED
      BY <3>2, <3>3
  <2> QED
    BY <1>5, <1>3, <2>1, <2>2
<1> QED
  BY <1>1, <1>4, <1>5 DEF t

\* No block of the stream s arrives at a peer that has been told it is choked.
Good(s, c) == \A i \in 1 .. Len(s) : s[i] \in Blocks => ~ToldChoked(s, c, i)

\* A message may follow: any but a block, and a block where the peer is not choked.
LEMMA GoodAppend ==
  ASSUME NEW s \in Seq(Messages), NEW m \in Messages, NEW c \in BOOLEAN, Good(s, c),
         m \in Blocks => ~ToldChoked(s, c, Len(s) + 1)
  PROVE  Good(Append(s, m), c)
<1> SUFFICES ASSUME NEW i \in 1 .. Len(s) + 1, Append(s, m)[i] \in Blocks
             PROVE  ~ToldChoked(Append(s, m), c, i)
  BY DEF Good
<1>1. ToldChoked(Append(s, m), c, i) <=> ToldChoked(s, c, i)
  BY ToldOfPrefix
<1>2. CASE i = Len(s) + 1
  BY <1>1, <1>2
<1>3. CASE i \in 1 .. Len(s)
  BY <1>1, <1>3 DEF Good
<1> QED
  BY <1>2, <1>3

\* The first message may be read.
LEMMA GoodTail ==
  ASSUME NEW s \in Seq(Messages), s # <<>>, NEW c \in BOOLEAN, Good(s, c)
  PROVE  LET d == IF Head(s) \in {"choke", "unchoke"} THEN Head(s) = "choke" ELSE c IN
           /\ Good(Tail(s), d)
           /\ ToldChoked(Tail(s), d, Len(Tail(s)) + 1) <=> ToldChoked(s, c, Len(s) + 1)
<1> DEFINE d == IF Head(s) \in {"choke", "unchoke"} THEN Head(s) = "choke" ELSE c
<1>1. \A i \in 1 .. Len(s) : ToldChoked(Tail(s), d, i) <=> ToldChoked(s, c, i + 1)
  BY ToldByFirst
<1>2. /\ Len(Tail(s)) + 1 = Len(s)
      /\ Len(s) \in 1 .. Len(s)
      /\ \A i \in 1 .. Len(Tail(s)) : i \in 1 .. Len(s) /\ i + 1 \in 1 .. Len(s) /\ Tail(s)[i] = s[i + 1]
  OBVIOUS
<1> HIDE DEF d
<1>3. Good(Tail(s), d)
  BY <1>1, <1>2 DEF Good
<1>4. ToldChoked(Tail(s), d, Len(Tail(s)) + 1) <=> ToldChoked(s, c, Len(s) + 1)
  BY <1>1, <1>2
<1> QED
  BY <1>3, <1>4 DEF d

\* Messages that are about other things may follow.
LEMMA Quiet ==
  ASSUME NEW s \in Seq(Messages), NEW m \in {"handshake", "bitfield", "other"},
         NEW c \in BOOLEAN, Good(s, c)
  PROVE  /\ Append(s, m) \in Seq(Messages)
         /\ Good(Append(s, m), c)
         /\ ToldChoked(Append(s, m), c, Len(Append(s, m)) + 1) <=> ToldChoked(s, c, Len(s) + 1)
<1>1. m \in Messages /\ m \notin Blocks /\ m \notin {"choke", "unchoke"}
  BY BlocksAssumption DEF Messages
<1> QED
  BY <1>1, GoodAppend, ToldByLast

\* So may choke and unchoke.
LEMMA Loud ==
  ASSUME NEW s \in Seq(Messages), NEW m \in {"choke", "unchoke"}, NEW c \in BOOLEAN, Good(s, c)
  PROVE  /\ Append(s, m) \in Seq(Messages)
         /\ Good(Append(s, m), c)
         /\ ToldChoked(Append(s, m), c, Len(Append(s, m)) + 1) <=> m = "choke"
<1>1. m \in Messages /\ m \notin Blocks
  BY BlocksAssumption DEF Messages
<1> QED
  BY <1>1, GoodAppend, ToldByLast

-----------------------------------------------------------------------------
(* The byte count of the queue.                                            *)

\* n blocks of length k: one more, one less.
LEMMA Product ==
  ASSUME NEW n \in Nat, NEW k \in Nat
  PROVE  /\ n * k \in Nat
         /\ (n + 1) * k = n * k + k
         /\ n >= 1 => (n - 1) * k = n * k - k
  OBVIOUS

\* A queue without its i-th element.
LEMMA Removed ==
  ASSUME NEW S, NEW s \in Seq(S), NEW i \in 1 .. Len(s)
  PROVE  /\ SubSeq(s, 1, i - 1) \o SubSeq(s, i + 1, Len(s)) \in Seq(S)
         /\ Len(SubSeq(s, 1, i - 1) \o SubSeq(s, i + 1, Len(s))) = Len(s) - 1
<1> DEFINE before == SubSeq(s, 1, i - 1)
           after == SubSeq(s, i + 1, Len(s))
<1>1. before \in Seq(S) /\ Len(before) = i - 1
  BY SubSeqProperties
<1>2. after \in Seq(S) /\ Len(after) = Len(s) - i
  BY SubSeqProperties
<1> HIDE DEF before, after
<1>3. before \o after \in Seq(S) /\ Len(before \o after) = Len(s) - 1
  BY <1>1, <1>2, ConcatProperties
<1> QED
  BY <1>3 DEF before, after

-----------------------------------------------------------------------------
(* What a step does to the stream.                                         *)

\* A step that leaves the stream alone.
LEMMA StreamKept ==
  ASSUME StreamInv, UNCHANGED <<outgoingBuffer, peerChoked, choking>>, NothingForChoked'
  PROVE  StreamInv'
  BY DEF StreamInv, Believed, BlocksOnlyToUnchoked, ToldChoked

\* writeData keeps the types.
LEMMA WriteType ==
  ASSUME TypeOK, NEW ms \in Seq(Messages), Write(ms)
  PROVE  outgoingBuffer' \in Seq(Messages) /\ firstMessage' \in Messages \cup {"none"}
<1>1. outgoingBuffer \in Seq(Messages) /\ firstMessage \in Messages \cup {"none"}
  BY DEF TypeOK
<1>2. outgoingBuffer' \in Seq(Messages)
  BY <1>1 DEF Write
<1>3. ms # <<>> => Head(ms) \in Messages
  OBVIOUS
<1> QED
  BY <1>1, <1>2, <1>3 DEF Write

\* A step that writes one message, not about choking.
LEMMA StreamQuiet ==
  ASSUME TypeOK, StreamInv, NEW m \in {"handshake", "bitfield", "other"}, Write(<<m>>),
         UNCHANGED <<peerChoked, choking>>, NothingForChoked'
  PROVE  StreamInv'
<1>1. outgoingBuffer \in Seq(Messages) /\ peerChoked \in BOOLEAN /\ m \in Messages
  BY DEF TypeOK, Messages
<1>2. outgoingBuffer' = Append(outgoingBuffer, m)
  BY <1>1 DEF Write
<1>3. Good(outgoingBuffer, peerChoked)
  BY DEF StreamInv, BlocksOnlyToUnchoked, Good
<1>4. /\ Good(outgoingBuffer', peerChoked')
      /\ ToldChoked(outgoingBuffer', peerChoked', Len(outgoingBuffer') + 1)
           <=> ToldChoked(outgoingBuffer, peerChoked, Len(outgoingBuffer) + 1)
  BY <1>1, <1>2, <1>3, Quiet
<1> QED
  BY <1>4 DEF StreamInv, Believed, BlocksOnlyToUnchoked, Good

\* A step that opens the connection.
LEMMA StreamOpening ==
  ASSUME TypeOK, StreamInv, NEW hasPieces \in BOOLEAN, Write(Opening(hasPieces)),
         UNCHANGED <<peerChoked, choking>>, NothingForChoked'
  PROVE  StreamInv' /\ Opening(hasPieces) \in Seq(Messages)
<1>1. outgoingBuffer \in Seq(Messages) /\ peerChoked \in BOOLEAN
  BY DEF TypeOK
<1>2. {"handshake", "bitfield", "other"} \subseteq Messages
  BY DEF Messages
<1>3. Good(outgoingBuffer, peerChoked)
  BY DEF StreamInv, BlocksOnlyToUnchoked, Good
<1> DEFINE h == IF sentHandShake THEN outgoingBuffer ELSE Append(outgoingBuffer, "handshake")
           b == IF hasPieces THEN Append(h, "bitfield") ELSE h
           Same(s) == /\ s \in Seq(Messages)
                      /\ Good(s, peerChoked)
                      /\ ToldChoked(s, peerChoked, Len(s) + 1)
                           <=> ToldChoked(outgoingBuffer, peerChoked, Len(outgoingBuffer) + 1)
<1>4. Same(h)
  BY <1>1, <1>3, Quiet
<1>5. Same(b)
  <2>1. h \in Seq(Messages) /\ Good(h, peerChoked)
    BY <1>4
  <2>2. Same(Append(h, "bitfield"))
    <3> HIDE DEF h
    <3> QED
      BY <1>1, <1>4, <2>1, Quiet
  <2> QED
    BY <1>4, <2>2
<1>6. outgoingBuffer' = b
  BY <1>1 DEF Write, Opening
<1>7. StreamInv'
  <2> HIDE DEF b
  <2> QED
    BY <1>5, <1>6 DEF StreamInv, Believed, BlocksOnlyToUnchoked, Good
<1>8. Opening(hasPieces) \in Seq(Messages)
  BY <1>2 DEF Opening
<1> QED
  BY <1>7, <1>8

\* A step that writes choke or unchoke.
LEMMA StreamLoud ==
  ASSUME TypeOK, StreamInv, NEW m \in {"choke", "unchoke"}, Write(<<m>>),
         choking' <=> m = "choke", UNCHANGED peerChoked, NothingForChoked'
  PROVE  StreamInv'
<1>1. outgoingBuffer \in Seq(Messages) /\ peerChoked \in BOOLEAN /\ m \in Messages
  BY DEF TypeOK, Messages
<1>2. outgoingBuffer' = Append(outgoingBuffer, m)
  BY <1>1 DEF Write
<1>3. Good(outgoingBuffer, peerChoked)
  BY DEF StreamInv, BlocksOnlyToUnchoked, Good
<1>4. /\ Good(outgoingBuffer', peerChoked')
      /\ ToldChoked(outgoingBuffer', peerChoked', Len(outgoingBuffer') + 1) <=> m = "choke"
  BY <1>1, <1>2, <1>3, Loud
<1> QED
  BY <1>4 DEF StreamInv, Believed, BlocksOnlyToUnchoked, Good

\* A step that drops the queue and says so.
LEMMA StreamReset ==
  ASSUME TypeOK, StreamInv, Write(<<"choke", "unchoke">>),
         ~choking', UNCHANGED peerChoked, NothingForChoked'
  PROVE  StreamInv'
<1>1. outgoingBuffer \in Seq(Messages) /\ peerChoked \in BOOLEAN
  BY DEF TypeOK
<1> DEFINE s == Append(outgoingBuffer, "choke")
<1>2. outgoingBuffer' = Append(s, "unchoke")
  BY <1>1 DEF Write
<1>3. Good(outgoingBuffer, peerChoked)
  BY DEF StreamInv, BlocksOnlyToUnchoked, Good
<1>4. s \in Seq(Messages) /\ Good(s, peerChoked)
  BY <1>1, <1>3, Loud
<1>5. /\ Good(outgoingBuffer', peerChoked')
      /\ ~ToldChoked(outgoingBuffer', peerChoked', Len(outgoingBuffer') + 1)
  <2> HIDE DEF s
  <2> QED
    BY <1>1, <1>2, <1>4, Loud
<1> QED
  BY <1>5 DEF StreamInv, Believed, BlocksOnlyToUnchoked, Good

\* A block moves into the empty buffer of a peer that is not choked.
LEMMA StreamBlock ==
  ASSUME TypeOK, StreamInv, TakeBlock
  PROVE  StreamInv'
<1>1. /\ pendingBlocks \in Seq(Blocks) /\ pendingBlocks # <<>> /\ outgoingBuffer = <<>>
      /\ peerChoked \in BOOLEAN /\ choking \in BOOLEAN
  BY DEF TypeOK, TakeBlock
<1>2. ~choking /\ ~choking' /\ peerChoked' = peerChoked
  BY <1>1 DEF StreamInv, NothingForChoked, TakeBlock, flagVars, requestVars, peerVars
<1>3. ~peerChoked
  BY <1>1, <1>2 DEF StreamInv, Believed, ToldChoked
<1>4. Head(pendingBlocks) \in Blocks
  BY <1>1
<1>5. outgoingBuffer' = <<Head(pendingBlocks)>>
  BY DEF TakeBlock
<1>6. Len(outgoingBuffer') = 1 /\ outgoingBuffer'[1] = Head(pendingBlocks)
  BY <1>5
<1>7. Head(pendingBlocks) # "choke"
  BY <1>4, BlocksAssumption
<1>8. \A i \in {1, 2} : ~ToldChoked(outgoingBuffer', peerChoked', i)
  BY <1>2, <1>3, <1>6, <1>7 DEF ToldChoked
<1> QED
  BY <1>2, <1>6, <1>8 DEF StreamInv, Believed, NothingForChoked, BlocksOnlyToUnchoked

\* The first message arrives.
LEMMA StreamSent ==
  ASSUME TypeOK, StreamInv, SendMessage
  PROVE  StreamInv'
<1>1. /\ outgoingBuffer \in Seq(Messages) /\ outgoingBuffer # <<>> /\ peerChoked \in BOOLEAN
      /\ outgoingBuffer' = Tail(outgoingBuffer)
      /\ peerChoked' = IF Head(outgoingBuffer) \in {"choke", "unchoke"}
                         THEN Head(outgoingBuffer) = "choke" ELSE peerChoked
      /\ UNCHANGED <<choking, pendingBlocks>>
  BY DEF TypeOK, SendMessage, flagVars, queueVars
<1>2. Good(outgoingBuffer, peerChoked)
  BY DEF StreamInv, BlocksOnlyToUnchoked, Good
<1>3. /\ Good(outgoingBuffer', peerChoked')
      /\ ToldChoked(outgoingBuffer', peerChoked', Len(outgoingBuffer') + 1)
           <=> ToldChoked(outgoingBuffer, peerChoked, Len(outgoingBuffer) + 1)
  BY <1>1, <1>2, GoodTail
<1>4. NothingForChoked'
  BY <1>1 DEF StreamInv, NothingForChoked
<1> QED
  BY <1>1, <1>3, <1>4 DEF StreamInv, Believed, BlocksOnlyToUnchoked, Good

-----------------------------------------------------------------------------
(* The three parts of the invariant, one step at a time.                   *)

\* A step that leaves the queue and the stream alone and keeps the other types.
LEMMA Plain ==
  ASSUME IInv, TypeOK', UNCHANGED <<pendingBlocks, pendingBlockSizes, outgoingBuffer, peerChoked, choking>>
  PROVE  IInv'
<1>1. QueueBounded'
  BY DEF IInv, QueueBounded
<1>2. StreamInv'
  BY StreamKept DEF IInv, StreamInv, NothingForChoked
<1> QED
  BY <1>1, <1>2 DEF IInv

\* An aborted connection.
LEMMA AbortType ==
  ASSUME Abort
  PROVE  sock' \in {"connecting", "connected", "closed"} /\ reads' \in Seq(Blocks)
  BY DEF Abort

\* The connection comes up.
LEMMA HandshakeInv == IInv /\ Handshake => IInv'
<1> SUFFICES ASSUME IInv, Handshake PROVE IInv'
  OBVIOUS
<1> USE DEF handshakeVars, flagVars, queueVars, streamVars, requestVars, peerVars
<1>1. CASE SetupOutgoingConnection
  <2>1. PICK hasPieces \in BOOLEAN : Write(Opening(hasPieces))
    BY <1>1 DEF SetupOutgoingConnection
  <2>2. NothingForChoked'
    BY <1>1 DEF IInv, StreamInv, NothingForChoked, SetupOutgoingConnection
  <2>3. StreamInv' /\ Opening(hasPieces) \in Seq(Messages)
    BY <1>1, <2>1, <2>2, StreamOpening DEF IInv, SetupOutgoingConnection
  <2>4. TypeOK'
    BY <1>1, <2>1, <2>3, WriteType DEF IInv, TypeOK, SetupOutgoingConnection
  <2>5. QueueBounded'
    BY <1>1 DEF IInv, QueueBounded, SetupOutgoingConnection
  <2> QED
    BY <2>3, <2>4, <2>5 DEF IInv
<1>2. CASE ReceiveInfoHash
  <2>1. CASE UNCHANGED streamVars
    <3>1. TypeOK'
      BY <1>2, <2>1, AbortType DEF IInv, TypeOK, ReceiveInfoHash
    <3> QED
      BY <1>2, <2>1, <3>1, Plain DEF ReceiveInfoHash
  <2>2. CASE ~UNCHANGED streamVars
    <3>1. PICK hasPieces \in BOOLEAN : Write(Opening(hasPieces))
      BY <1>2, <2>2 DEF ReceiveInfoHash
    <3>2. NothingForChoked'
      BY <1>2 DEF IInv, StreamInv, NothingForChoked, ReceiveInfoHash
    <3>3. StreamInv' /\ Opening(hasPieces) \in Seq(Messages)
      BY <1>2, <3>1, <3>2, StreamOpening DEF IInv, ReceiveInfoHash
    <3>4. outgoingBuffer' \in Seq(Messages) /\ firstMessage' \in Messages \cup {"none"}
      BY <3>1, <3>3, WriteType DEF IInv
    <3>5. TypeOK'
      BY <1>2, <3>4, AbortType DEF IInv, TypeOK, ReceiveInfoHash
    <3>6. QueueBounded'
      BY <1>2 DEF IInv, QueueBounded, ReceiveInfoHash
    <3> QED
      BY <3>3, <3>5, <3>6 DEF IInv
  <2> QED
    BY <2>1, <2>2
<1>3. CASE ReceivePeerId
  <2>1. TypeOK'
    BY <1>3, AbortType DEF IInv, TypeOK, ReceivePeerId
  <2> QED
    BY <1>3, <2>1, Plain DEF ReceivePeerId
<1>4. CASE ReceivePart
  <2>1. TypeOK'
    BY <1>4 DEF IInv, TypeOK, ReceivePart
  <2> QED
    BY <1>4, <2>1, Plain DEF ReceivePart
<1> QED
  BY <1>1, <1>2, <1>3, <1>4 DEF Handshake

\* A step that writes one message, not about choking, and keeps the other types.
LEMMA OneQuiet ==
  ASSUME IInv, Write(<<"other">>), UNCHANGED <<pendingBlocks, pendingBlockSizes, peerChoked, choking>>
  PROVE  /\ QueueBounded' /\ StreamInv'
         /\ outgoingBuffer' \in Seq(Messages) /\ firstMessage' \in Messages \cup {"none"}
<1>1. <<"other">> \in Seq(Messages)
  BY DEF Messages
<1>2. NothingForChoked'
  BY DEF IInv, StreamInv, NothingForChoked
<1>3. StreamInv'
  BY <1>2, StreamQuiet DEF IInv
<1>4. QueueBounded'
  BY DEF IInv, QueueBounded
<1> QED
  BY <1>1, <1>3, <1>4, WriteType DEF IInv

\* A message of the peer.
LEMMA PacketInv == IInv /\ Packet => IInv'
<1> SUFFICES ASSUME IInv, Packet PROVE IInv'
  OBVIOUS
<1> USE DEF handshakeVars, flagVars, queueVars, streamVars, requestVars, peerVars
<1>1. CASE ChokePacket
  <2>1. TypeOK'
    BY <1>1 DEF IInv, TypeOK, ChokePacket, Receive
  <2> QED
    BY <1>1, <2>1, Plain DEF ChokePacket
<1>2. CASE UnchokePacket
  <2>1. TypeOK'
    BY <1>2 DEF IInv, TypeOK, UnchokePacket, Receive
  <2> QED
    BY <1>2, <2>1, Plain DEF UnchokePacket
<1>3. CASE PiecesAvailable
  <2>3. /\ sock' \in {"connecting", "connected", "closed"} /\ reads' \in Seq(Blocks)
        /\ interestedInPeer' \in BOOLEAN /\ pendingRequestTimer' \in BOOLEAN
        /\ incoming' \in SUBSET Blocks
    BY <1>3, AbortType DEF IInv, TypeOK, PiecesAvailable
  <2>1. CASE Write(<<"other">>)
    <3>1. /\ QueueBounded' /\ StreamInv'
          /\ outgoingBuffer' \in Seq(Messages) /\ firstMessage' \in Messages \cup {"none"}
      BY <1>3, <2>1, OneQuiet DEF PiecesAvailable
    <3>2. TypeOK'
      BY <1>3, <2>3, <3>1 DEF IInv, TypeOK, PiecesAvailable, Receive
    <3> QED
      BY <3>1, <3>2 DEF IInv
  <2>2. CASE UNCHANGED streamVars
    <3>1. TypeOK'
      BY <1>3, <2>3, <2>2 DEF IInv, TypeOK, PiecesAvailable, Receive
    <3> QED
      BY <1>3, <2>2, <3>1, Plain DEF PiecesAvailable
  <2> QED
    BY <1>3, <2>1, <2>2 DEF PiecesAvailable
<1>4. ASSUME NEW isInterested \in BOOLEAN, InterestedPacket(isInterested) PROVE IInv'
  <2>1. TypeOK'
    BY <1>4 DEF IInv, TypeOK, InterestedPacket, Receive
  <2> QED
    BY <1>4, <2>1, Plain DEF InterestedPacket
<1>5. ASSUME NEW b \in Blocks, RequestPacket(b) PROVE IInv'
  <2>1. reads' \in Seq(Blocks)
    <3>1. reads \in Seq(Blocks) /\ Append(reads, b) \in Seq(Blocks)
      BY DEF IInv, TypeOK
    <3> QED
      BY <1>5, <3>1 DEF RequestPacket
  <2>2. TypeOK'
    BY <1>5, <2>1 DEF IInv, TypeOK, RequestPacket, Receive
  <2> QED
    BY <1>5, <2>2, Plain DEF RequestPacket
<1>6. ASSUME NEW b \in Blocks, PiecePacket(b) PROVE IInv'
  <2>1. /\ incoming' \in SUBSET Blocks
        /\ sock' \in {"connecting", "connected", "closed"} /\ reads' \in Seq(Blocks)
    BY <1>6, AbortType DEF IInv, TypeOK, PiecePacket
  <2>2. CASE Write(<<"other">>)
    <3>1. /\ QueueBounded' /\ StreamInv'
          /\ outgoingBuffer' \in Seq(Messages) /\ firstMessage' \in Messages \cup {"none"}
      BY <1>6, <2>2, OneQuiet DEF PiecePacket
    <3>2. TypeOK'
      BY <1>6, <2>1, <3>1 DEF IInv, TypeOK, PiecePacket, Receive
    <3> QED
      BY <3>1, <3>2 DEF IInv
  <2>3. CASE UNCHANGED streamVars
    <3>1. TypeOK'
      BY <1>6, <2>1, <2>3 DEF IInv, TypeOK, PiecePacket, Receive
    <3> QED
      BY <1>6, <2>3, <3>1, Plain DEF PiecePacket
  <2> QED
    BY <1>6, <2>2, <2>3 DEF PiecePacket
<1>7. ASSUME NEW b \in Blocks, CancelPacket(b) PROVE IInv'
  <2>1. pendingBlocks \in Seq(Blocks)
    BY DEF IInv, TypeOK
  <2>2. /\ pendingBlocks' \in Seq(Blocks)
        /\ Len(pendingBlocks') <= Len(pendingBlocks)
        /\ pendingBlocks = <<>> => pendingBlocks' = <<>>
    <3>1. CASE UNCHANGED pendingBlocks
      BY <2>1, <3>1
    <3>2. CASE ~UNCHANGED pendingBlocks
      <4>1. PICK i \in 1 .. Len(pendingBlocks) :
              pendingBlocks' = SubSeq(pendingBlocks, 1, i - 1)
                                 \o SubSeq(pendingBlocks, i + 1, Len(pendingBlocks))
        BY <1>7, <3>2 DEF CancelPacket
      <4>2. /\ pendingBlocks' \in Seq(Blocks)
            /\ Len(pendingBlocks') = Len(pendingBlocks) - 1
        <5> DEFINE r == SubSeq(pendingBlocks, 1, i - 1)
                          \o SubSeq(pendingBlocks, i + 1, Len(pendingBlocks))
        <5>1. r \in Seq(Blocks) /\ Len(r) = Len(pendingBlocks) - 1
          BY <2>1, Removed
        <5> QED
          BY <4>1, <5>1
      <4>3. Len(pendingBlocks) \in Nat /\ pendingBlocks # <<>>
        BY <2>1
      <4> QED
        BY <4>2, <4>3
    <3> QED
      BY <3>1, <3>2
  <2>3. TypeOK'
    BY <1>7, <2>2 DEF IInv, TypeOK, CancelPacket, Receive
  <2>4. StreamInv'
    <3>1. NothingForChoked'
      BY <1>7, <2>2 DEF IInv, StreamInv, NothingForChoked, CancelPacket
    <3> QED
      BY <1>7, <3>1, StreamKept DEF IInv, CancelPacket
  <2>5. QueueBounded'
    <3> DEFINE n == Len(pendingBlocks)
               m == Len(pendingBlocks')
               k == HeaderLength + BlockLength
    <3>1. n \in Nat /\ m \in Nat /\ m <= n /\ k \in Nat
      BY <2>1, <2>2, SizeAssumption
    <3>2. m * k <= n * k
      <4> HIDE DEF n, m, k
      <4> QED
        BY <3>1
    <3>3. m * k \in Nat /\ n * k \in Nat
      <4> HIDE DEF n, m, k
      <4> QED
        BY <3>1, Product
    <3>4. n * k <= pendingBlockSizes /\ pendingBlockSizes <= MaxPendingSize
      BY DEF IInv, QueueBounded
    <3>5. pendingBlockSizes' = pendingBlockSizes /\ pendingBlockSizes \in Nat
      BY <1>7 DEF CancelPacket, IInv, TypeOK
    <3>6. m * k <= pendingBlockSizes' /\ pendingBlockSizes' <= MaxPendingSize
      <4> HIDE DEF n, m, k
      <4> QED
        BY <3>2, <3>3, <3>4, <3>5
    <3> QED
      BY <3>6 DEF QueueBounded
  <2> QED
    BY <2>3, <2>4, <2>5 DEF IInv
<1> QED
  BY <1>1, <1>2, <1>3, <1>4, <1>5, <1>6, <1>7 DEF Packet

\* A step of the torrent client.
LEMMA ClientInv == IInv /\ Client => IInv'
<1> SUFFICES ASSUME IInv, Client PROVE IInv'
  OBVIOUS
<1> USE DEF handshakeVars, flagVars, queueVars, streamVars, requestVars, peerVars
<1>1. CASE Notify
  <2>1. /\ QueueBounded' /\ StreamInv'
        /\ outgoingBuffer' \in Seq(Messages) /\ firstMessage' \in Messages \cup {"none"}
    BY <1>1, OneQuiet DEF Notify
  <2>2. TypeOK'
    BY <1>1, <2>1 DEF IInv, TypeOK, Notify
  <2> QED
    BY <2>1, <2>2 DEF IInv
<1>2. CASE UnchokePeer
  <2>1. <<"unchoke">> \in Seq(Messages)
    BY DEF Messages
  <2>2. TypeOK'
    BY <1>2, <2>1, WriteType DEF IInv, TypeOK, UnchokePeer
  <2>3. StreamInv'
    <3>1. NothingForChoked' /\ Write(<<"unchoke">>) /\ ~choking' /\ UNCHANGED peerChoked
      BY <1>2 DEF NothingForChoked, UnchokePeer
    <3> QED
      BY <3>1, StreamLoud DEF IInv
  <2>4. QueueBounded'
    BY <1>2 DEF IInv, QueueBounded, UnchokePeer
  <2> QED
    BY <2>2, <2>3, <2>4 DEF IInv
<1>3. CASE ChokePeer
  <2>1. CASE Abort /\ UNCHANGED <<choking, streamVars, queueVars>>
    <3>1. TypeOK'
      BY <1>3, <2>1, AbortType DEF IInv, TypeOK, ChokePeer
    <3> QED
      BY <1>3, <2>1, <3>1, Plain DEF ChokePeer
  <2>2. CASE choking' /\ Write(<<"choke">>) /\ ClearPending /\ UNCHANGED <<sock, reads>>
    <3>1. <<"choke">> \in Seq(Messages)
      BY DEF Messages
    <3>2. choking' \in BOOLEAN
      BY <1>3 DEF ChokePeer, IInv, TypeOK
    <3>3. TypeOK'
      <4>1. outgoingBuffer' \in Seq(Messages) /\ firstMessage' \in Messages \cup {"none"}
        BY <2>2, <3>1, <3>2, WriteType DEF IInv
      <4>2. pendingBlocks' \in Seq(Blocks) /\ pendingBlockSizes' \in Nat
        BY <2>2 DEF ClearPending
      <4> QED
        BY <1>3, <2>2, <3>1, <3>2, <4>1, <4>2 DEF IInv, TypeOK, ChokePeer
    <3>4. StreamInv'
      <4>1. NothingForChoked' /\ Write(<<"choke">>) /\ choking' /\ UNCHANGED peerChoked
        BY <1>3, <2>2 DEF NothingForChoked, ChokePeer, ClearPending
      <4> QED
        BY <4>1, StreamLoud DEF IInv
    <3>5. QueueBounded'
      BY <2>2, SizeAssumption DEF QueueBounded, ClearPending
    <3> QED
      BY <3>3, <3>4, <3>5 DEF IInv
  <2> QED
    BY <1>3, <2>1, <2>2 DEF ChokePeer
<1>4. CASE SendToPeer
  <2> DEFINE size == pendingBlockSizes + HeaderLength + BlockLength
  <2>1. /\ reads \in Seq(Blocks) /\ reads # <<>> /\ pendingBlocks \in Seq(Blocks)
        /\ pendingBlockSizes \in Nat /\ choking \in BOOLEAN /\ UNCHANGED <<choking, peerChoked>>
    BY <1>4 DEF IInv, TypeOK, SendToPeer
  <2>2. reads' \in Seq(Blocks) /\ Head(reads) \in Blocks
    BY <1>4, <2>1 DEF SendToPeer
  <2>3. CASE ~ServesPeer
    <3>1. TypeOK'
      BY <1>4, <2>2, <2>3 DEF IInv, TypeOK, SendToPeer
    <3> QED
      BY <1>4, <2>3, <3>1, Plain DEF SendToPeer
  <2>4. CASE ServesPeer /\ ~Overflows(size)
    <3>1. /\ pendingBlocks' = Append(pendingBlocks, Head(reads))
          /\ pendingBlockSizes' = size
          /\ UNCHANGED <<streamVars, pendingRequestTimer>>
      BY <1>4, <2>4 DEF SendToPeer
    <3>2. pendingBlocks' \in Seq(Blocks) /\ Len(pendingBlocks') = Len(pendingBlocks) + 1
      BY <2>1, <2>2, <3>1
    <3>3. size \in Nat /\ size <= MaxPendingSize
      BY <2>1, <2>4, SizeAssumption DEF Overflows
    <3>4. TypeOK'
      BY <1>4, <2>2, <3>1, <3>2, <3>3 DEF IInv, TypeOK, SendToPeer
    <3>5. StreamInv'
      <4>1. NothingForChoked'
        BY <2>1, <2>4 DEF ServesPeer, NothingForChoked
      <4> QED
        BY <2>1, <3>1, <4>1, StreamKept DEF IInv
    <3>6. QueueBounded'
      <4> DEFINE n == Len(pendingBlocks)
                 k == HeaderLength + BlockLength
      <4>1. n \in Nat /\ k \in Nat /\ size = pendingBlockSizes + k
        BY <2>1, SizeAssumption
      <4>2. n * k \in Nat /\ (n + 1) * k = n * k + k
        <5> HIDE DEF n, k
        <5> QED
          BY <4>1, Product
      <4>3. n * k <= pendingBlockSizes
        BY DEF IInv, QueueBounded
      <4>4. (n + 1) * k <= size
        <5> HIDE DEF n, k, size
        <5> QED
          BY <2>1, <4>1, <4>2, <4>3
      <4> QED
        BY <3>1, <3>2, <3>3, <4>4 DEF QueueBounded
    <3> QED
      BY <3>4, <3>5, <3>6 DEF IInv
  <2>5. CASE ServesPeer /\ Overflows(size)
    <3>1. Write(<<"choke", "unchoke">>) /\ ClearPending /\ pendingRequestTimer' = FALSE
      BY <1>4, <2>5 DEF SendToPeer
    <3>2. <<"choke", "unchoke">> \in Seq(Messages)
      BY DEF Messages
    <3>3. TypeOK'
      <4>1. outgoingBuffer' \in Seq(Messages) /\ firstMessage' \in Messages \cup {"none"}
        BY <3>1, <3>2, WriteType DEF IInv
      <4>2. pendingBlocks' \in Seq(Blocks) /\ pendingBlockSizes' \in Nat
        BY <3>1 DEF ClearPending
      <4> QED
        BY <1>4, <2>2, <3>1, <4>1, <4>2 DEF IInv, TypeOK, SendToPeer
    <3>4. StreamInv'
      <4>1. NothingForChoked' /\ ~choking'
        BY <2>1, <2>5 DEF ServesPeer, NothingForChoked
      <4> QED
        BY <2>1, <3>1, <4>1, StreamReset DEF IInv
    <3>5. QueueBounded'
      BY <3>1, SizeAssumption DEF QueueBounded, ClearPending
    <3> QED
      BY <3>3, <3>4, <3>5 DEF IInv
  <2> QED
    BY <2>3, <2>4, <2>5
<1>5. ASSUME NEW b \in Blocks, RequestBlock(b) PROVE IInv'
  <2>1. /\ QueueBounded' /\ StreamInv'
        /\ outgoingBuffer' \in Seq(Messages) /\ firstMessage' \in Messages \cup {"none"}
    BY <1>5, OneQuiet DEF RequestBlock
  <2>2. TypeOK'
    BY <1>5, <2>1 DEF IInv, TypeOK, RequestBlock, Up
  <2> QED
    BY <2>1, <2>2 DEF IInv
<1>6. ASSUME NEW b \in Blocks, CancelRequest(b) PROVE IInv'
  <2>1. /\ QueueBounded' /\ StreamInv'
        /\ outgoingBuffer' \in Seq(Messages) /\ firstMessage' \in Messages \cup {"none"}
    BY <1>6, OneQuiet DEF CancelRequest
  <2>2. TypeOK'
    BY <1>6, <2>1 DEF IInv, TypeOK, CancelRequest, Up
  <2> QED
    BY <2>1, <2>2 DEF IInv
<1> QED
  BY <1>1, <1>2, <1>3, <1>4, <1>5, <1>6 DEF Client

\* A step that sends.
LEMMA TransferInv == IInv /\ Transfer => IInv'
<1> SUFFICES ASSUME IInv, Transfer PROVE IInv'
  OBVIOUS
<1> USE DEF handshakeVars, flagVars, queueVars, streamVars, requestVars, peerVars
<1>1. CASE TakeBlock
  <2> DEFINE n == Len(pendingBlocks)
             k == HeaderLength + BlockLength
  <2>1. /\ pendingBlocks \in Seq(Blocks) /\ pendingBlocks # <<>> /\ pendingBlockSizes \in Nat
        /\ pendingBlocks' = Tail(pendingBlocks)
        /\ pendingBlockSizes' = pendingBlockSizes - BlockLength
    BY <1>1 DEF IInv, TypeOK, TakeBlock
  <2>2. /\ Head(pendingBlocks) \in Blocks
        /\ pendingBlocks' \in Seq(Blocks) /\ Len(pendingBlocks') = n - 1
        /\ n \in Nat /\ n >= 1 /\ k \in Nat
    BY <2>1, SizeAssumption
  <2>3. n * k \in Nat /\ (n - 1) * k \in Nat /\ (n - 1) * k = n * k - k
    <3>1. n - 1 \in Nat
      BY <2>2
    <3> HIDE DEF n, k
    <3> QED
      BY <2>2, <3>1, Product
  <2>4. n * k <= pendingBlockSizes /\ pendingBlockSizes <= MaxPendingSize
    BY DEF IInv, QueueBounded
  <2>5. /\ pendingBlockSizes' \in Nat
        /\ (n - 1) * k <= pendingBlockSizes' /\ pendingBlockSizes' <= MaxPendingSize
    <3>1. k = HeaderLength + BlockLength
      OBVIOUS
    <3> HIDE DEF n, k
    <3> QED
      BY <2>1, <2>3, <2>4, <3>1, SizeAssumption
  <2>6. QueueBounded'
    BY <2>2, <2>5 DEF QueueBounded
  <2>7. outgoingBuffer' \in Seq(Messages) /\ firstMessage' \in Messages \cup {"none"}
    BY <1>1, <2>2 DEF IInv, TypeOK, TakeBlock, Messages
  <2>8. TypeOK'
    BY <1>1, <2>2, <2>5, <2>7 DEF IInv, TypeOK, TakeBlock
  <2>9. StreamInv'
    BY <1>1, StreamBlock DEF IInv
  <2> QED
    BY <2>6, <2>8, <2>9 DEF IInv
<1>2. CASE SendMessage
  <2>1. outgoingBuffer' \in Seq(Messages)
    BY <1>2 DEF IInv, TypeOK, SendMessage
  <2>2. peerChoked' \in BOOLEAN
    BY <1>2 DEF IInv, TypeOK, SendMessage
  <2>3. TypeOK'
    BY <1>2, <2>1, <2>2 DEF IInv, TypeOK, SendMessage
  <2>4. StreamInv'
    BY <1>2, StreamSent DEF IInv
  <2>5. QueueBounded'
    BY <1>2 DEF IInv, QueueBounded, SendMessage
  <2> QED
    BY <2>3, <2>4, <2>5 DEF IInv
<1> QED
  BY <1>1, <1>2 DEF Transfer

\* A timer, or the end.
LEMMA EndInv == IInv /\ End => IInv'
<1> SUFFICES ASSUME IInv, End PROVE IInv'
  OBVIOUS
<1> USE DEF handshakeVars, flagVars, queueVars, streamVars, requestVars, peerVars
<1>1. TypeOK'
  <2>1. CASE TimeoutExpires
    <3>1. /\ sock' \in {"connecting", "connected", "closed"} /\ reads' \in Seq(Blocks)
          /\ invalidateTimeout' \in BOOLEAN
      BY <2>1, AbortType DEF IInv, TypeOK, TimeoutExpires, RestartTimeout
    <3> QED
      BY <2>1, <3>1 DEF IInv, TypeOK, TimeoutExpires
  <2>2. CASE RequestExpires
    BY <2>2, AbortType DEF IInv, TypeOK, RequestExpires
  <2>3. CASE Disconnect
    BY <2>3, AbortType DEF IInv, TypeOK, Disconnect
  <2>4. CASE FallSilent
    BY <2>4 DEF IInv, TypeOK, FallSilent
  <2> QED
    BY <2>1, <2>2, <2>3, <2>4 DEF End
<1>2. UNCHANGED <<pendingBlocks, pendingBlockSizes, outgoingBuffer, peerChoked, choking>>
  BY DEF End, TimeoutExpires, RequestExpires, Disconnect, FallSilent
<1> QED
  BY <1>1, <1>2, Plain

-----------------------------------------------------------------------------
(* The theorems.                                                           *)

LEMMA InitInv == Init => IInv
<1> SUFFICES ASSUME Init PROVE IInv
  OBVIOUS
<1>1. TypeOK
  <2>1. pendingBlocks \in Seq(Blocks) /\ outgoingBuffer \in Seq(Messages) /\ reads \in Seq(Blocks)
    BY DEF Init
  <2>2. incoming \in SUBSET Blocks /\ firstMessage \in Messages \cup {"none"}
    BY DEF Init
  <2> QED
    BY <2>1, <2>2 DEF Init, TypeOK
<1>2. QueueBounded
  BY SizeAssumption DEF Init, QueueBounded
<1>3. StreamInv
  BY DEF Init, StreamInv, Believed, NothingForChoked, BlocksOnlyToUnchoked, ToldChoked
<1> QED
  BY <1>1, <1>2, <1>3 DEF IInv

LEMMA NextInv == IInv /\ [Next]_vars => IInv'
<1> SUFFICES ASSUME IInv, [Next]_vars PROVE IInv'
  OBVIOUS
<1>1. CASE Next
  BY <1>1, HandshakeInv, PacketInv, ClientInv, TransferInv, EndInv DEF Next
<1>2. CASE UNCHANGED vars
  <2> USE DEF vars, handshakeVars, flagVars, queueVars, streamVars, requestVars, peerVars
  <2>1. TypeOK'
    BY <1>2 DEF IInv, TypeOK
  <2> QED
    BY <1>2, <2>1, Plain
<1> QED
  BY <1>1, <1>2

\* The inductive invariant.
THEOREM Inductive == Spec => []IInv
  BY InitInv, NextInv, PTL DEF Spec

\* Every variable keeps its type: the byte count of the queue, which is lowered by less
\* than it is raised, never becomes negative.
THEOREM TypeCorrect == Spec => []TypeOK
<1>1. IInv => TypeOK
  BY DEF IInv
<1> QED
  BY Inductive, <1>1, PTL

\* The queue of blocks to send, as counted and as it is, stays within its limit.
THEOREM QueueStaysBounded == Spec => []QueueBounded
<1>1. IInv => QueueBounded
  BY DEF IInv
<1> QED
  BY Inductive, <1>1, PTL

\* No block arrives at a peer that has been told it is choked.
THEOREM ChokedPeersGetNothing == Spec => []BlocksOnlyToUnchoked
<1>1. IInv => BlocksOnlyToUnchoked
  BY DEF IInv, StreamInv
<1> QED
  BY Inductive, <1>1, PTL
=============================================================================
