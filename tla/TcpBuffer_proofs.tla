--------------------------- MODULE TcpBuffer_proofs ---------------------------
(***************************************************************************)
(* Proofs about TcpBuffer and BoardLink, for any sizes of the buffers and  *)
(* of the packets, any lengths, and any splits, exceptions and breaks of   *)
(* the connection.                                                         *)
(*                                                                         *)
(* At each end the bytes under way are consecutive pieces of one stream.   *)
(* At the writing end (WInv) these are what was sent, then the buffer or,  *)
(* during a call, what send_all has left and the bytes of the call; the    *)
(* stream is 1, 2, 3, ...  At the reading end (RInv) they are what was     *)
(* reported, what the call has taken, the buffer and the network; the      *)
(* stream is what was sent.  Both hold of every program at the two ends,   *)
(* so of the board and the avant (LinkOnTcp), whose own invariants are     *)
(* BoardInv, AvantInv, OrderInv and FrameInv.                              *)
(***************************************************************************)
EXTENDS BoardLink, SequenceTheorems, TLAPS

USE TcpAssumption

Byte == 1..MaxBytes

\* s is a piece of 1, 2, 3, ... and of t, behind the first m.
Runs(s, m) == \A i \in 1..Len(s) : s[i] = m + i
Follows(s, t, m) == \A i \in 1..Len(s) : s[i] = t[m + i]

LEMMA Cat ==
  ASSUME NEW s \in Seq(Byte), NEW t \in Seq(Byte)
  PROVE  /\ s \o t \in Seq(Byte)
         /\ Len(s) \in Nat /\ Len(t) \in Nat /\ Len(s \o t) = Len(s) + Len(t)
         /\ \A i \in 1..Len(s) : (s \o t)[i] = s[i]
         /\ \A i \in 1..Len(t) : (s \o t)[Len(s) + i] = t[i]
<1>1. Len(s) \in Nat /\ Len(t) \in Nat
  BY LenProperties
<1>2. /\ s \o t \in Seq(Byte) /\ Len(s \o t) = Len(s) + Len(t)
      /\ \A i \in 1..(Len(s) + Len(t)) : (s \o t)[i] = IF i <= Len(s) THEN s[i] ELSE t[i - Len(s)]
  BY ConcatProperties
<1>3. \A i \in 1..Len(t) : (s \o t)[Len(s) + i] = t[i]
  <2> TAKE i \in 1..Len(t)
  <2>1. Len(s) + i \in 1..(Len(s) + Len(t)) /\ ~(Len(s) + i <= Len(s)) /\ (Len(s) + i) - Len(s) = i
    BY <1>1
  <2> QED
    BY <1>2, <2>1
<1> QED
  BY <1>1, <1>2, <1>3

\* A sequence cut in two.
LEMMA Split ==
  ASSUME NEW s \in Seq(Byte), NEW k \in 0..Len(s)
  PROVE  /\ SubSeq(s, 1, k) \in Seq(Byte) /\ SubSeq(s, k + 1, Len(s)) \in Seq(Byte)
         /\ Len(s) \in Nat /\ Len(SubSeq(s, 1, k)) = k /\ Len(SubSeq(s, k + 1, Len(s))) = Len(s) - k
         /\ \A i \in 1..k : SubSeq(s, 1, k)[i] = s[i]
         /\ \A i \in 1..(Len(s) - k) : SubSeq(s, k + 1, Len(s))[i] = s[k + i]
<1>1. Len(s) \in Nat /\ k \in Nat /\ k <= Len(s) /\ \A i \in 1..Len(s) : s[i] \in Byte
  BY LenProperties
<1>2. /\ SubSeq(s, 1, k) \in Seq(Byte) /\ Len(SubSeq(s, 1, k)) = (IF 1 <= k THEN k - 1 + 1 ELSE 0)
      /\ \A i \in 1..(k - 1 + 1) : SubSeq(s, 1, k)[i] = s[1 + i - 1]
  BY <1>1, SubSeqProperties
<1>3. /\ SubSeq(s, k + 1, Len(s)) \in Seq(Byte)
      /\ Len(SubSeq(s, k + 1, Len(s))) = (IF k + 1 <= Len(s) THEN Len(s) - (k + 1) + 1 ELSE 0)
      /\ \A i \in 1..(Len(s) - (k + 1) + 1) : SubSeq(s, k + 1, Len(s))[i] = s[(k + 1) + i - 1]
  BY <1>1, SubSeqProperties
<1>4. \A i \in 1..k : i \in 1..(k - 1 + 1) /\ 1 + i - 1 = i
  BY <1>1
<1>5. \A i \in 1..(Len(s) - k) : i \in 1..(Len(s) - (k + 1) + 1) /\ (k + 1) + i - 1 = k + i
  BY <1>1
<1> QED
  BY <1>1, <1>2, <1>3, <1>4, <1>5

LEMMA BytesRun ==
  ASSUME NEW m \in Nat, NEW n \in Nat, m + n <= MaxBytes
  PROVE  /\ Bytes(m, m + n) \in Seq(Byte) /\ Len(Bytes(m, m + n)) = n
         /\ \A i \in 1..n : Bytes(m, m + n)[i] = m + i
<1>1. Bytes(m, m + n) = [i \in 1..n |-> m + i]
  BY DEF Bytes
<1>2. \A i \in 1..n : m + i \in Byte
  BY DEF Byte
<1>3. Bytes(m, m + n) \in [1..n -> Byte]
  BY <1>1, <1>2
<1>4. Bytes(m, m + n) \in Seq(Byte)
  BY <1>3, SeqDef
<1>5. Len(Bytes(m, m + n)) = n
  <2>1. DOMAIN Bytes(m, m + n) = 1..n
    BY <1>1
  <2> QED
    BY <1>4, <2>1, LenProperties
<1> QED
  BY <1>1, <1>4, <1>5

\* Pieces that are consecutive stay so when they are joined and when they are cut.
LEMMA RunsCat ==
  ASSUME NEW s \in Seq(Byte), NEW t \in Seq(Byte), NEW m \in Nat,
         Runs(s, m), Runs(t, m + Len(s))
  PROVE  Runs(s \o t, m)
<1>1. /\ Len(s) \in Nat /\ Len(t) \in Nat /\ Len(s \o t) = Len(s) + Len(t)
      /\ \A i \in 1..Len(s) : (s \o t)[i] = s[i]
      /\ \A i \in 1..Len(t) : (s \o t)[Len(s) + i] = t[i]
  BY Cat
<1> SUFFICES ASSUME NEW i \in 1..(Len(s) + Len(t)) PROVE (s \o t)[i] = m + i
  BY <1>1 DEF Runs
<1>2. CASE i \in 1..Len(s)
  BY <1>1, <1>2 DEF Runs
<1>3. CASE i \notin 1..Len(s)
  <2>1. i - Len(s) \in 1..Len(t) /\ Len(s) + (i - Len(s)) = i
    BY <1>1, <1>3
  <2>2. (s \o t)[i] = t[i - Len(s)] /\ t[i - Len(s)] = (m + Len(s)) + (i - Len(s))
    BY <1>1, <2>1 DEF Runs
  <2> QED
    BY <1>1, <2>2
<1> QED
  BY <1>2, <1>3

LEMMA RunsSplit ==
  ASSUME NEW s \in Seq(Byte), NEW k \in 0..Len(s), NEW m \in Nat, Runs(s, m)
  PROVE  Runs(SubSeq(s, 1, k), m) /\ Runs(SubSeq(s, k + 1, Len(s)), m + k)
<1>1. /\ Len(s) \in Nat /\ Len(SubSeq(s, 1, k)) = k /\ Len(SubSeq(s, k + 1, Len(s))) = Len(s) - k
      /\ \A i \in 1..k : SubSeq(s, 1, k)[i] = s[i]
      /\ \A i \in 1..(Len(s) - k) : SubSeq(s, k + 1, Len(s))[i] = s[k + i]
  BY Split
<1>2. \A i \in 1..k : i \in 1..Len(s)
  BY <1>1
<1>3. \A i \in 1..(Len(s) - k) : k + i \in 1..Len(s) /\ m + (k + i) = (m + k) + i
  BY <1>1
<1> QED
  BY <1>1, <1>2, <1>3 DEF Runs

LEMMA FollowsCat ==
  ASSUME NEW s \in Seq(Byte), NEW t \in Seq(Byte), NEW u, NEW m \in Nat,
         Follows(s, u, m), Follows(t, u, m + Len(s))
  PROVE  Follows(s \o t, u, m)
<1>1. /\ Len(s) \in Nat /\ Len(t) \in Nat /\ Len(s \o t) = Len(s) + Len(t)
      /\ \A i \in 1..Len(s) : (s \o t)[i] = s[i]
      /\ \A i \in 1..Len(t) : (s \o t)[Len(s) + i] = t[i]
  BY Cat
<1> SUFFICES ASSUME NEW i \in 1..(Len(s) + Len(t)) PROVE (s \o t)[i] = u[m + i]
  BY <1>1 DEF Follows
<1>2. CASE i \in 1..Len(s)
  BY <1>1, <1>2 DEF Follows
<1>3. CASE i \notin 1..Len(s)
  <2>1. i - Len(s) \in 1..Len(t) /\ Len(s) + (i - Len(s)) = i /\ (m + Len(s)) + (i - Len(s)) = m + i
    BY <1>1, <1>3
  <2>2. (s \o t)[i] = t[i - Len(s)] /\ t[i - Len(s)] = u[(m + Len(s)) + (i - Len(s))]
    BY <1>1, <2>1 DEF Follows
  <2> QED
    BY <2>1, <2>2
<1> QED
  BY <1>2, <1>3

LEMMA FollowsSplit ==
  ASSUME NEW s \in Seq(Byte), NEW k \in 0..Len(s), NEW u, NEW m \in Nat, Follows(s, u, m)
  PROVE  Follows(SubSeq(s, 1, k), u, m) /\ Follows(SubSeq(s, k + 1, Len(s)), u, m + k)
<1>1. /\ Len(s) \in Nat /\ Len(SubSeq(s, 1, k)) = k /\ Len(SubSeq(s, k + 1, Len(s))) = Len(s) - k
      /\ \A i \in 1..k : SubSeq(s, 1, k)[i] = s[i]
      /\ \A i \in 1..(Len(s) - k) : SubSeq(s, k + 1, Len(s))[i] = s[k + i]
  BY Split
<1>2. \A i \in 1..k : i \in 1..Len(s)
  BY <1>1
<1>3. \A i \in 1..(Len(s) - k) : k + i \in 1..Len(s) /\ m + (k + i) = (m + k) + i
  BY <1>1
<1> QED
  BY <1>1, <1>2, <1>3 DEF Follows
-----------------------------------------------------------------------------
\* What a call under way has for an argument.
CallArg ==
  /\ wop = "put" => Len(arg) = 1
  /\ wop \in {"flush", "close"} => arg = <<>>

TInv == TypeOK /\ CallArg

WInv ==
  bad = FALSE /\ sthrew = FALSE =>
    /\ Runs(sent, 0) /\ Len(sent) <= offered
    /\ link = "up" /\ wop = "none" =>
         Runs(sbuf, Len(sent)) /\ Len(sent) + Len(sbuf) = offered
    /\ link = "up" /\ wop # "none" =>
         /\ Runs(left, Len(sent)) /\ Runs(arg, Len(sent) + Len(left))
         /\ Len(sent) + Len(left) + Len(arg) = offered

RInv ==
  /\ rop = "none" => taken = <<>>
  /\ rop = "all" => rbuf = <<>>
  /\ rthrew = FALSE =>
       /\ Follows(reported, sent, 0)
       /\ Follows(taken, sent, Len(reported))
       /\ Follows(rbuf, sent, Len(reported) + Len(taken))
       /\ Follows(net, sent, Len(reported) + Len(taken) + Len(rbuf))
       /\ Len(reported) + Len(taken) + Len(rbuf) + Len(net) <= Len(sent)
       /\ link # "cut" => Len(reported) + Len(taken) + Len(rbuf) + Len(net) = Len(sent)

LEMMA Facts ==
  ASSUME TypeOK
  PROVE  /\ sbuf \in Seq(Byte) /\ left \in Seq(Byte) /\ arg \in Seq(Byte)
         /\ sent \in Seq(Byte) /\ net \in Seq(Byte)
         /\ rbuf \in Seq(Byte) /\ taken \in Seq(Byte) /\ reported \in Seq(Byte)
         /\ Len(sbuf) \in Nat /\ Len(left) \in Nat /\ Len(arg) \in Nat
         /\ Len(sent) \in Nat /\ Len(net) \in Nat
         /\ Len(rbuf) \in Nat /\ Len(taken) \in Nat /\ Len(reported) \in Nat
         /\ offered \in Nat /\ offered <= MaxBytes
<1>1. /\ sbuf \in Seq(Byte) /\ left \in Seq(Byte) /\ arg \in Seq(Byte)
      /\ sent \in Seq(Byte) /\ net \in Seq(Byte)
      /\ rbuf \in Seq(Byte) /\ taken \in Seq(Byte) /\ reported \in Seq(Byte)
  BY DEF TypeOK, Byte
<1>2. \A s \in Seq(Byte) : Len(s) \in Nat
  BY LenProperties
<1> QED
  BY <1>1, <1>2 DEF TypeOK

LEMMA ByteSeq == Seq(1..MaxBytes) = Seq(Byte)
BY DEF Byte

LEMMA NoByte == /\ <<>> \in Seq(Byte) /\ Len(<<>>) = 0
                /\ \A m : Runs(<<>>, m) /\ \A u : Follows(<<>>, u, m)
BY EmptySeq DEF Runs, Follows

\* The reading end does not notice what the writer does in its buffer.
LEMMA ReaderSame ==
  ASSUME RInv, UNCHANGED <<sent, net, rvars, rthrew>>, link = "cut" => link' = "cut"
  PROVE  RInv'
BY DEF RInv, Follows, rvars

LEMMA WriterSame ==
  ASSUME WInv, CallArg, UNCHANGED <<wvars, sent, link, sthrew>>
  PROVE  WInv' /\ CallArg'
<1>1. CallArg'
  BY DEF CallArg, wvars
<1>2. WInv'
  BY DEF WInv, Runs, wvars
<1> QED
  BY <1>1, <1>2
-----------------------------------------------------------------------------
LEMMA PutByteKeeps ==
  ASSUME TInv, WInv, PutByte PROVE TInv' /\ WInv'
<1>0. TypeOK /\ CallArg
  BY DEF TInv
<1>1. /\ offered' = offered + 1 /\ offered + 1 \in Byte /\ Len(sbuf) < SbufMax
      /\ wop = "none" /\ link # "shut"
      /\ sbuf' = sbuf \/ (sbuf' = Append(sbuf, offered + 1))
      /\ bad = FALSE => sbuf' = Append(sbuf, offered + 1)
      /\ UNCHANGED <<wop, left, arg, bad, cvars, rvars, sthrew, rthrew>>
  BY <1>0, Facts DEF PutByte, Byte
<1>2. /\ Append(sbuf, offered + 1) \in Seq(Byte)
      /\ Len(Append(sbuf, offered + 1)) = Len(sbuf) + 1
      /\ \A i \in 1..Len(sbuf) : Append(sbuf, offered + 1)[i] = sbuf[i]
      /\ Append(sbuf, offered + 1)[Len(sbuf) + 1] = offered + 1
  BY <1>0, <1>1, Facts, AppendProperties
<1>3. TypeOK'
  <2>1. sbuf' \in Seq(1..MaxBytes) /\ Len(sbuf') <= SbufMax
    <3>1. CASE sbuf' = sbuf
      BY <1>0, <3>1 DEF TypeOK
    <3>2. CASE sbuf' = Append(sbuf, offered + 1)
      <4>1. Len(sbuf) \in Nat
        BY <1>0, Facts
      <4>2. Len(sbuf') = Len(sbuf) + 1 /\ Len(sbuf) < SbufMax /\ SbufMax \in Nat
        BY <1>1, <1>2, <3>2
      <4>3. sbuf' \in Seq(Byte)
        BY <1>2, <3>2
      <4> QED
        BY <4>1, <4>2, <4>3, ByteSeq
    <3> QED
      BY <1>1, <3>1, <3>2
  <2>2. offered' \in 0..MaxBytes
    BY <1>1 DEF Byte
  <2> QED
    BY <1>0, <1>1, <2>1, <2>2 DEF TypeOK, cvars, rvars
<1>4. CallArg'
  BY <1>0, <1>1 DEF CallArg
<1>5. WInv'
  <2> SUFFICES ASSUME bad = FALSE, sthrew = FALSE
               PROVE  /\ Runs(sent, 0) /\ Len(sent) <= offered + 1
                      /\ link = "up" =>
                           Runs(sbuf', Len(sent)) /\ Len(sent) + Len(sbuf') = offered + 1
    BY <1>1 DEF WInv, Runs, cvars
  <2>1. Runs(sent, 0) /\ Len(sent) <= offered
    BY DEF WInv
  <2>2. ASSUME link = "up"
        PROVE  Runs(sbuf', Len(sent)) /\ Len(sent) + Len(sbuf') = offered + 1
    <3>1. Runs(sbuf, Len(sent)) /\ Len(sent) + Len(sbuf) = offered
      BY <1>1, <2>2 DEF WInv
    <3>2. sbuf' = Append(sbuf, offered + 1)
      BY <1>1
    <3>3. \A i \in 1..(Len(sbuf) + 1) : i \in 1..Len(sbuf) \/ i = Len(sbuf) + 1
      BY <1>0, Facts
    <3>4. Len(sent) + (Len(sbuf) + 1) = offered + 1
      BY <1>0, <3>1, Facts
    <3> QED
      BY <1>2, <3>1, <3>2, <3>3, <3>4 DEF Runs
  <2> QED
    BY <1>0, <2>1, <2>2, Facts
<1> QED
  BY <1>3, <1>4, <1>5 DEF TInv

LEMMA BeginKeeps ==
  ASSUME TInv, WInv, NEW op \in {"put", "write", "flush", "close"}, NEW n \in Nat, Begin(op, n),
         op = "put" => n = 1, op \in {"flush", "close"} => n = 0
  PROVE  TInv' /\ WInv'
<1>0. TypeOK /\ CallArg
  BY DEF TInv
<1>1. /\ wop = "none" /\ offered + n <= MaxBytes
      /\ wop' = op /\ left' = sbuf /\ arg' = Bytes(offered, offered + n) /\ offered' = offered + n
      /\ UNCHANGED <<sbuf, bad, cvars, rvars, sthrew, rthrew>>
  BY DEF Begin
<1>2. /\ arg' \in Seq(Byte) /\ Len(arg') = n /\ \A i \in 1..n : arg'[i] = offered + i
      /\ n = 0 => arg' = <<>>
  <2>1. offered \in Nat
    BY <1>0, Facts
  <2>2. arg' \in Seq(Byte) /\ Len(arg') = n /\ \A i \in 1..n : arg'[i] = offered + i
    BY <1>1, <2>1, BytesRun
  <2> QED
    BY <2>2, EmptySeq
<1>3. TypeOK'
  <2>1. offered' \in 0..MaxBytes
    BY <1>0, <1>1, Facts
  <2>2. wop' \in {"none", "put", "write", "flush", "close"} /\ wop' # "none"
    BY <1>1
  <2>3. left' \in Seq(1..MaxBytes) /\ arg' \in Seq(1..MaxBytes)
    BY <1>0, <1>1, <1>2, ByteSeq DEF TypeOK
  <2> QED
    BY <1>0, <1>1, <2>1, <2>2, <2>3 DEF TypeOK, cvars, rvars
<1>4. CallArg'
  BY <1>1, <1>2 DEF CallArg
<1>5. WInv'
  <2> SUFFICES ASSUME bad = FALSE, sthrew = FALSE
               PROVE  /\ Runs(sent, 0) /\ Len(sent) <= offered + n
                      /\ link = "up" =>
                           /\ Runs(left', Len(sent)) /\ Runs(arg', Len(sent) + Len(left'))
                           /\ Len(sent) + Len(left') + Len(arg') = offered + n
    BY <1>1 DEF WInv, Runs, cvars
  <2>1. Runs(sent, 0) /\ Len(sent) <= offered
    BY DEF WInv
  <2>2. ASSUME link = "up"
        PROVE  /\ Runs(left', Len(sent)) /\ Runs(arg', Len(sent) + Len(left'))
               /\ Len(sent) + Len(left') + Len(arg') = offered + n
    <3>1. Runs(sbuf, Len(sent)) /\ Len(sent) + Len(sbuf) = offered
      BY <1>1, <2>2 DEF WInv
    <3> QED
      BY <1>1, <1>2, <3>1 DEF Runs
  <2> QED
    BY <1>0, <2>1, <2>2, Facts
<1> QED
  BY <1>3, <1>4, <1>5 DEF TInv
-----------------------------------------------------------------------------
LEMMA FollowsLonger ==
  ASSUME NEW s \in Seq(Byte), NEW t \in Seq(Byte), NEW x \in Seq(Byte), NEW m \in Nat,
         m + Len(s) <= Len(t), Follows(s, t, m)
  PROVE  Follows(s, t \o x, m)
<1>1. Len(s) \in Nat /\ Len(t) \in Nat /\ \A i \in 1..Len(t) : (t \o x)[i] = t[i]
  BY Cat
<1>2. \A i \in 1..Len(s) : m + i \in 1..Len(t)
  BY <1>1
<1> QED
  BY <1>1, <1>2 DEF Follows

LEMMA SendSomeKeeps ==
  ASSUME TInv, WInv, RInv, SendSome PROVE TInv' /\ WInv' /\ RInv'
<1>0. TypeOK /\ CallArg
  BY DEF TInv
<1>a. /\ left \in Seq(Byte) /\ sent \in Seq(Byte) /\ net \in Seq(Byte)
      /\ Len(left) \in Nat /\ Len(sent) \in Nat /\ Len(net) \in Nat
  BY <1>0, Facts
<1>1. PICK k \in DOMAIN left :
        /\ sent' = sent \o SubSeq(left, 1, k) /\ net' = net \o SubSeq(left, 1, k)
        /\ left' = SubSeq(left, k + 1, Len(left))
  BY DEF SendSome
<1>2. /\ left # <<>> /\ link = "up"
      /\ UNCHANGED <<offered, sbuf, wop, arg, bad, link, rvars, sthrew, rthrew>>
  BY DEF SendSome
<1>3. k \in 1..Len(left) /\ k \in 0..Len(left)
  BY <1>a, LenProperties
<1> DEFINE x == SubSeq(left, 1, k)
           y == SubSeq(left, k + 1, Len(left))
<1>4. x \in Seq(Byte) /\ y \in Seq(Byte) /\ Len(x) = k /\ Len(y) = Len(left) - k
  BY <1>a, <1>3, Split
<1>5. sent' = sent \o x /\ net' = net \o x /\ left' = y
  BY <1>1
<1>5a. \A m \in Nat : Runs(left, m) => Runs(x, m) /\ Runs(y, m + k)
  BY <1>a, <1>3, RunsSplit
<1> HIDE DEF x, y
<1>6. /\ sent \o x \in Seq(Byte) /\ Len(sent \o x) = Len(sent) + k
      /\ net \o x \in Seq(Byte) /\ Len(net \o x) = Len(net) + k
  BY <1>a, <1>4, Cat
<1>7. TypeOK'
  <2>1. left' \in Seq(1..MaxBytes) /\ sent' \in Seq(1..MaxBytes) /\ net' \in Seq(1..MaxBytes)
    BY <1>4, <1>5, <1>6, ByteSeq
  <2>2. wop # "none"
    BY <1>0, <1>2 DEF TypeOK
  <2> QED
    BY <1>0, <1>2, <2>1, <2>2 DEF TypeOK, rvars
<1>8. CallArg'
  BY <1>0, <1>2 DEF CallArg
<1>9. WInv'
  <2> SUFFICES ASSUME bad = FALSE, sthrew = FALSE
               PROVE  /\ Runs(sent', 0) /\ Len(sent') <= offered
                      /\ Runs(left', Len(sent')) /\ Runs(arg, Len(sent') + Len(left'))
                      /\ Len(sent') + Len(left') + Len(arg) = offered
    <3>1. wop' # "none"
      BY <1>0, <1>2 DEF TypeOK
    <3> QED
      BY <1>2, <3>1 DEF WInv, Runs
  <2>1. /\ Runs(sent, 0) /\ Runs(left, Len(sent)) /\ Runs(arg, Len(sent) + Len(left))
        /\ Len(sent) + Len(left) + Len(arg) = offered
    BY <1>0, <1>2 DEF WInv, TypeOK
  <2>2. Runs(x, Len(sent)) /\ Runs(y, Len(sent) + k)
    BY <1>a, <1>5a, <2>1
  <2>3. Runs(sent', 0)
    <3>1. 0 + Len(sent) = Len(sent) /\ 0 \in Nat
      BY <1>a
    <3> QED
      BY <1>a, <1>4, <1>5, <2>1, <2>2, <3>1, RunsCat
  <2>4. Len(sent') = Len(sent) + k /\ Len(left') = Len(left) - k /\ k \in Nat /\ k <= Len(left)
    BY <1>3, <1>4, <1>5, <1>6
  <2>5. Len(sent') + Len(left') = Len(sent) + Len(left)
    BY <1>a, <2>4
  <2>6. Runs(arg, Len(sent') + Len(left')) /\ Len(sent') + Len(left') + Len(arg) = offered
    BY <2>1, <2>5
  <2>7. Len(sent') <= offered
    <3>1. Len(arg) \in Nat /\ offered \in Nat
      BY <1>0, Facts
    <3>2. Len(sent) + Len(left) + Len(arg) = offered
      BY <2>1
    <3>3. Len(sent) + Len(left) <= offered
      BY <1>a, <3>1, <3>2
    <3> QED
      BY <1>a, <2>4, <3>1, <3>3
  <2> QED
    BY <1>5, <2>2, <2>3, <2>4, <2>6, <2>7
<1>10. RInv'
  <2>1. rop = "none" => taken = <<>>
    BY DEF RInv
  <2>2. rop = "all" => rbuf = <<>>
    BY DEF RInv
  <2>3. ASSUME rthrew = FALSE
        PROVE  /\ Follows(reported, sent', 0)
               /\ Follows(taken, sent', Len(reported))
               /\ Follows(rbuf, sent', Len(reported) + Len(taken))
               /\ Follows(net', sent', Len(reported) + Len(taken) + Len(rbuf))
               /\ Len(reported) + Len(taken) + Len(rbuf) + Len(net') = Len(sent')
    <3> DEFINE m == Len(reported) + Len(taken) + Len(rbuf)
    <3>0. /\ reported \in Seq(Byte) /\ taken \in Seq(Byte) /\ rbuf \in Seq(Byte)
          /\ Len(reported) \in Nat /\ Len(taken) \in Nat /\ Len(rbuf) \in Nat
      BY <1>0, Facts
    <3>1. /\ Follows(reported, sent, 0) /\ Follows(taken, sent, Len(reported))
          /\ Follows(rbuf, sent, Len(reported) + Len(taken)) /\ Follows(net, sent, m)
          /\ m + Len(net) = Len(sent)
      BY <1>2, <2>3 DEF RInv
    <3>2. /\ Follows(reported, sent', 0) /\ Follows(taken, sent', Len(reported))
          /\ Follows(rbuf, sent', Len(reported) + Len(taken))
      <4>1. /\ 0 + Len(reported) <= Len(sent) /\ Len(reported) + Len(taken) <= Len(sent)
            /\ (Len(reported) + Len(taken)) + Len(rbuf) <= Len(sent) /\ 0 \in Nat
            /\ Len(reported) + Len(taken) \in Nat
        BY <1>a, <3>0, <3>1
      <4> QED
        BY <1>a, <1>4, <1>5, <3>0, <3>1, <4>1, FollowsLonger
    <3>3. Follows(net', sent', m)
      <4>1. m \in Nat /\ m + Len(net) <= Len(sent)
        BY <1>a, <3>0, <3>1
      <4> HIDE DEF m
      <4>2. Follows(net, sent', m)
        BY <1>a, <1>4, <1>5, <3>1, <4>1, FollowsLonger
      <4>3. Follows(x, sent', m + Len(net))
        <5>1. \A i \in 1..Len(x) : (sent \o x)[Len(sent) + i] = x[i]
          BY <1>a, <1>4, Cat
        <5> QED
          BY <1>5, <3>1, <5>1 DEF Follows
      <4> QED
        BY <1>a, <1>4, <1>5, <4>1, <4>2, <4>3, FollowsCat
    <3>4. m + Len(net') = Len(sent')
      <4>1. Len(net') = Len(net) + k /\ Len(sent') = Len(sent) + k /\ k \in Nat
        BY <1>a, <1>3, <1>5, <1>6
      <4>2. m + Len(net) = Len(sent) /\ m \in Nat
        BY <3>0, <3>1
      <4>3. Len(net) \in Nat /\ Len(sent) \in Nat
        BY <1>a
      <4> HIDE DEF m
      <4>4. m + (Len(net) + k) = (m + Len(net)) + k
        BY <4>1, <4>2, <4>3
      <4> QED
        BY <4>1, <4>2, <4>4
    <3> QED
      BY <3>2, <3>3, <3>4
  <2>4. Len(sent') \in Nat
    BY <1>a, <1>3, <1>5, <1>6
  <2>5. ASSUME rthrew = FALSE
        PROVE  Len(reported) + Len(taken) + Len(rbuf) + Len(net') <= Len(sent')
    <3>1. Len(reported) + Len(taken) + Len(rbuf) + Len(net') = Len(sent')
      BY <2>3, <2>5
    <3> QED
      BY <2>4, <3>1
  <2> QED
    BY <1>2, <2>1, <2>2, <2>3, <2>5 DEF RInv, Follows, rvars
<1> QED
  BY <1>7, <1>8, <1>9, <1>10 DEF TInv

LEMMA SendNothingKeeps ==
  ASSUME TInv, WInv, SendNothing PROVE TInv' /\ WInv'
<1>0. TypeOK /\ CallArg
  BY DEF TInv
<1>1. /\ bad' = TRUE /\ left' = <<>>
      /\ UNCHANGED <<offered, sbuf, wop, arg, cvars, rvars, sthrew, rthrew>>
  BY DEF SendNothing
<1>2. left' \in Seq(1..MaxBytes)
  BY <1>1, NoByte, ByteSeq
<1>3. TypeOK'
  BY <1>0, <1>1, <1>2 DEF TypeOK, cvars, rvars
<1>4. CallArg'
  BY <1>0, <1>1 DEF CallArg
<1>5. WInv'
  BY <1>1 DEF WInv
<1> QED
  BY <1>3, <1>4, <1>5 DEF TInv

LEMMA SendThrowsKeeps ==
  ASSUME TInv, WInv, SendThrows PROVE TInv' /\ WInv'
<1>0. TypeOK /\ CallArg
  BY DEF TInv
<1>1. /\ wop' = "none" /\ left' = <<>> /\ arg' = <<>>
      /\ UNCHANGED <<offered, sbuf, bad, cvars, rvars, rthrew>>
  BY DEF SendThrows
<1>2. left' \in Seq(1..MaxBytes) /\ arg' \in Seq(1..MaxBytes)
  BY <1>1, NoByte, ByteSeq
<1>3. CallArg'
  BY <1>1 DEF CallArg
<1>4. CASE link = "up"
  <2>1. sthrew' = TRUE
    BY <1>4 DEF SendThrows
  <2>2. TypeOK'
    BY <1>0, <1>1, <1>2, <2>1 DEF TypeOK, cvars, rvars
  <2>3. WInv'
    BY <2>1 DEF WInv
  <2> QED
    BY <1>3, <2>2, <2>3 DEF TInv
<1>5. CASE link # "up"
  <2>1. sthrew \in BOOLEAN
    BY <1>0 DEF TypeOK
  <2>2. sthrew' = sthrew
    BY <1>5, <2>1 DEF SendThrows
  <2>3. TypeOK'
    BY <1>0, <1>1, <1>2, <2>2 DEF TypeOK, cvars, rvars
  <2>4. WInv'
    BY <1>1, <1>5, <2>2 DEF WInv, Runs, cvars
  <2> QED
    BY <1>3, <2>3, <2>4 DEF TInv
<1> QED
  BY <1>4, <1>5

\* When send_all has come to its end the call's own bytes are next.
LEMMA SendAllDoneKeeps ==
  ASSUME TInv, WInv, SendAllDone PROVE TInv' /\ WInv'
<1>0. TypeOK /\ CallArg
  BY DEF TInv
<1>1. /\ wop # "none" /\ left = <<>> /\ Reset = <<>>
      /\ UNCHANGED <<offered, bad, sent, net, rvars, sthrew, rthrew>>
  BY DEF SendAllDone, Reset
<1>2. /\ arg \in Seq(Byte) /\ sent \in Seq(Byte)
      /\ Len(arg) \in Nat /\ Len(sent) \in Nat /\ offered \in Nat
  BY <1>0, Facts
<1>3. ASSUME bad = FALSE, sthrew = FALSE
      PROVE  /\ Runs(sent, 0) /\ Len(sent) <= offered
             /\ link = "up" => Runs(arg, Len(sent)) /\ Len(sent) + Len(arg) = offered
  <2>1. /\ Runs(sent, 0) /\ Len(sent) <= offered
        /\ link = "up" => /\ Runs(arg, Len(sent) + Len(left))
                          /\ Len(sent) + Len(left) + Len(arg) = offered
    BY <1>1, <1>3 DEF WInv
  <2>2. Len(left) = 0 /\ Len(sent) + 0 = Len(sent)
    BY <1>1, <1>2, NoByte
  <2> QED
    BY <2>1, <2>2
<1>4. CASE wop = "write" /\ arg # <<>>
  <2>1. left' = arg /\ arg' = <<>> /\ sbuf' = <<>> /\ UNCHANGED <<wop, link>>
    BY <1>1, <1>4 DEF SendAllDone
  <2>2. TypeOK'
    <3>1. left' \in Seq(1..MaxBytes) /\ arg' \in Seq(1..MaxBytes)
          /\ sbuf' \in Seq(1..MaxBytes) /\ Len(sbuf') <= SbufMax
      BY <1>2, <2>1, NoByte, ByteSeq
    <3> QED
      BY <1>0, <1>1, <2>1, <3>1 DEF TypeOK, rvars
  <2>3. CallArg'
    BY <1>4, <2>1 DEF CallArg
  <2>4. WInv'
    <3>1. ASSUME bad = FALSE, sthrew = FALSE, link = "up"
          PROVE  /\ Runs(arg, Len(sent)) /\ Runs(arg', Len(sent) + Len(arg))
                 /\ Len(sent) + Len(arg) + Len(arg') = offered
      <4>1. Runs(arg, Len(sent)) /\ Len(sent) + Len(arg) = offered
        BY <1>3, <3>1
      <4>2. Len(arg') = 0 /\ Runs(arg', Len(sent) + Len(arg))
        BY <2>1, NoByte
      <4> QED
        BY <1>2, <4>1, <4>2
    <3> QED
      BY <1>1, <1>3, <1>4, <2>1, <3>1 DEF WInv, Runs
  <2> QED
    BY <2>2, <2>3, <2>4 DEF TInv
<1>5. CASE wop = "put"
  <2>1. /\ sbuf' = (IF bad THEN <<>> ELSE arg) /\ arg' = <<>> /\ wop' = "none"
        /\ UNCHANGED <<left, link>>
    <3>1. sbuf' = (IF bad THEN Reset ELSE Reset \o arg) /\ arg' = <<>> /\ wop' = "none"
          /\ UNCHANGED <<left, link>>
      BY <1>5 DEF SendAllDone
    <3>2. <<>> \o arg = arg
      BY <1>2, ConcatEmptySeq
    <3> QED
      BY <1>1, <3>1, <3>2
  <2>2. TypeOK'
    <3>1. /\ arg' \in Seq(1..MaxBytes)
          /\ sbuf' \in Seq(1..MaxBytes) /\ Len(sbuf') <= SbufMax
      <4>1. Len(arg) = 1 /\ Len(<<>>) = 0 /\ 0 <= SbufMax /\ 1 <= SbufMax
        BY <1>0, <1>5, NoByte DEF CallArg
      <4> QED
        BY <1>2, <2>1, <4>1, NoByte, ByteSeq
    <3> QED
      BY <1>0, <1>1, <2>1, <3>1 DEF TypeOK, rvars
  <2>3. CallArg'
    BY <2>1 DEF CallArg
  <2>4. WInv'
    BY <1>1, <1>3, <2>1 DEF WInv, Runs
  <2> QED
    BY <2>2, <2>3, <2>4 DEF TInv
<1>6. CASE wop \in {"flush", "close"} \/ (wop = "write" /\ arg = <<>>)
  <2>1. /\ sbuf' = <<>> /\ wop' = "none" /\ UNCHANGED <<left, arg>>
        /\ link' = link \/ link' = "shut"
    BY <1>1, <1>6 DEF SendAllDone
  <2>2. arg = <<>>
    BY <1>0, <1>6 DEF CallArg
  <2>3. TypeOK'
    <3>1. sbuf' \in Seq(1..MaxBytes) /\ Len(sbuf') <= SbufMax
      BY <2>1, NoByte, ByteSeq
    <3>2. link' \in {"up", "shut", "cut"}
      BY <1>0, <2>1 DEF TypeOK
    <3> QED
      BY <1>0, <1>1, <2>1, <2>2, <3>1, <3>2 DEF TypeOK, rvars
  <2>4. CallArg'
    BY <2>1 DEF CallArg
  <2>5. WInv'
    <3> SUFFICES ASSUME bad = FALSE, sthrew = FALSE
                 PROVE  /\ Runs(sent, 0) /\ Len(sent) <= offered
                        /\ link' = "up" => /\ Runs(<<>>, Len(sent))
                                           /\ Len(sent) + Len(<<>>) = offered
      BY <1>1, <2>1 DEF WInv, Runs
    <3>1. link' = "up" => link = "up"
      BY <2>1
    <3> QED
      BY <1>2, <1>3, <2>2, <3>1, NoByte
  <2> QED
    BY <2>3, <2>4, <2>5 DEF TInv
<1> QED
  BY <1>0, <1>1, <1>4, <1>5, <1>6 DEF TypeOK

\* A break takes what is on the network, at the end of the reader's stream.
LEMMA CutKeeps ==
  ASSUME TInv, WInv, RInv, Cut PROVE TInv' /\ WInv' /\ RInv'
<1>0. TypeOK /\ CallArg
  BY DEF TInv
<1>1. /\ link' = "cut" /\ net' = <<>>
      /\ UNCHANGED <<wvars, sent, rvars, sthrew, rthrew>>
  BY DEF Cut
<1>2. net' \in Seq(1..MaxBytes)
  BY <1>1, NoByte, ByteSeq
<1>3. TypeOK'
  BY <1>0, <1>1, <1>2 DEF TypeOK, wvars, rvars
<1>4. CallArg'
  BY <1>0, <1>1 DEF CallArg, wvars
<1>5. WInv'
  BY <1>1 DEF WInv, Runs, wvars
<1>6. RInv'
  <2>1. ASSUME rthrew = FALSE
        PROVE  Len(reported) + Len(taken) + Len(rbuf) + Len(net') <= Len(sent)
    <3>1. Len(reported) + Len(taken) + Len(rbuf) + Len(net) <= Len(sent)
      BY <2>1 DEF RInv
    <3>2. Len(net') = 0
      BY <1>1, NoByte
    <3>3. /\ Len(reported) \in Nat /\ Len(taken) \in Nat /\ Len(rbuf) \in Nat
          /\ Len(net) \in Nat /\ Len(sent) \in Nat
      BY <1>0, Facts
    <3> QED
      BY <3>1, <3>2, <3>3
  <2>2. \A m : Follows(net', sent', m)
    BY <1>1, NoByte
  <2> QED
    BY <1>1, <2>1, <2>2 DEF RInv, Follows, rvars
<1> QED
  BY <1>3, <1>4, <1>5, <1>6 DEF TInv
-----------------------------------------------------------------------------
LEMMA MinOfTwo ==
  ASSUME NEW a \in Nat, NEW b \in Nat
  PROVE  Min({a, b}) \in Nat /\ Min({a, b}) <= a /\ Min({a, b}) <= b
<1>1. \E x \in {a, b} : \A y \in {a, b} : x <= y
  <2>1. CASE a <= b
    BY <2>1
  <2>2. CASE ~(a <= b)
    BY <2>2
  <2> QED
    BY <2>1, <2>2
<1>2. Min({a, b}) \in {a, b} /\ \A y \in {a, b} : Min({a, b}) <= y
  BY <1>1 DEF Min
<1> QED
  BY <1>2

\* The first k bytes of the network, and the rest.
LEMMA Receive ==
  ASSUME TypeOK, NEW k \in 0..Len(net)
  PROVE  /\ SubSeq(net, 1, k) \in Seq(Byte) /\ SubSeq(net, k + 1, Len(net)) \in Seq(Byte)
         /\ Len(SubSeq(net, 1, k)) = k /\ Len(SubSeq(net, k + 1, Len(net))) = Len(net) - k
         /\ \A m \in Nat : Follows(net, sent, m) =>
              /\ Follows(SubSeq(net, 1, k), sent, m)
              /\ Follows(SubSeq(net, k + 1, Len(net)), sent, m + k)
<1>1. net \in Seq(Byte)
  BY Facts
<1>2. /\ SubSeq(net, 1, k) \in Seq(Byte) /\ SubSeq(net, k + 1, Len(net)) \in Seq(Byte)
      /\ Len(SubSeq(net, 1, k)) = k /\ Len(SubSeq(net, k + 1, Len(net))) = Len(net) - k
  BY <1>1, Split
<1>3. \A m \in Nat : Follows(net, sent, m) =>
        /\ Follows(SubSeq(net, 1, k), sent, m)
        /\ Follows(SubSeq(net, k + 1, Len(net)), sent, m + k)
  BY <1>1, FollowsSplit
<1> QED
  BY <1>2, <1>3

LEMMA StartKeeps ==
  ASSUME TInv, RInv, NEW op \in {"all", "get", "line"}, NEW n \in Nat, Start(op, n),
         op = "all" => rbuf = <<>>
  PROVE  TInv' /\ RInv'
<1>0. TypeOK /\ CallArg
  BY DEF TInv
<1>1. /\ rop = "none" /\ rop' = op /\ want' = n /\ taken' = <<>>
      /\ UNCHANGED <<wvars, cvars, rbuf, rfull, reported, sthrew, rthrew>>
  BY DEF Start
<1>2. taken = <<>>
  BY <1>1 DEF RInv
<1>3. TypeOK'
  BY <1>0, <1>1, <1>2 DEF TypeOK, wvars, cvars
<1>4. CallArg'
  BY <1>0, <1>1 DEF CallArg, wvars
<1>5. RInv'
  BY <1>1, <1>2 DEF RInv, Follows, cvars
<1> QED
  BY <1>3, <1>4, <1>5 DEF TInv

LEMMA RecvAllKeeps ==
  ASSUME TInv, RInv, RecvAll PROVE TInv' /\ RInv'
<1>0. TypeOK /\ CallArg
  BY DEF TInv
<1>1. PICK k \in 1..Min({want, Len(net)}) :
        /\ taken' = taken \o SubSeq(net, 1, k)
        /\ net' = SubSeq(net, k + 1, Len(net)) /\ want' = want - k
  BY DEF RecvAll
<1>2. /\ rop = "all" /\ UNCHANGED <<wvars, sent, link, rbuf, rfull, rop, reported, sthrew, rthrew>>
  BY DEF RecvAll
<1>3. /\ taken \in Seq(Byte) /\ net \in Seq(Byte) /\ reported \in Seq(Byte) /\ rbuf \in Seq(Byte)
      /\ Len(taken) \in Nat /\ Len(net) \in Nat /\ Len(reported) \in Nat /\ Len(sent) \in Nat
  BY <1>0, Facts
<1>4. k \in Nat /\ k <= want /\ k <= Len(net) /\ k \in 0..Len(net) /\ want \in Nat
  <2>1. want \in Nat
    BY <1>0 DEF TypeOK
  <2>2. /\ Min({want, Len(net)}) \in Nat
        /\ Min({want, Len(net)}) <= want /\ Min({want, Len(net)}) <= Len(net)
    BY <1>3, <2>1, MinOfTwo
  <2>3. \A m, a, b \in Nat : \A i \in 1..m : m <= a /\ m <= b => i \in Nat /\ i <= a /\ i <= b
    OBVIOUS
  <2>4. k \in Nat /\ k <= want /\ k <= Len(net)
    BY <1>3, <2>1, <2>2, <2>3
  <2> QED
    BY <1>3, <2>1, <2>4
<1> DEFINE x == SubSeq(net, 1, k)
           y == SubSeq(net, k + 1, Len(net))
<1>5. /\ x \in Seq(Byte) /\ y \in Seq(Byte) /\ Len(x) = k /\ Len(y) = Len(net) - k
      /\ \A m \in Nat : Follows(net, sent, m) => Follows(x, sent, m) /\ Follows(y, sent, m + k)
  BY <1>0, <1>4, Receive
<1>6. taken' = taken \o x /\ net' = y
  BY <1>1
<1> HIDE DEF x, y
<1>7. taken' \in Seq(Byte) /\ Len(taken') = Len(taken) + k
  BY <1>3, <1>5, <1>6, Cat
<1>8. TypeOK'
  <2>1. taken' \in Seq(1..MaxBytes) /\ net' \in Seq(1..MaxBytes)
    BY <1>5, <1>6, <1>7, ByteSeq
  <2>2. want' \in Nat
    BY <1>1, <1>4
  <2> QED
    BY <1>0, <1>2, <2>1, <2>2 DEF TypeOK, wvars
<1>9. CallArg'
  BY <1>0, <1>2 DEF CallArg, wvars
<1>10. RInv'
  <2>1. rbuf = <<>> /\ Len(rbuf) = 0
    BY <1>2, NoByte DEF RInv
  <2>2. ASSUME rthrew = FALSE
        PROVE  /\ Follows(reported, sent, 0) /\ Follows(taken', sent, Len(reported))
               /\ Follows(net', sent, Len(reported) + Len(taken'))
               /\ Len(reported) + Len(taken') + Len(net') = Len(reported) + Len(taken) + Len(net)
    <3>1. /\ Follows(reported, sent, 0) /\ Follows(taken, sent, Len(reported))
          /\ Follows(net, sent, Len(reported) + Len(taken))
      <4>1. Len(reported) + Len(taken) + Len(rbuf) = Len(reported) + Len(taken)
        BY <1>3, <2>1
      <4> QED
        BY <2>2, <4>1 DEF RInv
    <3>2. /\ Follows(x, sent, Len(reported) + Len(taken))
          /\ Follows(y, sent, (Len(reported) + Len(taken)) + k)
      BY <1>3, <1>5, <3>1
    <3>3. (Len(reported) + Len(taken)) + k = Len(reported) + Len(taken')
      BY <1>3, <1>4, <1>7
    <3>4. Follows(taken', sent, Len(reported))
      BY <1>3, <1>5, <1>6, <3>1, <3>2, FollowsCat
    <3>5. Len(reported) + Len(taken') + Len(net') = Len(reported) + Len(taken) + Len(net)
      <4>1. Len(taken') = Len(taken) + k /\ Len(net') = Len(net) - k
        BY <1>5, <1>6, <1>7
      <4>2. Len(taken) \in Nat /\ Len(net) \in Nat /\ Len(reported) \in Nat /\ k \in Nat
        BY <1>3, <1>4
      <4> QED
        BY <4>1, <4>2
    <3> QED
      BY <1>6, <3>1, <3>2, <3>3, <3>4, <3>5
  <2>3. Len(reported) + Len(taken') + Len(rbuf) = Len(reported) + Len(taken')
    BY <1>3, <1>4, <1>7, <2>1
  <2>4. Len(reported) + Len(taken) + Len(rbuf) = Len(reported) + Len(taken)
    BY <1>3, <2>1
  <2>5. ASSUME rthrew = FALSE
        PROVE  /\ Follows(reported', sent', 0) /\ Follows(taken', sent', Len(reported'))
               /\ Follows(rbuf', sent', Len(reported') + Len(taken'))
               /\ Follows(net', sent', Len(reported') + Len(taken') + Len(rbuf'))
               /\ Len(reported') + Len(taken') + Len(rbuf') + Len(net') <= Len(sent')
               /\ link # "cut" =>
                    Len(reported') + Len(taken') + Len(rbuf') + Len(net') = Len(sent')
    <3>1. \A m : Follows(rbuf, sent, m)
      BY <2>1, NoByte
    <3>2. /\ Len(reported) + Len(taken) + Len(net) <= Len(sent)
          /\ link # "cut" => Len(reported) + Len(taken) + Len(net) = Len(sent)
      BY <2>4, <2>5 DEF RInv
    <3>3. reported' = reported /\ sent' = sent /\ rbuf' = rbuf
      BY <1>2
    <3> QED
      BY <2>2, <2>3, <2>5, <3>1, <3>2, <3>3
  <2> QED
    BY <1>2, <2>1, <2>5 DEF RInv
<1> QED
  BY <1>8, <1>9, <1>10 DEF TInv

LEMMA RefillKeeps ==
  ASSUME TInv, RInv, Refill PROVE TInv' /\ RInv'
<1>0. TypeOK /\ CallArg
  BY DEF TInv
<1>1. PICK k \in 1..Min({RbufMax, Len(net)}) :
        rbuf' = SubSeq(net, 1, k) /\ net' = SubSeq(net, k + 1, Len(net))
  BY DEF Refill
<1>2. /\ rop # "all" /\ rbuf = <<>> /\ rfull' = TRUE
      /\ UNCHANGED <<wvars, sent, link, rop, want, taken, reported, sthrew, rthrew>>
  BY DEF Refill
<1>3. /\ Len(taken) \in Nat /\ Len(net) \in Nat /\ Len(reported) \in Nat /\ Len(sent) \in Nat
  BY <1>0, Facts
<1>4. k \in Nat /\ k <= RbufMax /\ k <= Len(net) /\ k \in 0..Len(net)
  <2>1. /\ Min({RbufMax, Len(net)}) \in Nat
        /\ Min({RbufMax, Len(net)}) <= RbufMax /\ Min({RbufMax, Len(net)}) <= Len(net)
    BY <1>3, MinOfTwo
  <2>2. \A m, a, b \in Nat : \A i \in 1..m : m <= a /\ m <= b => i \in Nat /\ i <= a /\ i <= b
    OBVIOUS
  <2>3. k \in Nat /\ k <= RbufMax /\ k <= Len(net)
    BY <1>3, <2>1, <2>2
  <2> QED
    BY <1>3, <2>3
<1>5. /\ rbuf' \in Seq(Byte) /\ net' \in Seq(Byte) /\ Len(rbuf') = k /\ Len(net') = Len(net) - k
      /\ \A m \in Nat : Follows(net, sent, m) => Follows(rbuf', sent, m) /\ Follows(net', sent, m + k)
  BY <1>0, <1>1, <1>4, Receive
<1>6. TypeOK'
  <2>1. rbuf' \in Seq(1..MaxBytes) /\ net' \in Seq(1..MaxBytes) /\ Len(rbuf') <= RbufMax
    BY <1>4, <1>5, ByteSeq
  <2> QED
    BY <1>0, <1>2, <2>1 DEF TypeOK, wvars
<1>7. CallArg'
  BY <1>0, <1>2 DEF CallArg, wvars
<1>8. RInv'
  <2> DEFINE m == Len(reported) + Len(taken)
  <2>1. m \in Nat /\ m + Len(rbuf) = m
    BY <1>2, <1>3, NoByte
  <2>2. ASSUME rthrew = FALSE
        PROVE  /\ Follows(rbuf', sent, m) /\ Follows(net', sent, m + Len(rbuf'))
               /\ m + Len(rbuf') + Len(net') <= Len(sent)
               /\ link # "cut" => m + Len(rbuf') + Len(net') = Len(sent)
    <3>1. /\ Follows(net, sent, m) /\ m + Len(net) <= Len(sent)
          /\ link # "cut" => m + Len(net) = Len(sent)
      BY <2>1, <2>2 DEF RInv
    <3> HIDE DEF m
    <3>2. Follows(rbuf', sent, m) /\ Follows(net', sent, m + Len(rbuf'))
      BY <1>5, <2>1, <3>1
    <3>3. m + Len(rbuf') + Len(net') = m + Len(net)
      BY <1>3, <1>4, <1>5, <2>1
    <3> QED
      BY <3>1, <3>2, <3>3
  <2>3. /\ rop' = rop /\ taken' = taken /\ reported' = reported
        /\ sent' = sent /\ link' = link /\ rthrew' = rthrew
    BY <1>2
  <2>4. rthrew = FALSE => Follows(reported, sent, 0) /\ Follows(taken, sent, Len(reported))
    BY DEF RInv
  <2>5. rop = "none" => taken = <<>>
    BY DEF RInv
  <2> QED
    BY <1>2, <2>2, <2>3, <2>4, <2>5 DEF RInv
<1> QED
  BY <1>6, <1>7, <1>8 DEF TInv

LEMMA GetKeeps ==
  ASSUME TInv, RInv, Get PROVE TInv' /\ RInv'
<1>0. TypeOK /\ CallArg
  BY DEF TInv
<1> DEFINE b == Head(rbuf)
<1>1. /\ rop \in {"get", "line"} /\ want > 0 /\ rbuf # <<>>
      /\ taken' = Append(taken, b) /\ rbuf' = Tail(rbuf)
      /\ want' = 0 \/ want' = want - 1
      /\ UNCHANGED <<wvars, cvars, rfull, rop, reported, sthrew, rthrew>>
  BY DEF Get
<1>2. /\ rbuf \in Seq(Byte) /\ taken \in Seq(Byte) /\ Len(rbuf) \in Nat /\ Len(taken) \in Nat
      /\ Len(reported) \in Nat /\ Len(net) \in Nat /\ Len(sent) \in Nat
  BY <1>0, Facts
<1>3. /\ b \in Byte /\ b = rbuf[1] /\ Len(rbuf) >= 1
      /\ Tail(rbuf) \in Seq(Byte) /\ Len(Tail(rbuf)) = Len(rbuf) - 1
      /\ \A i \in 1..(Len(rbuf) - 1) : Tail(rbuf)[i] = rbuf[i + 1]
  <2>1. /\ b \in Byte /\ Tail(rbuf) \in Seq(Byte) /\ Len(Tail(rbuf)) = Len(rbuf) - 1
        /\ \A i \in 1..Len(Tail(rbuf)) : Tail(rbuf)[i] = rbuf[i + 1]
    BY <1>1, <1>2, HeadTailProperties
  <2>2. b = rbuf[1] /\ Len(rbuf) >= 1
    BY <1>1, <1>2, EmptySeq
  <2> QED
    BY <2>1, <2>2
<1> HIDE DEF b
<1>4. /\ Append(taken, b) \in Seq(Byte) /\ Len(Append(taken, b)) = Len(taken) + 1
      /\ \A i \in 1..Len(taken) : Append(taken, b)[i] = taken[i]
      /\ Append(taken, b)[Len(taken) + 1] = b
  BY <1>2, <1>3, AppendProperties
<1>5. TypeOK'
  <2>1. taken' \in Seq(1..MaxBytes) /\ rbuf' \in Seq(1..MaxBytes)
    BY <1>1, <1>3, <1>4, ByteSeq
  <2>2. Len(rbuf') <= RbufMax
    <3>1. Len(rbuf) <= RbufMax /\ Len(rbuf') = Len(rbuf) - 1
      BY <1>0, <1>1, <1>3 DEF TypeOK
    <3> QED
      BY <1>2, <3>1
  <2>3. want' \in Nat
    <3>1. want \in Nat
      BY <1>0 DEF TypeOK
    <3> QED
      BY <1>1, <3>1
  <2>4. rfull' /\ rfull' = rfull
    BY <1>0, <1>1 DEF TypeOK
  <2> QED
    BY <1>0, <1>1, <2>1, <2>2, <2>3, <2>4 DEF TypeOK, wvars, cvars
<1>6. CallArg'
  BY <1>0, <1>1 DEF CallArg, wvars
<1>7. RInv'
  <2>1. /\ rop' = rop /\ rop # "none" /\ rop # "all" /\ reported' = reported
        /\ sent' = sent /\ net' = net /\ link' = link /\ rthrew' = rthrew
    BY <1>1 DEF cvars
  <2>2. Len(taken') = Len(taken) + 1 /\ Len(rbuf') = Len(rbuf) - 1
    BY <1>1, <1>3, <1>4
  <2>3. Len(reported) + Len(taken') + Len(rbuf') = Len(reported) + Len(taken) + Len(rbuf)
    BY <1>2, <2>2
  <2>4. ASSUME rthrew = FALSE
        PROVE  /\ Follows(taken', sent, Len(reported))
               /\ Follows(rbuf', sent, Len(reported) + Len(taken'))
    <3>1. /\ Follows(taken, sent, Len(reported))
          /\ Follows(rbuf, sent, Len(reported) + Len(taken))
      BY <2>4 DEF RInv
    <3>2. b = sent[Len(reported) + (Len(taken) + 1)]
      <4>1. 1 \in 1..Len(rbuf)
            /\ (Len(reported) + Len(taken)) + 1 = Len(reported) + (Len(taken) + 1)
        BY <1>2, <1>3
      <4> QED
        BY <1>3, <3>1, <4>1 DEF Follows
    <3>3. Follows(taken', sent, Len(reported))
      <4>1. \A i \in 1..(Len(taken) + 1) : i \in 1..Len(taken) \/ i = Len(taken) + 1
        BY <1>2
      <4> QED
        BY <1>1, <1>4, <3>1, <3>2, <4>1 DEF Follows
    <3>4. Follows(rbuf', sent, Len(reported) + Len(taken'))
      <4>1. \A i \in 1..(Len(rbuf) - 1) :
              /\ i + 1 \in 1..Len(rbuf)
              /\ (Len(reported) + Len(taken)) + (i + 1) = (Len(reported) + Len(taken')) + i
        BY <1>2, <2>2
      <4> QED
        BY <1>1, <1>3, <3>1, <4>1 DEF Follows
    <3> QED
      BY <3>3, <3>4
  <2>5. rthrew = FALSE =>
          /\ Follows(reported, sent, 0)
          /\ Follows(net, sent, Len(reported) + Len(taken) + Len(rbuf))
          /\ Len(reported) + Len(taken) + Len(rbuf) + Len(net) <= Len(sent)
          /\ link # "cut" => Len(reported) + Len(taken) + Len(rbuf) + Len(net) = Len(sent)
    BY DEF RInv
  <2> QED
    BY <2>1, <2>3, <2>4, <2>5 DEF RInv
<1> QED
  BY <1>5, <1>6, <1>7 DEF TInv

\* A call that returns reports what it has taken, unless recv has thrown.
LEMMA ReturnKeeps ==
  ASSUME TInv, RInv, NEW n \in 0..Len(taken), Return(n),
         rfull' \in BOOLEAN, rbuf # <<>> => rfull',
         rthrew' = TRUE \/ (rthrew' = rthrew /\ n = Len(taken))
  PROVE  TInv' /\ RInv'
<1>0. TypeOK /\ CallArg
  BY DEF TInv
<1>1. /\ rop' = "none" /\ want' = 0 /\ taken' = <<>>
      /\ reported' = reported \o SubSeq(taken, 1, n)
      /\ UNCHANGED <<wvars, cvars, rbuf, sthrew>>
  BY DEF Return
<1>2. /\ taken \in Seq(Byte) /\ reported \in Seq(Byte)
      /\ Len(taken) \in Nat /\ Len(reported) \in Nat
      /\ Len(rbuf) \in Nat /\ Len(net) \in Nat /\ Len(sent) \in Nat
  BY <1>0, Facts
<1> DEFINE x == SubSeq(taken, 1, n)
<1>3. /\ x \in Seq(Byte) /\ Len(x) = n
      /\ \A m \in Nat : Follows(taken, sent, m) => Follows(x, sent, m)
  BY <1>2, Split, FollowsSplit
<1>4. reported' = reported \o x
  BY <1>1
<1> HIDE DEF x
<1>5. reported' \in Seq(Byte) /\ Len(reported') = Len(reported) + n
  BY <1>2, <1>3, <1>4, Cat
<1>6. rthrew' \in BOOLEAN
  BY <1>0 DEF TypeOK
<1>7. TypeOK'
  <2>1. reported' \in Seq(1..MaxBytes) /\ taken' \in Seq(1..MaxBytes)
    BY <1>1, <1>5, NoByte, ByteSeq
  <2> QED
    BY <1>0, <1>1, <1>6, <2>1 DEF TypeOK, wvars, cvars
<1>8. CallArg'
  BY <1>0, <1>1 DEF CallArg, wvars
<1>9. ASSUME rthrew' = FALSE
      PROVE  /\ Follows(reported', sent, 0) /\ Follows(rbuf, sent, Len(reported'))
             /\ Follows(net, sent, Len(reported') + Len(rbuf))
             /\ Len(reported') + Len(rbuf) + Len(net) <= Len(sent)
             /\ link # "cut" => Len(reported') + Len(rbuf) + Len(net) = Len(sent)
  <2>1. rthrew = FALSE /\ n = Len(taken)
    BY <1>9
  <2>2. Follows(reported, sent, 0) /\ Follows(x, sent, Len(reported))
    BY <1>2, <1>3, <2>1 DEF RInv
  <2>3. Follows(reported', sent, 0)
    <3>1. 0 + Len(reported) = Len(reported) /\ 0 \in Nat
      BY <1>2
    <3> QED
      BY <1>2, <1>3, <1>4, <2>2, <3>1, FollowsCat
  <2>4. Len(reported') = Len(reported) + Len(taken)
    BY <1>5, <2>1
  <2> QED
    BY <2>1, <2>3, <2>4 DEF RInv
<1>10. RInv'
  <2>1. /\ rop' # "all" /\ taken' = <<>> /\ Len(taken') = 0 /\ \A m : Follows(taken', sent, m)
    BY <1>1, NoByte
  <2>2. sent' = sent /\ net' = net /\ link' = link /\ rbuf' = rbuf
    BY <1>1 DEF cvars
  <2>3. Len(reported') \in Nat /\ Len(reported') + Len(taken') = Len(reported')
    BY <1>2, <1>5, <2>1
  <2> QED
    BY <1>9, <2>1, <2>2, <2>3 DEF RInv
<1> QED
  BY <1>7, <1>8, <1>10 DEF TInv
-----------------------------------------------------------------------------
Inv == TInv /\ WInv /\ RInv

LEMMA InitInv == TcpInit => Inv
<1> SUFFICES ASSUME TcpInit PROVE Inv
  OBVIOUS
<1>1. <<>> \in Seq(1..MaxBytes) /\ Len(<<>>) = 0 /\ 0 \in 0..MaxBytes
      /\ 0 <= SbufMax /\ 0 <= RbufMax
  BY NoByte, ByteSeq
<1>2. TypeOK
  BY <1>1 DEF TcpInit, TypeOK
<1>3. CallArg
  BY DEF TcpInit, CallArg
<1>4. WInv
  <2>1. sent = <<>> /\ sbuf = <<>> /\ offered = 0 /\ wop = "none"
    BY DEF TcpInit
  <2>2. Runs(sent, 0) /\ Runs(sbuf, Len(sent)) /\ Len(sent) = 0 /\ Len(sbuf) = 0
    BY <2>1, NoByte
  <2> QED
    BY <2>1, <2>2 DEF WInv
<1>5. RInv
  <2>1. rop = "none" /\ reported = <<>> /\ taken = <<>> /\ rbuf = <<>> /\ net = <<>> /\ sent = <<>>
    BY DEF TcpInit
  <2>2. /\ Len(reported) = 0 /\ Len(taken) = 0 /\ Len(rbuf) = 0 /\ Len(net) = 0 /\ Len(sent) = 0
        /\ \A m : /\ Follows(reported, sent, m) /\ Follows(taken, sent, m)
                  /\ Follows(rbuf, sent, m) /\ Follows(net, sent, m)
    BY <2>1, NoByte
  <2> QED
    BY <2>1, <2>2 DEF RInv
<1> QED
  BY <1>2, <1>3, <1>4, <1>5 DEF Inv, TInv

\* Next with lengths of any kind.
AnyNext ==
  \/ Put \/ Flush \/ Close
  \/ \E n \in Nat : Write(n) \/ Read(n) \/ Ignore(n) \/ (n > 0 /\ Getline(n))
  \/ Writer \/ Cut \/ Reader

LEMMA StepInv == Inv /\ [AnyNext]_tcpvars => Inv'
<1> SUFFICES ASSUME Inv, [AnyNext]_tcpvars PROVE Inv'
  OBVIOUS
<1>0. TInv /\ WInv /\ RInv /\ TypeOK /\ CallArg
  BY DEF Inv, TInv
<1>1. CASE PutByte
  <2>1. UNCHANGED <<sent, net, link, rvars, rthrew>>
    BY <1>1 DEF PutByte, cvars
  <2> QED
    BY <1>0, <1>1, <2>1, PutByteKeeps, ReaderSame DEF Inv
<1>2. ASSUME NEW op \in {"put", "write", "flush", "close"}, NEW n \in Nat, Begin(op, n),
             op = "put" => n = 1, op \in {"flush", "close"} => n = 0
      PROVE  Inv'
  <2>1. UNCHANGED <<sent, net, link, rvars, rthrew>>
    BY <1>2 DEF Begin, cvars
  <2>2. RInv'
    BY <1>0, <2>1, ReaderSame
  <2>3. TInv' /\ WInv'
    BY <1>0, <1>2, BeginKeeps
  <2> QED
    BY <2>2, <2>3 DEF Inv
<1>3. ASSUME Put \/ Flush \/ Close \/ \E n \in Nat : Write(n) PROVE Inv'
  <2>1. CASE Put
    BY <1>1, <1>2, <2>1 DEF Put
  <2>2. CASE Flush
    BY <1>2, <2>2 DEF Flush
  <2>3. CASE Close
    BY <1>2, <2>3 DEF Close
  <2>4. CASE \E n \in Nat : Write(n)
    BY <1>2, <2>4 DEF Write
  <2> QED
    BY <1>3, <2>1, <2>2, <2>3, <2>4
<1>4. ASSUME NEW op \in {"all", "get", "line"}, NEW n \in Nat, Start(op, n),
             op = "all" => rbuf = <<>>
      PROVE  Inv'
  <2>1. UNCHANGED <<wvars, sent, link, sthrew>>
    BY <1>4 DEF Start, cvars
  <2>2. WInv'
    BY <1>0, <2>1, WriterSame
  <2>3. TInv' /\ RInv'
    BY <1>0, <1>4, StartKeeps
  <2> QED
    BY <2>2, <2>3 DEF Inv
<1>5. ASSUME NEW n \in Nat, Read(n) \/ Ignore(n) \/ (n > 0 /\ Getline(n)) PROVE Inv'
  <2>1. CASE Read(n)
    <3>1. rfull \in BOOLEAN /\ (rbuf # <<>> => rfull)
      BY <1>0 DEF TypeOK
    <3>2. CASE rfull
      BY <1>4, <2>1, <3>2 DEF Read
    <3>3. CASE ~rfull
      BY <1>4, <2>1, <3>1, <3>3 DEF Read
    <3> QED
      BY <3>2, <3>3
  <2>2. CASE Ignore(n)
    BY <1>4, <2>2 DEF Ignore
  <2>3. CASE n > 0 /\ Getline(n)
    <3>1. n - 1 \in Nat
      BY <2>3
    <3> QED
      BY <1>4, <2>3, <3>1 DEF Getline
  <2> QED
    BY <1>5, <2>1, <2>2, <2>3
<1>6. CASE Writer
  <2>1. CASE SendSome
    BY <1>0, <2>1, SendSomeKeeps DEF Inv
  <2>2. CASE SendNothing
    <3>1. UNCHANGED <<sent, net, link, rvars, rthrew>>
      BY <2>2 DEF SendNothing, cvars
    <3> QED
      BY <1>0, <2>2, <3>1, SendNothingKeeps, ReaderSame DEF Inv
  <2>3. CASE SendThrows
    <3>1. UNCHANGED <<sent, net, link, rvars, rthrew>>
      BY <2>3 DEF SendThrows, cvars
    <3> QED
      BY <1>0, <2>3, <3>1, SendThrowsKeeps, ReaderSame DEF Inv
  <2>4. CASE SendAllDone
    <3>1. UNCHANGED <<sent, net, rvars, rthrew>> /\ (link = "cut" => link' = "cut")
      BY <2>4 DEF SendAllDone
    <3> QED
      BY <1>0, <2>4, <3>1, SendAllDoneKeeps, ReaderSame DEF Inv
  <2> QED
    BY <1>6, <2>1, <2>2, <2>3, <2>4 DEF Writer
<1>7. CASE Cut
  BY <1>0, <1>7, CutKeeps DEF Inv
<1>8. CASE Reader
  <2>1. UNCHANGED <<wvars, sent, link, sthrew>>
    BY <1>8 DEF Reader, RecvAll, Refill, Get, ReadDone, ReadEof, RecvThrows, Return, cvars
  <2>2. WInv'
    BY <1>0, <2>1, WriterSame
  <2>3. CASE RecvAll
    BY <1>0, <2>2, <2>3, RecvAllKeeps DEF Inv
  <2>4. CASE Refill
    BY <1>0, <2>2, <2>4, RefillKeeps DEF Inv
  <2>5. CASE Get
    BY <1>0, <2>2, <2>5, GetKeeps DEF Inv
  <2>6. /\ taken \in Seq(Byte) /\ Len(taken) \in Nat
        /\ rfull \in BOOLEAN /\ (rbuf # <<>> => rfull)
        /\ taken # <<>> => Len(taken) \in Nat \ {0}
    BY <1>0, Facts, EmptySeq DEF TypeOK
  <2>a. Len(taken) \in 0..Len(taken)
    BY <2>6
  <2>7. CASE ReadDone
    <3>1. /\ Return(Len(taken)) /\ rfull' = rfull /\ rthrew' = rthrew
          /\ rfull' \in BOOLEAN /\ (rbuf # <<>> => rfull')
      BY <2>6, <2>7 DEF ReadDone
    <3>2. TInv' /\ RInv'
      BY <1>0, <2>a, <3>1, ReturnKeeps
    <3> QED
      BY <2>2, <3>2 DEF Inv
  <2>8. CASE ReadEof
    <3>1. /\ Return(Len(taken)) /\ rthrew' = rthrew
          /\ rfull' \in BOOLEAN /\ (rbuf # <<>> => rfull')
      BY <2>6, <2>8 DEF ReadEof
    <3>2. TInv' /\ RInv'
      BY <1>0, <2>a, <3>1, ReturnKeeps
    <3> QED
      BY <2>2, <3>2 DEF Inv
  <2>9. CASE RecvThrows
    <3>1. rfull' \in BOOLEAN /\ (rbuf # <<>> => rfull') /\ rthrew' = TRUE
      BY <2>6, <2>9 DEF RecvThrows
    <3> DEFINE n == IF rop = "all" \/ taken = <<>> THEN 0 ELSE 1
    <3>2. n \in 0..Len(taken)
      BY <2>6
    <3>3. Return(n)
      BY <2>9 DEF RecvThrows
    <3> HIDE DEF n
    <3>4. TInv' /\ RInv'
      BY <1>0, <3>1, <3>2, <3>3, ReturnKeeps
    <3> QED
      BY <2>2, <3>4 DEF Inv
  <2> QED
    BY <1>8, <2>3, <2>4, <2>5, <2>7, <2>8, <2>9 DEF Reader
<1>9. CASE UNCHANGED tcpvars
  <2>1. /\ UNCHANGED <<wvars, sent, link, sthrew>> /\ UNCHANGED <<sent, net, rvars, rthrew>>
        /\ link' = link
    BY <1>9 DEF tcpvars, cvars
  <2>2. TypeOK'
    BY <1>0, <1>9 DEF TypeOK, tcpvars, wvars, cvars, rvars
  <2>3. WInv' /\ CallArg' /\ RInv'
    BY <1>0, <2>1, WriterSame, ReaderSame
  <2> QED
    BY <2>2, <2>3 DEF Inv, TInv
<1> QED
  BY <1>1, <1>3, <1>5, <1>6, <1>7, <1>8, <1>9 DEF AnyNext, Put

LEMMA Invariant == Spec => []Inv
<1>1. [Next]_tcpvars => [AnyNext]_tcpvars
  BY DEF Next, Calls, AnyNext
<1> QED
  BY <1>1, InitInv, StepInv, PTL DEF Spec
-----------------------------------------------------------------------------
LEMMA PrefixIs ==
  ASSUME NEW s \in Seq(Byte), NEW t \in Seq(Byte), Len(s) <= Len(t),
         \A i \in 1..Len(s) : s[i] = t[i]
  PROVE  IsPrefix(s, t)
<1>1. Len(s) \in Nat /\ Len(t) \in Nat /\ Len(s) \in 0..Len(s) /\ Len(s) \in 0..Len(t)
  BY LenProperties
<1>2. /\ SubSeq(s, 1, Len(s)) \in Seq(Byte) /\ Len(SubSeq(s, 1, Len(s))) = Len(s)
      /\ \A i \in 1..Len(s) : SubSeq(s, 1, Len(s))[i] = s[i]
  BY <1>1, Split
<1>3. /\ SubSeq(t, 1, Len(s)) \in Seq(Byte) /\ Len(SubSeq(t, 1, Len(s))) = Len(s)
      /\ \A i \in 1..Len(s) : SubSeq(t, 1, Len(s))[i] = t[i]
  BY <1>1, Split
<1>4. SubSeq(s, 1, Len(s)) = SubSeq(t, 1, Len(s))
  BY <1>2, <1>3, SeqEqual
<1> QED
  BY <1>4 DEF IsPrefix

\* The variables keep their types, and neither buffer ever holds more than its size.
THEOREM TcpTyping == Spec => []TypeOK
<1>1. Inv => TypeOK
  BY DEF Inv, TInv
<1> QED
  BY <1>1, Invariant, PTL

\* The connection carries the bytes of put and write in order and each once, whatever
\* send does, until the writer is bad or a send was interrupted (koltcp.cpp:100, 165-277).
THEOREM SentOrder == Spec => []SentInOrder
<1>1. ASSUME Inv PROVE SentInOrder
  <2>1. TypeOK /\ WInv
    BY <1>1 DEF Inv, TInv
  <2> SUFFICES ASSUME ~bad, ~sthrew
               PROVE  /\ IsPrefix(sent, Bytes(0, offered))
                      /\ wop = "none" /\ link = "up" => sent \o sbuf = Bytes(0, offered)
    BY DEF SentInOrder
  <2>2. bad = FALSE /\ sthrew = FALSE
    BY <2>1 DEF TypeOK
  <2>3. /\ sent \in Seq(Byte) /\ sbuf \in Seq(Byte) /\ Len(sent) \in Nat /\ Len(sbuf) \in Nat
        /\ offered \in Nat /\ offered <= MaxBytes
    BY <2>1, Facts
  <2>4. /\ Bytes(0, offered) \in Seq(Byte) /\ Len(Bytes(0, offered)) = offered
        /\ \A i \in 1..offered : Bytes(0, offered)[i] = 0 + i
    <3>1. 0 + offered = offered /\ 0 \in Nat
      BY <2>3
    <3>2. /\ Bytes(0, 0 + offered) \in Seq(Byte) /\ Len(Bytes(0, 0 + offered)) = offered
          /\ \A i \in 1..offered : Bytes(0, 0 + offered)[i] = 0 + i
      <4>1. offered \in Nat /\ 0 + offered <= MaxBytes
        BY <2>3
      <4> QED
        BY <3>1, <4>1, BytesRun
    <3> QED
      BY <3>1, <3>2
  <2>5. Runs(sent, 0) /\ Len(sent) <= offered
    BY <2>1, <2>2 DEF WInv
  <2>6. IsPrefix(sent, Bytes(0, offered))
    <3>1. \A i \in 1..Len(sent) : i \in 1..offered
      BY <2>3, <2>5
    <3>2. \A i \in 1..Len(sent) : sent[i] = Bytes(0, offered)[i]
      BY <2>4, <2>5, <3>1 DEF Runs
    <3> QED
      BY <2>3, <2>4, <2>5, <3>2, PrefixIs
  <2>7. ASSUME wop = "none", link = "up" PROVE sent \o sbuf = Bytes(0, offered)
    <3>1. Runs(sbuf, Len(sent)) /\ Len(sent) + Len(sbuf) = offered
      BY <2>1, <2>2, <2>7 DEF WInv
    <3>2. 0 + Len(sent) = Len(sent) /\ 0 \in Nat
      BY <2>3
    <3>3. Runs(sent \o sbuf, 0)
      BY <2>3, <2>5, <3>1, <3>2, RunsCat
    <3>4. sent \o sbuf \in Seq(Byte) /\ Len(sent \o sbuf) = offered
      BY <2>3, <3>1, Cat
    <3>5. \A i \in 1..offered : (sent \o sbuf)[i] = Bytes(0, offered)[i]
      BY <2>4, <3>3, <3>4 DEF Runs
    <3> QED
      BY <2>4, <3>4, <3>5, SeqEqual
  <2> QED
    BY <2>6, <2>7
<1> QED
  BY <1>1, Invariant, PTL

\* Until a recv throws the reader's program is told of what was sent, from the start
\* and without a gap, whatever mixture of calls it makes (koltcp.cpp:74, 121-263).
THEOREM ReadOrder == Spec => []ReadInOrder
<1>1. ASSUME Inv PROVE ReadInOrder
  <2>1. TypeOK /\ RInv
    BY <1>1 DEF Inv, TInv
  <2> DEFINE t == IF rop = "none" THEN <<>> ELSE taken
             a == reported \o t
             b == a \o rbuf
             c == b \o net
  <2> SUFFICES ASSUME ~rthrew PROVE IsPrefix(c, sent)
    BY DEF ReadInOrder
  <2>2. rthrew = FALSE
    BY <2>1 DEF TypeOK
  <2>3. t = taken
    BY <2>1 DEF RInv
  <2>4. /\ reported \in Seq(Byte) /\ taken \in Seq(Byte) /\ rbuf \in Seq(Byte)
        /\ net \in Seq(Byte) /\ sent \in Seq(Byte)
        /\ Len(reported) \in Nat /\ Len(taken) \in Nat /\ Len(rbuf) \in Nat
        /\ Len(net) \in Nat /\ Len(sent) \in Nat
    BY <2>1, Facts
  <2>5. /\ Follows(reported, sent, 0) /\ Follows(taken, sent, Len(reported))
        /\ Follows(rbuf, sent, Len(reported) + Len(taken))
        /\ Follows(net, sent, Len(reported) + Len(taken) + Len(rbuf))
        /\ Len(reported) + Len(taken) + Len(rbuf) + Len(net) <= Len(sent)
    BY <2>1, <2>2 DEF RInv
  <2>6. a \in Seq(Byte) /\ Len(a) = Len(reported) + Len(taken) /\ Follows(a, sent, 0)
    <3>1. a = reported \o taken
      BY <2>3
    <3>2. 0 + Len(reported) = Len(reported) /\ 0 \in Nat
      BY <2>4
    <3> HIDE DEF a
    <3> QED
      BY <2>4, <2>5, <3>1, <3>2, Cat, FollowsCat
  <2> HIDE DEF a
  <2>7. b \in Seq(Byte) /\ Len(b) = Len(a) + Len(rbuf) /\ Follows(b, sent, 0)
    <3>1. 0 + Len(a) = Len(a) /\ 0 \in Nat
      BY <2>4, <2>6
    <3> QED
      BY <2>4, <2>5, <2>6, <3>1, Cat, FollowsCat
  <2> HIDE DEF b
  <2>8. c \in Seq(Byte) /\ Len(c) = Len(b) + Len(net) /\ Follows(c, sent, 0)
    <3>1. 0 + Len(b) = Len(b) /\ 0 \in Nat
      BY <2>4, <2>6, <2>7
    <3>2. Follows(net, sent, Len(b))
      BY <2>5, <2>6, <2>7
    <3> QED
      BY <2>4, <2>7, <3>1, <3>2, Cat, FollowsCat
  <2> HIDE DEF c
  <2>9. Len(c) <= Len(sent)
    BY <2>4, <2>5, <2>6, <2>7, <2>8
  <2>10. \A i \in 1..Len(c) : c[i] = sent[i]
    <3>1. \A i \in 1..Len(c) : 0 + i = i
      OBVIOUS
    <3> QED
      BY <2>8, <3>1 DEF Follows
  <2> QED
    BY <2>4, <2>8, <2>9, <2>10, PrefixIs
<1> QED
  BY <1>1, Invariant, PTL
-----------------------------------------------------------------------------
(***************************************************************************)
(* BoardLink: a board and an avant use the connection.  The board sends    *)
(* nothing behind a send that failed, so what it has sent is always the    *)
(* beginning of its packets (BoardInv).  The reader's buffer stays empty.  *)
(***************************************************************************)
USE BoardAssumption

LEMMA PacketSize ==
  /\ P \in Nat /\ P > 0 /\ H \in Nat /\ H > 0 /\ H <= P /\ B \in Nat /\ P = H + B
BY DEF P

LEMMA Times ==
  ASSUME NEW m \in Nat
  PROVE  /\ m * P \in Nat /\ (m + 1) * P = m * P + P /\ 0 * P = 0
         /\ \A n \in Nat : m < n => m * P + P <= n * P
<1> DEFINE p == P
<1>0. p \in Nat
  BY PacketSize
<1> HIDE DEF p
<1>1. m * p \in Nat /\ (m + 1) * p = m * p + p /\ 0 * p = 0
  BY <1>0
<1>2. ASSUME NEW n \in Nat, m < n PROVE m * p + p <= n * p
  <2>1. PICK k \in Nat : n = (m + 1) + k
    <3>1. n - (m + 1) \in Nat /\ n = (m + 1) + (n - (m + 1))
      BY <1>2
    <3> QED
      BY <3>1
  <2>2. n * p = (m * p + p) + k * p /\ k * p \in Nat
    BY <1>0, <2>1
  <2> QED
    BY <1>0, <1>1, <2>2
<1> QED
  BY <1>1, <1>2 DEF p

\* Every step of the link is one of the connection, or none.
LEMMA LinkOnTcp == [LinkNext]_vars => [AnyNext]_tcpvars
<1> SUFFICES ASSUME [LinkNext]_vars PROVE [AnyNext]_tcpvars
  OBVIOUS
<1>1. CASE Board
  <2>1. CASE WritePacket
    <3>1. Write(P) /\ P \in Nat
      BY <2>1, PacketSize DEF WritePacket
    <3> QED
      BY <3>1 DEF AnyNext
  <2> QED
    BY <1>1, <2>1 DEF Board, LoseTrig, Sending, CallReturns, WriteThrows, CloseSocket, AnyNext, Writer
<1>2. CASE Avant
  <2>1. CASE ReadHeader
    <3>1. Read(H) /\ H \in Nat
      BY <2>1, PacketSize DEF ReadHeader
    <3> QED
      BY <3>1 DEF AnyNext
  <2>2. CASE ReadBody
    <3>1. PICK n \in (IF HeaderOf(head) # {} THEN {B} ELSE Junk) : Read(n)
      BY <2>2 DEF ReadBody
    <3>2. n \in Nat
      BY PacketSize
    <3> QED
      BY <3>1, <3>2 DEF AnyNext
  <2> QED
    BY <1>2, <2>1, <2>2 DEF Avant, HeaderRead, Push, Receiving, ReadThrows, AnyNext, Reader
<1>3. CASE Cut
  BY <1>3 DEF AnyNext
<1>4. CASE UNCHANGED vars
  BY <1>4 DEF vars
<1> QED
  BY <1>1, <1>2, <1>3, <1>4 DEF LinkNext

BoardInv ==
  /\ sbuf = <<>>
  /\ bpc \in {"trig", "write", "caught", "close", "accept"}
  /\ trig \in Nat /\ trigs \in Seq(Nat) /\ Len(trigs) * P = offered
  /\ \A m \in 1..Len(trigs) : trigs[m] < trig
  /\ \A n \in 1..Len(trigs) : \A m \in 1..(n - 1) : trigs[m] < trigs[n]
  /\ wop = (IF bpc \in {"write", "close"} THEN bpc ELSE "none")
  /\ left # <<>> => arg = <<>>
  /\ wop = "close" => left = <<>> /\ arg = <<>>
  /\ bad \/ sthrew => left = <<>> /\ arg = <<>>
  /\ sthrew => bpc \notin {"trig", "write"}
  /\ Runs(sent, 0) /\ Len(sent) <= offered

Fragments == [trig : SUBSET Nat, bytes : Seq(Byte)]

AvantInv ==
  /\ rbuf = <<>> /\ rfull = FALSE
  /\ rpc \in {"loop", "header", "length", "body"}
  /\ rop = (IF rpc \in {"header", "body"} THEN "all" ELSE "none")
  /\ rpc \in {"loop", "header"} => head = <<>>
  /\ head \in Seq(Byte)
  /\ pushed \in Seq(Fragments)

LEMMA WritePacketBoard ==
  ASSUME Inv, BoardInv, WritePacket PROVE BoardInv'
<1>0. TypeOK
  BY DEF Inv, TInv
<1>1. /\ bpc = "trig" /\ ~bad /\ ~sthrew /\ wop = "none" /\ offered' = offered + P
      /\ wop' = "write" /\ left' = <<>> /\ arg' = Bytes(offered, offered + P)
      /\ bpc' = "write" /\ trig' = trig + 1 /\ trigs' = Append(trigs, trig)
      /\ UNCHANGED <<sbuf, bad, sent, sthrew>>
  BY <1>0 DEF WritePacket, Write, Begin, cvars, BoardInv, TypeOK
<1>2. /\ trigs' \in Seq(Nat) /\ Len(trigs') = Len(trigs) + 1 /\ Len(trigs) \in Nat
      /\ \A m \in 1..Len(trigs) : trigs'[m] = trigs[m]
      /\ trigs'[Len(trigs) + 1] = trig
  BY <1>1, AppendProperties, LenProperties DEF BoardInv
<1>3. Len(trigs') * P = offered'
  BY <1>1, <1>2, Times DEF BoardInv
<1>4. \A m \in 1..Len(trigs') : m \in 1..Len(trigs) \/ m = Len(trigs) + 1
  BY <1>2
<1>5. \A m \in 1..Len(trigs) : trigs[m] \in Nat
  BY ElementOfSeq DEF BoardInv
<1>6. \A m \in 1..Len(trigs') : trigs'[m] < trig'
  BY <1>1, <1>2, <1>4, <1>5 DEF BoardInv
<1>7. \A n \in 1..Len(trigs') : \A m \in 1..(n - 1) : trigs'[m] < trigs'[n]
  <2> SUFFICES ASSUME NEW n \in 1..Len(trigs'), NEW m \in 1..(n - 1) PROVE trigs'[m] < trigs'[n]
    OBVIOUS
  <2>1. m \in 1..Len(trigs)
    BY <1>2
  <2>2. CASE n \in 1..Len(trigs)
    BY <1>2, <2>1, <2>2 DEF BoardInv
  <2>3. CASE n = Len(trigs) + 1
    BY <1>2, <2>1, <2>3 DEF BoardInv
  <2> QED
    BY <1>4, <2>2, <2>3
<1>8. Runs(sent, 0)' /\ Len(sent') <= offered'
  <2>1. Len(sent) \in Nat /\ offered \in Nat
    BY <1>0, Facts
  <2> QED
    BY <1>1, <2>1, PacketSize DEF BoardInv, Runs
<1> QED
  BY <1>1, <1>2, <1>3, <1>6, <1>7, <1>8 DEF BoardInv

\* A step that offers no bytes.
LEMMA BoardKept ==
  ASSUME Inv, Inv', BoardInv, UNCHANGED <<offered, trigs>>, trig' \in {trig, trig + 1},
         sbuf' = <<>>, bpc' \in {"trig", "write", "caught", "close", "accept"},
         wop' = (IF bpc' \in {"write", "close"} THEN bpc' ELSE "none"),
         left' # <<>> => arg' = <<>>, wop' = "close" => left' = <<>> /\ arg' = <<>>,
         bad' \/ sthrew' => left' = <<>> /\ arg' = <<>>,
         sthrew' => bpc' \notin {"trig", "write"},
         sent' = sent \/ (~bad' /\ ~sthrew')
  PROVE  BoardInv'
<1>1. Runs(sent, 0)' /\ Len(sent') <= offered'
  <2>1. CASE sent' = sent
    BY <2>1 DEF BoardInv, Runs
  <2>2. CASE ~bad' /\ ~sthrew'
    BY <2>2 DEF Inv, WInv, TInv, TypeOK
  <2> QED
    BY <2>1, <2>2
<1>2. \A m \in 1..Len(trigs) : trigs[m] < trig'
  <2>1. \A m \in 1..Len(trigs) : trigs[m] \in Nat
    BY ElementOfSeq DEF BoardInv
  <2> QED
    BY <2>1 DEF BoardInv
<1> QED
  BY <1>1, <1>2 DEF BoardInv

LEMMA BoardStep == Inv /\ Inv' /\ BoardInv /\ [LinkNext]_vars => BoardInv'
<1> SUFFICES ASSUME Inv, Inv', BoardInv, [LinkNext]_vars PROVE BoardInv'
  OBVIOUS
<1>0. TypeOK
  BY DEF Inv, TInv
<1>1. CASE UNCHANGED <<tcpvars, bvars>>
  BY <1>1, BoardKept DEF BoardInv, tcpvars, wvars, cvars, bvars
<1>2. CASE LoseTrig
  BY <1>2, BoardKept DEF LoseTrig, BoardInv, tcpvars, wvars, cvars
<1>3. CASE Sending
  <2>1. left # <<>> /\ UNCHANGED <<offered, sbuf, wop, arg, sthrew, bvars>> /\ arg = <<>>
    BY <1>3 DEF Sending, SendSome, SendNothing, BoardInv
  <2>2. CASE SendSome
    <3>1. ~bad /\ ~sthrew /\ UNCHANGED <<bad, sthrew>> /\ wop # "close"
      BY <2>1, <2>2 DEF SendSome, BoardInv
    <3> QED
      BY <2>1, <3>1, BoardKept DEF BoardInv, bvars
  <2>3. CASE SendNothing
    BY <2>1, <2>3, BoardKept DEF SendNothing, BoardInv, bvars, cvars
  <2> QED
    BY <1>3, <2>2, <2>3 DEF Sending
<1>4. CASE CallReturns
  <2>1. /\ wop # "none" /\ left = <<>> /\ wop \in {"write", "close"} /\ wop = bpc
        /\ UNCHANGED <<offered, bad, sent, sthrew, trig, trigs>>
    BY <1>4 DEF CallReturns, SendAllDone, BoardInv
  <2>2. CASE wop = "write" /\ arg # <<>>
    <3>1. /\ left' = arg /\ arg' = <<>> /\ sbuf' = <<>> /\ wop' = wop /\ bpc' = bpc
          /\ ~bad /\ ~sthrew
      BY <1>4, <2>1, <2>2 DEF CallReturns, SendAllDone, Reset, BoardInv
    <3> QED
      BY <2>1, <2>2, <3>1, BoardKept
  <2>3. CASE wop = "close"
    <3>1. left' = <<>> /\ arg' = <<>> /\ sbuf' = <<>> /\ wop' = "none" /\ bpc' = "accept"
      BY <1>4, <2>1, <2>3 DEF CallReturns, SendAllDone, Reset, BoardInv
    <3> QED
      BY <2>1, <3>1, BoardKept
  <2>4. CASE wop = "write" /\ arg = <<>>
    <3>1. left' = <<>> /\ arg' = <<>> /\ sbuf' = <<>> /\ wop' = "none" /\ bpc' = "trig" /\ ~sthrew
      BY <1>4, <2>1, <2>4 DEF CallReturns, SendAllDone, Reset, BoardInv
    <3> QED
      BY <2>1, <3>1, BoardKept
  <2> QED
    BY <2>1, <2>2, <2>3, <2>4
<1>5. CASE WriteThrows
  BY <1>5, BoardKept DEF WriteThrows, SendThrows, BoardInv, cvars
<1>6. CASE CloseSocket
  <2>1. /\ wop' = "close" /\ left' = <<>> /\ bpc' = "close" /\ offered' = offered + 0
        /\ arg' = Bytes(offered, offered + 0)
        /\ UNCHANGED <<sbuf, bad, sent, sthrew, trig, trigs>>
    BY <1>6 DEF CloseSocket, Close, Begin, cvars, BoardInv
  <2>2. offered \in Nat /\ offered + 0 <= MaxBytes
    BY <1>0, Facts
  <2>3. arg' \in Seq(Byte) /\ Len(arg') = 0
    BY <2>1, <2>2, BytesRun
  <2>4. offered' = offered /\ arg' = <<>>
    BY <2>1, <2>2, <2>3, EmptySeq
  <2> QED
    BY <2>1, <2>4, BoardKept DEF BoardInv
<1>7. CASE Avant
  <2>1. UNCHANGED <<wvars, sent, sthrew, bvars>>
    BY <1>7 DEF Avant, ReadHeader, HeaderRead, ReadBody, Push, Receiving, ReadThrows, Read, Start,
       ReadDone, ReadEof, RecvAll, RecvThrows, Return, cvars
  <2> QED
    BY <2>1, BoardKept DEF BoardInv, wvars, bvars
<1>8. CASE Cut /\ UNCHANGED <<bvars, avars>>
  BY <1>8, BoardKept DEF Cut, BoardInv, wvars, bvars
<1>9. CASE UNCHANGED vars
  BY <1>1, <1>9 DEF vars
<1> QED
  BY <1>2, <1>3, <1>4, <1>5, <1>6, <1>7, <1>8, <1>9, WritePacketBoard DEF LinkNext, Board

LEMMA NoBytes ==
  ASSUME AvantInv PROVE rbuf = <<>> /\ Len(rbuf) = 0 /\ Len(pushed) \in Nat
BY LenProperties, NoByte DEF AvantInv

LEMMA FragmentTyped ==
  ASSUME Inv, BoardInv, AvantInv
  PROVE  /\ Fragment \in Fragments
         /\ Fragment.bytes = head \o taken
<1>1. head \o taken \in Seq(Byte)
  <2>1. taken \in Seq(Byte)
    BY Facts DEF Inv, TInv
  <2> QED
    BY <2>1, Cat DEF AvantInv
<1>2. {trigs[m] : m \in HeaderOf(head)} \in SUBSET Nat
  <2>1. trigs \in Seq(Nat) /\ HeaderOf(head) \subseteq DOMAIN trigs
    BY DEF BoardInv, HeaderOf
  <2>2. \A m \in DOMAIN trigs : trigs[m] \in Nat
    BY <2>1
  <2> QED
    BY <2>1, <2>2
<1> QED
  BY <1>1, <1>2 DEF Fragment, Fragments

LEMMA AvantStep == Inv /\ BoardInv /\ AvantInv /\ [LinkNext]_vars => AvantInv'
<1> SUFFICES ASSUME Inv, BoardInv, AvantInv, [LinkNext]_vars PROVE AvantInv'
  OBVIOUS
<1>0. <<>> \in Seq(Byte) /\ taken \in Seq(Byte)
  BY Facts, NoByte DEF Inv, TInv
<1>1. CASE Board \/ (Cut /\ UNCHANGED <<bvars, avars>>) \/ UNCHANGED vars
  <2>1. UNCHANGED <<rvars, avars>>
    BY <1>1 DEF Board, LoseTrig, WritePacket, Write, Begin, Sending, SendSome, SendNothing,
       CallReturns, SendAllDone, WriteThrows, SendThrows, CloseSocket, Close, Cut, tcpvars, vars
  <2> QED
    BY <2>1 DEF AvantInv, rvars, avars
<1>2. CASE ReadHeader
  BY <1>2 DEF ReadHeader, Read, Start, AvantInv
<1>3. CASE HeaderRead
  BY <1>0, <1>3 DEF HeaderRead, ReadDone, ReadEof, Return, AvantInv
<1>4. CASE ReadBody
  BY <1>4 DEF ReadBody, Read, Start, AvantInv
<1>5. CASE Push
  <2>1. /\ pushed' = Append(pushed, Fragment) /\ rpc' = "loop" /\ head' = <<>> /\ rop' = "none"
        /\ rbuf' = rbuf /\ rfull' = FALSE
    BY <1>5 DEF Push, ReadDone, ReadEof, Return, AvantInv
  <2>2. pushed' \in Seq(Fragments)
    BY <2>1, FragmentTyped, AppendProperties DEF AvantInv
  <2> QED
    BY <1>0, <2>1, <2>2 DEF AvantInv
<1>6. CASE Receiving
  BY <1>6 DEF Receiving, RecvAll, AvantInv, avars
<1>7. CASE ReadThrows
  <2>1. rop' = "none" /\ rbuf' = rbuf /\ rfull' = FALSE /\ rpc' = "loop" /\ head' = <<>> /\ pushed' = pushed
    BY <1>7 DEF ReadThrows, RecvThrows, Return, AvantInv
  <2> QED
    BY <1>0, <2>1 DEF AvantInv
<1> QED
  BY <1>1, <1>2, <1>3, <1>4, <1>5, <1>6, <1>7 DEF LinkNext, Avant
-----------------------------------------------------------------------------
\* What has left the connection is behind what is still in it, and in order.
Mark == Len(sent) - Len(net)
UpTo(s, m) == \A k \in 1..Len(s) : s[k] <= m
Rising(s) == \A k, l \in 1..Len(s) : k < l => s[k] < s[l]
Below(s, t) == \A k \in 1..Len(s), l \in 1..Len(t) : s[k] < t[l]

\* The fragments, then what has been read of a header and by the call under way.
Ordered(p, h, t, m) ==
  /\ UpTo(h, m) /\ UpTo(t, m) /\ Rising(h) /\ Rising(t) /\ Below(h, t)
  /\ \A f \in 1..Len(p) :
       /\ UpTo(p[f].bytes, m) /\ Rising(p[f].bytes)
       /\ Below(p[f].bytes, h) /\ Below(p[f].bytes, t)
  /\ \A g \in 1..Len(p) : \A f \in 1..(g - 1) : Below(p[f].bytes, p[g].bytes)

OrderInv ==
  /\ Len(net) <= Len(sent) /\ Runs(net, Mark)
  /\ Ordered(pushed, head, taken, Mark)

LEMMA InCat ==
  ASSUME NEW s \in Seq(Byte), NEW t \in Seq(Byte), NEW k \in 1..Len(s \o t)
  PROVE  \/ k \in 1..Len(s) /\ (s \o t)[k] = s[k]
         \/ k > Len(s) /\ k - Len(s) \in 1..Len(t) /\ (s \o t)[k] = t[k - Len(s)]
<1>1. /\ Len(s) \in Nat /\ Len(t) \in Nat /\ Len(s \o t) = Len(s) + Len(t)
      /\ \A i \in 1..Len(s) : (s \o t)[i] = s[i]
      /\ \A i \in 1..Len(t) : (s \o t)[Len(s) + i] = t[i]
  BY Cat
<1>2. CASE k \in 1..Len(s)
  BY <1>1, <1>2
<1>3. CASE k \notin 1..Len(s)
  <2>1. k > Len(s) /\ k - Len(s) \in 1..Len(t) /\ Len(s) + (k - Len(s)) = k
    BY <1>1, <1>3
  <2>2. (s \o t)[Len(s) + (k - Len(s))] = t[k - Len(s)]
    BY <1>1, <2>1
  <2> QED
    BY <2>1, <2>2
<1> QED
  BY <1>2, <1>3

LEMMA RisingCat ==
  ASSUME NEW s \in Seq(Byte), NEW t \in Seq(Byte), Rising(s), Rising(t), Below(s, t)
  PROVE  Rising(s \o t)
<1> SUFFICES ASSUME NEW k \in 1..Len(s \o t), NEW l \in 1..Len(s \o t), k < l
             PROVE  (s \o t)[k] < (s \o t)[l]
  BY DEF Rising
<1>0. Len(s) \in Nat /\ Len(s \o t) \in Nat
  BY LenProperties, Cat
<1>1. \/ k \in 1..Len(s) /\ (s \o t)[k] = s[k]
      \/ k > Len(s) /\ k - Len(s) \in 1..Len(t) /\ (s \o t)[k] = t[k - Len(s)]
  BY InCat
<1>2. \/ l \in 1..Len(s) /\ (s \o t)[l] = s[l]
      \/ l > Len(s) /\ l - Len(s) \in 1..Len(t) /\ (s \o t)[l] = t[l - Len(s)]
  BY InCat
<1>3. CASE k \in 1..Len(s) /\ l \in 1..Len(s)
  BY <1>0, <1>1, <1>2, <1>3 DEF Rising
<1>4. CASE k \in 1..Len(s) /\ l > Len(s)
  BY <1>0, <1>1, <1>2, <1>4 DEF Below
<1>5. CASE k > Len(s)
  <2>1. l > Len(s) /\ k - Len(s) < l - Len(s)
    BY <1>0, <1>5
  <2> QED
    BY <1>0, <1>1, <1>2, <1>5, <2>1 DEF Rising
<1> QED
  BY <1>1, <1>2, <1>3, <1>4, <1>5

LEMMA CatBounds ==
  ASSUME NEW s \in Seq(Byte), NEW t \in Seq(Byte)
  PROVE  /\ \A m : UpTo(s, m) /\ UpTo(t, m) => UpTo(s \o t, m)
         /\ \A u \in Seq(Byte) : Below(u, s) /\ Below(u, t) => Below(u, s \o t)
<1>1. \A k \in 1..Len(s \o t) :
        \/ k \in 1..Len(s) /\ (s \o t)[k] = s[k]
        \/ k > Len(s) /\ k - Len(s) \in 1..Len(t) /\ (s \o t)[k] = t[k - Len(s)]
  BY InCat
<1> QED
  BY <1>1 DEF UpTo, Below

\* A run from m on is behind all that reaches up to m.
LEMMA RunsBehind ==
  ASSUME NEW m \in Nat, NEW x \in Seq(Byte), Runs(x, m)
  PROVE  /\ Rising(x) /\ UpTo(x, m + Len(x))
         /\ \A s \in Seq(Byte) : UpTo(s, m) => Below(s, x)
<1>1. Len(x) \in Nat /\ \A k \in 1..Len(x) : k \in Nat /\ k <= Len(x) /\ k >= 1 /\ x[k] = m + k
  BY LenProperties DEF Runs
<1>2. Rising(x)
  BY <1>1 DEF Rising
<1>3. UpTo(x, m + Len(x))
  BY <1>1 DEF UpTo
<1>4. ASSUME NEW s \in Seq(Byte), UpTo(s, m) PROVE Below(s, x)
  <2>1. \A k \in 1..Len(s) : s[k] \in Nat /\ s[k] <= m
    <3>1. \A k \in 1..Len(s) : s[k] \in Byte
      BY ElementOfSeq
    <3> QED
      BY <1>4, <3>1 DEF UpTo, Byte
  <2> QED
    BY <1>1, <2>1 DEF Below
<1> QED
  BY <1>2, <1>3, <1>4

LEMMA UpToMore ==
  ASSUME NEW s \in Seq(Byte), NEW m \in Nat, NEW n \in Nat, m <= n, UpTo(s, m)
  PROVE  UpTo(s, n)
<1>1. \A k \in 1..Len(s) : s[k] \in Nat
  <2>1. \A k \in 1..Len(s) : s[k] \in Byte
    BY ElementOfSeq
  <2> QED
    BY <2>1 DEF Byte
<1> QED
  BY <1>1 DEF UpTo

LEMMA NothingIn ==
  /\ \A m : UpTo(<<>>, m)
  /\ Rising(<<>>) /\ \A s : Below(s, <<>>) /\ Below(<<>>, s)
<1>1. Len(<<>>) = 0 /\ 1..0 = {}
  OBVIOUS
<1> QED
  BY <1>1 DEF UpTo, Rising, Below

LEMMA BytesOf ==
  ASSUME NEW p \in Seq(Fragments)
  PROVE  \A f \in 1..Len(p) : p[f] \in Fragments /\ p[f].bytes \in Seq(Byte)
<1>1. \A f \in 1..Len(p) : p[f] \in Fragments
  BY ElementOfSeq
<1>2. \A x \in Fragments : x.bytes \in Seq(Byte)
  BY DEF Fragments
<1> QED
  BY <1>1, <1>2

LEMMA OrderedLater ==
  ASSUME NEW p \in Seq(Fragments), NEW h \in Seq(Byte), NEW t \in Seq(Byte),
         NEW h2 \in {h, <<>>}, NEW t2 \in {t, <<>>}, NEW m \in Nat, NEW n \in Nat, m <= n,
         Ordered(p, h, t, m)
  PROVE  Ordered(p, h2, t2, n)
<1>1. \A f \in 1..Len(p) : p[f].bytes \in Seq(Byte)
  BY BytesOf
<1>2. UpTo(h2, n) /\ UpTo(t2, n) /\ \A f \in 1..Len(p) : UpTo(p[f].bytes, n)
  BY <1>1, UpToMore, NothingIn DEF Ordered
<1>3. Rising(h2) /\ Rising(t2) /\ Below(h2, t2)
  BY NothingIn DEF Ordered
<1>4. \A f \in 1..Len(p) : Below(p[f].bytes, h2) /\ Below(p[f].bytes, t2)
  BY NothingIn DEF Ordered
<1> QED
  BY <1>2, <1>3, <1>4 DEF Ordered

LEMMA OrderedRead ==
  ASSUME NEW p \in Seq(Fragments), NEW h \in Seq(Byte), NEW t \in Seq(Byte), NEW m \in Nat,
         NEW x \in Seq(Byte), Runs(x, m), Ordered(p, h, t, m)
  PROVE  Ordered(p, h, t \o x, m + Len(x))
<1>0. Len(x) \in Nat /\ m + Len(x) \in Nat /\ m <= m + Len(x)
  BY LenProperties
<1>1. \A f \in 1..Len(p) : p[f].bytes \in Seq(Byte)
  BY BytesOf
<1>2. Rising(x) /\ UpTo(x, m + Len(x)) /\ \A s \in Seq(Byte) : UpTo(s, m) => Below(s, x)
  BY RunsBehind
<1>3. /\ UpTo(h, m + Len(x)) /\ UpTo(t, m + Len(x))
      /\ \A f \in 1..Len(p) : UpTo(p[f].bytes, m + Len(x))
  BY <1>0, <1>1, UpToMore DEF Ordered
<1>4. Below(t, x) /\ Below(h, x) /\ \A f \in 1..Len(p) : Below(p[f].bytes, x)
  BY <1>1, <1>2 DEF Ordered
<1>5. UpTo(t \o x, m + Len(x)) /\ Rising(t \o x)
  BY <1>2, <1>3, <1>4, CatBounds, RisingCat DEF Ordered
<1>6. Below(h, t \o x) /\ \A f \in 1..Len(p) : Below(p[f].bytes, t \o x)
  BY <1>1, <1>4, CatBounds DEF Ordered
<1> QED
  BY <1>3, <1>5, <1>6 DEF Ordered

LEMMA OrderedHead ==
  ASSUME NEW p, NEW t, NEW m, Ordered(p, <<>>, t, m)
  PROVE  Ordered(p, t, <<>>, m)
BY NothingIn DEF Ordered

LEMMA OrderedPush ==
  ASSUME NEW p \in Seq(Fragments), NEW h \in Seq(Byte), NEW t \in Seq(Byte), NEW m \in Nat,
         NEW x \in Fragments, x.bytes = h \o t, Ordered(p, h, t, m)
  PROVE  Ordered(Append(p, x), <<>>, <<>>, m)
<1> DEFINE q == Append(p, x)
<1>0. \A f \in 1..Len(p) : p[f].bytes \in Seq(Byte)
  BY BytesOf
<1>1. /\ Len(p) \in Nat /\ Len(q) = Len(p) + 1 /\ q[Len(p) + 1] = x
      /\ \A f \in 1..Len(p) : q[f] = p[f]
  BY AppendProperties, LenProperties
<1> HIDE DEF q
<1>2. \A f \in 1..Len(q) : f \in 1..Len(p) \/ f = Len(p) + 1
  BY <1>1
<1>3. UpTo(x.bytes, m) /\ Rising(x.bytes) /\ \A f \in 1..Len(p) : Below(p[f].bytes, x.bytes)
  BY <1>0, CatBounds, RisingCat DEF Ordered
<1>4. \A f \in 1..Len(q) : UpTo(q[f].bytes, m) /\ Rising(q[f].bytes)
  BY <1>1, <1>2, <1>3 DEF Ordered
<1>5. ASSUME NEW g \in 1..Len(q), NEW f \in 1..(g - 1) PROVE Below(q[f].bytes, q[g].bytes)
  <2>1. f \in 1..Len(p)
    BY <1>1
  <2>2. CASE g \in 1..Len(p)
    BY <1>1, <2>1, <2>2 DEF Ordered
  <2>3. CASE g = Len(p) + 1
    BY <1>1, <1>3, <2>1, <2>3
  <2> QED
    BY <1>2, <2>2, <2>3
<1>6. Ordered(q, <<>>, <<>>, m)
  BY <1>4, <1>5, NothingIn DEF Ordered
<1> QED
  BY <1>6 DEF q

LEMMA MarkNat ==
  ASSUME Inv, OrderInv
  PROVE  /\ Mark \in Nat /\ Mark + Len(net) = Len(sent) /\ Len(net) \in Nat
         /\ net \in Seq(Byte) /\ sent \in Seq(Byte) /\ taken \in Seq(Byte)
BY Facts DEF Inv, TInv, OrderInv, Mark

\* A step that reads nothing.
LEMMA OrderKept ==
  ASSUME Inv, AvantInv, OrderInv, UNCHANGED pushed, head' \in {head, <<>>}, taken' \in {taken, <<>>},
         Len(net') <= Len(sent'), Mark' \in Nat, Mark <= Mark', Runs(net', Mark')
  PROVE  OrderInv'
<1>1. Ordered(pushed, head', taken', Mark')
  BY MarkNat, OrderedLater DEF OrderInv, AvantInv
<1> QED
  BY <1>1 DEF OrderInv

LEMMA OrderStep == Inv /\ Inv' /\ BoardInv /\ AvantInv /\ OrderInv /\ [LinkNext]_vars => OrderInv'
<1> SUFFICES ASSUME Inv, Inv', BoardInv, AvantInv, OrderInv, [LinkNext]_vars PROVE OrderInv'
  OBVIOUS
<1>0. /\ Mark \in Nat /\ Mark + Len(net) = Len(sent) /\ Len(net) \in Nat /\ Len(sent) \in Nat
      /\ net \in Seq(Byte) /\ sent \in Seq(Byte) /\ taken \in Seq(Byte) /\ head \in Seq(Byte)
      /\ Len(net) <= Len(sent) /\ Runs(net, Mark) /\ Ordered(pushed, head, taken, Mark)
      /\ pushed \in Seq(Fragments) /\ rop \in {"none", "all"}
  BY MarkNat DEF OrderInv, AvantInv
<1>1. ASSUME UNCHANGED <<sent, net, pushed>>, head' \in {head, <<>>}, taken' \in {taken, <<>>}
      PROVE  OrderInv'
  BY <1>0, <1>1, OrderKept DEF Mark
<1>2. CASE SendSome /\ UNCHANGED avars
  <2>1. left # <<>> /\ link = "up" /\ taken' = taken /\ UNCHANGED <<head, pushed>>
    BY <1>2 DEF SendSome, rvars, avars
  <2>2. PICK k \in DOMAIN left :
          sent' = sent \o SubSeq(left, 1, k) /\ net' = net \o SubSeq(left, 1, k)
    BY <1>2 DEF SendSome
  <2>3. Runs(left, Len(sent)) /\ left \in Seq(Byte)
    BY <2>1, Facts DEF Inv, TInv, TypeOK, WInv, BoardInv
  <2>4. k \in 0..Len(left)
    BY <2>3, LenProperties
  <2> DEFINE x == SubSeq(left, 1, k)
  <2>5. x \in Seq(Byte) /\ Runs(x, Len(sent)) /\ Len(x) \in Nat
    BY <1>0, <2>3, <2>4, Split, RunsSplit, LenProperties
  <2> HIDE DEF x
  <2>6. Len(sent') = Len(sent) + Len(x) /\ Len(net') = Len(net) + Len(x) /\ Runs(net', Mark)
    BY <1>0, <2>2, <2>5, Cat, RunsCat DEF x
  <2>7. Mark' = Mark
    BY <1>0, <2>5, <2>6 DEF Mark
  <2> QED
    BY <1>0, <2>1, <2>5, <2>6, <2>7, OrderKept
<1>3. CASE Cut /\ UNCHANGED avars
  <2>1. sent' = sent /\ net' = <<>> /\ taken' = taken /\ UNCHANGED <<head, pushed>>
    BY <1>3 DEF Cut, rvars, avars
  <2>2. Len(net') = 0 /\ Runs(net', Mark')
    BY <2>1, NoByte
  <2>3. Mark' = Len(sent)
    BY <1>0, <2>1, <2>2 DEF Mark
  <2> QED
    BY <1>0, <2>1, <2>2, <2>3, OrderKept
<1>4. CASE Board
  <2>1. CASE SendSome /\ UNCHANGED avars
    BY <1>2, <2>1
  <2>2. CASE ~SendSome
    <3>1. UNCHANGED <<sent, net, taken, avars>>
      BY <1>4, <2>2 DEF Board, LoseTrig, WritePacket, Write, Begin, Sending, SendNothing,
         CallReturns, SendAllDone, WriteThrows, SendThrows, CloseSocket, Close, cvars, rvars,
         tcpvars
    <3> QED
      BY <1>1, <3>1 DEF avars
  <2> QED
    BY <1>4, <2>1, <2>2 DEF Board, LoseTrig, WritePacket, Write, Begin, Sending, CallReturns,
       SendAllDone, WriteThrows, SendThrows, CloseSocket, Close
<1>5. CASE ReadHeader \/ ReadBody
  <2>1. UNCHANGED <<sent, net, pushed, head>> /\ taken' = <<>>
    BY <1>5 DEF ReadHeader, ReadBody, Read, Start, cvars
  <2> QED
    BY <1>1, <2>1
<1>6. CASE Receiving
  <2>1. PICK k \in 1..Min({want, Len(net)}) :
          taken' = taken \o SubSeq(net, 1, k) /\ net' = SubSeq(net, k + 1, Len(net))
    BY <1>6 DEF Receiving, RecvAll
  <2>2. UNCHANGED <<sent, head, pushed>>
    BY <1>6 DEF Receiving, RecvAll, avars
  <2>3. k \in 1..Len(net)
    <3>1. want \in Nat
      BY DEF Inv, TInv, TypeOK
    <3>2. Min({want, Len(net)}) \in Nat /\ Min({want, Len(net)}) <= Len(net)
      BY <1>0, <3>1, MinOfTwo
    <3> QED
      BY <1>0, <2>1, <3>2
  <2> DEFINE x == SubSeq(net, 1, k)
             y == SubSeq(net, k + 1, Len(net))
  <2>4. /\ x \in Seq(Byte) /\ Len(x) = k /\ Runs(x, Mark)
        /\ Len(y) = Len(net) - k /\ Runs(y, Mark + k)
    <3>1. k \in 0..Len(net)
      BY <1>0, <2>3
    <3> QED
      BY <1>0, <3>1, Split, RunsSplit
  <2> HIDE DEF x, y
  <2>5. net' = y /\ taken' = taken \o x
    BY <2>1 DEF x, y
  <2>6. Mark' = Mark + k /\ Len(net') <= Len(sent')
    <3>1. Len(net') = Len(net) - k /\ Len(sent') = Len(sent) /\ k \in Nat
      BY <2>2, <2>3, <2>4, <2>5
    <3> QED
      BY <1>0, <2>3, <3>1 DEF Mark
  <2>7. Ordered(pushed, head, taken \o x, Mark + Len(x))
    BY <1>0, <2>4, OrderedRead
  <2> QED
    BY <2>2, <2>4, <2>5, <2>6, <2>7 DEF OrderInv
<1>7. CASE HeaderRead
  <2>1. /\ UNCHANGED <<sent, net, pushed>> /\ head' = taken /\ taken' = <<>> /\ head = <<>>
    BY <1>7 DEF HeaderRead, ReadDone, ReadEof, Return, cvars, AvantInv
  <2>2. Ordered(pushed, head', taken', Mark)
    BY <1>0, <2>1, OrderedHead
  <2> QED
    BY <1>0, <2>1, <2>2 DEF OrderInv, Mark
<1>8. CASE Push
  <2>1. /\ UNCHANGED <<sent, net>> /\ pushed' = Append(pushed, Fragment)
        /\ head' = <<>> /\ taken' = <<>>
    BY <1>8 DEF Push, ReadDone, ReadEof, Return, cvars
  <2>2. Fragment \in Fragments /\ Fragment.bytes = head \o taken
    BY FragmentTyped
  <2>3. Ordered(pushed', head', taken', Mark)
    BY <1>0, <2>1, <2>2, OrderedPush
  <2> QED
    BY <1>0, <2>1, <2>3 DEF OrderInv, Mark
<1>9. CASE ReadThrows
  <2>1. UNCHANGED <<sent, net, pushed>> /\ head' = <<>> /\ taken' = <<>>
    BY <1>9 DEF ReadThrows, RecvThrows, Return, cvars
  <2> QED
    BY <1>1, <2>1
<1>10. CASE UNCHANGED vars
  BY <1>1, <1>10 DEF vars, tcpvars, cvars, rvars, avars
<1> QED
  BY <1>3, <1>4, <1>5, <1>6, <1>7, <1>8, <1>9, <1>10 DEF LinkNext, Avant

LEMMA LinkInit == Init => Inv /\ BoardInv /\ AvantInv /\ OrderInv
<1> SUFFICES ASSUME Init PROVE Inv /\ BoardInv /\ AvantInv /\ OrderInv
  OBVIOUS
<1>1. Inv
  BY InitInv DEF Init
<1>2. <<>> \in Seq(Nat) /\ <<>> \in Seq(Byte) /\ <<>> \in Seq(Fragments) /\ Len(<<>>) = 0
      /\ Len(<<>>) * P = 0
  BY EmptySeq, Times
<1>3. BoardInv
  BY <1>2, NoByte DEF Init, TcpInit, BoardInv
<1>4. AvantInv
  BY <1>2 DEF Init, TcpInit, AvantInv
<1>5. OrderInv
  BY <1>2, NoByte, NothingIn DEF Init, TcpInit, OrderInv, Ordered, Mark
<1> QED
  BY <1>1, <1>3, <1>4, <1>5

LinkInv == Inv /\ BoardInv /\ AvantInv /\ OrderInv

LEMMA LinkStep == LinkInv /\ [LinkNext]_vars => LinkInv'
<1> SUFFICES ASSUME LinkInv, [LinkNext]_vars PROVE LinkInv'
  OBVIOUS
<1>1. Inv'
  BY LinkOnTcp, StepInv DEF LinkInv
<1> QED
  BY <1>1, BoardStep, AvantStep, OrderStep DEF LinkInv

LEMMA LinkInvariant == LinkSpec => []LinkInv
<1>1. Init => LinkInv
  BY LinkInit DEF LinkInv
<1> QED
  BY <1>1, LinkStep, PTL DEF LinkSpec

\* Whatever happens to the connection, and wherever the avant starts to read again
\* after an exception, no byte of the board is in two fragments, and none overtakes
\* another (dtarecbe.cxx:91-121, drecbe.cxx:150-204).
THEOREM BytesInOrder == LinkSpec => []BytesOnce
<1>1. ASSUME LinkInv PROVE BytesOnce
  <2> SUFFICES ASSUME NEW f \in DOMAIN pushed, NEW g \in DOMAIN pushed,
                      NEW i \in DOMAIN pushed[f].bytes, NEW j \in DOMAIN pushed[g].bytes,
                      f < g \/ (f = g /\ i < j)
               PROVE  pushed[f].bytes[i] < pushed[g].bytes[j]
    BY DEF BytesOnce
  <2>1. pushed \in Seq(Fragments) /\ Ordered(pushed, head, taken, Mark)
    BY <1>1 DEF LinkInv, AvantInv, OrderInv
  <2>2. f \in 1..Len(pushed) /\ g \in 1..Len(pushed) /\ Len(pushed) \in Nat
    BY <2>1, LenProperties
  <2>3. pushed[f].bytes \in Seq(Byte) /\ pushed[g].bytes \in Seq(Byte)
    BY <2>1, <2>2, BytesOf
  <2>4. i \in 1..Len(pushed[f].bytes) /\ j \in 1..Len(pushed[g].bytes)
    BY <2>3, LenProperties
  <2>5. CASE f < g
    <3>1. f \in 1..(g - 1)
      BY <2>2, <2>5
    <3>2. Below(pushed[f].bytes, pushed[g].bytes)
      BY <2>1, <2>2, <3>1 DEF Ordered
    <3> QED
      BY <2>4, <3>2 DEF Below
  <2>6. CASE f = g /\ i < j
    <3>1. Rising(pushed[f].bytes)
      BY <2>1, <2>2 DEF Ordered
    <3> QED
      BY <2>4, <2>6, <3>1 DEF Rising
  <2> QED
    BY <2>5, <2>6
<1> QED
  BY <1>1, LinkInvariant, PTL
-----------------------------------------------------------------------------
\* Until a read throws, the avant is where the packets end, or the stream has ended
\* and it pushes what is left and then nothing.
Base == Len(pushed) * P
Ended == net = <<>> /\ link = "shut"

Regular ==
  /\ Len(reported) = Base + Len(head) /\ Runs(head, Base)
  /\ rpc = "header" => Len(taken) + want = H
  /\ rpc \in {"length", "body"} => Len(head) = H
  /\ rpc = "body" => Len(taken) + want = B

Irregular ==
  /\ Ended /\ Len(sent) < Base + P
  /\ Base > Len(sent) => head = <<>> /\ taken = <<>>

Good(i) ==
  /\ i * P <= Len(sent) =>
       /\ i \in 1..Len(trigs) /\ pushed[i].trig = {trigs[i]}
       /\ pushed[i].bytes = Packet(i)
  /\ i * P > Len(sent) => Ended
  /\ i * P > Len(sent) + P => pushed[i].bytes = <<>>

FrameInv == ~rthrew => (Regular \/ Irregular) /\ \A i \in 1..Len(pushed) : Good(i)

LEMMA SameRun ==
  ASSUME NEW s \in Seq(Byte), NEW t \in Seq(Byte), NEW m, Len(s) = Len(t), Runs(s, m), Runs(t, m)
  PROVE  s = t
<1>1. \A i \in 1..Len(s) : s[i] = t[i]
  BY DEF Runs
<1> QED
  BY <1>1, SeqEqual

LEMMA PacketRun ==
  ASSUME Inv, BoardInv, NEW n \in Nat, n + 1 \in 1..Len(trigs)
  PROVE  Packet(n + 1) \in Seq(Byte) /\ Len(Packet(n + 1)) = P /\ Runs(Packet(n + 1), n * P)
<1>0. (n + 1) - 1 = n
  OBVIOUS
<1>1. n * P \in Nat /\ (n + 1) * P = n * P + P
  BY Times
<1>2. n * P + P <= MaxBytes
  <2>1. (n + 1) * P <= Len(trigs) * P
    <3>1. Len(trigs) \in Nat /\ (n + 1 = Len(trigs) \/ n + 1 < Len(trigs))
      BY LenProperties DEF BoardInv
    <3>2. CASE n + 1 = Len(trigs)
      <4>1. (n + 1) * P \in Nat
        BY <1>1, PacketSize
      <4> QED
        BY <3>2, <4>1
    <3>3. CASE n + 1 < Len(trigs)
      <4>1. (n + 1) * P \in Nat /\ Len(trigs) * P \in Nat /\ (n + 1) * P + P <= Len(trigs) * P
        BY <3>1, <3>3, Times
      <4> QED
        BY <4>1, PacketSize
    <3> QED
      BY <3>1, <3>2, <3>3
  <2>2. Len(trigs) * P = offered /\ offered \in Nat /\ offered <= MaxBytes
    BY Facts DEF BoardInv, Inv, TInv
  <2>3. n * P + P <= offered
    BY <1>1, <2>1, <2>2
  <2> DEFINE c == n * P
  <2>4. c \in Nat /\ c + P <= offered
    BY <1>1, <2>3
  <2> HIDE DEF c
  <2>5. c + P <= MaxBytes
    BY <2>2, <2>4, PacketSize
  <2> QED
    BY <2>5 DEF c
<1>3. Packet(n + 1) = Bytes(n * P, n * P + P)
  BY <1>0, <1>1 DEF Packet
<1> DEFINE q == n * P
<1>4. q \in Nat /\ q + P <= MaxBytes
  BY <1>1, <1>2
<1> HIDE DEF q
<1>5. Bytes(q, q + P) \in Seq(Byte) /\ Len(Bytes(q, q + P)) = P /\ Runs(Bytes(q, q + P), q)
  BY <1>4, PacketSize, BytesRun DEF Runs
<1> QED
  BY <1>3, <1>5 DEF q

LEMMA WholeHeader ==
  ASSUME Inv, BoardInv, NEW n \in Nat, n + 1 \in 1..Len(trigs),
         NEW h \in Seq(Byte), Len(h) = H, Runs(h, n * P)
  PROVE  HeaderOf(h) = {n + 1}
<1>0. DOMAIN trigs = 1..Len(trigs)
  BY LenProperties DEF BoardInv
<1>1. ASSUME NEW m \in Nat, m + 1 \in 1..Len(trigs)
      PROVE  LET s == SubSeq(Packet(m + 1), 1, H)
             IN  s \in Seq(Byte) /\ Len(s) = H /\ Runs(s, m * P)
  <2>1. Packet(m + 1) \in Seq(Byte) /\ Len(Packet(m + 1)) = P /\ Runs(Packet(m + 1), m * P)
    BY <1>1, PacketRun
  <2>2. H \in 0..P /\ m * P \in Nat
    BY PacketSize, Times
  <2> QED
    BY <2>1, <2>2, Split, RunsSplit
<1>2. h = SubSeq(Packet(n + 1), 1, H)
  BY <1>1, SameRun
<1>3. ASSUME NEW i \in 1..Len(trigs), h = SubSeq(Packet(i), 1, H) PROVE i = n + 1
  <2>1. PICK m \in Nat : i = m + 1
    <3>1. i - 1 \in Nat /\ i = (i - 1) + 1
      OBVIOUS
    <3> QED
      BY <3>1
  <2>2. Runs(h, m * P)
    BY <1>1, <1>3, <2>1
  <2>3. h[1] = m * P + 1 /\ h[1] = n * P + 1
    <3>1. 1 \in 1..Len(h)
      BY PacketSize
    <3> QED
      BY <2>2, <3>1 DEF Runs
  <2> DEFINE a == m * P
             b == n * P
  <2>4. a \in Nat /\ b \in Nat
    BY Times
  <2> HIDE DEF a, b
  <2>4a. a + 1 = b + 1
    BY <2>3 DEF a, b
  <2>4b. a = b
    BY <2>4, <2>4a
  <2>5. ~(m < n) /\ ~(n < m)
    <3>1. (m < n => a + P <= b) /\ (n < m => b + P <= a)
      BY Times DEF a, b
    <3> QED
      BY <2>4, <2>4b, <3>1, PacketSize
  <2> QED
    BY <2>1, <2>5
<1> QED
  BY <1>0, <1>2, <1>3 DEF HeaderOf

LEMMA BaseNat ==
  ASSUME Inv, BoardInv, AvantInv
  PROVE  /\ Base \in Nat /\ Len(pushed) \in Nat /\ Base = Len(pushed) * P
         /\ (Len(pushed) + 1) * P = Base + P
         /\ Base + H <= Len(sent) => Len(pushed) + 1 \in 1..Len(trigs)
<1>1. Len(pushed) \in Nat /\ Len(trigs) \in Nat
  BY LenProperties DEF AvantInv, BoardInv
<1>2. Base \in Nat /\ (Len(pushed) + 1) * P = Base + P
  BY <1>1, Times DEF Base
<1>3. ASSUME Base + H <= Len(sent), ~(Len(pushed) + 1 \in 1..Len(trigs)) PROVE FALSE
  <2>1. Len(trigs) = Len(pushed) \/ Len(trigs) < Len(pushed)
    BY <1>1, <1>3
  <2>2. Len(trigs) * P <= Base /\ Len(trigs) * P \in Nat
    BY <1>1, <1>2, <2>1, Times, PacketSize DEF Base
  <2>3. Len(sent) \in Nat /\ Len(sent) <= Len(trigs) * P
    BY Facts DEF BoardInv, Inv, TInv
  <2> QED
    BY <1>2, <1>3, <2>2, <2>3, PacketSize
<1> QED
  BY <1>1, <1>2, <1>3 DEF Base

\* The bytes the avant has, as long as nothing has thrown.
LEMMA ReadSoFar ==
  ASSUME Inv, BoardInv, AvantInv, ~rthrew
  PROVE  /\ Len(reported) \in Nat /\ Len(taken) \in Nat /\ Len(sent) \in Nat /\ want \in Nat
         /\ taken \in Seq(Byte) /\ Len(reported) + Len(taken) <= Len(sent)
         /\ Ended => Len(reported) + Len(taken) = Len(sent)
         /\ Runs(taken, Len(reported))
<1>1. /\ Len(reported) \in Nat /\ Len(taken) \in Nat /\ Len(sent) \in Nat /\ want \in Nat
      /\ Len(net) \in Nat /\ taken \in Seq(Byte)
  BY Facts DEF Inv, TInv, TypeOK
<1>2. rthrew = FALSE /\ Len(rbuf) = 0
  BY NoBytes DEF Inv, TInv, TypeOK
<1>3. /\ Follows(taken, sent, Len(reported))
      /\ Len(reported) + Len(taken) + Len(rbuf) + Len(net) <= Len(sent)
      /\ link # "cut" => Len(reported) + Len(taken) + Len(rbuf) + Len(net) = Len(sent)
  BY <1>2 DEF Inv, RInv
<1>4. Ended => Len(reported) + Len(taken) = Len(sent)
  BY <1>1, <1>2, <1>3, NoByte DEF Ended
<1>5. \A i \in 1..Len(taken) : Len(reported) + i \in 1..Len(sent)
  BY <1>1, <1>2, <1>3
<1>6. Runs(taken, Len(reported))
  <2>1. \A i \in 1..Len(sent) : sent[i] = 0 + i
    BY DEF BoardInv, Runs
  <2> QED
    BY <1>1, <1>3, <1>5, <2>1 DEF Follows, Runs
<1> QED
  BY <1>1, <1>2, <1>3, <1>4, <1>6

\* A step of the board.
LEMMA FrameBoard ==
  ASSUME Inv, BoardInv, AvantInv, FrameInv, UNCHANGED <<rvars, avars, rthrew>>,
         Len(sent') \in Nat, Len(sent) <= Len(sent'), Ended => Ended' /\ sent' = sent,
         \A i \in 1..Len(trigs) : i \in 1..Len(trigs') /\ trigs'[i] = trigs[i]
  PROVE  FrameInv'
<1> SUFFICES ASSUME ~rthrew
             PROVE  (Regular' \/ Irregular') /\ \A i \in 1..Len(pushed) : Good(i)'
  BY DEF FrameInv, avars
<1>0. /\ UNCHANGED <<rpc, head, pushed, reported, taken, want>> /\ Base' = Base
      /\ (Regular \/ Irregular) /\ \A i \in 1..Len(pushed) : Good(i)
      /\ Len(sent) \in Nat
  BY Facts DEF FrameInv, rvars, avars, Base, Inv, TInv
<1>1. Regular => Regular'
  BY <1>0 DEF Regular
<1>2. Irregular => Irregular'
  BY <1>0 DEF Irregular
<1>3. ASSUME NEW i \in 1..Len(pushed) PROVE Good(i)'
  <2> DEFINE e == i * P
  <2>1. Good(i) /\ e \in Nat
    <3>1. i \in Nat
      BY NoBytes
    <3> QED
      BY <1>0, <3>1, Times DEF FrameInv
  <2>2. CASE e <= Len(sent)
    <3>1. i \in 1..Len(trigs) /\ pushed[i].trig = {trigs[i]} /\ pushed[i].bytes = Packet(i)
      BY <2>1, <2>2 DEF Good
    <3> HIDE DEF e
    <3>2. ~(e > Len(sent')) /\ ~(e > Len(sent') + P)
      BY <1>0, <2>1, <2>2, PacketSize
    <3> QED
      BY <1>0, <3>1, <3>2 DEF Good, e
  <2>3. CASE ~(e <= Len(sent))
    <3> HIDE DEF e
    <3>1. e > Len(sent)
      BY <1>0, <2>1, <2>3
    <3>2. Ended
      BY <2>1, <3>1 DEF Good, e
    <3>3. Ended' /\ sent' = sent
      BY <3>2
    <3> QED
      BY <1>0, <2>1, <2>3, <3>3 DEF Good, e
  <2> QED
    BY <2>2, <2>3
<1> QED
  BY <1>0, <1>1, <1>2, <1>3 DEF FrameInv

\* A step of the avant that pushes nothing.
LEMMA GoodKept ==
  ASSUME AvantInv, FrameInv, ~rthrew, UNCHANGED <<sent, link, trigs, pushed>>, net' = net \/ net # <<>>
  PROVE  \A i \in 1..Len(pushed') : Good(i)'
<1> SUFFICES ASSUME NEW i \in 1..Len(pushed) PROVE Good(i)'
  OBVIOUS
<1>1. Good(i)
  BY DEF FrameInv
<1>2. Ended => net' = net
  BY DEF Ended
<1> QED
  BY <1>1, <1>2 DEF Good, Ended

\* One more fragment.
LEMMA GoodMore ==
  ASSUME AvantInv, FrameInv, ~rthrew, UNCHANGED <<sent, link, net, trigs>>,
         Fragment \in Fragments, pushed' = Append(pushed, Fragment),
         NEW m \in Nat, m = Len(pushed) + 1, Good(m)'
  PROVE  \A i \in 1..Len(pushed') : Good(i)'
<1> SUFFICES ASSUME NEW i \in 1..Len(pushed') PROVE Good(i)'
  OBVIOUS
<1>1. /\ Len(pushed) \in Nat /\ Len(pushed') = Len(pushed) + 1
      /\ \A n \in 1..Len(pushed) : pushed'[n] = pushed[n]
  BY LenProperties, AppendProperties DEF AvantInv
<1>2. CASE i \in 1..Len(pushed)
  <2>1. Good(i)
    BY <1>2 DEF FrameInv
  <2> QED
    BY <1>1, <1>2, <2>1 DEF Good, Ended
<1>3. CASE i = Len(pushed) + 1
  BY <1>3
<1> QED
  BY <1>1, <1>2, <1>3

LEMMA StartFrame ==
  ASSUME Inv, BoardInv, AvantInv, FrameInv, ReadHeader \/ ReadBody PROVE FrameInv'
<1> SUFFICES ASSUME ~rthrew PROVE (Regular' \/ Irregular') /\ \A i \in 1..Len(pushed') : Good(i)'
  BY DEF FrameInv, ReadHeader, ReadBody, Read, Start
<1>0. /\ UNCHANGED <<sent, net, link, trigs, pushed, head, reported>> /\ taken' = <<>>
      /\ Len(taken') = 0 /\ Base' = Base /\ want' \in Nat
  BY NoByte, PacketSize, BoardAssumption DEF ReadHeader, ReadBody, Read, Start, cvars, bvars, Base
<1>1. \A i \in 1..Len(pushed') : Good(i)'
  BY <1>0, GoodKept
<1>2. CASE Irregular
  BY <1>0, <1>1, <1>2 DEF Irregular, Ended
<1>3. CASE Regular /\ ReadHeader
  <2>1. rpc' = "header" /\ want' = H
    BY <1>3 DEF ReadHeader, Read, Start
  <2> QED
    BY <1>0, <1>1, <1>3, <2>1, PacketSize DEF Regular
<1>4. CASE Regular /\ ReadBody
  <2>1. rpc = "length" /\ rpc' = "body"
    BY <1>4 DEF ReadBody
  <2>2. Len(head) = H /\ Runs(head, Base) /\ Len(reported) = Base + H /\ head \in Seq(Byte)
    BY <1>4, <2>1 DEF Regular, AvantInv
  <2>3. Base + H <= Len(sent)
    BY <2>2, ReadSoFar, BaseNat, PacketSize
  <2>4. HeaderOf(head) = {Len(pushed) + 1}
    BY <2>2, <2>3, BaseNat, WholeHeader DEF Base
  <2>5. want' = B
    BY <1>4, <2>4 DEF ReadBody, Read, Start
  <2> QED
    BY <1>0, <1>1, <1>4, <2>1, <2>2, <2>5, PacketSize DEF Regular
<1> QED
  BY <1>1, <1>2, <1>3, <1>4 DEF FrameInv

LEMMA ReceiveFrame ==
  ASSUME Inv, BoardInv, AvantInv, FrameInv, Receiving PROVE FrameInv'
<1> SUFFICES ASSUME ~rthrew PROVE (Regular' \/ Irregular') /\ \A i \in 1..Len(pushed') : Good(i)'
  BY DEF FrameInv, Receiving, RecvAll
<1>0. /\ UNCHANGED <<sent, link, trigs, pushed, head, reported, rpc>> /\ net # <<>> /\ want \in Nat
      /\ Base' = Base
  BY DEF Receiving, RecvAll, bvars, avars, Base, Inv, TInv, TypeOK
<1>1. \A i \in 1..Len(pushed') : Good(i)'
  BY <1>0, GoodKept
<1>2. Regular
  BY <1>0 DEF FrameInv, Irregular, Ended
<1>3. PICK k \in 1..Min({want, Len(net)}) :
        taken' = taken \o SubSeq(net, 1, k) /\ want' = want - k
  BY DEF Receiving, RecvAll
<1>4. Len(taken') + want' = Len(taken) + want
  <2>1. net \in Seq(Byte) /\ Len(net) \in Nat /\ taken \in Seq(Byte) /\ Len(taken) \in Nat
    BY Facts DEF Inv, TInv
  <2>2. k \in Nat /\ k <= Len(net)
    <3>1. Min({want, Len(net)}) \in Nat /\ Min({want, Len(net)}) <= Len(net)
      BY <1>0, <2>1, MinOfTwo
    <3> QED
      BY <2>1, <3>1
  <2>3. SubSeq(net, 1, k) \in Seq(Byte) /\ Len(SubSeq(net, 1, k)) = k
    BY <2>1, <2>2, Split
  <2>4. Len(taken') = Len(taken) + k
    BY <1>3, <2>1, <2>3, Cat
  <2> QED
    BY <1>0, <1>3, <2>1, <2>2, <2>4
<1> QED
  BY <1>0, <1>1, <1>2, <1>4 DEF Regular

\* A read returns: all it asked for, or what there was before the end of the stream.
LEMMA Returned ==
  ASSUME Inv, ReadDone \/ ReadEof
  PROVE  /\ UNCHANGED <<sent, net, link, rthrew>> /\ taken' = <<>> /\ want' = 0
         /\ Len(reported') = Len(reported) + Len(taken)
         /\ ~rthrew => want = 0 \/ (want > 0 /\ Ended)
<1>1. /\ UNCHANGED <<sent, net, link, rthrew>> /\ taken' = <<>> /\ want' = 0
      /\ reported' = reported \o SubSeq(taken, 1, Len(taken))
      /\ want = 0 \/ AtEnd
  BY DEF ReadDone, ReadEof, Return, cvars
<1>2. reported \in Seq(Byte) /\ taken \in Seq(Byte) /\ Len(taken) \in Nat
  BY Facts DEF Inv, TInv
<1>3. SubSeq(taken, 1, Len(taken)) \in Seq(Byte) /\ Len(SubSeq(taken, 1, Len(taken))) = Len(taken)
  BY <1>2, Split
<1>4. Len(reported') = Len(reported) + Len(taken)
  BY <1>1, <1>2, <1>3, Cat
<1> QED
  BY <1>1, <1>4 DEF AtEnd, Ended

LEMMA HeaderFrame ==
  ASSUME Inv, BoardInv, AvantInv, FrameInv, HeaderRead PROVE FrameInv'
<1> SUFFICES ASSUME ~rthrew PROVE (Regular' \/ Irregular') /\ \A i \in 1..Len(pushed') : Good(i)'
  BY Returned DEF FrameInv, HeaderRead
<1>0. /\ rpc = "header" /\ rpc' = "length" /\ head' = taken /\ head = <<>> /\ Len(head) = 0
      /\ UNCHANGED <<trigs, pushed>> /\ Base' = Base
      /\ UNCHANGED <<sent, net, link>> /\ taken' = <<>>
      /\ Len(reported') = Len(reported) + Len(taken)
      /\ want = 0 \/ (want > 0 /\ Ended)
  BY NoByte, Returned DEF HeaderRead, bvars, AvantInv, Base
<1>1. \A i \in 1..Len(pushed') : Good(i)'
  BY <1>0, GoodKept
<1>2. /\ Len(reported) \in Nat /\ Len(taken) \in Nat /\ Len(sent) \in Nat /\ want \in Nat
      /\ Ended => Len(reported) + Len(taken) = Len(sent)
      /\ Runs(taken, Len(reported)) /\ Base \in Nat
  BY ReadSoFar, BaseNat
<1>3. CASE Irregular
  BY <1>0, <1>1, <1>3 DEF Irregular, Ended
<1>4. CASE Regular
  <2>1. Len(reported) = Base /\ Len(taken) + want = H
    BY <1>0, <1>2, <1>4 DEF Regular
  <2>2. CASE want = 0
    <3>1. Len(taken) = H /\ Runs(taken, Base) /\ Len(reported') = Base + Len(taken)
      BY <1>0, <1>2, <2>1, <2>2
    <3>2. Regular'
      BY <1>0, <3>1 DEF Regular
    <3> QED
      BY <1>1, <3>2
  <2>3. CASE want > 0 /\ Ended
    <3>1. Len(sent) < Base + P /\ ~(Base > Len(sent))
      BY <1>2, <2>1, <2>3, PacketSize
    <3>2. Irregular'
      BY <1>0, <2>3, <3>1 DEF Irregular, Ended
    <3> QED
      BY <1>1, <3>2
  <2> QED
    BY <1>0, <2>2, <2>3
<1> QED
  BY <1>3, <1>4 DEF FrameInv

LEMMA PushFrame ==
  ASSUME Inv, BoardInv, AvantInv, FrameInv, Push PROVE FrameInv'
<1> SUFFICES ASSUME ~rthrew PROVE (Regular' \/ Irregular') /\ \A i \in 1..Len(pushed') : Good(i)'
  BY Returned DEF FrameInv, Push
<1>0. /\ rpc = "body" /\ rpc' = "loop" /\ head' = <<>> /\ Len(head') = 0
      /\ pushed' = Append(pushed, Fragment) /\ UNCHANGED trigs
      /\ UNCHANGED <<sent, net, link>> /\ taken' = <<>>
      /\ Len(reported') = Len(reported) + Len(taken)
      /\ want = 0 \/ (want > 0 /\ Ended)
  BY NoByte, Returned DEF Push, bvars
<1>1. /\ Len(reported) \in Nat /\ Len(taken) \in Nat /\ Len(sent) \in Nat /\ want \in Nat
      /\ taken \in Seq(Byte) /\ Len(reported) + Len(taken) <= Len(sent)
      /\ Ended => Len(reported) + Len(taken) = Len(sent)
      /\ Runs(taken, Len(reported))
  BY ReadSoFar
<1>2. /\ Base \in Nat /\ Len(pushed) \in Nat /\ Base = Len(pushed) * P
      /\ (Len(pushed) + 1) * P = Base + P
      /\ Base + H <= Len(sent) => Len(pushed) + 1 \in 1..Len(trigs)
  BY BaseNat
<1>3. /\ Fragment \in Fragments /\ Fragment.bytes = head \o taken
      /\ head \in Seq(Byte) /\ Len(head) \in Nat
  BY FragmentTyped, LenProperties DEF AvantInv
<1>4. /\ Len(pushed') = Len(pushed) + 1 /\ pushed'[Len(pushed) + 1] = Fragment
      /\ Base' = Base + P
  <2>1. Len(pushed') = Len(pushed) + 1 /\ pushed'[Len(pushed) + 1] = Fragment
    BY <1>0, <1>3, AppendProperties DEF AvantInv
  <2> QED
    BY <1>2, <2>1 DEF Base
<1>n. PICK n \in Nat : n = Len(pushed) + 1
  BY <1>2
<1>5. ASSUME /\ Base + P <= Len(sent) =>
                  n \in 1..Len(trigs) /\ Fragment.trig = {trigs[n]} /\ Fragment.bytes = Packet(n)
             /\ Base + P > Len(sent) => Ended
             /\ Base + P > Len(sent) + P => Fragment.bytes = <<>>
      PROVE  Good(n)'
  <2>1. n * P = Base + P /\ pushed'[n] = Fragment
    BY <1>2, <1>4, <1>n
  <2> QED
    BY <1>0, <1>5, <2>1 DEF Good, Ended, Packet
<1>6. CASE Irregular
  <2>1. Ended /\ Len(sent) < Base + P /\ (Base > Len(sent) => head = <<>> /\ taken = <<>>)
    BY <1>6 DEF Irregular
  <2>2. Good(n)'
    <3>1. <<>> \o <<>> = <<>>
      OBVIOUS
    <3> QED
      BY <1>1, <1>2, <1>3, <1>5, <2>1, <3>1, PacketSize
  <2>3. Irregular'
    BY <1>0, <1>1, <1>2, <1>4, <2>1, PacketSize DEF Irregular, Ended
  <2> QED
    BY <1>0, <1>3, <2>2, <2>3, <1>n, GoodMore
<1>7. CASE Regular
  <2>1. Len(head) = H /\ Len(taken) + want = B /\ Len(reported) = Base + H /\ Runs(head, Base)
    BY <1>0, <1>7 DEF Regular
  <2>2. Base + H <= Len(sent)
    BY <1>1, <1>2, <2>1, PacketSize
  <2>3. CASE want = 0
    <3>0. Len(taken) = B /\ P = H + B /\ H \in Nat /\ B \in Nat
      BY <1>1, <2>1, <2>3, PacketSize
    <3>0a. Len(reported) + Len(taken) = Base + P
      BY <1>2, <2>1, <3>0
    <3>1. Len(taken) = B /\ Base + P <= Len(sent) /\ Len(reported') = Base + P
      BY <1>0, <1>1, <3>0, <3>0a
    <3>2. Fragment.trig = {trigs[n]}
      <4>1. HeaderOf(head) = {n}
        BY <1>2, <1>3, <1>n, <2>1, <2>2, WholeHeader
      <4> QED
        BY <4>1 DEF Fragment
    <3>3. Fragment.bytes = Packet(n)
      <4>1. Packet(n) \in Seq(Byte) /\ Len(Packet(n)) = P /\ Runs(Packet(n), Base)
        BY <1>2, <1>n, <2>2, PacketRun
      <4>2. head \o taken \in Seq(Byte) /\ Len(head \o taken) = P
        BY <1>1, <1>3, <2>1, <3>1, Cat, PacketSize
      <4>3. Runs(head \o taken, Base)
        BY <1>1, <1>2, <1>3, <2>1, RunsCat
      <4> QED
        BY <1>3, <4>1, <4>2, <4>3, SameRun
    <3>4. Good(n)'
      BY <1>1, <1>2, <1>5, <1>n, <2>2, <3>1, <3>2, <3>3, PacketSize
    <3>5. Regular'
      <4>0. Base + P \in Nat
        <5>1. Base \in Nat /\ P \in Nat
          BY <1>2, PacketSize
        <5> QED
          BY <5>1
      <4>1. Len(reported') = Base' + Len(head')
        <5>1. Len(head') = 0 /\ Base' = Base + P /\ Len(reported') = Base + P
          BY <1>0, <1>4, <3>1
        <5> QED
          BY <4>0, <5>1
      <4>2. Runs(head', Base')
        BY <1>0, NoByte
      <4> QED
        BY <1>0, <4>1, <4>2 DEF Regular
    <3> QED
      BY <1>0, <1>3, <3>4, <3>5, <1>n, GoodMore
  <2>4. CASE want > 0 /\ Ended
    <3>1. Len(sent) < Base + P /\ ~(Base > Len(sent))
      BY <1>1, <1>2, <2>1, <2>4, PacketSize
    <3>2. Good(n)'
      BY <1>1, <1>2, <1>5, <2>4, <3>1, PacketSize
    <3>3. Irregular'
      BY <1>0, <1>1, <1>2, <1>4, <2>4, <3>1, PacketSize DEF Irregular, Ended
    <3> QED
      BY <1>0, <1>3, <3>2, <3>3, <1>n, GoodMore
  <2> QED
    BY <1>0, <2>3, <2>4
<1> QED
  BY <1>6, <1>7 DEF FrameInv

LEMMA FrameStep == LinkInv /\ LinkInv' /\ FrameInv /\ [LinkNext]_vars => FrameInv'
<1> SUFFICES ASSUME LinkInv, LinkInv', FrameInv, [LinkNext]_vars PROVE FrameInv'
  OBVIOUS
<1>0. /\ Inv /\ BoardInv /\ AvantInv /\ sent \in Seq(Byte) /\ Len(sent) \in Nat
      /\ Len(sent') \in Nat /\ Len(trigs) \in Nat
  BY Facts, LenProperties DEF LinkInv, Inv, TInv, BoardInv
<1>1. CASE Board \/ (Cut /\ UNCHANGED <<bvars, avars>>) \/ UNCHANGED vars
  <2>1. UNCHANGED <<rvars, avars, rthrew>>
    BY <1>1 DEF Board, LoseTrig, WritePacket, Write, Begin, Sending, SendSome, SendNothing,
       CallReturns, SendAllDone, WriteThrows, SendThrows, CloseSocket, Close, Cut, tcpvars, vars
  <2>2. Len(sent) <= Len(sent') /\ (Ended => sent' = sent)
    <3>1. CASE SendSome
      <4>1. PICK k \in DOMAIN left : sent' = sent \o SubSeq(left, 1, k)
        BY <3>1 DEF SendSome
      <4>2. left \in Seq(Byte) /\ k \in 0..Len(left)
        BY <1>0, Facts, LenProperties DEF Inv, TInv
      <4>3. SubSeq(left, 1, k) \in Seq(Byte)
        BY <4>2, Split
      <4>4. Len(sent') = Len(sent) + Len(SubSeq(left, 1, k)) /\ Len(SubSeq(left, 1, k)) \in Nat
        BY <1>0, <4>1, <4>3, Cat
      <4>5. ~Ended
        BY <3>1 DEF SendSome, Ended
      <4> QED
        BY <1>0, <4>4, <4>5
    <3>2. CASE ~SendSome
      <4>1. sent' = sent
        BY <1>1, <3>2 DEF Board, LoseTrig, WritePacket, Write, Begin, Sending, SendNothing,
           CallReturns, SendAllDone, WriteThrows, SendThrows, CloseSocket, Close, Cut, cvars,
           tcpvars, vars
      <4> QED
        BY <1>0, <4>1
    <3> QED
      BY <3>1, <3>2
  <2>3. Ended => Ended'
    BY <1>1 DEF Board, LoseTrig, WritePacket, Write, Begin, Sending, SendSome, SendNothing,
       CallReturns, SendAllDone, WriteThrows, SendThrows, CloseSocket, Close, Cut, cvars,
       tcpvars, vars, Ended
  <2>4. trigs' = trigs \/ trigs' = Append(trigs, trig)
    BY <1>1 DEF Board, LoseTrig, WritePacket, Sending, CallReturns, WriteThrows, CloseSocket, bvars, vars
  <2>5. \A i \in 1..Len(trigs) : i \in 1..Len(trigs') /\ trigs'[i] = trigs[i]
    <3>1. trigs \in Seq(Nat) /\ trig \in Nat
      BY <1>0 DEF BoardInv
    <3>2. CASE trigs' = Append(trigs, trig)
      BY <1>0, <3>1, <3>2, AppendProperties
    <3> QED
      BY <2>4, <3>2
  <2> QED
    BY <1>0, <2>1, <2>2, <2>3, <2>5, FrameBoard
<1>2. CASE ReadThrows
  BY <1>2 DEF ReadThrows, RecvThrows, FrameInv
<1> QED
  BY <1>0, <1>1, <1>2, StartFrame, ReceiveFrame, HeaderFrame, PushFrame DEF LinkNext, Avant

LEMMA FrameInvariant == LinkSpec => [](LinkInv /\ FrameInv)
<1>1. Init => LinkInv /\ FrameInv
  <2> SUFFICES ASSUME Init PROVE LinkInv /\ FrameInv
    OBVIOUS
  <2>1. Len(<<>>) = 0 /\ 0 * P = 0
    BY Times
  <2>2. pushed = <<>> /\ head = <<>> /\ reported = <<>> /\ rpc = "loop"
    BY DEF Init, TcpInit
  <2>3. Base = 0 /\ Len(pushed) = 0 /\ Len(head) = 0 /\ Len(reported) = 0
    BY <2>1, <2>2 DEF Base
  <2>4. Regular
    BY <2>2, <2>3, NoByte DEF Regular
  <2>5. FrameInv
    BY <2>3, <2>4 DEF FrameInv
  <2> QED
    BY <2>5, LinkInit DEF LinkInv
<1>2. LinkInv /\ FrameInv /\ [LinkNext]_vars => LinkInv' /\ FrameInv'
  BY LinkStep, FrameStep
<1> QED
  BY <1>1, <1>2, PTL DEF LinkSpec

\* As long as no read of the avant throws, each packet that reached the connection
\* whole is one fragment, with its trigger number, the numbers increase, and at most
\* one fragment behind them has anything in it, however the bytes were split and
\* whether the board went on, closed or lost the connection (dtarecbe.cxx:91-121,
\* drecbe.cxx:150-204).
THEOREM PacketsWhole == LinkSpec => []FramesWhole
<1>1. ASSUME LinkInv, FrameInv PROVE FramesWhole
  <2> SUFFICES ASSUME ~rthrew, NEW i \in DOMAIN pushed
               PROVE  IF i * P <= Len(sent)
                        THEN /\ pushed[i] = [trig |-> {trigs[i]}, bytes |-> Packet(i)]
                             /\ \A j \in 1..(i - 1) : trigs[j] < trigs[i]
                        ELSE i * P > Len(sent) + P => pushed[i].bytes = <<>>
    BY DEF FramesWhole
  <2>1. pushed \in Seq(Fragments) /\ BoardInv
    BY <1>1 DEF LinkInv, AvantInv
  <2>2. i \in 1..Len(pushed) /\ pushed[i] \in Fragments
    BY <2>1, LenProperties, BytesOf
  <2>3. Good(i)
    BY <1>1, <2>2 DEF FrameInv
  <2>4. ASSUME i * P <= Len(sent)
        PROVE  /\ pushed[i] = [trig |-> {trigs[i]}, bytes |-> Packet(i)]
               /\ \A j \in 1..(i - 1) : trigs[j] < trigs[i]
    <3>1. i \in 1..Len(trigs) /\ pushed[i].trig = {trigs[i]} /\ pushed[i].bytes = Packet(i)
      BY <2>3, <2>4 DEF Good
    <3>2. \A x \in Fragments : x = [trig |-> x.trig, bytes |-> x.bytes]
      BY DEF Fragments
    <3> QED
      BY <2>1, <2>2, <3>1, <3>2 DEF BoardInv
  <2> QED
    BY <2>3, <2>4 DEF Good
<1> QED
  BY <1>1, FrameInvariant, PTL
=============================================================================
