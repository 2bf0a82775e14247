------------------------------ MODULE TcpBuffer ------------------------------
(***************************************************************************)
(* kol/koltcp.cpp: a buffered writer and a buffered reader at the two ends *)
(* of one TCP connection.  The n-th byte that the writer's program hands   *)
(* over is the number n.  A call of the class goes through several steps,  *)
(* one for each send or recv of the socket (kol/kolsocket.cpp), which may  *)
(* pass fewer bytes than asked for, fail with an exception, or find the    *)
(* connection closed.                                                      *)
(***************************************************************************)
EXTENDS Naturals, Sequences, SequencesExt, FiniteSetsExt

CONSTANTS SbufMax, RbufMax,   \* bufsize, at either end
          Newlines,           \* the bytes that are line feeds
          Lens,               \* lengths given to write, read, ignore, getline
          MaxBytes,           \* bound: bytes written
          MaxSent             \* bound: bytes sent, repetitions included

ASSUME TcpAssumption ==
  /\ SbufMax \in Nat \ {0} /\ RbufMax \in Nat \ {0}
  /\ Lens \subseteq Nat \ {0}
  /\ MaxBytes \in Nat /\ MaxSent \in Nat

VARIABLES
  \* the writing end
  offered,    \* bytes handed to put and write
  sbuf,       \* m_sbuf[0 .. m_sbufnxt)
  wop,        \* the call under way: "none", "put", "write", "flush", "close"
  left,       \* what send_all has still to send
  arg,        \* the bytes of the call that wait for the flush to end
  bad,        \* badbit of the writer
  \* the connection
  sent,       \* history: bytes the socket has accepted
  net,        \* those not yet received
  link,       \* "up"; "shut" (closed by the writer); "cut" (broken)
  \* the reading end
  rbuf,       \* m_rbuf[m_rbufnxt .. m_rbuflen)
  rfull,      \* m_rbuflen # 0
  rop,        \* the call under way: "none", "all" (recv_all), "get" (a loop of
              \* get), "line" (getline)
  want,       \* bytes it has still to get
  taken,      \* bytes it has put into the caller's buffer
  reported,   \* history: bytes that gcount told the reader's program of
  \* exceptions
  sthrew,     \* history: a send threw although the connection went on
  rthrew      \* history: a recv threw

wvars == <<offered, sbuf, wop, left, arg, bad>>
cvars == <<sent, net, link>>
rvars == <<rbuf, rfull, rop, want, taken, reported>>
tcpvars == <<wvars, cvars, rvars, sthrew, rthrew>>

\* The bytes m+1 .. n.
Bytes(m, n) == [i \in 1..(n - m) |-> m + i]

TcpInit ==
  /\ offered = 0 /\ sbuf = <<>> /\ wop = "none" /\ left = <<>> /\ arg = <<>> /\ bad = FALSE
  /\ sent = <<>> /\ net = <<>> /\ link = "up"
  /\ rbuf = <<>> /\ rfull = FALSE /\ rop = "none" /\ want = 0 /\ taken = <<>>
  /\ reported = <<>>
  /\ sthrew = FALSE /\ rthrew = FALSE

(***************************************************************************)
(* The writing end                                                         *)
(***************************************************************************)
Begin(op, n) ==
  /\ wop = "none" /\ link # "shut" /\ offered + n <= MaxBytes
  /\ wop' = op /\ left' = sbuf /\ arg' = Bytes(offered, offered + n)
  /\ offered' = offered + n
  /\ UNCHANGED <<sbuf, bad, cvars, rvars, sthrew, rthrew>>

\* A byte that finds room; and a test that is one off.
PutByte_late ==
  /\ wop = "none" /\ link # "shut" /\ offered < MaxBytes /\ Len(sbuf) <= SbufMax
  /\ offered' = offered + 1 /\ sbuf' = Append(sbuf, offered + 1)
  /\ UNCHANGED <<wop, left, arg, bad, cvars, rvars, sthrew, rthrew>>

\* A byte that finds room; it is dropped when the writer is bad.
PutByte ==
  /\ wop = "none" /\ link # "shut" /\ offered < MaxBytes /\ Len(sbuf) < SbufMax
  /\ offered' = offered + 1
  /\ sbuf' = IF bad THEN sbuf ELSE Append(sbuf, offered + 1)
  /\ UNCHANGED <<wop, left, arg, bad, cvars, rvars, sthrew, rthrew>>

Put == PutByte \/ (Len(sbuf) >= SbufMax /\ Begin("put", 1))
Write(n) == Begin("write", n)
Flush == sbuf # <<>> /\ Begin("flush", 0)
Close == Begin("close", 0)

\* send accepts some of what is left.
SendSome ==
  /\ left # <<>> /\ link = "up"
  /\ \E k \in DOMAIN left :
       /\ Len(sent) + k <= MaxSent
       /\ sent' = sent \o SubSeq(left, 1, k)
       /\ net' = net \o SubSeq(left, 1, k)
       /\ left' = SubSeq(left, k + 1, Len(left))
  /\ UNCHANGED <<offered, sbuf, wop, arg, bad, link, rvars, sthrew, rthrew>>

\* send accepts nothing: send_all gives up.
SendNothing ==
  /\ left # <<>> /\ link = "up"
  /\ bad' = TRUE /\ left' = <<>>
  /\ UNCHANGED <<offered, sbuf, wop, arg, cvars, rvars, sthrew, rthrew>>

\* send throws: the connection is broken, or a signal or a time limit has
\* interrupted the call.  Nothing is cleaned up on the way out.
SendThrows ==
  /\ left # <<>>
  /\ wop' = "none" /\ left' = <<>> /\ arg' = <<>>
  /\ sthrew' = (sthrew \/ link = "up")
  /\ UNCHANGED <<offered, sbuf, bad, cvars, rvars, rthrew>>

\* m_sbufnxt = 0 behind send_all; and the same forgotten.
Reset_kept == sbuf
Reset == <<>>

\* send_all returns: the buffer is empty, and the call goes on.
SendAllDone ==
  /\ wop # "none" /\ left = <<>>
  /\ \/ /\ wop = "write" /\ arg # <<>>
        /\ left' = arg /\ arg' = <<>> /\ sbuf' = Reset
        /\ UNCHANGED <<wop, link>>
     \/ /\ wop = "put"
        /\ sbuf' = IF bad THEN Reset ELSE Reset \o arg
        /\ arg' = <<>> /\ wop' = "none"
        /\ UNCHANGED <<left, link>>
     \/ /\ wop = "close"
        /\ link' = IF link = "up" THEN "shut" ELSE link
        /\ sbuf' = Reset /\ wop' = "none"
        /\ UNCHANGED <<left, arg>>
     \/ /\ wop = "flush" \/ (wop = "write" /\ arg = <<>>)
        /\ sbuf' = Reset /\ wop' = "none"
        /\ UNCHANGED <<left, arg, link>>
  /\ UNCHANGED <<offered, bad, sent, net, rvars, sthrew, rthrew>>

Writer == SendSome \/ SendNothing \/ SendThrows \/ SendAllDone

(***************************************************************************)
(* The connection breaks: what was under way is lost.                      *)
(***************************************************************************)
Cut ==
  /\ link = "up" /\ link' = "cut" /\ net' = <<>>
  /\ UNCHANGED <<wvars, sent, rvars, sthrew, rthrew>>

(***************************************************************************)
(* The reading end                                                         *)
(***************************************************************************)
Start(op, n) ==
  /\ rop = "none"
  /\ rop' = op /\ want' = n /\ taken' = <<>>
  /\ UNCHANGED <<wvars, cvars, rbuf, rfull, reported, sthrew, rthrew>>

\* read goes past the buffer if that is empty since the last end of file, or since
\* the start; and if it does so whatever is in the buffer.
Read_past(n) == Start("all", n)
Read(n) == Start(IF rfull THEN "get" ELSE "all", n)
Ignore(n) == Start("get", n)
\* A line and its end, or as many bytes as fit before a terminating 0.
Getline(n) == Start("line", n - 1)

\* recv_all: as much as has arrived.
RecvAll ==
  /\ rop = "all" /\ want > 0 /\ net # <<>>
  /\ \E k \in 1..Min({want, Len(net)}) :
       /\ taken' = taken \o SubSeq(net, 1, k)
       /\ net' = SubSeq(net, k + 1, Len(net))
       /\ want' = want - k
  /\ UNCHANGED <<wvars, sent, link, rbuf, rfull, rop, reported, sthrew, rthrew>>

\* get with an empty buffer: refill it.
Refill ==
  /\ rop \in {"get", "line"} /\ want > 0 /\ rbuf = <<>> /\ net # <<>>
  /\ \E k \in 1..Min({RbufMax, Len(net)}) :
       /\ rbuf' = SubSeq(net, 1, k)
       /\ net' = SubSeq(net, k + 1, Len(net))
  /\ rfull' = TRUE
  /\ UNCHANGED <<wvars, sent, link, rop, want, taken, reported, sthrew, rthrew>>

\* get: the next byte of the buffer.  getline stops behind a line feed.
Get ==
  /\ rop \in {"get", "line"} /\ want > 0 /\ rbuf # <<>>
  /\ taken' = Append(taken, Head(rbuf)) /\ rbuf' = Tail(rbuf)
  /\ want' = IF rop = "line" /\ Head(rbuf) \in Newlines THEN 0 ELSE want - 1
  /\ UNCHANGED <<wvars, cvars, rfull, rop, reported, sthrew, rthrew>>

\* recv returns 0: the writer has closed and everything has been received, or an
\* exception has already told of the break.
AtEnd == want > 0 /\ net = <<>> /\ (link = "shut" \/ (link = "cut" /\ rthrew))

\* The call returns and reports the first n bytes.
Return(n) ==
  /\ rop' = "none" /\ want' = 0 /\ taken' = <<>>
  /\ reported' = reported \o SubSeq(taken, 1, n)
  /\ UNCHANGED <<wvars, cvars, rbuf, sthrew>>

ReadDone == rop # "none" /\ want = 0 /\ Return(Len(taken)) /\ UNCHANGED <<rfull, rthrew>>

ReadEof ==
  /\ rop # "none" /\ AtEnd /\ (rop = "all" \/ rbuf = <<>>)
  /\ Return(Len(taken))
  /\ rfull' = (rfull /\ rop = "all")
  /\ UNCHANGED rthrew

\* recv throws: m_gcount is what the last get has set, or 0, whatever has been put
\* into the caller's buffer.
RecvThrows ==
  /\ rop # "none" /\ want > 0 /\ link # "shut" /\ (rop = "all" \/ rbuf = <<>>)
  /\ Return(IF rop = "all" \/ taken = <<>> THEN 0 ELSE 1)
  /\ rfull' = (rfull /\ rop = "all")
  /\ rthrew' = TRUE

Reader == RecvAll \/ Refill \/ Get \/ ReadDone \/ ReadEof \/ RecvThrows

\* A program that makes any calls at either end.
Calls ==
  \/ Put \/ Flush \/ Close
  \/ \E n \in Lens : Write(n) \/ Read(n) \/ Ignore(n) \/ Getline(n)

Next == Calls \/ Writer \/ Cut \/ Reader

Spec == TcpInit /\ [][Next]_tcpvars
-----------------------------------------------------------------------------
TypeOK ==
  /\ offered \in 0..MaxBytes
  /\ sbuf \in Seq(1..MaxBytes) /\ Len(sbuf) <= SbufMax
  /\ wop \in {"none", "put", "write", "flush", "close"}
  /\ left \in Seq(1..MaxBytes) /\ arg \in Seq(1..MaxBytes)
  /\ wop = "none" => left = <<>> /\ arg = <<>>
  /\ sent \in Seq(1..MaxBytes) /\ net \in Seq(1..MaxBytes)
  /\ link \in {"up", "shut", "cut"}
  /\ rbuf \in Seq(1..MaxBytes) /\ Len(rbuf) <= RbufMax
  /\ rbuf # <<>> => rfull
  /\ rop \in {"none", "all", "get", "line"}
  /\ want \in Nat /\ taken \in Seq(1..MaxBytes)
  /\ reported \in Seq(1..MaxBytes)
  /\ {bad, rfull, sthrew, rthrew} \subseteq BOOLEAN

\* The connection carries the bytes in the order of the calls, each once, whatever
\* mixture of put, write and flush the program makes and however little each send
\* accepts; and while it is up, what the program has handed over when a call returns
\* is sent or in the buffer.  Unless the writer is bad, or a send was interrupted on a
\* connection that lives on: flush forgets its buffer only behind send_all
\* (koltcp.cpp:273), so the next flush sends its beginning again.
SentInOrder ==
  ~bad /\ ~sthrew =>
    /\ IsPrefix(sent, Bytes(0, offered))
    /\ wop = "none" /\ link = "up" => sent \o sbuf = Bytes(0, offered)

\* Whatever mixture of read, ignore and getline the reader's program makes, and
\* however the bytes arrive, what it is told of is what was sent, from the start and
\* without a gap, until a recv throws: the bytes of that call are lost.
ReadInOrder == ~rthrew => IsPrefix(reported \o (IF rop = "none" THEN <<>> ELSE taken) \o rbuf \o net, sent)
=============================================================================
