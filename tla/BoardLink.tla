------------------------------ MODULE BoardLink ------------------------------
(***************************************************************************)
(* A front-end board (the emulator drecbe.cxx) and the thread that reads   *)
(* it (DTArecbe::st_running in dtarecbe.cxx), over the connection of       *)
(* TcpBuffer.  The i-th packet of the board is the bytes (i-1)*P+1 .. i*P: *)
(* a header of H bytes, which holds the trigger number and the length of   *)
(* the body, and a body of B bytes.                                        *)
(***************************************************************************)
EXTENDS TcpBuffer

CONSTANTS H, B,       \* sizeof(struct recbe_header), and of a body
          Junk,       \* lengths found where no header is
          MaxTrig,    \* bound: triggers
          MaxPush     \* bound: fragments pushed

ASSUME BoardAssumption ==
  /\ H \in Nat \ {0} /\ B \in Nat /\ Junk \subseteq Nat
  /\ MaxTrig \in Nat /\ MaxPush \in Nat

VARIABLES
  bpc,      \* the board: "trig" (get_trig), "write", "caught" (an exception or
            \* a bad socket), "close", "accept" (waits for another connection)
  trig,     \* the next trigger
  trigs,    \* history: the triggers of the packets written
  rpc,      \* the reader: "loop", "header", "length" (header read), "body"
  head,     \* what it has read of a header
  pushed    \* the fragments it has pushed to the builder

bvars == <<bpc, trig, trigs>>
avars == <<rpc, head, pushed>>
vars == <<tcpvars, bvars, avars>>

P == H + B
Packet(i) == Bytes((i - 1) * P, i * P)
\* The packet whose header the bytes h are, if there is one.
HeaderOf(h) == {i \in DOMAIN trigs : h = SubSeq(Packet(i), 1, H)}

Init == TcpInit /\ bpc = "trig" /\ trig = 0 /\ trigs = <<>>
        /\ rpc = "loop" /\ head = <<>> /\ pushed = <<>>

(***************************************************************************)
(* send_data                                                               *)
(***************************************************************************)
\* get_trig: the trigger is lost on purpose, or missed by the subscription.
LoseTrig ==
  /\ bpc = "trig" /\ ~bad /\ trig < MaxTrig
  /\ trig' = trig + 1
  /\ UNCHANGED <<tcpvars, bpc, trigs, avars>>

WritePacket ==
  /\ bpc = "trig" /\ ~bad /\ trig < MaxTrig
  /\ Write(P)
  /\ bpc' = "write" /\ trig' = trig + 1 /\ trigs' = Append(trigs, trig)
  /\ UNCHANGED avars

Sending == (SendSome \/ SendNothing) /\ UNCHANGED <<bvars, avars>>

CallReturns ==
  /\ SendAllDone
  /\ bpc' = IF wop' # "none" THEN bpc ELSE IF bpc = "write" THEN "trig" ELSE "accept"
  /\ UNCHANGED <<trig, trigs, avars>>

\* The handler catches what write throws.
WriteThrows == SendThrows /\ bpc' = "caught" /\ UNCHANGED <<trig, trigs, avars>>

\* After an exception, and when good() is false, the board closes the connection; it
\* then waits in accept for one that the reader never makes.
CloseSocket ==
  /\ bpc = "caught" \/ (bpc = "trig" /\ bad)
  /\ Close
  /\ bpc' = "close"
  /\ UNCHANGED <<trig, trigs, avars>>

(***************************************************************************)
(* The loop of st_running                                                  *)
(***************************************************************************)
ReadHeader ==
  /\ rpc = "loop" /\ Len(pushed) < MaxPush
  /\ Read(H)
  /\ rpc' = "header"
  /\ UNCHANGED <<bvars, head, pushed>>

\* The count of a read is not looked at: at the end of the stream the read returns
\* early.
HeaderRead ==
  /\ rpc = "header" /\ (ReadDone \/ ReadEof)
  /\ rpc' = "length" /\ head' = taken
  /\ UNCHANGED <<bvars, pushed>>

ReadBody ==
  /\ rpc = "length"
  /\ \E n \in (IF HeaderOf(head) # {} THEN {B} ELSE Junk) : Read(n)
  /\ rpc' = "body"
  /\ UNCHANGED <<bvars, head, pushed>>

\* What has been read, be it a packet or not, becomes a fragment.
Fragment == [trig |-> {trigs[i] : i \in HeaderOf(head)}, bytes |-> head \o taken]
\* A loop that fetches a header only once.
Push_sameheader ==
  /\ rpc = "body" /\ (ReadDone \/ ReadEof) /\ Len(pushed) < MaxPush
  /\ pushed' = Append(pushed, Fragment)
  /\ rpc' = "length"
  /\ UNCHANGED <<bvars, head>>

Push ==
  /\ rpc = "body" /\ (ReadDone \/ ReadEof)
  /\ pushed' = Append(pushed, Fragment)
  /\ rpc' = "loop" /\ head' = <<>>
  /\ UNCHANGED bvars

\* Nothing but get fills the buffer, so read never looks into it.
Receiving == RecvAll /\ UNCHANGED <<bvars, avars>>

\* An exception ends st_running, which the state machine calls again: the next
\* header is read from where the stream happens to be.
ReadThrows == RecvThrows /\ rpc' = "loop" /\ head' = <<>> /\ UNCHANGED <<bvars, pushed>>

Board == LoseTrig \/ WritePacket \/ Sending \/ CallReturns \/ WriteThrows \/ CloseSocket
Avant == ReadHeader \/ HeaderRead \/ ReadBody \/ Push \/ Receiving \/ ReadThrows

LinkNext == Board \/ Avant \/ (Cut /\ UNCHANGED <<bvars, avars>>)

LinkSpec == Init /\ [][LinkNext]_vars
-----------------------------------------------------------------------------
\* As long as no read of the avant has thrown, the packets that reached the
\* connection whole are the first fragments, each exactly one packet with its trigger
\* number, and these numbers increase: what the event builder takes for granted
\* (EventBuilder's Receive).  Behind them, at most one fragment has anything in it:
\* when the board closes, the avant goes on pushing empty fragments with whatever its
\* buffer holds for a number.
FramesWhole ==
  ~rthrew => \A i \in DOMAIN pushed :
    IF i * P <= Len(sent)
      THEN /\ pushed[i] = [trig |-> {trigs[i]}, bytes |-> Packet(i)]
           /\ \A j \in 1..(i - 1) : trigs[j] < trigs[i]
      ELSE i * P > Len(sent) + P => pushed[i].bytes = <<>>

\* Whatever happens to the connection, and however misaligned the avant reads after an
\* exception, no byte of the board is in two fragments and none overtakes another.
BytesOnce ==
  \A f, g \in DOMAIN pushed : \A i \in DOMAIN pushed[f].bytes, j \in DOMAIN pushed[g].bytes :
    f < g \/ (f = g /\ i < j) => pushed[f].bytes[i] < pushed[g].bytes[j]
=============================================================================
