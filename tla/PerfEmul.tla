------------------------------ MODULE PerfEmul ------------------------------
(***************************************************************************)
(* soaap_perf.h: the program instrumented for performance emulation (the   *)
(* parent) and the process that it forks to stand for a persistent         *)
(* sandbox, joined by a stream socketpair.  Entering a sandbox and calling *)
(* a callgate send a control message, data, or both; the other process     *)
(* answers with as many bytes as it is asked for.  When main() returns the *)
(* parent closes its end and waits for the sandbox to exit.                *)
(*                                                                         *)
(* A byte is <<h, i>>, the i-th of the Hdr bytes of the control message h, *)
(* or Zero.  Whether the magic was unset is left out: the receiver's test  *)
(* (magic & ~MAGIC) accepts a zero magic as well.  What the sandbox sends  *)
(* back is never looked at: it is a number of bytes.                       *)
(***************************************************************************)
EXTENDS Integers, Sequences

CONSTANTS
  Programs,   \* the programs: each a set of calls [fn, in, out] that the
              \* instrumentation inserted at its sandbox entry points
  MaxCalls,   \* bound: entries and callgate calls in a run
  Hdr,        \* sizeof(struct ctrl_msg)
  Buf,        \* SOAAP_BUF_LEN
  Cap,        \* what the socket buffers of each direction hold
  Garbage     \* lengths that misplaced bytes may be read as

ASSUME SizesAssumption ==
  /\ Hdr \in Nat \ {0} /\ Buf \in Nat /\ Hdr <= Buf
  /\ Cap \in Nat \ {0}
  /\ MaxCalls \in Nat
  /\ Garbage \subseteq Nat /\ Garbage # {}
  /\ \A p \in Programs :
       p \subseteq [fn : {"inout", "out", "in", "none"}, in : Nat, out : Nat]

VARIABLES
  prog,       \* the program that runs
  ppc,        \* what the parent is doing
  chunks,     \* what its write() calls still have to write
  want,       \* bytes it still has to read
  front,      \* the control message at the front of its soaap_buf
  inSandbox,  \* in_sandbox
  calls,      \* calls so far
  spc,        \* what the sandbox is doing
  sbuf,       \* its soaap_buf, which cm points into
  left,       \* its nbytes_left, or the bytes that it still has to send
  toBox,      \* bytes under way to the sandbox
  toParent    \* number of bytes under way to the parent

parent == <<prog, ppc, chunks, want, front, inSandbox, calls>>
sandbox == <<spc, sbuf, left>>
vars == <<parent, sandbox, toBox, toParent>>

Least(a, b) == IF a < b THEN a ELSE b

NoMsg == [op |-> "none", in |-> 0, out |-> 0]
Zero == <<NoMsg, 0>>
Zeros == [i \in 1..Buf |-> Zero]
Bytes(h) == [i \in 1..Hdr |-> <<h, i>>]

(* Overwriting the beginning of a buffer.                                  *)
Into(buf, bytes) == bytes \o SubSeq(buf, Len(bytes) + 1, Len(buf))

(* n bytes out of soaap_buf, in pieces of Buf and a last one.              *)
Pieces(h, n) ==
  LET buf == IF h = NoMsg THEN Zeros ELSE Into(Zeros, Bytes(h))
  IN [i \in 1..((n + Buf - 1) \div Buf) |-> SubSeq(buf, 1, Least(Buf, n - (i - 1) * Buf))]

SendBack(n) == [op |-> "sendback", in |-> 0, out |-> n]
SendReceive(m, n) == [op |-> "sendreceive", in |-> m, out |-> n]

-----------------------------------------------------------------------------
Init ==
  /\ prog \in Programs
  /\ ppc = "idle" /\ chunks = <<>> /\ want = 0 /\ front = NoMsg
  /\ inSandbox = FALSE /\ calls = 0
  /\ spc = "read" /\ sbuf = Zeros /\ left = 0
  /\ toBox = <<>> /\ toParent = 0

(* The parent has cs to write, then n bytes to read.                       *)
Request(cs, n) == ppc' = "writing" /\ chunks' = cs /\ want' = n

(***************************************************************************)
(* soaap_perf_enter_*_persistent_sbox().  The control message of the last  *)
(* variant is an uninitialised local: zeros or one that an earlier call    *)
(* left on the stack.                                                      *)
(***************************************************************************)
EnterDataInOut(m, n) ==
  IF m = 0 /\ n = 0
  THEN ppc' = "inside" /\ UNCHANGED <<chunks, want, front, inSandbox>>
  ELSE /\ Request(Pieces(SendReceive(m, n), Hdr + m), n)
       /\ front' = SendReceive(m, n)
       /\ inSandbox' = TRUE

EnterDataOut(n) ==
  IF n = 0
  THEN ppc' = "inside" /\ UNCHANGED <<chunks, want, front, inSandbox>>
  ELSE Request(<<Bytes(SendBack(n))>>, n) /\ inSandbox' = TRUE /\ UNCHANGED front

EnterDataIn(m) == Request(Pieces(front, m), 0) /\ inSandbox' = TRUE /\ UNCHANGED front

EnterNoData ==
  /\ \E bytes \in {SubSeq(Zeros, 1, Hdr)}
                    \cup {Bytes(SendReceive(c.in, c.out)) : c \in {d \in prog : d.fn = "inout"}}
                    \cup {Bytes(SendBack(c.out)) : c \in {d \in prog : d.fn = "out"}} :
        Request(<<bytes>>, 0)
  /\ inSandbox' = TRUE
  /\ UNCHANGED front

Enter(c) ==
  /\ ppc = "idle" /\ calls < MaxCalls
  /\ CASE c.fn = "inout" -> EnterDataInOut(c.in, c.out)
       [] c.fn = "out" -> EnterDataOut(c.out)
       [] c.fn = "in" -> EnterDataIn(c.in)
       [] c.fn = "none" -> EnterNoData
  /\ calls' = calls + 1
  /\ UNCHANGED <<prog, sandbox, toBox, toParent>>

(* soaap_perf_callgate(), in sandboxed code.                               *)
Callgate ==
  /\ ppc = "inside" /\ inSandbox /\ calls < MaxCalls
  /\ Request(Pieces(SendReceive(1, 1), Hdr + 1), 1)
  /\ front' = SendReceive(1, 1)
  /\ calls' = calls + 1
  /\ UNCHANGED <<prog, inSandbox, sandbox, toBox, toParent>>

(* soaap_perf_total_toc(): the sandboxed function returns.                 *)
Leave ==
  /\ ppc = "inside"
  /\ ppc' = "idle"
  /\ inSandbox' = FALSE
  /\ UNCHANGED <<prog, chunks, want, front, calls, sandbox, toBox, toParent>>

(* A blocking write() passes on what the socket has room for.              *)
ParentWrite ==
  /\ ppc = "writing"
  /\ IF chunks = <<>>
     THEN /\ ppc' = IF want > 0 THEN "awaiting" ELSE "inside"
          /\ UNCHANGED <<chunks, toBox>>
     ELSE LET n == Least(Cap - Len(toBox), Len(chunks[1]))
          IN /\ n > 0
             /\ toBox' = toBox \o SubSeq(chunks[1], 1, n)
             /\ chunks' = IF n = Len(chunks[1]) THEN Tail(chunks)
                          ELSE [chunks EXCEPT ![1] = SubSeq(@, n + 1, Len(@))]
             /\ UNCHANGED ppc
  /\ UNCHANGED <<prog, want, front, inSandbox, calls, sandbox, toParent>>

(* Chew the data sent back.                                                *)
ParentRead ==
  /\ ppc = "awaiting" /\ toParent > 0
  /\ LET n == Least(toParent, Buf)
     IN /\ toParent' = toParent - n
        /\ want' = want - n
        /\ ppc' = IF want - n > 0 THEN ppc ELSE "inside"
  /\ UNCHANGED <<prog, chunks, front, inSandbox, calls, sandbox, toBox>>

(* main() returns: soaap_perf_enter_datain_persistent_sbox(-1) closes the  *)
(* parent's end ...                                                        *)
Close ==
  /\ ppc = "idle"
  /\ ppc' = "closed"
  /\ UNCHANGED <<prog, chunks, want, front, inSandbox, calls, sandbox, toBox, toParent>>

(* ... and waits for the sandbox.                                          *)
Wait ==
  /\ ppc = "closed" /\ spc = "exited"
  /\ ppc' = "exited"
  /\ UNCHANGED <<prog, chunks, want, front, inSandbox, calls, sandbox, toBox, toParent>>

-----------------------------------------------------------------------------
(* What cm shows in a buffer: the message at its front if all of it is     *)
(* there (else no operation is recognised), and the length to send back,   *)
(* which is read after the data has been chewed into the same buffer.      *)
Message(buf) == IF SubSeq(buf, 1, Hdr) = Bytes(buf[1][1]) THEN buf[1][1] ELSE NoMsg

OutLengths(buf) ==
  IF buf[Hdr] = Zero THEN {0}
  ELSE IF buf[Hdr][2] = Hdr THEN {buf[Hdr][1].out}
  ELSE Garbage

(* The sandbox goes on to send back n bytes, or to read the next request.  *)
GoSend(n) == left' = n /\ spc' = IF n > 0 THEN "send" ELSE "read"

Take(n) ==
  /\ toBox' = SubSeq(toBox, n + 1, Len(toBox))
  /\ sbuf' = Into(sbuf, SubSeq(toBox, 1, n))

(* Mutant: no fall-through from SENDRECEIVE to SENDBACK.                   *)
BoxReadNoFallthrough ==
  /\ spc = "read" /\ toBox # <<>>
  /\ LET n == Least(Len(toBox), Buf)
         h == Message(sbuf')
     IN /\ Take(n)
        /\ IF n < Hdr \/ h.op = "none" THEN UNCHANGED <<spc, left>>
           ELSE IF h.op = "sendback" THEN GoSend(h.out)
           ELSE IF h.in + Hdr = n THEN GoSend(0)
           ELSE spc' = "chew" /\ left' = h.in + Hdr - n
  /\ UNCHANGED <<parent, toParent>>

(* The head of the sandbox's loop: read what there is, up to Buf bytes,    *)
(* and take the first Hdr for a control message.                           *)
BoxRead ==
  /\ spc = "read" /\ toBox # <<>>
  /\ LET n == Least(Len(toBox), Buf)
         h == Message(sbuf')
     IN /\ Take(n)
        /\ IF n < Hdr \/ h.op = "none" THEN UNCHANGED <<spc, left>>
           ELSE IF h.op = "sendback" THEN GoSend(h.out)
           ELSE IF h.in + Hdr = n THEN GoSend(h.out)
           ELSE spc' = "chew" /\ left' = h.in + Hdr - n
  /\ UNCHANGED <<parent, toParent>>

(* Mutant: the loop runs on at end of file.                                *)
BoxEofIgnored ==
  /\ spc = "read" /\ toBox = <<>> /\ ppc = "closed"
  /\ UNCHANGED vars

(* End of file ends the loop.                                              *)
BoxEof ==
  /\ spc = "read" /\ toBox = <<>> /\ ppc = "closed"
  /\ spc' = "exited"
  /\ UNCHANGED <<parent, sbuf, left, toBox, toParent>>

(* Chew incoming data, until exactly left bytes have come: past zero left  *)
(* is negative and never zero again, and end of file does not end it.      *)
BoxChew ==
  /\ spc = "chew" /\ toBox # <<>>
  /\ LET n == Least(Len(toBox), Buf)
     IN /\ Take(n)
        /\ IF left = n THEN \E out \in OutLengths(sbuf') : GoSend(out)
           ELSE left' = left - n /\ UNCHANGED spc
  /\ UNCHANGED <<parent, toParent>>

(* Mutant: the last piece sent back is a whole buffer too.                 *)
BoxSendWholeBuffers ==
  /\ spc = "send"
  /\ IF ppc = "closed"
     THEN spc' = "exited" /\ UNCHANGED <<left, toParent>>
     ELSE LET n == Least(Cap - toParent, Buf)
          IN /\ n > 0
             /\ toParent' = toParent + n
             /\ GoSend(left - n)
  /\ UNCHANGED <<parent, sbuf, toBox>>

(* Send back; after the parent has closed, SIGPIPE ends the process.       *)
BoxSend ==
  /\ spc = "send"
  /\ IF ppc = "closed"
     THEN spc' = "exited" /\ UNCHANGED <<left, toParent>>
     ELSE LET n == Least(Cap - toParent, left)
          IN /\ n > 0
             /\ toParent' = toParent + n
             /\ GoSend(left - n)
  /\ UNCHANGED <<parent, sbuf, toBox>>

-----------------------------------------------------------------------------
ParentIO == ParentWrite \/ ParentRead \/ Wait
Sandbox == BoxRead \/ BoxEof \/ BoxChew \/ BoxSend

Next == (\E c \in prog : Enter(c)) \/ Callgate \/ Leave \/ Close \/ ParentIO \/ Sandbox

(* Both processes run.  The parent need not make a call or return.         *)
Spec == Init /\ [][Next]_vars /\ WF_vars(ParentIO) /\ WF_vars(Sandbox)

-----------------------------------------------------------------------------
(* Every call of the program either asks for an answer or sends nothing.   *)
AllWait ==
  \A c \in prog : c.fn = "out" \/ (c.fn = "inout" /\ (c.in > 0 => c.out > 0))

(***************************************************************************)
(* Between calls the two processes are in step: nothing is under way, the  *)
(* sandbox waits for a request and the parent has got what it asked for,   *)
(* no byte more and no byte less.  This needs AllWait: see                 *)
(* RequestsAnswered.                                                       *)
(***************************************************************************)
InStep ==
  AllWait /\ ppc \in {"idle", "inside"} =>
    toBox = <<>> /\ toParent = 0 /\ want = 0 /\ spc = "read"

(* Then a parent that waits for data gets it, however the two processes    *)
(* interleave and the data splits over reads and writes ...                *)
WaitingRequestsAnswered == (AllWait /\ ppc = "awaiting") ~> (ppc = "inside")

(* ... and the sandbox ends after main() has returned: wait() returns.     *)
SandboxExits == (AllWait /\ ppc = "closed") ~> (ppc = "exited")

(* "Request the sandbox to send back datalen_out bytes" and then "read     *)
(* from fd": the parent is not left waiting, whatever was called before.   *)
RequestsAnswered == (ppc = "awaiting") ~> (ppc = "inside")
=============================================================================
