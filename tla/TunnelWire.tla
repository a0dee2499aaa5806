----------------------------- MODULE TunnelWire -----------------------------
(***************************************************************************)
(* The bytes of the tunnel, in one direction.  The goroutines of one end   *)
(* send frames under sendMu (send, sendData of link.go and of session.go), *)
(* WriteFrame writes header and payload one after the other, either may    *)
(* fail half-way, and ReadFrame at the other end cuts the bytes into       *)
(* frames again by the 16-bit length it finds (internal/tunnel/frame.go).  *)
(*                                                                         *)
(* A byte is the frame it was written for and its place in it.             *)
(***************************************************************************)
EXTENDS Naturals, Sequences

CONSTANTS Senders,      \* goroutines that send, each for a stream of its own
          MaxFrameLen,  \* the ceiling of the length field, 65535 in the code
          Buffers,      \* sizes of what they are given to send
          MaxFrames     \* bound: frames begun when a buffer may still be given

HeaderLen == 6

ASSUME WireAssumption ==
  /\ MaxFrameLen \in Nat /\ MaxFrameLen > HeaderLen
  /\ Buffers \subseteq Nat /\ MaxFrames \in Nat

MaxPayload == MaxFrameLen - HeaderLen

VARIABLES stage,    \* where each sender is: "idle", "waits", "header", ...
          unsent,   \* what sendData has left of its buffer
          offset,   \* history: bytes of its stream it is done with
          lock,     \* who holds sendMu: nobody or one sender
          begun,    \* history: the frames WriteFrame was called with
          wire,     \* history: every byte that got onto the connection
          tunOpen,  \* the connection is not closed
          reader,   \* ReadFrame: "header", "payload", "refuses" or "ended"
          taken,    \* the bytes it has read
          decoded,  \* the frame whose header it has read, and the length it found
          received  \* history: the frames it has returned

task == <<stage, unsent, offset>>
reading == <<reader, taken, decoded, received>>
wireVars == <<task, lock, begun, wire, tunOpen, reading>>

WireInit ==
  /\ stage = [s \in Senders |-> "idle"] /\ lock = {}
  /\ unsent = [s \in Senders |-> 0] /\ offset = [s \in Senders |-> 0]
  /\ begun = <<>> /\ wire = <<>> /\ tunOpen = TRUE
  /\ reader = "header" /\ taken = 0 /\ received = <<>>
  /\ decoded = [frame |-> 0, size |-> 0]

\* The bytes of frame k after its first "from", up to "to".
Bytes(k, from, to) == [i \in 1..(to - from) |-> [frame |-> k, byte |-> from + i]]
-----------------------------------------------------------------------------
(* Sending. *)

\* A buffer for sendData, or, of size 0, a frame without payload.
GivenBuffer(s) ==
  /\ stage[s] = "idle" /\ Len(begun) < MaxFrames
  /\ \E n \in Buffers : unsent' = [unsent EXCEPT ![s] = n]
  /\ stage' = [stage EXCEPT ![s] = "waits"]
  /\ UNCHANGED <<offset, lock, begun, wire, tunOpen, reading>>

ChunkToFrameLen(n) ==   \* mutant: the header is forgotten
  IF n > MaxFrameLen THEN MaxFrameLen ELSE n
\* sendData's n.
Chunk(n) == IF n > MaxPayload THEN MaxPayload ELSE n

\* send takes the mutex and calls WriteFrame, which refuses a payload that is too long.
BeginFrame(s) ==
  /\ stage[s] = "waits" /\ lock = {} /\ lock' = {s}
  /\ LET n == Chunk(unsent[s]) IN
       /\ begun' = Append(begun, [by |-> s, from |-> offset[s], size |-> n, at |-> Len(wire)])
       /\ stage' = [stage EXCEPT ![s] = IF n > MaxPayload THEN "tooLong" ELSE "header"]
  /\ UNCHANGED <<unsent, offset, wire, tunOpen, reading>>

Current == Len(begun)
Size == begun[Current].size
Piece(s) ==
  IF stage[s] = "header" THEN Bytes(Current, 0, HeaderLen)
                         ELSE Bytes(Current, HeaderLen, HeaderLen + Size)

FrameDoneOnce(s) ==   \* mutant: no second round for what is left of the buffer
  /\ lock' = {} /\ unsent' = [unsent EXCEPT ![s] = 0]
  /\ offset' = [offset EXCEPT ![s] = @ + unsent[s]]
  /\ stage' = [stage EXCEPT ![s] = "idle"]
FrameDone(s) ==
  /\ lock' = {} /\ unsent' = [unsent EXCEPT ![s] = @ - Size]
  /\ offset' = [offset EXCEPT ![s] = @ + Size]
  /\ stage' = [stage EXCEPT ![s] = IF unsent[s] > Size THEN "waits" ELSE "idle"]

Write(s) ==
  /\ stage[s] \in {"header", "payload"} /\ tunOpen
  /\ wire' = wire \o Piece(s)
  /\ IF stage[s] = "header" /\ Size > 0
     THEN stage' = [stage EXCEPT ![s] = "payload"] /\ UNCHANGED <<unsent, offset, lock>>
     ELSE FrameDone(s)
  /\ UNCHANGED <<begun, tunOpen, reading>>

\* The connection is closed, or broken, or the deadline passes in the middle.
WriteFails(s) ==
  /\ stage[s] \in {"header", "payload"}
  /\ \E n \in IF tunOpen THEN 0..Len(Piece(s)) ELSE {0} : wire' = wire \o SubSeq(Piece(s), 1, n)
  /\ stage' = [stage EXCEPT ![s] = "failed"]
  /\ UNCHANGED <<unsent, offset, lock, begun, tunOpen, reading>>

GiveUpBuffer(s) ==
  /\ stage[s] \in {"failed", "tooLong"}
  /\ stage' = [stage EXCEPT ![s] = "idle"] /\ lock' = {}
  /\ offset' = [offset EXCEPT ![s] = @ + unsent[s]] /\ unsent' = [unsent EXCEPT ![s] = 0]
  /\ UNCHANGED <<begun, wire, reading>>
FailSilently(s) ==   \* mutant: the failed write does not close the tunnel
  GiveUpBuffer(s) /\ UNCHANGED tunOpen
\* The sender gets the error; it may send again, such as the CLOSE of its stream.
SendFails(s) == GiveUpBuffer(s) /\ tunOpen' = FALSE

\* GameOver, the end of the other reader, the end of either program.
TunnelCloses ==
  /\ tunOpen /\ tunOpen' = FALSE
  /\ UNCHANGED <<task, lock, begun, wire, reading>>
-----------------------------------------------------------------------------
(* Reading: each of the two ReadFulls returns when it has all it asked for. *)

\* The length as the two bytes of it are read.  What is not a header is taken for none:
\* its first byte is not the magic.
Decoded(k) == (HeaderLen + begun[k].size) % (MaxFrameLen + 1)

ReadHeader ==
  /\ reader = "header" /\ taken + HeaderLen <= Len(wire)
  /\ taken' = taken + HeaderLen
  /\ LET k == wire[taken + 1].frame IN
     IF /\ SubSeq(wire, taken + 1, taken + HeaderLen) = Bytes(k, 0, HeaderLen)
        /\ Decoded(k) >= HeaderLen
     THEN /\ decoded' = [frame |-> k, size |-> Decoded(k) - HeaderLen]
          /\ reader' = "payload" /\ UNCHANGED tunOpen
     ELSE reader' = "refuses" /\ tunOpen' = FALSE /\ UNCHANGED decoded
  /\ UNCHANGED <<task, lock, begun, wire, received>>

ReadPayload ==
  /\ reader = "payload" /\ taken + decoded.size <= Len(wire)
  /\ taken' = taken + decoded.size
  /\ received' = Append(received, [frame |-> decoded.frame,
                                   payload |-> SubSeq(wire, taken + 1, taken')])
  /\ reader' = "header"
  /\ UNCHANGED <<task, lock, begun, wire, tunOpen, decoded>>

\* The end of the bytes, an error, the read deadline or the end of the session.
ReaderEnds ==
  /\ reader \in {"header", "payload"} /\ reader' = "ended" /\ tunOpen' = FALSE
  /\ UNCHANGED <<task, lock, begun, wire, taken, decoded, received>>
-----------------------------------------------------------------------------
Sender(s) == GivenBuffer(s) \/ BeginFrame(s) \/ Write(s) \/ WriteFails(s) \/ SendFails(s)

WireNext ==
  \/ \E s \in Senders : Sender(s)
  \/ TunnelCloses \/ ReadHeader \/ ReadPayload \/ ReaderEnds

WireSpec == WireInit /\ [][WireNext]_wireVars

\* Who holds the mutex comes to an end, for every write has a deadline; the reader runs.
WireFairness ==
  /\ WF_wireVars(\E s \in lock : Write(s) \/ WriteFails(s) \/ SendFails(s))
  /\ WF_wireVars(ReadHeader \/ ReadPayload)
-----------------------------------------------------------------------------
(* Properties. *)

\* "A failed one closes the tunnel: it leaves a partial frame on the wire, so everything
\* after it would be misread" (link.go:402-404); "the mutex keeps concurrent producers from
\* interleaving on the wire" (session.go:160-161).  So the reader returns exactly the frames that
\* were sent, from the first on, each with all of its own payload, however the senders take
\* turns and wherever a write breaks off; and none is refused: neither does WriteFrame ever
\* find a payload too long, which would close the tunnel under every stream because of one
\* big buffer, nor does ReadFrame ever find no magic or a length that is none (frame.go).
NoFrameRefused == reader # "refuses" /\ \A s \in Senders : stage[s] # "tooLong"
InSync ==
  /\ NoFrameRefused
  /\ \A k \in DOMAIN received :
       /\ k \in DOMAIN begun
       /\ received[k] = [frame |-> k,
                         payload |-> Bytes(k, HeaderLen, HeaderLen + begun[k].size)]

\* The frames received of a stream carry its bytes without a gap and none twice, whatever
\* buffers were cut into how many frames, and whatever failed: where the one before it ended,
\* the next begins (sendData, send).
Before(k) == {i \in 1..(k - 1) : begun[i].by = begun[k].by}
Follows(k) ==
  \/ Before(k) = {} /\ begun[k].from = 0
  \/ \E i \in Before(k) :
       (\A j \in Before(k) : j <= i) /\ begun[k].from = begun[i].from + begun[i].size
StreamWhole == \A k \in DOMAIN received : Follows(k)

\* A frame that was begun is received, or the tunnel is closed, which both ends notice:
\* no frame is left behind in silence.
Through == []<>(Len(received) = Len(begun) \/ ~tunOpen)

=============================================================================
