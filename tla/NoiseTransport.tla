--------------------------- MODULE NoiseTransport ---------------------------
(***************************************************************************)
(* One connection between two NoiseTransports (crates/stratamoto/src/      *)
(* noise.rs): the initiator of connect, which is the harness, and the      *)
(* responder of accept, which stands for the role.  Frames are encrypted   *)
(* in chunks, the first being the header; a socket hands bytes over in     *)
(* pieces of any size, a recv gives up between two of them, a write may    *)
(* time out part way through a frame, and either side may close.           *)
(*                                                                         *)
(* A byte is named by the frame and the chunk it is of.  The socket and    *)
(* the codec are external: a chunk decrypts if it is, byte for byte, the   *)
(* one that comes next.                                                    *)
(***************************************************************************)
EXTENDS Integers, Sequences, SequencesExt

CONSTANTS
  Shapes,    \* the frames that may be sent, as the lengths of their chunks
  MaxSent,   \* for each side, bound on the frames it sends on a connection
  MaxJunk    \* bound on the bytes of no meaning the role sends on a connection

Sides == {"initiator", "responder"}

\* A header has one length; the chunks after it are what it says.
ASSUME ShapesAssumption ==
  /\ Shapes \subseteq Seq(Nat \ {0})
  /\ \A p, q \in Shapes : Len(p) > 0 /\ p[1] = q[1]

VARIABLES
  phase,          \* of each side: "closed", "handshake", "open" or "failed"
  wire,           \* the bytes on their way to each side
  shut,           \* whether the other side has closed its end
  decrypt,        \* whether the side has its decryption state
  chunk,          \* the chunk of the frame that the side's decoder asks for
  pending_len,    \* the length of the buffer for a chunk,
  pending,        \*   and the bytes of it that are filled
  read_timeout,   \* "io", or "short" during a recv
  result,         \* what the last recv returned
  sent,           \* the frames a side has encrypted: their shape, and if they went out whole
  received,       \* history: how many frames recv returned
  junk            \* history: bytes of no meaning sent to each side

noise_vars == <<phase, wire, shut, decrypt, chunk, pending_len, pending, read_timeout, result,
                sent, received, junk>>

Other(s) == CHOOSE o \in Sides : o # s
Both(x)  == [s \in Sides |-> x]

\* from_transport, for both sides.
FreshTransport ==
  /\ decrypt' = Both(TRUE) /\ chunk' = Both(1)
  /\ pending_len' = Both(0) /\ pending' = Both(<< >>)
  /\ read_timeout' = Both("io") /\ result' = Both("none")
  /\ sent' = Both(<< >>) /\ received' = Both(0) /\ junk' = Both(0)

NoiseInit ==
  /\ phase = Both("closed") /\ wire = Both(<< >>) /\ shut = Both(FALSE)
  /\ decrypt = Both(TRUE) /\ chunk = Both(1)
  /\ pending_len = Both(0) /\ pending = Both(<< >>)
  /\ read_timeout = Both("io") /\ result = Both("none")
  /\ sent = Both(<< >>) /\ received = Both(0) /\ junk = Both(0)

-----------------------------------------------------------------------------
(* Bytes. *)

HeaderLen == (CHOOSE p \in Shapes : TRUE)[1]

ChunkOf(n, shape, c) == [i \in 1..shape[c] |-> [frame |-> n, chunk |-> c, at |-> i]]

Encoded(n, shape) == FlattenSeq([c \in 1..Len(shape) |-> ChunkOf(n, shape, c)])

Hello == [frame |-> 0, chunk |-> 1, at |-> 0]
Reply == [frame |-> 0, chunk |-> 2, at |-> 0]
Junk  == [frame |-> 0, chunk |-> 0, at |-> 0]

-----------------------------------------------------------------------------
(* The handshake.  A message of it is read whole or not at all, since a read *)
(* that fails ends the handshake.                                            *)

\* connect, up to the first message being written.
HandshakeBegins ==
  /\ phase' = [Both("closed") EXCEPT !["initiator"] = "handshake"]
  /\ wire' = [Both(<< >>) EXCEPT !["responder"] = <<Hello>>]
  /\ shut' = Both(FALSE)
  /\ FreshTransport

\* accept: the first message is read and the second written.
Accepts ==
  /\ phase["responder"] = "closed" /\ wire["responder"] = <<Hello>>
  /\ phase' = [phase EXCEPT !["responder"] = "open"]
  /\ wire' = [wire EXCEPT !["responder"] = << >>, !["initiator"] = Append(@, Reply)]
  /\ UNCHANGED <<shut, decrypt, chunk, pending_len, pending, read_timeout, result, sent,
                 received, junk>>

\* connect, from the second message being read.
HandshakeEnds ==
  /\ phase["initiator"] = "handshake" /\ wire["initiator"] # << >>
  /\ phase' = [phase EXCEPT !["initiator"] =
                 IF Head(wire["initiator"]) = Reply THEN "open" ELSE "failed"]
  /\ wire' = [wire EXCEPT !["initiator"] = Tail(@)]
  /\ UNCHANGED <<shut, decrypt, chunk, pending_len, pending, read_timeout, result, sent,
                 received, junk>>

\* The read of the second message times out or meets the end of the stream.
HandshakeFails ==
  /\ phase["initiator"] = "handshake"
  /\ phase' = [phase EXCEPT !["initiator"] = "failed"]
  /\ UNCHANGED <<wire, shut, decrypt, chunk, pending_len, pending, read_timeout, result, sent,
                 received, junk>>

-----------------------------------------------------------------------------
(* send. *)

Encrypted(s, shape, whole) == sent' = [sent EXCEPT ![s] = Append(@, [shape |-> shape,
                                                                  whole |-> whole])]

\* The bytes of the frame that is sent next.
Frame(s, shape) == Encoded(Len(sent[s]) + 1, shape)

\* The first n of them go out.
Puts(s, shape, n) ==
  wire' = [wire EXCEPT ![Other(s)] = @ \o SubSeq(Frame(s, shape), 1, IF shut[s] THEN 0 ELSE n)]

Sending(s) ==
  phase[s] = "open" /\ Len(sent[s]) < MaxSent[s] /\ read_timeout[s] = "io"

\* What is written to a side that is gone is lost.
Send(s, shape) ==
  /\ Sending(s)
  /\ Encrypted(s, shape, TRUE)
  /\ Puts(s, shape, Len(Frame(s, shape)))
  /\ UNCHANGED <<phase, shut, decrypt, chunk, pending_len, pending, read_timeout, result,
                 received, junk>>

\* write_all fails after n bytes; the frame has been encrypted.
SendTorn(s, shape, n) ==
  /\ Sending(s)
  /\ n < Len(Frame(s, shape))
  /\ Encrypted(s, shape, FALSE)
  /\ Puts(s, shape, n)
  /\ UNCHANGED <<phase, shut, decrypt, chunk, pending_len, pending, read_timeout, result,
                 received, junk>>

\* A role that does not keep to the protocol.
SendsJunk ==
  /\ phase["responder"] = "open" /\ ~shut["responder"] /\ junk["initiator"] < MaxJunk
  /\ wire' = [wire EXCEPT !["initiator"] = Append(@, Junk)]
  /\ junk' = [junk EXCEPT !["initiator"] = @ + 1]
  /\ UNCHANGED <<phase, shut, decrypt, chunk, pending_len, pending, read_timeout, result, sent,
                 received>>

\* The initiator drops its transport: the connection and all that is on it are gone.  What
\* the responder still reads of it is not followed.
HangsUp ==
  /\ phase' = Both("closed") /\ wire' = Both(<< >>) /\ shut' = Both(FALSE)
  /\ FreshTransport

\* The responder closes its end: what it has sent may be cut off, and its buffer is gone.
ShutsDown ==
  /\ phase' = [phase EXCEPT !["responder"] = "closed"]
  /\ shut' = [shut EXCEPT !["initiator"] = phase["initiator"] # "closed"]
  /\ \E n \in 0..Len(wire["initiator"]) :
       wire' = [wire EXCEPT !["responder"] = << >>, !["initiator"] = SubSeq(@, 1, n)]
  /\ pending_len' = [pending_len EXCEPT !["responder"] = 0]
  /\ pending' = [pending EXCEPT !["responder"] = << >>]
  /\ read_timeout' = [read_timeout EXCEPT !["responder"] = "io"]
  /\ result' = [result EXCEPT !["responder"] = "none"]
  /\ UNCHANGED <<decrypt, chunk, sent, received, junk>>

-----------------------------------------------------------------------------
(* recv and read_frame. *)

\* Mutant: a recv begins with an empty buffer.
RecvBeginsAnew(s) ==
  /\ phase[s] = "open" /\ read_timeout[s] = "io"
  /\ read_timeout' = [read_timeout EXCEPT ![s] = "short"]
  /\ pending' = [pending EXCEPT ![s] = << >>]
  /\ UNCHANGED <<phase, wire, shut, decrypt, chunk, pending_len, result, sent, received, junk>>

RecvBegins(s) ==
  /\ phase[s] = "open" /\ read_timeout[s] = "io"
  /\ read_timeout' = [read_timeout EXCEPT ![s] = "short"]
  /\ UNCHANGED <<phase, wire, shut, decrypt, chunk, pending_len, pending, result, sent, received,
                 junk>>

\* The frame the side is receiving, as its sender made it.
Arriving(s) == sent[Other(s)][received[s] + 1]

\* decoder.writable_len(): a header, or what the header said.
Expected(s) == IF chunk[s] = 1 THEN HeaderLen ELSE Arriving(s).shape[chunk[s]]

\* What has been read of the chunk: the buffer starts over if its length is another.
Filled(s) == IF pending_len[s] # Expected(s) THEN << >> ELSE pending[s]

\* next_transport_frame decrypts the chunk.
Decrypts(s, bytes) ==
  /\ received[s] < Len(sent[Other(s)])
  /\ bytes = ChunkOf(received[s] + 1, Arriving(s).shape, chunk[s])

Returns(s, r) ==
  /\ read_timeout' = [read_timeout EXCEPT ![s] = "io"]
  /\ result' = [result EXCEPT ![s] = r]

\* The buffer once a read has put the next n bytes in it.
Buffer(s, n) == Filled(s) \o SubSeq(wire[s], 1, n)

\* A read gets n of the bytes that are there and wanted.
Read(s, n) ==
  /\ read_timeout[s] = "short"
  /\ n <= Len(wire[s]) /\ n <= Expected(s) - Len(Filled(s))
  /\ wire' = [wire EXCEPT ![s] = SubSeq(@, n + 1, Len(@))]
  /\ pending_len' = [pending_len EXCEPT ![s] = Expected(s)]
  /\ UNCHANGED <<phase, shut, sent, junk>>

ReadsPart(s, n) ==
  /\ Read(s, n)
  /\ Len(Buffer(s, n)) < Expected(s)
  /\ pending' = [pending EXCEPT ![s] = Buffer(s, n)]
  /\ UNCHANGED <<decrypt, chunk, read_timeout, result, received>>

\* The chunk is there, and the buffer is free for the next.
ReadsChunk(s, n) ==
  /\ Read(s, n)
  /\ Len(Buffer(s, n)) = Expected(s)
  /\ pending' = [pending EXCEPT ![s] = << >>]

\* Incomplete: the loop goes on to the next chunk.
DecryptsChunk(s, n) ==
  /\ ReadsChunk(s, n)
  /\ decrypt[s] /\ Decrypts(s, Buffer(s, n))
  /\ chunk[s] < Len(Arriving(s).shape)
  /\ chunk' = [chunk EXCEPT ![s] = @ + 1]
  /\ UNCHANGED <<decrypt, read_timeout, result, received>>

DecryptsFrame(s, n) ==
  /\ ReadsChunk(s, n)
  /\ decrypt[s] /\ Decrypts(s, Buffer(s, n))
  /\ chunk[s] = Len(Arriving(s).shape)
  /\ chunk' = [chunk EXCEPT ![s] = 1]
  /\ received' = [received EXCEPT ![s] = @ + 1]
  /\ Returns(s, "Frame")
  /\ UNCHANGED decrypt

\* The state is taken and, when the chunk does not decrypt, not put back.
DecryptFails(s, n) ==
  /\ ReadsChunk(s, n)
  /\ ~decrypt[s] \/ ~Decrypts(s, Buffer(s, n))
  /\ decrypt' = [decrypt EXCEPT ![s] = FALSE]
  /\ Returns(s, "Noise")
  /\ UNCHANGED <<chunk, received>>

\* The read gives up; bytes may be on their way all the same.
ReadTimesOut(s) ==
  /\ read_timeout[s] = "short"
  /\ pending_len' = [pending_len EXCEPT ![s] = Expected(s)]
  /\ pending' = [pending EXCEPT ![s] = Filled(s)]
  /\ Returns(s, "Timeout")
  /\ UNCHANGED <<phase, wire, shut, decrypt, chunk, sent, received, junk>>

ReadEnds(s) ==
  /\ read_timeout[s] = "short"
  /\ shut[s] /\ wire[s] = << >>
  /\ pending_len' = [pending_len EXCEPT ![s] = Expected(s)]
  /\ pending' = [pending EXCEPT ![s] = Filled(s)]
  /\ Returns(s, "Eof")
  /\ UNCHANGED <<phase, wire, shut, decrypt, chunk, sent, received, junk>>

Recv(s) ==
  \/ RecvBegins(s) \/ ReadTimesOut(s) \/ ReadEnds(s)
  \/ \E n \in 1..Len(wire[s]) :
       ReadsPart(s, n) \/ DecryptsChunk(s, n) \/ DecryptsFrame(s, n) \/ DecryptFails(s, n)

-----------------------------------------------------------------------------
(* What a connection promises: FrameChannel, in both directions. *)

Channel == INSTANCE FrameChannel WITH
  posted  <- [s \in Sides |-> [n \in DOMAIN sent[s] |-> sent[s][n].whole]],
  got     <- received,
  spoiled <- [s \in Sides |-> junk[s] > 0],
  broken  <- [s \in Sides |-> ~decrypt[s]]

\* A frame that went out whole is received whole, in its turn and once, however its bytes are
\* cut up and however often recv gave up between two of them (noise.rs:37-39, "so that a frame
\* arriving in pieces is not torn by a short poll"); decryption fails only after a write that
\* was torn or bytes that are no frame, and nothing is received after it.
ChannelSpec == Channel!Spec
=============================================================================
