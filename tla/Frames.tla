-------------------------------- MODULE Frames --------------------------------
(***************************************************************************)
(* One connection of the reference deployment, byte by byte: send_frame    *)
(* and recv_frame of both ends over a TCP stream that moves as few bytes   *)
(* at a time as it likes and may be lost at any moment (protocol.hpp,      *)
(* net.hpp and their use in coordinator.cpp, cfworker.cpp, cu_worker.cu).  *)
(*                                                                         *)
(* A byte stands for each field of the header and for the checksum, so the *)
(* header has 4 bytes where the code's has 10; the parts, their order and  *)
(* what is read before what is known are the code's.                       *)
(***************************************************************************)
EXTENDS Exchange

CONSTANTS
    MaxFrameBody,   \* kMaxFrameBody
    BufferBytes,    \* what the network holds of one direction
    MaxCalls        \* bound: calls on the connection

ASSUME FramesAssumption ==
    /\ Requests \subseteq [type : Nat, body : Seq(Nat)]
    /\ Reply \in [Requests -> [type : Nat, body : Seq(Nat)]]
    /\ \A m \in Requests : Len(m.body) <= MaxFrameBody /\ Len(Reply[m].body) <= MaxFrameBody
    /\ MaxFrameBody \in Nat /\ BufferBytes \in Nat \ {0}

VARIABLES
    up,             \* the connection stands
    stream,         \* the bytes on their way to each end
    out,            \* what write_all has yet to send
    buf,            \* what read_exact has of the part it reads
    frame,          \* the parts of the frame already read
    phase,          \* "idle", "writing", "reading" or "over"
    rejected        \* history: the ends that refused a frame

frameVars == <<up, stream, out, buf, frame, phase, rejected>>
vars == <<frameVars, exchangeVars>>

Ends == {"client", "server"}
Peer(e) == CHOOSE f \in Ends : f # e

Magic == 67
Version == 1
HeaderBytes == 4
CrcBytes == 1

\* body_crc; any checksum of one byte that depends on every byte and its place.
Checksum(bytes) ==
    LET sum[n \in 0..Len(bytes)] == IF n = 0 THEN 1 ELSE (3 * sum[n - 1] + bytes[n]) % 256
    IN  sum[Len(bytes)]

\* encode_frame.
Encode(m) ==
    <<Magic, Version, m.type, Len(m.body)>> \o m.body \o <<Checksum(<<m.type>> \o m.body)>>

FramesInit ==
    /\ ExchangeInit
    /\ up = TRUE
    /\ stream = [e \in Ends |-> << >>]
    /\ out = [e \in Ends |-> << >>]
    /\ buf = [e \in Ends |-> << >>]
    /\ frame = [e \in Ends |-> << >>]
    /\ phase = [client |-> "idle", server |-> "reading"]
    /\ rejected = {}

-----------------------------------------------------------------------------
(* Writing: both ends go on to read whether or not the frame was sent.     *)

\* The client sends its next request.
Call ==
    /\ phase["client"] = "idle" /\ Len(asked) < MaxCalls
    /\ \E m \in Requests :
          /\ asked' = Append(asked, m)
          /\ out' = [out EXCEPT !["client"] = Encode(m)]
    /\ phase' = [phase EXCEPT !["client"] = "writing"]
    /\ UNCHANGED <<up, stream, buf, frame, rejected, handled, got>>

\* Mutant of Unsent: the loop of write_all starts over after a partial write.
UnsentFromStart(bytes, n) == IF n < Len(bytes) THEN bytes ELSE << >>

Unsent(bytes, n) == SubSeq(bytes, n + 1, Len(bytes))

\* One send of write_all, of as many bytes as fit or fewer.
Writes(e) ==
    /\ up /\ phase[e] = "writing"
    /\ \E n \in 1..Len(out[e]) :
          /\ Len(stream[Peer(e)]) + n <= BufferBytes
          /\ stream' = [stream EXCEPT ![Peer(e)] = @ \o SubSeq(out[e], 1, n)]
          /\ out' = [out EXCEPT ![e] = Unsent(@, n)]
    /\ phase' = IF out'[e] = << >> THEN [phase EXCEPT ![e] = "reading"] ELSE phase
    /\ UNCHANGED <<up, buf, frame, rejected, exchangeVars>>

WriteFails(e) ==
    /\ ~up /\ phase[e] = "writing"
    /\ out' = [out EXCEPT ![e] = << >>]
    /\ phase' = [phase EXCEPT ![e] = "reading"]
    /\ UNCHANGED <<up, stream, buf, frame, rejected, exchangeVars>>

-----------------------------------------------------------------------------
(* Reading: header, body if there is one, checksum.                        *)

\* How many bytes the next part has: frame is <<>>, <<header>> or <<header, body>>.
BodyLen(parts) == parts[1][4]
Need(parts) ==
    CASE Len(parts) = 0 -> HeaderBytes
      [] Len(parts) = 1 -> BodyLen(parts)
      [] Len(parts) = 2 -> CrcBytes

\* The parts after one more; there is no read for an empty body.
With(parts, part) ==
    IF parts = << >> /\ part[4] = 0 THEN <<part, << >>>> ELSE Append(parts, part)

\* The checks of recv_frame on a part; the coordinator does not look at the version.
Refused(e, parts, part) ==
    CASE Len(parts) = 0 -> \/ part[1] # Magic
                           \/ e = "client" /\ part[2] # Version
                           \/ part[4] > MaxFrameBody
      [] Len(parts) = 1 -> FALSE
      [] Len(parts) = 2 -> part[1] # Checksum(<<parts[1][3]>> \o parts[2])

\* The client has a reply; the session handles a request and begins to reply.
Arrives(e, m) ==
    \/ /\ e = "client"
       /\ got' = Append(got, m)
       /\ phase' = [phase EXCEPT ![e] = "idle"]
       /\ UNCHANGED <<out, asked, handled>>
    \/ /\ e = "server"
       /\ handled' = Append(handled, m)
       /\ out' = [out EXCEPT ![e] = Encode(Reply[m])]
       /\ phase' = [phase EXCEPT ![e] = "writing"]
       /\ UNCHANGED <<asked, got>>

\* What read_exact does with a part that is complete.
PartRead(e, part) ==
    \/ /\ Refused(e, frame[e], part)
       /\ rejected' = rejected \cup {e}
       /\ up' = FALSE
       /\ phase' = [phase EXCEPT ![e] = "over"]
       /\ UNCHANGED <<out, frame, exchangeVars>>
    \/ /\ ~Refused(e, frame[e], part) /\ Len(frame[e]) < 2
       /\ frame' = [frame EXCEPT ![e] = With(@, part)]
       /\ UNCHANGED <<up, out, phase, rejected, exchangeVars>>
    \/ /\ ~Refused(e, frame[e], part) /\ Len(frame[e]) = 2
       /\ Arrives(e, [type |-> frame[e][1][3], body |-> frame[e][2]])
       /\ frame' = [frame EXCEPT ![e] = << >>]
       /\ UNCHANGED <<up, rejected>>

IsWhole(bytes, n) == Len(bytes) = n

\* One recv of read_exact.
Reads(e) ==
    /\ phase[e] = "reading"
    /\ \E n \in 1..Len(stream[e]) :
          LET bytes == buf[e] \o SubSeq(stream[e], 1, n)
          IN  /\ Len(bytes) <= Need(frame[e])
              /\ stream' = [stream EXCEPT ![e] = SubSeq(@, n + 1, Len(@))]
              /\ \/ /\ IsWhole(bytes, Need(frame[e]))
                    /\ buf' = [buf EXCEPT ![e] = << >>]
                    /\ PartRead(e, bytes)
                 \/ /\ ~IsWhole(bytes, Need(frame[e]))
                    /\ buf' = [buf EXCEPT ![e] = bytes]
                    /\ UNCHANGED <<up, out, frame, phase, rejected, exchangeVars>>

\* Mutant of ReadFails: the end is not told from a short read.
ReadRetries(e) == FALSE /\ UNCHANGED vars

\* Mutant of ReadFails: the client does not look at the result of reading a body.
ReadTakesRest(e) ==
    /\ ~up /\ phase[e] = "reading" /\ stream[e] = << >>
    /\ \/ /\ e = "client" /\ Len(frame[e]) = 1
          /\ Arrives(e, [type |-> frame[e][1][3], body |-> buf[e]])
          /\ frame' = [frame EXCEPT ![e] = << >>]
       \/ /\ e = "server" \/ Len(frame[e]) # 1
          /\ phase' = [phase EXCEPT ![e] = "over"]
          /\ UNCHANGED <<out, frame, exchangeVars>>
    /\ UNCHANGED <<up, stream, buf, rejected>>

\* recv reports the end once there is nothing left: the call fails, the session ends.
ReadFails(e) ==
    /\ ~up /\ phase[e] = "reading" /\ stream[e] = << >>
    /\ phase' = [phase EXCEPT ![e] = "over"]
    /\ UNCHANGED <<up, stream, out, buf, frame, rejected, exchangeVars>>

\* The client exits or is killed, or the coordinator closes the socket: what was on its
\* way arrives up to some byte.
Drop ==
    /\ up /\ up' = FALSE
    /\ \E c \in 0..Len(stream["client"]), s \in 0..Len(stream["server"]) :
          stream' = [client |-> SubSeq(stream["client"], 1, c),
                     server |-> SubSeq(stream["server"], 1, s)]
    /\ UNCHANGED <<out, buf, frame, phase, rejected, exchangeVars>>

EndStep(e) == Writes(e) \/ WriteFails(e) \/ Reads(e) \/ ReadFails(e)

FramesNext == Call \/ Drop \/ \E e \in Ends : EndStep(e)

\* Both ends are scheduled and the network delivers.
FramesSpec == FramesInit /\ [][FramesNext]_vars /\ \A e \in Ends : WF_vars(EndStep(e))

-----------------------------------------------------------------------------
(* Properties.                                                             *)

\* Whatever the sizes of the pieces in which bytes are sent and received, and wherever
\* the connection breaks, the session handles the requests that were made, whole, once
\* and in order, and the client gets the replies to them (net.hpp: "robust to partial
\* reads", "robust to partial writes").
ImplementsExchange == ExchangeSpec

\* Neither end loses its place: a frame is never refused for its magic, its length or its
\* checksum when it was written by send_frame.
NothingRefused == rejected = {}

\* A call returns: the client has the reply, or finds the connection gone.
CallsReturn == phase["client"] \in {"writing", "reading"} ~> phase["client"] \in {"idle", "over"}
=============================================================================
