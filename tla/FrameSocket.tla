----------------------------- MODULE FrameSocket ------------------------------
(***************************************************************************)
(* Reassembly of frames from websocket messages: processData and           *)
(* frameComplete of socket/framesocket.go.  The server writes each frame   *)
(* as a 3-byte length and its data; a websocket message carries any number *)
(* of the bytes.  A byte is named by its frame and its place in it, so that*)
(* what comes out can be compared with what was sent.                      *)
(***************************************************************************)
EXTENDS Naturals, Sequences, SequencesExt

CONSTANTS MaxFrames,    \* bound on the frames of a stream
          MaxLength     \* bound on the length of a frame

VARIABLES sent,             \* the lengths of the frames of the stream
          rest,             \* bytes the server has not sent yet
          msg,              \* what processData has left of its argument
          incoming,         \* the frame being put together, << >> with no frame
          incomingLength, receivedLength, partialHeader,
          frames,           \* the frames put on the channel
          panicked          \* an index was out of range

vars == <<sent, rest, msg, incoming, incomingLength, receivedLength, partialHeader, frames, panicked>>

FrameLengthSize == 3
Zero == [frame |-> 0, at |-> 0]     \* a byte of make([]byte, length)
Nil == [nil |-> TRUE, data |-> << >>]
Buffer(d) == [nil |-> FALSE, data |-> d]

\* The bytes of frame i, its length first.
Wire(i, n) == [k \in 1..(FrameLengthSize + n) |-> [frame |-> i, at |-> k]]
Payload(i, n) == [k \in 1..n |-> [frame |-> i, at |-> FrameLengthSize + k]]

Init ==
    /\ sent \in BoundedSeq(0..MaxLength, MaxFrames)
    /\ rest = FlattenSeq([i \in 1..Len(sent) |-> Wire(i, sent[i])])
    /\ msg = << >> /\ incoming = Nil /\ incomingLength = 0 /\ receivedLength = 0
    /\ partialHeader = << >> /\ frames = << >> /\ panicked = FALSE
-------------------------------------------------------------------------------
\* readPump: the next websocket message.
Read ==
    /\ ~panicked /\ msg = << >> /\ rest # << >>
    /\ \E n \in 1..Len(rest) : msg' = SubSeq(rest, 1, n) /\ rest' = SubSeq(rest, n + 1, Len(rest))
    /\ UNCHANGED <<sent, incoming, incomingLength, receivedLength, partialHeader, frames, panicked>>

\* The loop prepends the bytes of a partial header.
Joined == partialHeader \o msg
Drop(q, n) == SubSeq(q, n + 1, Len(q))

\* What the three bytes say; bytes that are no header say anything.
LengthSaid(m) == IF m[1].at = 1 THEN {sent[m[1].frame]} ELSE 0..MaxLength

\* copy(dst[from:], src): what does not fit is dropped.
CopyAt(dst, from, src) ==
    [k \in 1..Len(dst) |-> IF k > from /\ k - from <= Len(src) THEN src[k - from] ELSE dst[k]]

FrameComplete(data) ==
    /\ frames' = Append(frames, data)
    /\ incoming' = Nil /\ incomingLength' = 0 /\ receivedLength' = 0 /\ partialHeader' = << >>

\* A new frame: all of it is there, or the rest comes later.
StartFrame ==
    /\ ~panicked /\ msg # << >> /\ incoming.nil /\ Len(Joined) >= FrameLengthSize
    /\ \E length \in LengthSaid(Joined) :
          LET body == Drop(Joined, FrameLengthSize)
          IN  IF Len(body) >= length
              THEN /\ FrameComplete(SubSeq(body, 1, length))
                   /\ msg' = Drop(body, length)
              ELSE /\ incoming' = Buffer(CopyAt([k \in 1..length |-> Zero], 0, body))
                   /\ incomingLength' = length
                   /\ receivedLength' = Len(Joined)
                   /\ partialHeader' = << >> /\ msg' = << >>
                   /\ UNCHANGED frames
    /\ UNCHANGED <<sent, rest, panicked>>

\* Less than a header: the loop waits for the rest of it.
PartialHeader ==
    /\ ~panicked /\ msg # << >> /\ incoming.nil /\ Len(Joined) < FrameLengthSize
    /\ partialHeader' = Joined /\ msg' = << >>
    /\ UNCHANGED <<sent, rest, incoming, incomingLength, receivedLength, frames, panicked>>

\* More of a frame: msg[:incomingLength-receivedLength] with a negative bound panics.
ContinueFrame ==
    /\ ~panicked /\ msg # << >> /\ ~incoming.nil
    /\ LET missing == incomingLength - receivedLength
       IN  IF receivedLength > incomingLength
           THEN panicked' = TRUE
                /\ UNCHANGED <<msg, incoming, incomingLength, receivedLength, partialHeader, frames>>
           ELSE IF Len(msg) >= missing
           THEN /\ FrameComplete(CopyAt(incoming.data, receivedLength, SubSeq(msg, 1, missing)))
                /\ msg' = Drop(msg, missing)
                /\ UNCHANGED panicked
           ELSE /\ incoming' = Buffer(CopyAt(incoming.data, receivedLength, msg))
                /\ receivedLength' = receivedLength + Len(msg)
                /\ msg' = << >>
                /\ UNCHANGED <<incomingLength, partialHeader, frames, panicked>>
    /\ UNCHANGED <<sent, rest>>

Next == Read \/ StartFrame \/ PartialHeader \/ ContinueFrame

Spec == Init /\ [][Next]_vars
-------------------------------------------------------------------------------
(* Properties *)

\* "Whole frame is header + 3 bytes for length + data": the frames that come out
\* of the channel are the frames the server sent, however the websocket cut them.
FramesArrive ==
    /\ ~panicked
    /\ \A i \in 1..Len(frames) : i <= Len(sent) /\ frames[i] = Payload(i, sent[i])
===============================================================================
