------------------------------ MODULE Framing ------------------------------
(***************************************************************************)
(* ExternProcMessage: the messages of a helper process, framed on a stream *)
(* that the server reads in pieces.                                        *)
(*                                                                         *)
(* A frame is an opcode, a length and a payload; the four bytes of the     *)
(* length are one here.  What is left over from a read waits in            *)
(* recv_buffer, and the header that was read in currentFrame: both belong  *)
(* to the server, not to the connection, and a new child finds what the    *)
(* one before has left.  A child may die while it writes its last frame.   *)
(* The life of the children is in module ExternProc.                       *)
(***************************************************************************)
EXTENDS Naturals, Sequences, SequencesExt

CONSTANTS
  Payloads,      \* what a child may send: sequences of bytes
  MaxPayload,    \* MaxPayloadLength
  TypeMessage,   \* the only opcode there is
  MaxFrames,     \* bound on the messages of a child
  MaxChildren    \* bound on the children

Byte == 0..255
HeaderSize == 2
NoHeader == 256

ASSUME FramingAssumption ==
  /\ Payloads \subseteq Seq(Byte) /\ \A m \in Payloads : Len(m) \in Byte
  /\ TypeMessage \in Byte /\ MaxPayload \in Byte
  /\ MaxFrames \in Nat /\ MaxChildren \in Nat

VARIABLES
  frSent,      \* messages of the present child
  frWire,      \* bytes that the server has not read
  frBuffer,    \* recv_buffer
  frLength,    \* payload_length of currentFrame, once its header is read
  frGot,       \* messages emitted since the child connected
  frLink,      \* the connection: "open", "dying", or "closed"
  frChildren,  \* children so far
  frCut        \* history: a child has left a part of a frame behind

frVars == <<frSent, frWire, frBuffer, frLength, frGot, frLink, frChildren, frCut>>

FrameTypeOK ==
  /\ frSent \in Seq(Payloads)
  /\ frWire \in Seq(Byte) /\ frBuffer \in Seq(Byte)
  /\ frLength \in 0..MaxPayload \cup {NoHeader}
  /\ frGot \in Seq(Seq(Byte))
  /\ frLink \in {"open", "dying", "closed"}
  /\ frChildren \in Nat
  /\ frCut \in BOOLEAN

FrameInit ==
  /\ frSent = <<>> /\ frWire = <<>> /\ frBuffer = <<>> /\ frLength = NoHeader
  /\ frGot = <<>> /\ frLink = "open" /\ frChildren = 1 /\ frCut = FALSE

-----------------------------------------------------------------------------
(* getRawData() and processFrameData().  MoreThan, ReadAnew and AnyLength  *)
(* are faults, used by no action.                                          *)

Frame(m) == <<TypeMessage, Len(m)>> \o m

AnyLength(length) == FALSE
TooLong(length) == length > MaxPayload
MoreThan(b, length) == Len(b) > length
Complete(b, length) == Len(b) >= length
After(b, n) == SubSeq(b, n + 1, Len(b))

Decoded(messages, rest, length, error) ==
  [messages |-> messages, rest |-> rest, length |-> length, error |-> error]

\* What bytes give, after a header that announced "length" or without one: while
\* there are bytes.  A header of another opcode is skipped alone.
Decode[at \in Seq(Byte) \X (Byte \cup {NoHeader})] ==
  LET b == at[1]
      length == at[2]
  IN IF b = <<>> THEN Decoded(<<>>, b, length, FALSE)
     ELSE IF length = NoHeader
     THEN IF Len(b) < HeaderSize THEN Decoded(<<>>, b, NoHeader, FALSE)
          ELSE IF b[1] # TypeMessage THEN Decode[<<After(b, HeaderSize), NoHeader>>]
          ELSE IF TooLong(b[2]) THEN Decoded(<<>>, <<>>, NoHeader, TRUE)
          ELSE Decode[<<After(b, HeaderSize), b[2]>>]
     ELSE IF ~Complete(b, length) THEN Decoded(<<>>, b, length, FALSE)
     ELSE LET later == Decode[<<After(b, length), NoHeader>>]
          IN [later EXCEPT !.messages = <<SubSeq(b, 1, length)>> \o @]

-----------------------------------------------------------------------------
(* The server                                                              *)

\* processData(): an error closes the connection
ReadAnew(data) == data
Buffered(data) == frBuffer \o data
ProcessData(data) ==
  LET read == Decode[<<Buffered(data), frLength>>]
  IN /\ frGot' = frGot \o read.messages
     /\ frBuffer' = read.rest /\ frLength' = read.length
     /\ frLink' = IF read.error THEN "closed" ELSE frLink
     /\ frWire' = IF read.error THEN <<>> ELSE After(frWire, Len(data))

DataEvent ==
  /\ frLink # "closed"
  /\ \E n \in 1..Len(frWire) : ProcessData(SubSeq(frWire, 1, n))
  /\ UNCHANGED <<frSent, frChildren, frCut>>

\* EndEvent, after everything that was written
EndEvent ==
  /\ frLink = "dying" /\ frWire = <<>>
  /\ frLink' = "closed"
  /\ UNCHANGED <<frSent, frWire, frBuffer, frLength, frGot, frChildren, frCut>>

\* ListenEvent: the next child
ListenEvent ==
  /\ frLink = "closed" /\ frChildren < MaxChildren
  /\ frLink' = "open" /\ frChildren' = frChildren + 1
  /\ frSent' = <<>> /\ frWire' = <<>> /\ frGot' = <<>>
  /\ frCut' = (frCut \/ frBuffer # <<>> \/ frLength # NoHeader)
  /\ UNCHANGED <<frBuffer, frLength>>

-----------------------------------------------------------------------------
(* The child                                                               *)

SendFrame(m) ==
  /\ frLink = "open" /\ Len(frSent) < MaxFrames
  /\ frSent' = Append(frSent, m)
  /\ frWire' = frWire \o Frame(m)
  /\ UNCHANGED <<frBuffer, frLength, frGot, frLink, frChildren, frCut>>

\* The child ends, or is killed in the middle of its last frame
ChildDies ==
  /\ frLink = "open"
  /\ frLink' = "dying"
  /\ LET last == IF frSent = <<>> THEN 0 ELSE Len(Frame(frSent[Len(frSent)]))
     IN \E k \in 0..last :
          k <= Len(frWire) /\ frWire' = SubSeq(frWire, 1, Len(frWire) - k)
  /\ UNCHANGED <<frSent, frBuffer, frLength, frGot, frChildren, frCut>>

FrameNext ==
  \/ DataEvent \/ EndEvent \/ ListenEvent \/ ChildDies
  \/ \E m \in Payloads : SendFrame(m)

FrameSpec == FrameInit /\ [][FrameNext]_frVars

-----------------------------------------------------------------------------
(* Properties                                                              *)

\* However the stream is cut in pieces, and as long as no child died in the
\* middle of a frame, the messages of a child are received whole and in order;
\* nothing is held back once all its bytes are read, but an empty message, which
\* waits for the byte that follows it; nothing is taken for a message past one
\* that is too long ("The stream cannot be trusted anymore").
FramesInOrder ==
  ~frCut =>
    /\ IsPrefix(frGot, frSent)
    /\ frLink = "open" /\ frWire = <<>> => frSent \in {frGot, Append(frGot, <<>>)}
    /\ \A i \in DOMAIN frGot : Len(frGot[i]) <= MaxPayload
=============================================================================
