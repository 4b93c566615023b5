---------------------------- MODULE ProtocolParser ----------------------------
(***************************************************************************)
(* The parser of the stream from the central system: ProtocolParser cuts   *)
(* what the socket delivers, in chunks of any size, into messages, and     *)
(* drops its buffer when a header is not one.                              *)
(*                                                                         *)
(* A cell stands for a field of the header or for a piece of a body; the   *)
(* header keeps the two fields the parser looks at.  _transform does not   *)
(* wait for anything: its loop is the steps that are taken while the       *)
(* buffer holds what is needed, and the next chunk comes after them.       *)
(***************************************************************************)
EXTENDS Naturals, Sequences, FiniteSets

CONSTANTS
    Magic,         (* MAGIC_NUMBER                                           *)
    MaxBody,       (* MAX_BODY_LENGTH                                        *)
    Frames,        (* what the central system may send                       *)
    MaxFrames      (* bound: frames it sends on a connection                 *)

HeaderLength == 2

\* A frame by the two fields the parser looks at and what is sent of its body.
Frame == [magic : Nat, length : Nat, body : Seq(Nat)]
IsMessage(f) == f.magic = Magic /\ f.length <= MaxBody

\* A header that is not refused tells the truth.
ASSUME ParserAssumption ==
    /\ Magic \in Nat
    /\ MaxBody \in Nat /\ MaxFrames \in Nat
    /\ Frames \subseteq Frame
    /\ \A f \in Frames : IsMessage(f) => f.length = Len(f.body)

VARIABLES
    buffer, neededLength, parsingState, header,  \* the fields of the parser
    emitted,    \* bodies of the 'message' events of this connection
    frames,     \* what the central system sent on this connection
    wire,       \* the cells of it
    ends,       \* where in them each frame ends
    got,        \* how many of them came out of the socket
    expected,   \* bodies a stream cut at the ends of messages delivers (ghost)
    errors,     \* a header was refused on this connection (ghost)
    aligned     \* do chunks end where messages end?

parser == <<buffer, neededLength, parsingState, header, emitted>>
sent == <<frames, wire, ends>>
stream == <<sent, got, expected, aligned>>
parserVars == <<parser, stream, errors>>

ParserTypeOK ==
    /\ buffer \in Seq(Nat)
    /\ neededLength \in 1..MaxBody \cup {HeaderLength}
    /\ parsingState \in {"HEADER", "BODY"}
    /\ header \in Nat
    /\ emitted \in Seq(Seq(Nat)) /\ expected \in Seq(Seq(Nat))
    /\ frames \in Seq(Frames) /\ wire \in Seq(Nat) /\ ends \in Seq(Nat)
    /\ got \in Nat
    /\ errors \in BOOLEAN /\ aligned \in BOOLEAN

ParserInit ==
    /\ buffer = <<>> /\ header = 0
    /\ neededLength = HeaderLength
    /\ parsingState = "HEADER"
    /\ frames = <<>> /\ wire = <<>> /\ ends = <<>>
    /\ got = 0 /\ errors = FALSE
    /\ emitted = <<>> /\ expected = <<>>
    /\ aligned \in BOOLEAN

-----------------------------------------------------------------------------
(* The stream.                                                              *)

Encoding(f) == <<f.magic, f.length>> \o f.body
EndOf(n) == IF n = 0 THEN 0 ELSE ends[n]

Send(f) ==
    /\ Len(frames) < MaxFrames
    /\ aligned => f.length <= MaxBody       \* too long for one chunk
    /\ frames' = Append(frames, f)
    /\ wire' = wire \o Encoding(f)
    /\ ends' = Append(ends, Len(wire'))
    /\ UNCHANGED <<parser, got, expected, errors, aligned>>

\* The frames that arrived whole.
Arrived == {n \in 1..Len(frames) : EndOf(n) <= got}
Between(n) == {i \in 1..Len(frames) : EndOf(i) > got /\ EndOf(i) <= n}
Good(i) == IsMessage(frames[i])

Idle == Len(buffer) < neededLength

\* A chunk; of an aligned one the messages before the first foreign header are
\* expected.
Deliver(n) ==
    /\ Idle
    /\ n \in got + 1..Len(wire)
    /\ aligned => \E i \in 1..Len(frames) : n = EndOf(i)
    /\ buffer' = buffer \o SubSeq(wire, got + 1, n)
    /\ got' = n
    /\ LET taken == {i \in Between(n) : \A k \in Between(n) : k <= i => Good(k)} IN
       expected' = expected \o
           [k \in 1..Cardinality(taken) |-> frames[Cardinality(Arrived) + k].body]
    /\ UNCHANGED <<neededLength, parsingState, header, emitted, sent, errors, aligned>>

-----------------------------------------------------------------------------
(* _transform.                                                              *)

\* emitCompleteMessage.
Emits(body) ==
    /\ emitted' = Append(emitted, body)
    /\ header' = 0
    /\ neededLength' = HeaderLength
    /\ parsingState' = "HEADER"

\* Mutant: the limit on the length of a body is not checked.
RefusedMagicOnly == buffer[1] # Magic

Refused == buffer[1] # Magic \/ buffer[2] > MaxBody

\* Mutant: only the header that was refused is dropped.
SkipHeader ==
    /\ buffer' = SubSeq(buffer, HeaderLength + 1, Len(buffer))
    /\ header' = 0
    /\ neededLength' = HeaderLength
    /\ parsingState' = "HEADER"
    /\ UNCHANGED emitted

ResetParserState ==
    /\ buffer' = <<>>
    /\ header' = 0
    /\ neededLength' = HeaderLength
    /\ parsingState' = "HEADER"
    /\ UNCHANGED emitted

ParseHeader ==
    /\ ~Idle
    /\ parsingState = "HEADER"
    /\ \/ /\ Refused
          /\ ResetParserState
          /\ errors' = TRUE
       \/ /\ ~Refused
          /\ buffer' = SubSeq(buffer, HeaderLength + 1, Len(buffer))
          /\ IF buffer[2] = 0 THEN Emits(<<>>)
             ELSE /\ header' = buffer[2]
                  /\ neededLength' = buffer[2]
                  /\ parsingState' = "BODY"
                  /\ UNCHANGED emitted
          /\ UNCHANGED errors
    /\ UNCHANGED stream

\* Mutant: neededLength is read after emitCompleteMessage has set it again.
ParseBodyLate ==
    /\ ~Idle
    /\ parsingState = "BODY"
    /\ Emits(SubSeq(buffer, 1, neededLength))
    /\ buffer' = SubSeq(buffer, neededLength' + 1, Len(buffer))
    /\ UNCHANGED <<stream, errors>>

ParseBody ==
    /\ ~Idle
    /\ parsingState = "BODY"
    /\ Emits(SubSeq(buffer, 1, neededLength))
    /\ buffer' = SubSeq(buffer, neededLength + 1, Len(buffer))
    /\ UNCHANGED <<stream, errors>>

-----------------------------------------------------------------------------
NextStream ==
    /\ frames' = <<>> /\ wire' = <<>> /\ ends' = <<>>
    /\ got' = 0 /\ errors' = FALSE
    /\ emitted' = <<>> /\ expected' = <<>>
    /\ aligned' \in BOOLEAN

\* connect() makes a new parser; what the old one held is lost.
Reconnect ==
    /\ Idle
    /\ buffer' = <<>> /\ header' = 0
    /\ neededLength' = HeaderLength
    /\ parsingState' = "HEADER"
    /\ NextStream

ParserNext ==
    \/ \E f \in Frames : Send(f)
    \/ \E n \in 1..Len(wire) : Deliver(n)
    \/ ParseHeader \/ ParseBody
    \/ Reconnect

ParserSpec == ParserInit /\ [][ParserNext]_parserVars
-----------------------------------------------------------------------------
(* Properties.                                                              *)

\* How the stream is cut into chunks does not show: once the loop of _transform
\* has ended, the messages that arrived whole were emitted, each once, in order
\* and with their bodies, up to the first header that is refused; and none is
\* refused before.
CuttingDoesNotShow ==
    Idle =>
        LET whole == {n \in Arrived : \A i \in 1..n : Good(i)}
            count == Cardinality(whole)
        IN  /\ Len(emitted) >= count
            /\ \A i \in whole : emitted[i] = frames[i].body
            /\ errors \/ Len(emitted) = count
            /\ errors => \E i \in 1..Len(frames) : ~Good(i) /\ EndOf(i - 1) + HeaderLength <= got

\* A refused header costs the messages that came in its chunk and no other: with
\* the next chunk the parser is on its feet again, if that begins with a message.
ErrorsAreLocal == aligned /\ Idle => emitted = expected

\* What the parser keeps while it waits is less than a header or the largest
\* body, whatever comes and wherever its reset lands in the stream.
BufferBounded == Idle => Len(buffer) < MaxBody \/ Len(buffer) < HeaderLength
=============================================================================
