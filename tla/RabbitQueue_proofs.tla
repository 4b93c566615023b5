-------------------------- MODULE RabbitQueue_proofs --------------------------
(***************************************************************************)
(* Theorems about the two consumers of RabbitMQ, ReportIntake and          *)
(* DisasterDelivery, and the process that is one of them, Consumption, for *)
(* any number of messages, copies in the broker, retries, lost connections *)
(* and subscribed systems.                                                 *)
(*                                                                         *)
(* What the two share is proved once, about the actions of RabbitQueue.    *)
(* It follows the delivery tags: as long as no handler outlived its        *)
(* channel, every call that has not confirmed its message still has its    *)
(* copy in the broker, every confirmation under way is for a copy of its   *)
(* own, and no two of them share a tag.  Then a message is kept, that is,  *)
(* has a copy no acknowledgement takes before its next copy is there,      *)
(* until a handler that has recorded it acknowledges it, or the broker     *)
(* rejects it to nowhere.  Each consumer adds what its tables hold by then.*)
(***************************************************************************)
EXTENDS Consumption, TLAPS, SequenceTheorems

Copy == [message : Messages, retry : 0..MaxRetries, place : Places, tag : Nat]

\* What either consumer has of a call.
CallsTyped ==
    \A h \in handlers : h.tag \in Nat /\ h.message \in Messages /\ h.retry \in 0..MaxRetries

Unacked(c) == copies[c].place = "unacked"

IsFor(c, x) ==
    /\ Unacked(c)
    /\ copies[c].tag = x.tag /\ copies[c].message = x.message /\ copies[c].retry = x.retry

Live == {h \in handlers : h.pc # "fail"}

Confirms == {i \in 1..Len(pipe) : pipe[i].op # "retry"}

TagsAreKnown ==
    /\ \A c \in Copies : Unacked(c) => copies[c].tag < nextTag
    /\ \A h \in handlers : h.tag < nextTag

TagsDiffer ==
    /\ \A c, d \in Copies : Unacked(c) /\ Unacked(d) /\ copies[c].tag = copies[d].tag => c = d
    /\ \A h, k \in handlers : h.tag = k.tag => h = k
    /\ \A i, j \in Confirms : pipe[i].tag = pipe[j].tag => i = j
    /\ \A i \in Confirms, h \in Live : pipe[i].tag # h.tag

\* Without a channel nothing is delivered and nothing under way.
ClosedIsEmpty == channel # "open" => pipe = <<>> /\ \A c \in Copies : ~Unacked(c)

TagsHaveCopies ==
    /\ channel = "open" => \A h \in Live : \E c \in Copies : IsFor(c, h)
    /\ \A i \in Confirms : \E c \in Copies : IsFor(c, pipe[i])

TagsAreOwn == TagsAreKnown /\ TagsDiffer /\ ClosedIsEmpty /\ TagsHaveCopies

\* A copy of r that no ack under way removes before another copy is there.
Stays(c, r) ==
    /\ copies[c].message = r /\ copies[c].place # "none"
    /\ \A i \in Confirms :
        pipe[i].op = "ack" /\ Unacked(c) /\ pipe[i].tag = copies[c].tag =>
            \E j \in 1..i - 1 : pipe[j].op = "retry" /\ pipe[j].message = r

Kept(r) == \E c \in Copies : Stays(c, r)

-----------------------------------------------------------------------------
(* The invariants of the two consumers.                                     *)

RowsFirst == \A h \in handlers : h.pc \in {"settle", "ack"} => h.message \in outbox

IntakeInv ==
    /\ TypeOK
    /\ SuccessHasRow
    /\ RowsFirst
    /\ outlived \/ (TagsAreOwn /\ \A r \in published : r \in outbox \/ Kept(r))

\* A call that fans out has found the steady subscribers, one that acknowledges
\* has fanned out, and who nacks has given the disaster up.
FoundSteady == \A h \in handlers : h.pc = "commit" => Steady \subseteq h.found
DeliveredFirst == \A h \in handlers : h.pc = "ack" => Delivered(h.message)
NacksGiveUp == \A i \in Confirms : pipe[i].op = "nack" => pipe[i].message \in rejected

DeliveryInv ==
    /\ DeliveryTypeOK
    /\ FanOutIsWhole
    /\ FoundSteady
    /\ DeliveredFirst
    /\ NacksGiveUp
    /\ outlived \/ ( /\ TagsAreOwn
                     /\ \A d \in published : Delivered(d) \/ d \in rejected \/ Kept(d) )

-----------------------------------------------------------------------------
(* Types of the queue.                                                      *)

\* A place for a copy that is not in use.
LEMMA NoCopyType == NoCopy \in Copy
BY QueueAssumption DEF QueueAssumption, NoCopy, Places, Copy

\* An empty queue.
LEMMA QueueInitType == QueueInit => QueueTypeOK
<1> SUFFICES ASSUME QueueInit PROVE QueueTypeOK
    OBVIOUS
<1>1. copies \in [Copies -> Copy]
    BY NoCopyType DEF QueueInit
<1>2. pipe \in Seq(Command)
    BY EmptySeq DEF QueueInit
<1>3. losses \in 0..MaxLosses /\ channel \in {"open", "null", "closed"}
    BY QueueAssumption DEF QueueAssumption, QueueInit
<1> QED
    BY <1>1, <1>2, <1>3 DEF QueueInit, QueueTypeOK, Copy

\* What a copy is.
LEMMA CopyType ==
    ASSUME QueueTypeOK, NEW c \in Copies
    PROVE  /\ copies[c] \in Copy
           /\ copies[c].message \in Messages
           /\ copies[c].retry \in 0..MaxRetries
           /\ copies[c].tag \in Nat
BY DEF QueueTypeOK, Copy

\* What the broker requeues when a channel goes.
LEMMA RequeuedType == QueueTypeOK => Requeued \in [Copies -> Copy]
BY DEF QueueTypeOK, Requeued, Places, Copy

\* What a handler may write to its channel.
LEMMA CallCommands ==
    ASSUME CallsTyped, NEW h \in handlers
    PROVE  /\ \A op \in {"ack", "nack"} : Confirm(h, op) \in Command
           /\ h.retry < MaxRetries => NextTry(h) \in Command
           /\ h.retry \in Int /\ MaxRetries \in Int
<1>1. /\ h.tag \in Nat /\ h.message \in Messages /\ h.retry \in 0..MaxRetries
      /\ MaxRetries \in Nat
    BY QueueAssumption DEF QueueAssumption, CallsTyped
<1> QED
    BY <1>1 DEF Command, Confirm, NextTry

\* What is under way to the broker.
LEMMA PipeType ==
    ASSUME QueueTypeOK
    PROVE  /\ pipe \in Seq(Command)
           /\ pipe # <<>> => Head(pipe) \in Command /\ Tail(pipe) \in Seq(Command)
           /\ <<>> \in Seq(Command)
BY HeadTailProperties, EmptySeq DEF QueueTypeOK

\* A message is published.
LEMMA PublishType ==
    ASSUME QueueTypeOK, NEW m \in Messages, Publish(m)
    PROVE  QueueTypeOK'
BY QueueAssumption
   DEF QueueAssumption, Publish, Put, JoinsLine, Lined, amqp, QueueTypeOK, Places

\* A copy leaves the waiting queue (x-message-ttl).
LEMMA ExpiresType ==
    ASSUME QueueTypeOK, NEW c \in Copies, WaitExpires(c)
    PROVE  QueueTypeOK'
BY DEF WaitExpires, JoinsLine, Lined, amqp, QueueTypeOK, Places

\* A copy is delivered.
LEMMA DeliverType ==
    ASSUME QueueTypeOK, NEW c \in Copies, NEW call, Deliver(c, call)
    PROVE  QueueTypeOK'
<1> DEFINE delivered == [[copies[c] EXCEPT !.place = "unacked"] EXCEPT !.tag = nextTag]
<1>1. delivered \in Copy
    BY CopyType DEF Places, QueueTypeOK, Copy
<1>2. copies' = [copies EXCEPT ![c] = delivered]
    BY DEF Deliver, QueueTypeOK
<1> HIDE DEF delivered
<1>3. copies' \in [Copies -> Copy]
    BY <1>1, <1>2 DEF QueueTypeOK, Copy
<1>4. nextTag \in Nat /\ nextTag' = nextTag + 1
    BY DEF Deliver, QueueTypeOK
<1>5. nextTag' \in Nat
    BY <1>4
<1>6. UNCHANGED <<published, ahead, pipe, channel, channels, dying, outlived, losses>>
    BY DEF Deliver
<1> QED
    BY <1>3, <1>5, <1>6 DEF QueueTypeOK, Copy

\* The broker takes a command.
LEMMA BrokerType ==
    ASSUME QueueTypeOK, NEW lettered \in {"dead", "none"}, BrokerTakes(lettered)
    PROVE  QueueTypeOK'
<1>1. CASE ChannelError
    BY <1>1, RequeuedType, PipeType DEF ChannelError, BrokerTakes, QueueTypeOK, Copy
<1>2. CASE Head(pipe).op = "retry"
  <2>1. Head(pipe) \in [op : {"retry"}, message : Messages, retry : 0..MaxRetries]
      BY <1>2, PipeType DEF BrokerTakes, Command
  <2>2. PICK c \in Copies : Put(c, Head(pipe).message, Head(pipe).retry, "wait")
      BY <1>2 DEF BrokerTakes
  <2>3. copies' \in [Copies -> Copy]
      BY <2>1, <2>2 DEF Put, QueueTypeOK, Places, Copy
  <2> QED
      BY <1>2, <2>3, PipeType DEF BrokerTakes, QueueTypeOK, Copy
<1>3. CASE Confirmed(Head(pipe), lettered)
  <2>1. PICK c \in Tagged(Head(pipe).tag) :
           /\ copies' = [copies EXCEPT ![c] =
                  IF Head(pipe).op = "ack" \/ lettered = "none" THEN NoCopy
                  ELSE [@ EXCEPT !.place = lettered, !.tag = 0]]
           /\ LeavesLine(c)
      BY <1>3 DEF Confirmed
  <2>2. c \in Copies
      BY DEF Tagged
  <2> DEFINE dead == [[copies[c] EXCEPT !.place = lettered] EXCEPT !.tag = 0]
  <2>3. dead \in Copy
      BY <2>2, CopyType DEF Places, Copy
  <2>4. copies' \in [Copies -> Copy]
      BY <2>1, <2>2, <2>3, NoCopyType DEF QueueTypeOK, Copy
  <2>5. ahead' \subseteq Copies \X Copies
      BY <2>1 DEF LeavesLine, QueueTypeOK
  <2>6. pipe' \in Seq(Command)
      BY <1>3, PipeType DEF BrokerTakes, ChannelError
  <2>7. channel' \in {"open", "null", "closed"} /\ dying' \in BOOLEAN
      BY DEF BrokerTakes, ChannelError, QueueTypeOK
  <2> QED
      BY <2>4, <2>5, <2>6, <2>7 DEF BrokerTakes, QueueTypeOK, Copy
<1> QED
    BY <1>1, <1>2, <1>3 DEF BrokerTakes

\* A sequence with two more elements.
LEMMA PairProperties ==
    ASSUME NEW S, NEW s \in Seq(S), NEW a \in S, NEW b \in S
    PROVE  /\ s \o <<a, b>> \in Seq(S)
           /\ Len(s \o <<a, b>>) = Len(s) + 2
           /\ \A i \in 1..Len(s) : (s \o <<a, b>>)[i] = s[i]
           /\ (s \o <<a, b>>)[Len(s) + 1] = a
           /\ (s \o <<a, b>>)[Len(s) + 2] = b
<1> DEFINE t == <<a, b>>
<1>1. t \in Seq(S) /\ Len(t) = 2 /\ t[1] = a /\ t[2] = b
    OBVIOUS
<1>2. Len(s) \in Nat
    BY LenProperties
<1> HIDE DEF t
<1>3. /\ s \o t \in Seq(S)
      /\ Len(s \o t) = Len(s) + Len(t)
      /\ \A i \in 1..(Len(s) + Len(t)) : (s \o t)[i] = IF i <= Len(s) THEN s[i] ELSE t[i - Len(s)]
    BY <1>1, ConcatProperties, Zenon
<1>4. /\ \A i \in 1..Len(s) : (s \o t)[i] = s[i]
      /\ (s \o t)[Len(s) + 1] = t[1]
      /\ (s \o t)[Len(s) + 2] = t[2]
    BY <1>1, <1>2, <1>3
<1> QED
    BY <1>1, <1>3, <1>4 DEF t

\* A handler that looks at the channel acknowledges, sends the next copy and then
\* acknowledges, or nacks; or it says nothing.
LEMMA ChannelCommands ==
    ASSUME CallsTyped, NEW h \in handlers, Acknowledge(h) \/ RetryOrReject(h) \/ Rejects(h)
    PROVE  \/ Acknowledge(h) /\ channel = "open" /\ pipe' = Append(pipe, Confirm(h, "ack"))
           \/ /\ RetryOrReject(h) /\ h.retry < MaxRetries /\ Ends(h)
              /\ NextTry(h) \in Command /\ pipe' = pipe \o <<NextTry(h), Confirm(h, "ack")>>
           \/ /\ RetryOrReject(h) /\ ~(h.retry < MaxRetries)
              /\ pipe' = Append(pipe, Confirm(h, "nack"))
           \/ ((Acknowledge(h) /\ channel # "open") \/ Rejects(h)) /\ pipe' = pipe
<1>1. CASE Acknowledge(h)
    BY <1>1 DEF Acknowledge
<1>2. CASE RetryOrReject(h)
  <2>1. /\ h.retry \in Int /\ MaxRetries \in Int
        /\ h.retry < MaxRetries => NextTry(h) \in Command
      BY CallCommands
  <2>2. \/ h.retry < MaxRetries /\ pipe' = pipe \o RetryCommands(h) /\ Ends(h)
        \/ h.retry >= MaxRetries /\ pipe' = Append(pipe, Confirm(h, "nack"))
      BY <1>2 DEF RetryOrReject
  <2>3. h.retry >= MaxRetries => ~(h.retry < MaxRetries)
      BY <2>1
  <2> QED
      BY <1>2, <2>1, <2>2, <2>3, Zenon DEF RetryCommands
<1>3. CASE Rejects(h)
    BY <1>3 DEF Rejects
<1> QED
    BY <1>1, <1>2, <1>3

\* A handler writes to its channel, or cannot.
LEMMA ChannelType ==
    ASSUME QueueTypeOK, CallsTyped, NEW h \in handlers,
           Acknowledge(h) \/ RetryOrReject(h) \/ Rejects(h)
    PROVE  QueueTypeOK'
<1>1. pipe' \in Seq(Command)
  <2>1. pipe \in Seq(Command) /\ Confirm(h, "ack") \in Command /\ Confirm(h, "nack") \in Command
      BY CallCommands, PipeType
  <2>2. \A x \in Command : Append(pipe, x) \in Seq(Command)
      BY <2>1, AppendProperties, Zenon
  <2>3. \A x, y \in Command : pipe \o <<x, y>> \in Seq(Command)
      BY <2>1, PairProperties, Zenon
  <2> QED
      BY <2>1, <2>2, <2>3, ChannelCommands, Zenon
<1> QED
    BY <1>1 DEF Acknowledge, RetryOrReject, Rejects, broker, QueueTypeOK

\* The connection goes, comes back, or the process restarts.
LEMMA ConnectionType ==
    ASSUME QueueTypeOK, ConnectionLost \/ Reconnect \/ Restart \/ Crash
    PROVE  QueueTypeOK' /\ handlers' \subseteq handlers
<1>1. pipe' \in Seq(Command) /\ handlers' \subseteq handlers
    BY PipeType DEF ConnectionLost, Reconnect, Restart, Crash, NewProcess, OpenChannel
<1>2. copies' \in [Copies -> Copy]
    BY RequeuedType
       DEF ConnectionLost, Reconnect, Restart, Crash, NewProcess, broker, QueueTypeOK, Copy
<1>3. losses' \in 0..MaxLosses
  <2> losses \in 0..MaxLosses /\ MaxLosses \in Nat
      BY QueueAssumption DEF QueueAssumption, QueueTypeOK
  <2>1. ConnectionLost \/ Crash => losses < MaxLosses /\ losses' = losses + 1
      BY DEF ConnectionLost, Crash
  <2>2. Reconnect \/ Restart => losses' = losses
      BY DEF Reconnect, Restart
  <2> QED
      BY <2>1, <2>2
<1>4. channels' \in Nat /\ nextTag' \in Nat
  <2> channels \in Nat /\ nextTag \in Nat
      BY DEF QueueTypeOK
  <2>1. ConnectionLost => channels' = channels /\ nextTag' = nextTag
      BY DEF ConnectionLost
  <2>2. Reconnect => channels' = channels + 1 /\ nextTag' = 1
      BY DEF Reconnect, OpenChannel
  <2>3. Restart \/ Crash => channels' = 1 /\ nextTag' = 1
      BY DEF Restart, Crash, NewProcess, OpenChannel
  <2> QED
      BY <2>1, <2>2, <2>3
<1>5. dying' \in BOOLEAN /\ outlived' \in BOOLEAN /\ channel' \in {"open", "null", "closed"}
    BY DEF ConnectionLost, Reconnect, Restart, Crash, NewProcess, OpenChannel, QueueTypeOK
<1>6. published' = published /\ ahead' = ahead
    BY DEF ConnectionLost, Reconnect, Restart, Crash, NewProcess, broker
<1> QED
    BY <1>1, <1>2, <1>3, <1>4, <1>5, <1>6 DEF QueueTypeOK, Copy

-----------------------------------------------------------------------------
(* The delivery tags.                                                       *)

\* h goes on as k, or ends.
Becomes(h, k) ==
    /\ handlers' \subseteq (handlers \ {h}) \cup {k}
    /\ k.tag = h.tag /\ k.message = h.message /\ k.retry = h.retry

\* A call may go on anywhere without losing what it was called with.
Moves(h) ==
    \A pc : LET k == [h EXCEPT !.pc = pc] IN
        k.pc = pc /\ k.tag = h.tag /\ k.message = h.message /\ k.retry = h.retry

\* A handler that goes on, or ends, keeps its tag and its message.
LEMMA GoesOn ==
    ASSUME NEW h \in handlers, Moves(h)
    PROVE  /\ \A pc : GoesTo(h, pc) => \E k : Becomes(h, k) /\ k.pc = pc
           /\ Ends(h) => \A pc : \E k : Becomes(h, k) /\ k.pc = pc
<1>1. ASSUME NEW pc, GoesTo(h, pc) \/ Ends(h)
      PROVE  \E k : Becomes(h, k) /\ k.pc = pc
  <2> DEFINE k == [h EXCEPT !.pc = pc]
  <2>1. Becomes(h, k) /\ k.pc = pc
      BY <1>1 DEF GoesTo, Ends, Becomes, Moves
  <2> QED
      BY <2>1
<1> QED
    BY <1>1

\* The calls of the handler are, but for their progress, among those before.
CallsRemain ==
    /\ \A g \in handlers' : \E h \in handlers :
        /\ g.tag = h.tag /\ g.message = h.message /\ g.retry = h.retry
        /\ g.pc # "fail" => h.pc # "fail"
    /\ \A g, k \in handlers' : g.tag = k.tag => g = k

\* The other handlers keep theirs, and it has no twin.
LEMMA BecomesRemains ==
    ASSUME TagsDiffer, NEW h \in handlers, NEW k, Becomes(h, k), h.pc = "fail" => k.pc = "fail"
    PROVE  CallsRemain
<1>1. \A g \in handlers' : g \in handlers \ {h} \/ g = k
    BY DEF Becomes
<1>2. \A g \in handlers \ {h} : g.tag # k.tag
    BY DEF Becomes, TagsDiffer
<1>3. \A g, l \in handlers' : g.tag = l.tag => g = l
    BY <1>1, <1>2 DEF TagsDiffer
<1> QED
    BY <1>1, <1>3 DEF CallsRemain, Becomes

\* Handlers that only end.
LEMMA SameCallsRemain ==
    ASSUME TagsDiffer, handlers' \subseteq handlers
    PROVE  CallsRemain
BY DEF TagsDiffer, CallsRemain

\* The broker takes d commands from the pipe and lets go of copies nobody refers to.
LEMMA TagsStay ==
    ASSUME QueueTypeOK, TagsAreOwn, CallsRemain,
           nextTag' = nextTag, channel' = channel, pipe = <<>> => pipe' = <<>>,
           NEW d \in Nat,
           \A i \in Confirms' : i \in Nat /\ i + d \in Confirms /\ pipe'[i] = pipe[i + d],
           \A c \in Copies : Unacked(c)' => Unacked(c) /\ copies'[c] = copies[c],
           \A c \in Copies : Unacked(c) => Unacked(c)' \/
               /\ \A h \in Live : h.tag # copies[c].tag
               /\ \A i \in Confirms' : pipe'[i].tag # copies[c].tag
    PROVE  TagsAreOwn'
<1> USE DEF TagsAreOwn
<1>1. TagsAreKnown'
    BY DEF TagsAreKnown, CallsRemain
<1>2. \A g \in Live' : \E h \in Live : g.tag = h.tag /\ g.message = h.message /\ g.retry = h.retry
    BY DEF Live, CallsRemain
<1>3. TagsDiffer'
  <2>1. \A c, e \in Copies : Unacked(c)' /\ Unacked(e)' /\ copies'[c].tag = copies'[e].tag => c = e
      BY DEF TagsDiffer
  <2>2. \A i, j \in Confirms' : pipe'[i].tag = pipe'[j].tag => i = j
      BY DEF TagsDiffer
  <2>3. \A i \in Confirms', g \in Live' : pipe'[i].tag # g.tag
      BY <1>2 DEF TagsDiffer
  <2> QED
      BY <2>1, <2>2, <2>3 DEF TagsDiffer, CallsRemain, Unacked
<1>4. ClosedIsEmpty'
    BY DEF ClosedIsEmpty
<1>5. \A c \in Copies : \A x : IsFor(c, x) /\ Unacked(c)' => IsFor(c, x)'
    BY DEF IsFor
<1>6. ASSUME channel = "open", NEW g \in Live'
      PROVE  \E c \in Copies : IsFor(c, g)'
  <2>1. PICK h \in Live : g.tag = h.tag /\ g.message = h.message /\ g.retry = h.retry
      BY <1>2
  <2>2. PICK c \in Copies : IsFor(c, h)
      BY <1>6 DEF TagsHaveCopies
  <2>3. Unacked(c)' /\ copies'[c] = copies[c]
      BY <2>2 DEF IsFor
  <2> QED
      BY <2>1, <2>2, <2>3 DEF IsFor
<1>7. ASSUME NEW i \in Confirms'
      PROVE  \E c \in Copies : IsFor(c, pipe[i])'
  <2>1. PICK c \in Copies : IsFor(c, pipe[i + d])
      BY DEF TagsHaveCopies
  <2>2. Unacked(c)' /\ copies'[c] = copies[c]
      BY <2>1 DEF IsFor
  <2> QED
      BY <2>1, <2>2 DEF IsFor
<1>8. TagsHaveCopies'
    BY <1>6, <1>7 DEF TagsHaveCopies
<1> QED
    BY <1>1, <1>3, <1>4, <1>8

\* A call sends its confirmation, the last of its commands.
LEMMA TagsSent ==
    ASSUME QueueTypeOK, TagsAreOwn, CallsRemain, channel = "open", NEW h \in Live,
           nextTag' = nextTag, channel' = channel, copies' = copies,
           NEW n,
           \A i \in Confirms' : \/ i \in Confirms /\ pipe'[i] = pipe[i]
                                \/ i = n,
           pipe'[n].tag = h.tag, pipe'[n].message = h.message, pipe'[n].retry = h.retry,
           \A g \in Live' : g.tag # h.tag
    PROVE  TagsAreOwn'
<1> USE DEF TagsAreOwn
<1>1. TagsAreKnown'
    BY DEF TagsAreKnown, CallsRemain, Unacked
<1>2. \A g \in Live' : \E k \in Live : g.tag = k.tag /\ g.message = k.message /\ g.retry = k.retry
    BY DEF Live, CallsRemain
<1>3. TagsDiffer'
  <2>1. \A c, e \in Copies : Unacked(c)' /\ Unacked(e)' /\ copies'[c].tag = copies'[e].tag => c = e
      BY DEF TagsDiffer, Unacked
  <2>2. \A i, j \in Confirms' : pipe'[i].tag = pipe'[j].tag => i = j
      BY DEF TagsDiffer
  <2>3. \A i \in Confirms', g \in Live' : pipe'[i].tag # g.tag
      BY <1>2 DEF TagsDiffer
  <2> QED
      BY <2>1, <2>2, <2>3 DEF TagsDiffer, CallsRemain, Unacked
<1>4. ClosedIsEmpty'
    BY DEF ClosedIsEmpty
<1>5. \A c \in Copies : \A x : IsFor(c, x)' <=> IsFor(c, x)
    BY DEF IsFor, Unacked
<1>6. ASSUME NEW g \in Live'
      PROVE  \E c \in Copies : IsFor(c, g)'
  <2>1. PICK k \in Live : g.tag = k.tag /\ g.message = k.message /\ g.retry = k.retry
      BY <1>2
  <2>2. PICK c \in Copies : IsFor(c, k)
      BY DEF TagsHaveCopies
  <2> QED
      BY <2>1, <2>2 DEF IsFor, Unacked
<1>7. ASSUME NEW i \in Confirms'
      PROVE  \E c \in Copies : IsFor(c, pipe[i])'
  <2>1. CASE i \in Confirms /\ pipe'[i] = pipe[i]
    <3>1. PICK c \in Copies : IsFor(c, pipe[i])
        BY <2>1 DEF TagsHaveCopies
    <3> QED
        BY <2>1, <3>1 DEF IsFor, Unacked
  <2>2. CASE i = n
    <3>1. PICK c \in Copies : IsFor(c, h)
        BY DEF TagsHaveCopies
    <3> QED
        BY <2>2, <3>1 DEF IsFor, Unacked
  <2> QED
      BY <2>1, <2>2
<1>8. TagsHaveCopies'
    BY <1>6, <1>7 DEF TagsHaveCopies
<1> QED
    BY <1>1, <1>3, <1>4, <1>8

\* Nothing is delivered and nothing under way: no tag is in use.
LEMMA TagsUnused ==
    ASSUME CallsRemain, pipe' = <<>>, \A c \in Copies : ~Unacked(c)',
           \A g \in handlers' : g.tag < nextTag',
           channel' # "open" \/ handlers' = {}
    PROVE  TagsAreOwn'
<1>1. Confirms' = {}
    BY EmptySeq DEF Confirms
<1> QED
    BY <1>1 DEF TagsAreOwn, TagsAreKnown, TagsDiffer, ClosedIsEmpty, TagsHaveCopies, CallsRemain, Live

-----------------------------------------------------------------------------
(* The commands under way.                                                  *)

\* What is under way, by place.
LEMMA PipeIsSeq ==
    ASSUME QueueTypeOK
    PROVE  /\ Len(pipe) \in Nat
           /\ \A i \in 1..Len(pipe) : pipe[i] \in Command
           /\ Confirms \subseteq 1..Len(pipe)
           /\ \A i \in Confirms : pipe[i].op \in {"ack", "nack"} /\ pipe[i].tag \in Nat
<1>1. Len(pipe) \in Nat /\ \A i \in 1..Len(pipe) : pipe[i] \in Command
    BY PipeType, LenProperties
<1> QED
    BY <1>1 DEF Confirms, Command

\* The first command is taken and the others move up.
LEMMA FirstTaken ==
    ASSUME QueueTypeOK, pipe # <<>>, pipe' = Tail(pipe)
    PROVE  /\ 1 \in 1..Len(pipe) /\ Head(pipe) = pipe[1] /\ Head(pipe) \in Command
           /\ Len(pipe') = Len(pipe) - 1
           /\ \A i \in 1..Len(pipe') : i + 1 \in 1..Len(pipe) /\ pipe'[i] = pipe[i + 1]
           /\ \A i \in Confirms' : i \in Nat /\ i + 1 \in Confirms /\ pipe'[i] = pipe[i + 1]
<1> HIDE DEF Command
<1>1. pipe \in Seq(Command)
    BY PipeType
<1>2. /\ Head(pipe) \in Command /\ Len(pipe') = Len(pipe) - 1
      /\ \A i \in 1..Len(pipe') : pipe'[i] = pipe[i + 1]
    BY <1>1, HeadTailProperties
<1>3. Len(pipe) \in Nat /\ Len(pipe) # 0 /\ Head(pipe) = pipe[1]
    BY <1>1, EmptySeq
<1>4. /\ 1 \in 1..Len(pipe)
      /\ \A i \in 1..Len(pipe') : i + 1 \in 1..Len(pipe) /\ pipe'[i] = pipe[i + 1]
    BY <1>2, <1>3
<1> QED
    BY <1>2, <1>3, <1>4 DEF Confirms

\* A handler puts one command behind the others, or two.
LEMMA LastAdded ==
    ASSUME QueueTypeOK, NEW x \in Command, pipe' = Append(pipe, x)
    PROVE  /\ \A i \in Confirms' : (i \in Confirms /\ pipe'[i] = pipe[i]) \/ i = Len(pipe) + 1
           /\ \A i \in 1..Len(pipe) : pipe'[i] = pipe[i]
           /\ pipe'[Len(pipe) + 1] = x
<1> HIDE DEF Command
<1>1. pipe \in Seq(Command) /\ Len(pipe) \in Nat
    BY PipeType, PipeIsSeq
<1>2. /\ Len(pipe') = Len(pipe) + 1
      /\ \A i \in 1..Len(pipe) : pipe'[i] = pipe[i]
      /\ pipe'[Len(pipe) + 1] = x
    BY <1>1
<1>3. \A i \in 1..Len(pipe') : i \in 1..Len(pipe) \/ i = Len(pipe) + 1
    BY <1>1, <1>2
<1> QED
    BY <1>2, <1>3 DEF Confirms

\* A retry and its acknowledgement are written, in this order.
LEMMA TwoAdded ==
    ASSUME QueueTypeOK, NEW x \in Command, NEW y \in Command, x.op = "retry", pipe' = pipe \o <<x, y>>
    PROVE  /\ \A i \in Confirms' : (i \in Confirms /\ pipe'[i] = pipe[i]) \/ i = Len(pipe) + 2
           /\ \A i \in 1..Len(pipe) : pipe'[i] = pipe[i]
           /\ pipe'[Len(pipe) + 1] = x /\ pipe'[Len(pipe) + 2] = y
           /\ Len(pipe') = Len(pipe) + 2
<1> HIDE DEF Command
<1>1. pipe \in Seq(Command) /\ Len(pipe) \in Nat
    BY PipeType, PipeIsSeq
<1>2. /\ Len(pipe') = Len(pipe) + 2
      /\ \A i \in 1..Len(pipe) : pipe'[i] = pipe[i]
      /\ pipe'[Len(pipe) + 1] = x /\ pipe'[Len(pipe) + 2] = y
    BY <1>1, PairProperties
<1>3. \A i \in 1..Len(pipe') : i \in 1..Len(pipe) \/ i = Len(pipe) + 1 \/ i = Len(pipe) + 2
    BY <1>1, <1>2
<1> QED
    BY <1>2, <1>3 DEF Confirms

-----------------------------------------------------------------------------
(* The steps that leave the pipe to itself.                                 *)

\* No message is lost when its copies stay or new ones come.
LEMMA KeptStays ==
    ASSUME pipe' = pipe,
           \A c \in Copies : copies[c].place # "none" =>
               /\ copies'[c].message = copies[c].message /\ copies'[c].place # "none"
               /\ Unacked(c)' =>
                      \/ Unacked(c) /\ copies'[c].tag = copies[c].tag
                      \/ \A i \in Confirms : pipe[i].tag # copies'[c].tag
    PROVE  \A r : Kept(r) => Kept(r)'
<1> SUFFICES ASSUME NEW r, Kept(r) PROVE Kept(r)'
    OBVIOUS
<1>1. PICK c \in Copies : Stays(c, r)
    BY DEF Kept
<1>2. Confirms' = Confirms
    BY DEF Confirms
<1>3. copies'[c].message = r /\ copies'[c].place # "none"
    BY <1>1 DEF Stays
<1>4. ASSUME NEW i \in Confirms, pipe[i].op = "ack", Unacked(c)', pipe[i].tag = copies'[c].tag
      PROVE  \E j \in 1..i - 1 : pipe[j].op = "retry" /\ pipe[j].message = r
  <2>1. Unacked(c) /\ copies'[c].tag = copies[c].tag
      BY <1>1, <1>4 DEF Stays
  <2> QED
      BY <1>1, <1>4, <2>1 DEF Stays
<1> QED
    BY <1>2, <1>3, <1>4 DEF Kept, Stays

\* A published message has a copy, and the other messages keep theirs.
LEMMA PublishKeeps ==
    ASSUME QueueTypeOK, TagsAreOwn, NEW m \in Messages, Publish(m)
    PROVE  TagsAreOwn' /\ Kept(m)' /\ \A r : Kept(r) => Kept(r)'
<1>1. PICK f \in Copies : copies[f].place = "none" /\ Put(f, m, 0, "queue")
    BY DEF Publish, Fresh
<1>2. /\ \A c \in Copies : c # f => copies'[c] = copies[c]
      /\ copies'[f].place = "queue" /\ copies'[f].message = m
    BY <1>1 DEF Put, QueueTypeOK
<1>3. handlers' = handlers /\ nextTag' = nextTag /\ channel' = channel /\ pipe' = pipe
    BY DEF Publish, amqp
<1>4. Confirms' = Confirms /\ \A i \in Confirms : i \in Nat /\ i + 0 = i
    BY <1>3, PipeIsSeq DEF Confirms
<1>5. \A c \in Copies : /\ Unacked(c)' => Unacked(c) /\ copies'[c] = copies[c]
                        /\ Unacked(c) => Unacked(c)'
    BY <1>1, <1>2 DEF Unacked
<1>6. TagsAreOwn'
    BY <1>3, <1>4, <1>5, SameCallsRemain, TagsStay, Zenon DEF TagsAreOwn
<1>7. Kept(m)'
    BY <1>2 DEF Kept, Stays, Unacked
<1>8. \A r : Kept(r) => Kept(r)'
    BY <1>1, <1>2, <1>3, <1>5, KeptStays
<1> QED
    BY <1>6, <1>7, <1>8

\* A copy that has waited is still a copy of its message.
LEMMA ExpiresKeeps ==
    ASSUME QueueTypeOK, TagsAreOwn, NEW e \in Copies, WaitExpires(e)
    PROVE  TagsAreOwn' /\ \A r : Kept(r) => Kept(r)'
<1>1. /\ \A c \in Copies : c # e => copies'[c] = copies[c]
      /\ copies[e].place = "wait"
      /\ copies'[e].place = "queue" /\ copies'[e].message = copies[e].message
    BY CopyType DEF WaitExpires, QueueTypeOK
<1>2. handlers' = handlers /\ nextTag' = nextTag /\ channel' = channel /\ pipe' = pipe
    BY DEF WaitExpires, amqp
<1>3. Confirms' = Confirms /\ \A i \in Confirms : i \in Nat /\ i + 0 = i
    BY <1>2, PipeIsSeq DEF Confirms
<1>4. \A c \in Copies : /\ Unacked(c)' => Unacked(c) /\ copies'[c] = copies[c]
                        /\ Unacked(c) => Unacked(c)'
    BY <1>1 DEF Unacked
<1>5. TagsAreOwn'
    BY <1>2, <1>3, <1>4, SameCallsRemain, TagsStay, Zenon DEF TagsAreOwn
<1>6. \A r : Kept(r) => Kept(r)'
    BY <1>1, <1>2, <1>4, KeptStays
<1> QED
    BY <1>5, <1>6

\* A delivered copy gets a tag of its own.
LEMMA DeliverKeeps ==
    ASSUME QueueTypeOK, CallsTyped, TagsAreOwn, NEW d \in Copies, NEW k, Deliver(d, k),
           k.tag = nextTag, k.message = copies[d].message, k.retry = copies[d].retry
    PROVE  TagsAreOwn' /\ \A r : Kept(r) => Kept(r)'
<1>1. /\ \A c \in Copies : c # d => copies'[c] = copies[c]
      /\ copies[d].place = "queue"
      /\ copies'[d].place = "unacked" /\ copies'[d].tag = nextTag
      /\ copies'[d].message = copies[d].message /\ copies'[d].retry = copies[d].retry
    BY CopyType DEF Deliver, QueueTypeOK
<1>2. /\ nextTag \in Nat /\ nextTag' = nextTag + 1
      /\ channel = "open" /\ channel' = channel /\ pipe' = pipe
      /\ handlers' = handlers \cup {k}
    BY DEF Deliver, QueueTypeOK
<1>4. Confirms' = Confirms
    BY <1>2 DEF Confirms
<1>5. \A c \in Copies : Unacked(c) => copies[c].tag \in Nat /\ copies[c].tag < nextTag
    BY CopyType DEF TagsAreOwn, TagsAreKnown
<1>6. \A h \in handlers : h.tag \in Nat /\ h.tag < nextTag
    BY DEF CallsTyped, TagsAreOwn, TagsAreKnown
<1>7. \A i \in Confirms : pipe[i].tag < nextTag
    BY <1>5 DEF TagsAreOwn, TagsHaveCopies, IsFor
<1>8. \A c \in Copies : c # d => /\ Unacked(c)' <=> Unacked(c)
                                 /\ \A x : IsFor(c, x)' <=> IsFor(c, x)
    BY <1>1 DEF Unacked, IsFor
<1>9. ~Unacked(d) /\ Unacked(d)' /\ IsFor(d, k)'
    BY <1>1 DEF Unacked, IsFor
<1>10. TagsAreKnown'
    BY <1>1, <1>2, <1>5, <1>6, <1>8 DEF TagsAreKnown
<1>11. TagsDiffer'
  <2>1. \A c, e \in Copies : Unacked(c)' /\ Unacked(e)' /\ copies'[c].tag = copies'[e].tag => c = e
      BY <1>1, <1>2, <1>5, <1>8 DEF TagsAreOwn, TagsDiffer
  <2>2. \A g, h \in handlers' : g.tag = h.tag => g = h
      BY <1>2, <1>6 DEF TagsAreOwn, TagsDiffer
  <2>3. \A i \in Confirms', g \in Live' : pipe'[i].tag # g.tag
      BY <1>2, <1>4, <1>7 DEF TagsAreOwn, TagsDiffer, Live
  <2>4. \A i, j \in Confirms' : pipe'[i].tag = pipe'[j].tag => i = j
      BY <1>2, <1>4 DEF TagsAreOwn, TagsDiffer
  <2> QED
      BY <2>1, <2>2, <2>3, <2>4 DEF TagsDiffer, Unacked
<1>12. TagsHaveCopies'
  <2>1. \A g \in Live' : g \in Live \/ g = k
      BY <1>2 DEF Live
  <2>2. \A g \in Live : \E c \in Copies : IsFor(c, g)'
    <3> SUFFICES ASSUME NEW g \in Live PROVE \E c \in Copies : IsFor(c, g)'
        OBVIOUS
    <3>1. PICK c \in Copies : IsFor(c, g)
        BY <1>2 DEF TagsAreOwn, TagsHaveCopies
    <3> QED
        BY <1>8, <1>9, <3>1 DEF IsFor
  <2>3. \A i \in Confirms : \E c \in Copies : IsFor(c, pipe[i])'
    <3> SUFFICES ASSUME NEW i \in Confirms PROVE \E c \in Copies : IsFor(c, pipe[i])'
        OBVIOUS
    <3>1. PICK c \in Copies : IsFor(c, pipe[i])
        BY DEF TagsAreOwn, TagsHaveCopies
    <3>2. c # d
        BY <1>9, <3>1 DEF IsFor
    <3> QED
        BY <1>1, <1>2, <3>1, <3>2 DEF IsFor, Unacked
  <2> QED
      BY <1>4, <1>9, <2>1, <2>2, <2>3 DEF TagsHaveCopies
<1>13. ClosedIsEmpty'
    BY <1>2 DEF ClosedIsEmpty
<1>14. \A r : Kept(r) => Kept(r)'
  <2>1. \A i \in Confirms : pipe[i].tag # nextTag
      BY <1>2, <1>7, PipeIsSeq
  <2> QED
      BY <1>1, <1>2, <1>8, <2>1, KeptStays
<1> QED
    BY <1>10, <1>11, <1>12, <1>13, <1>14 DEF TagsAreOwn

\* A step of h that does not tell the broker anything.
LEMMA QuietKeeps ==
    ASSUME QueueTypeOK, TagsAreOwn, NEW h \in handlers, NEW k, Becomes(h, k),
           h.pc = "fail" => k.pc = "fail", UNCHANGED <<broker, nextTag, pipe, channel>>
    PROVE  TagsAreOwn' /\ \A r : Kept(r) => Kept(r)'
<1>1. nextTag' = nextTag /\ copies' = copies /\ channel' = channel /\ pipe' = pipe
    BY DEF broker
<1>2. Confirms' = Confirms /\ \A i \in Confirms : i \in Nat /\ i + 0 = i
    BY <1>1, PipeIsSeq DEF Confirms
<1>3. CallsRemain
    BY BecomesRemains DEF TagsAreOwn
<1>4. \A c \in Copies : Unacked(c)' <=> Unacked(c)
    BY <1>1 DEF Unacked
<1>5. TagsAreOwn'
    BY <1>1, <1>2, <1>3, <1>4, TagsStay, Zenon
<1>6. \A r : Kept(r) => Kept(r)'
    BY <1>1, <1>4, KeptStays
<1> QED
    BY <1>5, <1>6

-----------------------------------------------------------------------------
(* The broker takes a command.                                              *)

\* A copy stays when the head of the pipe is not the command that would replace it.
LEMMA StaysBehind ==
    ASSUME QueueTypeOK, pipe # <<>>, pipe' = Tail(pipe),
           NEW c \in Copies, NEW r, Stays(c, r), copies'[c] = copies[c],
           ~(Head(pipe).op = "retry" /\ Head(pipe).message = r)
    PROVE  Stays(c, r)'
<1>1. copies'[c].message = r /\ copies'[c].place # "none" /\ (Unacked(c)' <=> Unacked(c))
    BY DEF Stays, Unacked
<1>2. ASSUME NEW i \in Confirms', pipe'[i].op = "ack", Unacked(c)', pipe'[i].tag = copies'[c].tag
      PROVE  \E j \in 1..i - 1 : pipe'[j].op = "retry" /\ pipe'[j].message = r
  <2>1. i \in Nat /\ i + 1 \in Confirms /\ pipe'[i] = pipe[i + 1]
      BY FirstTaken
  <2>2. PICK j \in 1..(i + 1) - 1 : pipe[j].op = "retry" /\ pipe[j].message = r
      BY <1>1, <1>2, <2>1 DEF Stays
  <2>3. j # 1
      BY <2>2, FirstTaken
  <2>4. /\ i + 1 \in 1..Len(pipe) /\ Len(pipe) \in Nat
        /\ Len(pipe') = Len(pipe) - 1
        /\ \A l \in 1..Len(pipe') : pipe'[l] = pipe[l + 1]
      BY <2>1, FirstTaken, PipeIsSeq
  <2>5. j - 1 \in 1..i - 1 /\ j - 1 \in 1..Len(pipe') /\ (j - 1) + 1 = j
      BY <2>1, <2>3, <2>4
  <2>6. pipe'[j - 1] = pipe[j]
      BY <2>4, <2>5
  <2> QED
      BY <2>2, <2>5, <2>6
<1> QED
    BY <1>1, <1>2 DEF Stays

\* The broker takes a retry: the message has one copy more.
LEMMA RetryTaken ==
    ASSUME QueueTypeOK, TagsAreOwn, NEW lettered, BrokerTakes(lettered), Head(pipe).op = "retry"
    PROVE  TagsAreOwn' /\ \A r : Kept(r) => Kept(r)'
<1> DEFINE m == Head(pipe).message
<1>1. PICK f \in Copies : copies[f].place = "none" /\ Put(f, m, Head(pipe).retry, "wait")
    BY DEF BrokerTakes, Fresh
<1>2. /\ \A c \in Copies : c # f => copies'[c] = copies[c]
      /\ copies'[f].place = "wait" /\ copies'[f].message = m
    BY <1>1 DEF Put, QueueTypeOK
<1>3. /\ pipe # <<>> /\ pipe' = Tail(pipe)
      /\ handlers' = handlers /\ nextTag' = nextTag /\ channel' = channel
    BY DEF BrokerTakes
<1>4. \A c \in Copies : /\ Unacked(c)' => Unacked(c) /\ copies'[c] = copies[c]
                        /\ Unacked(c) => Unacked(c)'
    BY <1>1, <1>2 DEF Unacked
<1>5. \A i \in Confirms' : i \in Nat /\ i + 1 \in Confirms /\ pipe'[i] = pipe[i + 1]
    BY <1>3, FirstTaken
<1>6. TagsAreOwn'
  <2>1. CallsRemain
      BY <1>3, SameCallsRemain DEF TagsAreOwn
  <2>2. 1 \in Nat
      OBVIOUS
  <2> QED
      BY <1>3, <1>4, <1>5, <2>1, <2>2, TagsStay, Zenon
<1>7. ASSUME NEW r, Kept(r)
      PROVE  Kept(r)'
  <2>1. CASE r = m
      BY <1>2, <2>1 DEF Kept, Stays, Unacked
  <2>2. CASE r # m
    <3>1. PICK c \in Copies : Stays(c, r)
        BY <1>7 DEF Kept
    <3>2. copies'[c] = copies[c]
        BY <1>1, <1>2, <3>1 DEF Stays
    <3> QED
        BY <1>3, <2>2, <3>1, <3>2, StaysBehind DEF Kept
  <2> QED
      BY <2>1, <2>2
<1> QED
    BY <1>6, <1>7

\* Only a nack of its own message, of which the exchange lets go, ends what was kept.
LEMMA ConfirmTaken ==
    ASSUME QueueTypeOK, TagsAreOwn, NEW lettered \in {"dead", "none"}, BrokerTakes(lettered),
           Head(pipe).op # "retry", Confirmed(Head(pipe), lettered)
    PROVE  /\ TagsAreOwn'
           /\ \A r : Kept(r) => \/ Kept(r)'
                                \/ /\ lettered = "none" /\ 1 \in Confirms
                                   /\ pipe[1].op = "nack" /\ pipe[1].message = r
<1>1. PICK f \in Tagged(Head(pipe).tag) :
           copies' = [copies EXCEPT ![f] =
               IF Head(pipe).op = "ack" \/ lettered = "none" THEN NoCopy
               ELSE [@ EXCEPT !.place = lettered, !.tag = 0]]
    BY DEF Confirmed
<1>2. f \in Copies /\ Unacked(f) /\ copies[f].tag = Head(pipe).tag
    BY DEF Tagged, Unacked
<1>3. /\ \A c \in Copies : c # f => copies'[c] = copies[c]
      /\ ~Unacked(f)'
      /\ Head(pipe).op # "ack" /\ lettered # "none" =>
             copies'[f].message = copies[f].message /\ copies'[f].place = "dead"
    BY <1>1, <1>2, CopyType DEF QueueTypeOK, NoCopy, Unacked, Copy
<1>4. /\ pipe # <<>> /\ pipe' = Tail(pipe)
      /\ handlers' = handlers /\ nextTag' = nextTag /\ channel' = channel
    BY <1>2, <1>1 DEF BrokerTakes
<1>5. 1 \in Confirms /\ Head(pipe) = pipe[1]
    BY <1>4, FirstTaken DEF Confirms
<1>6. \A i \in Confirms' : i \in Nat /\ i + 1 \in Confirms /\ pipe'[i] = pipe[i + 1]
    BY <1>4, FirstTaken
<1>7. \A i \in Confirms' : pipe'[i].tag # copies[f].tag
  <2> SUFFICES ASSUME NEW i \in Confirms' PROVE pipe'[i].tag # copies[f].tag
      OBVIOUS
  <2>1. i \in Nat /\ i + 1 \in Confirms /\ pipe'[i] = pipe[i + 1] /\ i # 0
      BY <1>6, PipeIsSeq DEF Confirms
  <2>2. i + 1 # 1
      BY <2>1
  <2> QED
      BY <1>2, <1>5, <2>1, <2>2 DEF TagsAreOwn, TagsDiffer
<1>8. \A h \in Live : h.tag # copies[f].tag
    BY <1>2, <1>5 DEF TagsAreOwn, TagsDiffer
<1>9. \A c \in Copies : /\ Unacked(c)' => Unacked(c) /\ copies'[c] = copies[c]
                        /\ Unacked(c) => Unacked(c)' \/ c = f
    BY <1>2, <1>3 DEF Unacked
<1>10. TagsAreOwn'
  <2>1. CallsRemain
      BY <1>4, SameCallsRemain DEF TagsAreOwn
  <2>2. 1 \in Nat
      OBVIOUS
  <2>3. \A c \in Copies : Unacked(c) => Unacked(c)' \/
               /\ \A h \in Live : h.tag # copies[c].tag
               /\ \A i \in Confirms' : pipe'[i].tag # copies[c].tag
      BY <1>7, <1>8, <1>9
  <2> QED
      BY <1>4, <1>6, <1>9, <2>1, <2>2, <2>3, TagsStay, Zenon
<1>11. copies[f].message = pipe[1].message
  <2>1. PICK c \in Copies : IsFor(c, pipe[1])
      BY <1>5 DEF TagsAreOwn, TagsHaveCopies
  <2>2. c = f
      BY <1>2, <1>5, <2>1 DEF IsFor, TagsAreOwn, TagsDiffer
  <2> QED
      BY <2>1, <2>2 DEF IsFor
<1>12. ASSUME NEW r, Kept(r), ~(lettered = "none" /\ pipe[1].op = "nack" /\ pipe[1].message = r)
       PROVE  Kept(r)'
  <2>1. PICK c \in Copies : Stays(c, r)
      BY <1>12 DEF Kept
  <2>2. CASE c = f
    <3>1. Head(pipe).op # "ack"
        BY <1>2, <1>5, <2>1, <2>2 DEF Stays
    <3>2. pipe[1].op = "nack" /\ pipe[1].message = r
        BY <1>5, <1>11, <2>1, <2>2, <3>1, PipeIsSeq DEF Stays
    <3> QED
        BY <1>3, <1>12, <2>1, <2>2, <3>1, <3>2 DEF Kept, Stays
  <2>3. CASE c # f
      BY <1>3, <1>4, <2>1, <2>3, StaysBehind DEF Kept
  <2> QED
      BY <2>2, <2>3
<1> QED
    BY <1>5, <1>10, <1>12

\* Whatever was under way is lost: every message has its copy again.
LEMMA KeptRequeued ==
    ASSUME pipe' = <<>>,
           \A c \in Copies : copies[c].place # "none" =>
               copies'[c].message = copies[c].message /\ copies'[c].place # "none"
    PROVE  \A r : Kept(r) => Kept(r)'
<1>1. Confirms' = {}
    BY EmptySeq DEF Confirms
<1> QED
    BY <1>1 DEF Kept, Stays

\* Nothing is unacknowledged in a queue whose channel is gone.
LEMMA RequeuedProperties ==
    ASSUME QueueTypeOK, copies' = Requeued
    PROVE  /\ \A c \in Copies : ~Unacked(c)'
           /\ \A c \in Copies : copies[c].place # "none" =>
                  copies'[c].message = copies[c].message /\ copies'[c].place # "none"
BY CopyType DEF Requeued, Unacked, Copy

\* A tag that the broker does not know closes the channel and loses nothing.
LEMMA ErrorKeeps ==
    ASSUME QueueTypeOK, TagsAreOwn, NEW lettered, BrokerTakes(lettered), ChannelError
    PROVE  TagsAreOwn' /\ \A r : Kept(r) => Kept(r)'
<1>1. /\ copies' = Requeued /\ pipe' = <<>> /\ channel' = "closed"
      /\ handlers' = handlers /\ nextTag' = nextTag
    BY DEF ChannelError, BrokerTakes
<1>2. CallsRemain
    BY <1>1, SameCallsRemain DEF TagsAreOwn
<1> QED
    BY <1>1, <1>2, RequeuedProperties, TagsUnused, KeptRequeued DEF TagsAreOwn, TagsAreKnown

\* A command removes a message only if it is a nack without a dead-letter queue.
LEMMA BrokerKeeps ==
    ASSUME QueueTypeOK, TagsAreOwn, NEW lettered \in {"dead", "none"}, BrokerTakes(lettered)
    PROVE  /\ TagsAreOwn'
           /\ \A r : Kept(r) => \/ Kept(r)'
                                \/ /\ lettered = "none" /\ 1 \in Confirms
                                   /\ pipe[1].op = "nack" /\ pipe[1].message = r
<1>1. \/ Head(pipe).op = "retry"
      \/ Head(pipe).op # "retry" /\ Confirmed(Head(pipe), lettered)
      \/ ChannelError
    BY DEF BrokerTakes
<1> QED
    BY <1>1, RetryTaken, ConfirmTaken, ErrorKeeps

-----------------------------------------------------------------------------
(* A handler tells the broker what to do.                                   *)

\* What a confirmation and a retry carry.
LEMMA ConfirmProperties ==
    ASSUME NEW h, NEW op
    PROVE  /\ Confirm(h, op).op = op /\ Confirm(h, op).tag = h.tag
           /\ Confirm(h, op).message = h.message /\ Confirm(h, op).retry = h.retry
           /\ NextTry(h).op = "retry" /\ NextTry(h).message = h.message
BY DEF Confirm, NextTry

\* The confirmation of h is the last command; an ack that no copy goes before takes
\* the message of h.
LEMMA SentKeeps ==
    ASSUME QueueTypeOK, TagsAreOwn, NEW h \in Live, channel = "open",
           UNCHANGED <<broker, nextTag, channel>>,
           NEW k, Becomes(h, k), k.pc = "fail",
           NEW n \in Nat, NEW op \in {"ack", "nack"},
           \A i \in Confirms' : (i \in Confirms /\ pipe'[i] = pipe[i]) \/ i = n,
           \A i \in 1..Len(pipe) : pipe'[i] = pipe[i],
           pipe'[n] = Confirm(h, op)
    PROVE  /\ TagsAreOwn'
           /\ \A r : Kept(r) => \/ Kept(r)'
                                \/ /\ op = "ack" /\ r = h.message
                                   /\ ~(n - 1 \in 1..n - 1 /\ pipe'[n - 1] = NextTry(h))
<1>1. copies' = copies /\ nextTag' = nextTag /\ channel' = channel
    BY DEF broker
<1>2. CallsRemain
    BY BecomesRemains DEF TagsAreOwn, Live
<1>3. \A g \in Live' : g.tag # h.tag
    BY DEF Live, Becomes, TagsAreOwn, TagsDiffer
<1>4. TagsAreOwn'
  <2>1. /\ pipe'[n].tag = h.tag /\ pipe'[n].message = h.message /\ pipe'[n].retry = h.retry
      BY ConfirmProperties
  <2> QED
      BY <1>1, <1>2, <1>3, <2>1, TagsSent, Zenon
<1>5. ASSUME NEW r, Kept(r),
             ~(op = "ack" /\ r = h.message) \/ (n - 1 \in 1..n - 1 /\ pipe'[n - 1] = NextTry(h))
      PROVE  Kept(r)'
  <2>1. PICK c \in Copies : Stays(c, r)
      BY <1>5 DEF Kept
  <2>2. Unacked(c)' <=> Unacked(c)
      BY <1>1 DEF Unacked
  <2>3. ASSUME NEW i \in Confirms', pipe'[i].op = "ack", Unacked(c), pipe'[i].tag = copies[c].tag
        PROVE  \E j \in 1..i - 1 : pipe'[j].op = "retry" /\ pipe'[j].message = r
    <3>1. CASE i \in Confirms /\ pipe'[i] = pipe[i]
      <4>1. PICK j \in 1..i - 1 : pipe[j].op = "retry" /\ pipe[j].message = r
          BY <2>1, <2>3, <3>1 DEF Stays
      <4>2. j \in 1..Len(pipe)
          BY <3>1, PipeIsSeq
      <4> QED
          BY <4>1, <4>2
    <3>2. CASE i = n
      <4>1. op = "ack" /\ copies[c].tag = h.tag
          BY <2>3, <3>2, ConfirmProperties
      <4>2. PICK d \in Copies : IsFor(d, h)
          BY DEF TagsAreOwn, TagsHaveCopies
      <4>3. d = c
          BY <2>3, <4>1, <4>2 DEF IsFor, TagsAreOwn, TagsDiffer
      <4>4. h.message = r
          BY <2>1, <4>2, <4>3 DEF IsFor, Stays
      <4>5. n - 1 \in 1..n - 1 /\ pipe'[n - 1] = NextTry(h)
          BY <1>5, <4>1, <4>4
      <4> QED
          BY <3>2, <4>4, <4>5, ConfirmProperties
    <3> QED
        BY <2>3, <3>1, <3>2
  <2> QED
      BY <1>1, <2>1, <2>2, <2>3 DEF Kept, Stays
<1> QED
    BY <1>4, <1>5

\* Only an acknowledgement of what was recorded ends what was kept.
LEMMA ChannelKeeps ==
    ASSUME QueueTypeOK, CallsTyped, TagsAreOwn, NEW h \in handlers, Moves(h),
           Acknowledge(h) \/ RetryOrReject(h) \/ Rejects(h)
    PROVE  /\ TagsAreOwn'
           /\ \A r : Kept(r) => Kept(r)' \/ (h.pc = "ack" /\ r = h.message)
<1>1. Len(pipe) \in Nat
    BY PipeIsSeq
<1>2. UNCHANGED <<broker, nextTag, channel>>
    BY DEF Acknowledge, RetryOrReject, Rejects
<1>3. Confirm(h, "ack") \in Command /\ Confirm(h, "nack") \in Command
    BY CallCommands
<1>4. CASE Acknowledge(h) /\ channel = "open" /\ pipe' = Append(pipe, Confirm(h, "ack"))
  <2>1. h \in Live /\ h.pc = "ack"
      BY <1>4 DEF Acknowledge, Live
  <2>2. PICK k : Becomes(h, k) /\ k.pc = "fail"
      BY <1>4, GoesOn DEF Acknowledge
  <2>3. /\ \A i \in Confirms' : (i \in Confirms /\ pipe'[i] = pipe[i]) \/ i = Len(pipe) + 1
        /\ \A i \in 1..Len(pipe) : pipe'[i] = pipe[i]
        /\ pipe'[Len(pipe) + 1] = Confirm(h, "ack")
      BY <1>3, <1>4, LastAdded
  <2>4. Len(pipe) + 1 \in Nat
      BY <1>1
  <2> QED
      BY <1>2, <1>4, <2>1, <2>2, <2>3, <2>4, SentKeeps
<1>5. CASE /\ RetryOrReject(h) /\ h.retry < MaxRetries /\ Ends(h)
           /\ NextTry(h) \in Command /\ pipe' = pipe \o <<NextTry(h), Confirm(h, "ack")>>
  <2>1. h \in Live /\ channel = "open"
      BY <1>5 DEF RetryOrReject, Live
  <2>2. PICK k : Becomes(h, k) /\ k.pc = "fail"
      BY <1>5, GoesOn
  <2>3. NextTry(h).op = "retry"
      BY ConfirmProperties
  <2>4. /\ \A i \in Confirms' : (i \in Confirms /\ pipe'[i] = pipe[i]) \/ i = Len(pipe) + 2
        /\ \A i \in 1..Len(pipe) : pipe'[i] = pipe[i]
        /\ pipe'[Len(pipe) + 1] = NextTry(h)
        /\ pipe'[Len(pipe) + 2] = Confirm(h, "ack")
      BY <1>3, <1>5, <2>3, TwoAdded
  <2>5. PICK n \in Nat : n = Len(pipe) + 2
      BY <1>1
  <2>6. n - 1 \in 1..n - 1 /\ n - 1 = Len(pipe) + 1
      BY <1>1, <2>5
  <2>7. /\ \A i \in Confirms' : (i \in Confirms /\ pipe'[i] = pipe[i]) \/ i = n
        /\ pipe'[n] = Confirm(h, "ack") /\ pipe'[n - 1] = NextTry(h)
      BY <2>4, <2>5, <2>6
  <2> QED
      BY <1>2, <2>1, <2>2, <2>4, <2>6, <2>7, SentKeeps
<1>6. CASE /\ RetryOrReject(h) /\ ~(h.retry < MaxRetries)
           /\ pipe' = Append(pipe, Confirm(h, "nack"))
  <2>1. h \in Live /\ channel = "open"
      BY <1>6 DEF RetryOrReject, Live
  <2>2. PICK k : Becomes(h, k) /\ k.pc = "fail"
      BY <1>6, GoesOn DEF RetryOrReject
  <2>3. /\ \A i \in Confirms' : (i \in Confirms /\ pipe'[i] = pipe[i]) \/ i = Len(pipe) + 1
        /\ \A i \in 1..Len(pipe) : pipe'[i] = pipe[i]
        /\ pipe'[Len(pipe) + 1] = Confirm(h, "nack")
      BY <1>3, <1>6, LastAdded
  <2>4. Len(pipe) + 1 \in Nat
      BY <1>1
  <2> QED
      BY <1>2, <2>1, <2>2, <2>3, <2>4, SentKeeps
<1>7. CASE ((Acknowledge(h) /\ channel # "open") \/ Rejects(h)) /\ pipe' = pipe
  <2>1. \E k : Becomes(h, k) /\ k.pc = "retry"
      BY <1>7, GoesOn DEF Acknowledge, Rejects
  <2>2. h.pc # "fail"
      BY <1>7 DEF Acknowledge, Rejects
  <2> QED
      BY <1>2, <1>7, <2>1, <2>2, QuietKeeps
<1> QED
    BY <1>4, <1>5, <1>6, <1>7, ChannelCommands

-----------------------------------------------------------------------------
(* The connection and the process.                                          *)

\* A lost connection or a crash loses no message.
LEMMA ConnectionKeeps ==
    ASSUME QueueTypeOK, TagsAreOwn, ~outlived', ConnectionLost \/ Reconnect \/ Restart \/ Crash
    PROVE  TagsAreOwn' /\ \A r : Kept(r) => Kept(r)'
<1>1. pipe' = <<>>
    BY DEF ConnectionLost, Reconnect, Restart, Crash, NewProcess, OpenChannel
<1>2. CASE ConnectionLost
  <2>1. /\ copies' = Requeued /\ handlers' = handlers /\ nextTag' = nextTag /\ channel' = "null"
      BY <1>2 DEF ConnectionLost
  <2>2. CallsRemain
      BY <2>1, SameCallsRemain DEF TagsAreOwn
  <2> QED
      BY <1>1, <2>1, <2>2, RequeuedProperties, TagsUnused, KeptRequeued
         DEF TagsAreOwn, TagsAreKnown
<1>3. CASE Restart \/ Crash
  <2>1. copies' = Requeued /\ handlers' = {}
      BY <1>3 DEF Restart, Crash, NewProcess
  <2>2. CallsRemain
      BY <2>1, SameCallsRemain DEF TagsAreOwn
  <2> QED
      BY <1>1, <2>1, <2>2, RequeuedProperties, TagsUnused, KeptRequeued
<1>4. CASE Reconnect
  <2>1. copies' = copies /\ handlers' = {} /\ channel = "null"
      BY <1>4 DEF Reconnect, broker
  <2>2. CallsRemain
      BY <2>1, SameCallsRemain DEF TagsAreOwn
  <2>3. \A c \in Copies : ~Unacked(c)'
      BY <2>1 DEF TagsAreOwn, ClosedIsEmpty, Unacked
  <2>4. TagsAreOwn'
      BY <1>1, <2>1, <2>2, <2>3, TagsUnused
  <2> QED
      BY <1>1, <2>1, <2>4, KeptRequeued
<1> QED
    BY <1>2, <1>3, <1>4

-----------------------------------------------------------------------------
(* ReportIntake: types, and the steps of its handler.                       *)

\* What a call of the report consumer carries.
LEMMA HandlerType ==
    ASSUME handlers \subseteq Handler
    PROVE  /\ CallsTyped
           /\ \A h \in handlers : Moves(h)
           /\ \A h \in handlers : h.message \in Messages
           /\ \A h \in handlers : \A pc \in {"settle", "ack", "retry", "fail"} :
                  [h EXCEPT !.pc = pc] \in Handler
           /\ \A h \in handlers : LET k == [h EXCEPT !.pc = "create", !.logged = TRUE] IN
                  /\ k \in Handler /\ k.pc = "create"
                  /\ k.tag = h.tag /\ k.message = h.message /\ k.retry = h.retry
BY DEF Handler, CallsTyped, Moves

\* Every step of the report intake keeps the types of the queue.
LEMMA IntakeQueueType == TypeOK /\ Next => QueueTypeOK'
<1>1. ASSUME TypeOK, NEW h \in handlers, HandlerStep(h)
      PROVE  QueueTypeOK'
  <2>1. CASE Acknowledge(h) \/ RetryOrReject(h) \/ Rejects(h)
      BY <1>1, <2>1, HandlerType, ChannelType DEF TypeOK
  <2>2. CASE UNCHANGED <<broker, amqp, outlived, losses>>
      BY <1>1, <2>2 DEF broker, amqp, TypeOK, QueueTypeOK
  <2> QED
      BY <1>1, <2>1, <2>2 DEF HandlerStep, Record, CreateRow, Settle, ProcessingFails,
                              ChannelStep, MarkFailed
<1> QED
    BY <1>1, PublishType, ExpiresType, DeliverType, BrokerType, ConnectionType
       DEF TypeOK, Next, PublishReport, DeliverReport, BrokerStep

\* And those of the calls.
LEMMA IntakeHandlersType == TypeOK /\ Next => handlers' \subseteq Handler
<1>1. ASSUME TypeOK, NEW h \in handlers, HandlerStep(h)
      PROVE  handlers' \subseteq Handler
  <2>1. handlers \subseteq Handler
      BY <1>1 DEF TypeOK
  <2>2. CASE Record(h)
      BY <2>1, <2>2, HandlerType DEF Record
  <2>3. CASE Ends(h)
      BY <2>1, <2>3 DEF Ends
  <2>4. CASE \E pc \in {"settle", "ack", "retry", "fail"} : GoesTo(h, pc)
      BY <2>1, <2>4, HandlerType DEF GoesTo
  <2> QED
      BY <1>1, <2>2, <2>3, <2>4
         DEF HandlerStep, CreateRow, Settle, ProcessingFails, ChannelStep, Acknowledge,
             RetryOrReject, Rejects, MarkFailed
<1>2. ASSUME TypeOK, NEW c \in Copies, DeliverReport(c)
      PROVE  handlers' \subseteq Handler
  <2>1. Call(c) \in Handler
      BY <1>2, CopyType DEF Call, Handler, TypeOK, QueueTypeOK
  <2> QED
      BY <1>2, <2>1 DEF DeliverReport, Deliver, TypeOK
<1>3. handlers' \subseteq handlers /\ TypeOK => handlers' \subseteq Handler
    BY DEF TypeOK
<1> QED
    BY <1>1, <1>2, <1>3, ConnectionType
       DEF TypeOK, Next, PublishReport, Publish, WaitExpires, BrokerStep, BrokerTakes

\* What a step of the handler does to the tables.
LEMMA IntakeTables ==
    ASSUME NEW h \in handlers, HandlerStep(h)
    PROVE  /\ outbox' = outbox \/ outbox' = outbox \cup {h.message}
           /\ \/ inbox' = inbox \/ SetInbox(h, "FAILED")
              \/ h.pc = "settle" /\ SetInbox(h, "SUCCESS")
BY DEF HandlerStep, Record, CreateRow, Settle, ProcessingFails, ChannelStep, MarkFailed, tables

\* Only the handler writes the tables.
LEMMA IntakeElsewhere ==
    ASSUME Next, ~ \E h \in handlers : HandlerStep(h)
    PROVE  inbox' = inbox /\ outbox' = outbox
BY DEF Next, PublishReport, DeliverReport, BrokerStep, tables

\* No step deletes an outbox row.
LEMMA OutboxGrows == Next => outbox \subseteq outbox'
BY IntakeTables, IntakeElsewhere

\* Every step of the report intake keeps the types.
LEMMA IntakeType == TypeOK /\ Next => TypeOK'
<1> SUFFICES ASSUME TypeOK, Next PROVE TypeOK'
    OBVIOUS
<1>1. inbox \subseteq Messages \X {"SUCCESS", "FAILED"} /\ outbox \subseteq Messages
    BY DEF TypeOK
<1>2. \A h \in handlers : h.message \in Messages
    BY HandlerType DEF TypeOK
<1>3. inbox' \subseteq Messages \X {"SUCCESS", "FAILED"}
  <2>1. ASSUME NEW h \in handlers, NEW s \in {"SUCCESS", "FAILED"}, SetInbox(h, s)
        PROVE  inbox' \subseteq Messages \X {"SUCCESS", "FAILED"}
      BY <1>1, <1>2, <2>1 DEF SetInbox
  <2> QED
      BY <1>1, <2>1, IntakeTables, IntakeElsewhere, Zenon
<1>4. outbox' \subseteq Messages
    BY <1>1, <1>2, IntakeTables, IntakeElsewhere
<1> QED
    BY <1>3, <1>4, IntakeQueueType, IntakeHandlersType DEF TypeOK

\* A handler marked "fail" ends; one that says SUCCESS or acknowledges has its row.
LEMMA HandlerMoves ==
    ASSUME TypeOK, RowsFirst, NEW h \in handlers, HandlerStep(h)
    PROVE  \E k : /\ Becomes(h, k)
                  /\ h.pc = "fail" => k.pc = "fail"
                  /\ k.pc \in {"settle", "ack"} => h.message \in outbox'
<1>1. CASE Record(h)
  <2> DEFINE k == [h EXCEPT !.pc = "create", !.logged = TRUE]
  <2>1. Becomes(h, k) /\ k.pc = "create"
      BY <1>1, HandlerType DEF Record, Becomes, TypeOK
  <2> HIDE DEF k
  <2> QED
      BY <1>1, <2>1 DEF Record
<1>2. Moves(h)
    BY HandlerType DEF TypeOK
<1>3. CASE CreateRow(h)
  <2>1. PICK k : Becomes(h, k) /\ k.pc = "settle"
      BY <1>2, <1>3, GoesOn DEF CreateRow
  <2> QED
      BY <1>3, <2>1 DEF CreateRow
<1>4. CASE Settle(h)
  <2>1. PICK k : Becomes(h, k) /\ k.pc = "ack"
      BY <1>2, <1>4, GoesOn DEF Settle
  <2> QED
      BY <1>4, <2>1 DEF Settle, RowsFirst
<1>5. CASE ProcessingFails(h)
  <2>1. PICK k : Becomes(h, k) /\ k.pc = "retry"
      BY <1>2, <1>5, GoesOn DEF ProcessingFails
  <2> QED
      BY <1>5, <2>1 DEF ProcessingFails
<1>6. CASE MarkFailed(h)
  <2>1. PICK k : Becomes(h, k) /\ k.pc = "fail"
      BY <1>2, <1>6, GoesOn DEF MarkFailed
  <2> QED
      BY <1>6, <2>1
<1>7. CASE ChannelStep(h)
  <2>1. h.pc # "fail"
      BY <1>7 DEF ChannelStep, Acknowledge, RetryOrReject, Rejects
  <2>2. Ends(h) \/ GoesTo(h, "retry") \/ GoesTo(h, "fail")
      BY <1>7 DEF ChannelStep, Acknowledge, RetryOrReject, Rejects
  <2>3. \E k : Becomes(h, k) /\ k.pc \in {"retry", "fail"}
      BY <1>2, <2>2, GoesOn
  <2> QED
      BY <2>1, <2>3
<1> QED
    BY <1>1, <1>3, <1>4, <1>5, <1>6, <1>7 DEF HandlerStep

\* A call that is past its COMMIT has its row.
LEMMA RowsFirstNext ==
    ASSUME TypeOK, RowsFirst, Next
    PROVE  RowsFirst'
<1>1. CASE \E h \in handlers : HandlerStep(h)
  <2>1. PICK h \in handlers : HandlerStep(h)
      BY <1>1
  <2>2. PICK k : Becomes(h, k) /\ (k.pc \in {"settle", "ack"} => h.message \in outbox')
      BY <2>1, HandlerMoves
  <2> QED
      BY <2>2, OutboxGrows DEF RowsFirst, Becomes
<1>2. CASE \E c \in Copies : DeliverReport(c)
  <2>1. PICK c \in Copies : handlers' = handlers \cup {Call(c)}
      BY <1>2 DEF DeliverReport, Deliver
  <2>2. Call(c).pc = "record"
      BY DEF Call
  <2> QED
      BY <2>1, <2>2, OutboxGrows DEF RowsFirst
<1>3. CASE handlers' \subseteq handlers
    BY <1>3, OutboxGrows DEF RowsFirst
<1> QED
    BY <1>1, <1>2, <1>3, ConnectionType
       DEF TypeOK, Next, PublishReport, Publish, WaitExpires, BrokerStep, BrokerTakes

\* A SUCCESS in the inbox has its row in the outbox.
LEMMA SuccessHasRowNext ==
    ASSUME TypeOK, RowsFirst, SuccessHasRow, Next
    PROVE  SuccessHasRow'
BY IntakeTables, IntakeElsewhere, OutboxGrows DEF SetInbox, RowsFirst, SuccessHasRow

\* What was published has its row or is kept.
LEMMA IntakeKeeps ==
    ASSUME TypeOK, RowsFirst, TagsAreOwn, \A r \in published : r \in outbox \/ Kept(r),
           Next, ~outlived'
    PROVE  TagsAreOwn' /\ \A r \in published' : r \in outbox' \/ Kept(r)'
<1>1. QueueTypeOK /\ CallsTyped /\ \A h \in handlers : Moves(h)
    BY HandlerType DEF TypeOK
<1>2. CASE \E r \in Messages : PublishReport(r)
  <2>1. PICK r \in Messages : Publish(r) /\ UNCHANGED tables
      BY <1>2 DEF PublishReport
  <2> QED
      BY <1>1, <2>1, PublishKeeps DEF Publish, tables
<1>3. CASE \E c \in Copies : DeliverReport(c)
  <2>1. PICK c \in Copies : Deliver(c, Call(c)) /\ UNCHANGED tables
      BY <1>3 DEF DeliverReport
  <2>2. /\ Call(c).tag = nextTag /\ Call(c).message = copies[c].message
        /\ Call(c).retry = copies[c].retry
      BY DEF Call
  <2> QED
      BY <1>1, <2>1, <2>2, DeliverKeeps DEF Deliver, tables
<1>4. CASE \E c \in Copies : WaitExpires(c) /\ UNCHANGED tables
    BY <1>1, <1>4, ExpiresKeeps DEF WaitExpires, tables
<1>5. CASE BrokerStep
    BY <1>1, <1>5, BrokerKeeps DEF BrokerStep, BrokerTakes, tables
<1>6. CASE \E h \in handlers : HandlerStep(h)
  <2>1. PICK h \in handlers : HandlerStep(h)
      BY <1>6
  <2>2. published' = published
      BY <2>1 DEF HandlerStep, Record, CreateRow, Settle, ProcessingFails, ChannelStep,
                  Acknowledge, RetryOrReject, Rejects, MarkFailed, broker
  <2>3. CASE Acknowledge(h) \/ RetryOrReject(h) \/ Rejects(h)
    <3>1. TagsAreOwn' /\ \A r : Kept(r) => Kept(r)' \/ (h.pc = "ack" /\ r = h.message)
        BY <1>1, <2>3, ChannelKeeps
    <3>2. h.pc = "ack" => h.message \in outbox
        BY DEF RowsFirst
    <3> QED
        BY <2>2, <3>1, <3>2, OutboxGrows
  <2>4. CASE UNCHANGED <<broker, nextTag, pipe, channel>>
    <3>1. PICK k : Becomes(h, k) /\ (h.pc = "fail" => k.pc = "fail")
        BY <2>1, HandlerMoves
    <3> QED
        BY <1>1, <2>2, <2>4, <3>1, QuietKeeps, OutboxGrows
  <2> QED
      BY <2>1, <2>3, <2>4 DEF HandlerStep, Record, CreateRow, Settle, ProcessingFails,
                              ChannelStep, MarkFailed, amqp
<1>7. CASE (ConnectionLost \/ Reconnect \/ Restart \/ Crash) /\ UNCHANGED tables
  <2>1. published' = published
      BY <1>7 DEF ConnectionLost, Reconnect, Restart, Crash, NewProcess, broker
  <2> QED
      BY <1>1, <1>7, <2>1, ConnectionKeeps DEF tables
<1> QED
    BY <1>2, <1>3, <1>4, <1>5, <1>6, <1>7 DEF Next

\* Once a handler outlived its channel, that is not forgotten.
LEMMA OutlivedStays ==
    ASSUME outlived, \/ \E m \in Messages : Publish(m)
                     \/ \E c \in Copies : \E call : Deliver(c, call)
                     \/ \E c \in Copies : WaitExpires(c)
                     \/ \E lettered : BrokerTakes(lettered)
                     \/ \E h \in handlers : Acknowledge(h) \/ RetryOrReject(h) \/ Rejects(h)
                     \/ UNCHANGED outlived
                     \/ ConnectionLost \/ Reconnect \/ Restart \/ Crash
    PROVE  outlived'
BY DEF Publish, Deliver, WaitExpires, BrokerTakes, Acknowledge, RetryOrReject, Rejects,
       ConnectionLost, Reconnect, Restart, Crash, NewProcess

\* At first nothing was published.
LEMMA NothingUnderWay ==
    ASSUME QueueInit
    PROVE  published = {} /\ Confirms = {} /\ handlers = {} /\ TagsAreOwn
<1>1. pipe = <<>> /\ published = {} /\ handlers = {} /\ channel = "open"
    BY DEF QueueInit
<1>2. \A c \in Copies : ~Unacked(c)
    BY DEF QueueInit, NoCopy, Unacked
<1>3. Confirms = {}
    BY <1>1, EmptySeq DEF Confirms
<1> QED
    BY <1>1, <1>2, <1>3
       DEF TagsAreOwn, TagsAreKnown, TagsDiffer, ClosedIsEmpty, TagsHaveCopies, Live

\* The invariant of the report intake holds at first.
LEMMA IntakeInitInv == Init => IntakeInv
BY QueueInitType, NothingUnderWay DEF Init, IntakeInv, TypeOK, SuccessHasRow, RowsFirst

\* The queue when nothing happens.
LEMMA SameQueue ==
    ASSUME UNCHANGED queueVars
    PROVE  /\ QueueTypeOK => QueueTypeOK'
           /\ TagsAreOwn => TagsAreOwn'
           /\ \A r : Kept(r)' <=> Kept(r)
           /\ published' = published /\ outlived' = outlived /\ handlers' = handlers
           /\ pipe' = pipe /\ Confirms' = Confirms
<1>1. /\ published' = published /\ copies' = copies /\ ahead' = ahead /\ nextTag' = nextTag
      /\ pipe' = pipe /\ channel' = channel /\ channels' = channels /\ dying' = dying
      /\ handlers' = handlers /\ outlived' = outlived /\ losses' = losses
    BY DEF queueVars, broker, amqp
<1>2. QueueTypeOK => QueueTypeOK'
    BY <1>1 DEF QueueTypeOK
<1>3. Confirms' = Confirms /\ Live' = Live
    BY <1>1 DEF Confirms, Live
<1>4. TagsAreOwn => TagsAreOwn'
    BY <1>1, <1>3
       DEF TagsAreOwn, TagsAreKnown, TagsDiffer, ClosedIsEmpty, TagsHaveCopies, Unacked, IsFor
<1>5. \A r : Kept(r)' <=> Kept(r)
    BY <1>1, <1>3 DEF Kept, Stays, Unacked
<1> QED
    BY <1>1, <1>2, <1>3, <1>4, <1>5

\* Every step of the report intake keeps it.
LEMMA IntakeNextInv == IntakeInv /\ [Next]_vars => IntakeInv'
<1> SUFFICES ASSUME IntakeInv, [Next]_vars PROVE IntakeInv'
    OBVIOUS
<1> USE DEF IntakeInv
<1>1. CASE UNCHANGED vars
  <2>1. UNCHANGED queueVars /\ inbox' = inbox /\ outbox' = outbox
      BY <1>1 DEF vars, queueVars, broker, amqp, tables
  <2> QED
      BY <2>1, SameQueue DEF TypeOK, SuccessHasRow, RowsFirst
<1>2. CASE Next
  <2>1. TypeOK' /\ SuccessHasRow' /\ RowsFirst'
      BY <1>2, IntakeType, SuccessHasRowNext, RowsFirstNext
  <2>2. ~outlived' => ~outlived
      BY <1>2, OutlivedStays
         DEF Next, PublishReport, DeliverReport, BrokerStep, HandlerStep, Record, CreateRow,
             Settle, ProcessingFails, ChannelStep, MarkFailed
  <2> QED
      BY <1>2, <2>1, <2>2, IntakeKeeps
<1> QED
    BY <1>1, <1>2

\* The invariant of the intake holds in every state.
THEOREM SpecIntakeInv == Spec => []IntakeInv
BY IntakeInitInv, IntakeNextInv, PTL DEF Spec

\* Tables, queue, pipe and calls keep their shape, whatever is lost and restarted.
THEOREM IntakeTypes == Spec => []TypeOK
<1>1. IntakeInv => TypeOK
    BY DEF IntakeInv
<1> QED
    BY <1>1, SpecIntakeInv, PTL

\* A report that was published has its row or is in the broker, as long as no
\* handler outlived its channel: the retry commands go out in that order, and an
\* acknowledgement takes the copy of its own message.
THEOREM NoReportIsLost == Spec => []NothingLost
<1>1. IntakeInv => NothingLost
    BY DEF IntakeInv, NothingLost, Kept, Stays, Held
<1> QED
    BY <1>1, SpecIntakeInv, PTL

\* Tags of their own make acknowledgements find their own copies.
LEMMA OwnTagsOwnAcks == outlived \/ TagsAreOwn => AcksAreOwn
<1>1. ASSUME TagsAreOwn, NEW i \in 1..Len(pipe), pipe[i].op # "retry"
      PROVE  \E c \in Tagged(pipe[i].tag) :
                 copies[c].message = pipe[i].message /\ copies[c].retry = pipe[i].retry
  <2>1. PICK c \in Copies : IsFor(c, pipe[i])
      BY <1>1 DEF TagsAreOwn, TagsHaveCopies, Confirms
  <2> QED
      BY <2>1 DEF IsFor, Unacked, Tagged
<1> QED
    BY <1>1 DEF AcksAreOwn

\* An acknowledgement under way finds the very message its handler was called with.
THEOREM AcksFindTheirOwn == Spec => []AcksAreOwn
<1>1. IntakeInv => AcksAreOwn
    BY OwnTagsOwnAcks DEF IntakeInv
<1> QED
    BY <1>1, SpecIntakeInv, PTL

\* The verdict SUCCESS of the inbox comes after the row of the outbox, and the row
\* stays: _consumeReportMessage writes it outside of its transaction.
THEOREM RowsBeforeVerdicts == Spec => []SuccessHasRow
<1>1. IntakeInv => SuccessHasRow
    BY DEF IntakeInv
<1> QED
    BY <1>1, SpecIntakeInv, PTL

-----------------------------------------------------------------------------
(* DisasterDelivery: types, and the steps of its handler.                   *)

\* What a call of the disaster consumer carries.
LEMMA DeliveryHandlerType ==
    ASSUME handlers \subseteq DeliveryHandler
    PROVE  /\ CallsTyped
           /\ \A h \in handlers : Moves(h)
           /\ \A h \in handlers : h.message \in Messages /\ h.found \subseteq Systems
           /\ \A h \in handlers : \A pc \in {"ack", "retry", "fail"} :
                  [h EXCEPT !.pc = pc] \in DeliveryHandler
           /\ \A h \in handlers : LET k == [h EXCEPT !.pc = "find", !.logged = TRUE] IN
                  /\ k \in DeliveryHandler /\ k.pc = "find"
                  /\ k.tag = h.tag /\ k.message = h.message /\ k.retry = h.retry
           /\ \A h \in handlers : \A found \in SUBSET Systems :
                  LET k == [h EXCEPT !.pc = "commit", !.found = found] IN
                  /\ k \in DeliveryHandler /\ k.pc = "commit" /\ k.found = found
                  /\ k.tag = h.tag /\ k.message = h.message /\ k.retry = h.retry
BY DEF DeliveryHandler, CallsTyped, Moves

\* Where a rejected disaster goes.
LEMMA LetteredType == DeadLetterPlace \in {"dead", "none"}
BY DEF DeadLetterPlace

\* Each step of the handler keeps the queue as it is, or looks at the channel.
LEMMA DeliverySteps ==
    ASSUME NEW h \in handlers, DeliveryHandlerStep(h)
    PROVE  \/ (Acknowledge(h) \/ RetryOrReject(h) \/ Rejects(h)) /\ UNCHANGED logs
           \/ UNCHANGED <<broker, amqp, rejected, outlived, losses>>
BY DEF DeliveryHandlerStep, RecordDelivery, FindSubscribers, Commit, DeliveryFails,
       DeliveryChannelStep, RetryOrGiveUp, NoChannel, ClosedChannel, MarkDeliveryFailed

\* Every step of the disaster delivery keeps the types of the queue.
LEMMA DeliveryQueueType == DeliveryTypeOK /\ DeliveryNext => QueueTypeOK'
<1>1. ASSUME DeliveryTypeOK, NEW h \in handlers, DeliveryHandlerStep(h)
      PROVE  QueueTypeOK'
  <2>1. CASE Acknowledge(h) \/ RetryOrReject(h) \/ Rejects(h)
      BY <1>1, <2>1, DeliveryHandlerType, ChannelType DEF DeliveryTypeOK
  <2>2. CASE UNCHANGED <<broker, amqp, outlived, losses>>
      BY <1>1, <2>2 DEF broker, amqp, DeliveryTypeOK, QueueTypeOK
  <2> QED
      BY <1>1, <2>1, <2>2, DeliverySteps
<1> QED
    BY <1>1, PublishType, ExpiresType, DeliverType, BrokerType, LetteredType, ConnectionType
       DEF DeliveryTypeOK, DeliveryNext, DeliveryStep, PublishDisaster, DeliverDisaster,
           DeliveryBrokerStep

\* And those of the calls.
LEMMA DeliveryHandlersType == DeliveryTypeOK /\ DeliveryNext => handlers' \subseteq DeliveryHandler
<1>1. ASSUME DeliveryTypeOK, NEW h \in handlers, DeliveryHandlerStep(h)
      PROVE  handlers' \subseteq DeliveryHandler
  <2>1. handlers \subseteq DeliveryHandler
      BY <1>1 DEF DeliveryTypeOK
  <2>2. CASE RecordDelivery(h)
    <3>1. [h EXCEPT !.pc = "find", !.logged = TRUE] \in DeliveryHandler
        BY <2>1, DeliveryHandlerType, Zenon
    <3> QED
        BY <2>1, <2>2, <3>1 DEF RecordDelivery
  <2>3. CASE FindSubscribers(h)
    <3>1. PICK found \in Subscribed :
              handlers' = (handlers \ {h}) \cup {[h EXCEPT !.pc = "commit", !.found = found]}
        BY <2>3 DEF FindSubscribers
    <3>2. found \in SUBSET Systems
        BY DEF Subscribed
    <3>3. [h EXCEPT !.pc = "commit", !.found = found] \in DeliveryHandler
        BY <2>1, <3>2, DeliveryHandlerType, Zenon
    <3> QED
        BY <2>1, <3>1, <3>3
  <2>4. CASE Ends(h)
      BY <2>1, <2>4 DEF Ends
  <2>5. CASE \E pc \in {"ack", "retry", "fail"} : GoesTo(h, pc)
    <3>1. \A pc \in {"ack", "retry", "fail"} : [h EXCEPT !.pc = pc] \in DeliveryHandler
        BY <2>1, DeliveryHandlerType, Zenon
    <3> QED
        BY <2>1, <2>5, <3>1 DEF GoesTo
  <2> QED
      BY <1>1, <2>2, <2>3, <2>4, <2>5
         DEF DeliveryHandlerStep, Commit, DeliveryFails, DeliveryChannelStep, Acknowledge,
             RetryOrGiveUp, RetryOrReject, NoChannel, ClosedChannel, Rejects, MarkDeliveryFailed
<1>2. ASSUME DeliveryTypeOK, NEW c \in Copies, DeliverDisaster(c)
      PROVE  handlers' \subseteq DeliveryHandler
  <2>1. DeliveryCall(c) \in DeliveryHandler
      BY <1>2, CopyType DEF DeliveryCall, DeliveryHandler, DeliveryTypeOK, QueueTypeOK
  <2> QED
      BY <1>2, <2>1 DEF DeliverDisaster, Deliver, DeliveryTypeOK
<1>3. handlers' \subseteq handlers /\ DeliveryTypeOK => handlers' \subseteq DeliveryHandler
    BY DEF DeliveryTypeOK
<1> QED
    BY <1>1, <1>2, <1>3, ConnectionType
       DEF DeliveryTypeOK, DeliveryNext, DeliveryStep, PublishDisaster, Publish, WaitExpires,
           DeliveryBrokerStep, BrokerTakes

\* What a step of the handler does to the tables.
LEMMA DeliveryTables ==
    ASSUME NEW h \in handlers, DeliveryHandlerStep(h)
    PROVE  /\ \/ rows' = rows /\ receiveLogs' = receiveLogs
              \/ rows' = rows /\ Recorded(h, "FAILED")
              \/ h.pc = "commit" /\ FanOut(h)
           /\ rejected' = rejected \/ rejected' = rejected \cup {h.message}
<1>1. CASE RetryOrGiveUp(h)
    BY <1>1 DEF RetryOrGiveUp, DeliveryHandlerStep, RecordDelivery, FindSubscribers, Commit,
                DeliveryFails, DeliveryChannelStep, MarkDeliveryFailed, logs
<1>2. CASE ~RetryOrGiveUp(h)
    BY <1>2 DEF DeliveryHandlerStep, RecordDelivery, FindSubscribers, Commit, DeliveryFails,
                DeliveryChannelStep, NoChannel, ClosedChannel, MarkDeliveryFailed, logs
<1> QED
    BY <1>1, <1>2

\* Only the handler writes the tables.
LEMMA DeliveryElsewhere ==
    ASSUME DeliveryNext, ~ \E h \in handlers : DeliveryHandlerStep(h)
    PROVE  rows' = rows /\ receiveLogs' = receiveLogs /\ rejected' = rejected
BY DEF DeliveryNext, DeliveryStep, PublishDisaster, DeliverDisaster, DeliveryBrokerStep, logs

\* No step deletes a log row or takes back a rejection.
LEMMA DeliveryGrows ==
    DeliveryNext => receiveLogs \subseteq receiveLogs' /\ rejected \subseteq rejected'
BY DeliveryTables, DeliveryElsewhere DEF Recorded, FanOut

\* Every step of the disaster delivery keeps the types.
LEMMA DeliveryType == DeliveryTypeOK /\ DeliveryNext => DeliveryTypeOK'
<1> SUFFICES ASSUME DeliveryTypeOK, DeliveryNext PROVE DeliveryTypeOK'
    OBVIOUS
<1>1. /\ receiveLogs \subseteq Messages \X {"SUCCESS", "FAILED"}
      /\ rows \subseteq Messages \X Systems /\ rejected \subseteq Messages
    BY DEF DeliveryTypeOK
<1>2. \A h \in handlers : h.message \in Messages /\ h.found \subseteq Systems
    BY DeliveryHandlerType DEF DeliveryTypeOK
<1>3. receiveLogs' \subseteq Messages \X {"SUCCESS", "FAILED"}
  <2>1. ASSUME NEW h \in handlers, NEW s \in {"SUCCESS", "FAILED"}, Recorded(h, s)
        PROVE  receiveLogs' \subseteq Messages \X {"SUCCESS", "FAILED"}
      BY <1>1, <1>2, <2>1 DEF Recorded
  <2> QED
      BY <1>1, <2>1, DeliveryTables, DeliveryElsewhere DEF FanOut
<1>4. rows' \subseteq Messages \X Systems
  <2>1. ASSUME NEW h \in handlers, FanOut(h)
        PROVE  rows' \subseteq Messages \X Systems
      BY <1>1, <1>2, <2>1 DEF FanOut
  <2> QED
      BY <1>1, <2>1, DeliveryTables, DeliveryElsewhere
<1>5. rejected' \subseteq Messages
    BY <1>1, <1>2, DeliveryTables, DeliveryElsewhere
<1> QED
    BY <1>3, <1>4, <1>5, DeliveryQueueType, DeliveryHandlersType DEF DeliveryTypeOK

\* A handler marked "fail" ends; one that fans out has found the steady subscribers,
\* one that acknowledges has fanned out.
LEMMA DeliveryMoves ==
    ASSUME DeliveryTypeOK, NEW h \in handlers, DeliveryHandlerStep(h)
    PROVE  \E k : /\ Becomes(h, k)
                  /\ h.pc = "fail" => k.pc = "fail"
                  /\ k.pc = "commit" => Steady \subseteq k.found
                  /\ k.pc = "ack" => Delivered(h.message)'
<1>1. CASE RecordDelivery(h)
  <2> DEFINE k == [h EXCEPT !.pc = "find", !.logged = TRUE]
  <2>1. Becomes(h, k) /\ k.pc = "find"
      BY <1>1, DeliveryHandlerType DEF RecordDelivery, Becomes, DeliveryTypeOK
  <2> HIDE DEF k
  <2> QED
      BY <1>1, <2>1 DEF RecordDelivery
<1>2. CASE FindSubscribers(h)
  <2>1. PICK found \in Subscribed :
            handlers' = (handlers \ {h}) \cup {[h EXCEPT !.pc = "commit", !.found = found]}
      BY <1>2 DEF FindSubscribers
  <2> DEFINE k == [h EXCEPT !.pc = "commit", !.found = found]
  <2>2. found \in SUBSET Systems /\ Steady \subseteq found
      BY DEF Subscribed
  <2>3. /\ k.pc = "commit" /\ k.found = found
        /\ k.tag = h.tag /\ k.message = h.message /\ k.retry = h.retry
    <3> h \in DeliveryHandler
        BY DEF DeliveryTypeOK
    <3> QED
        BY DEF DeliveryHandler
  <2>4. handlers' = (handlers \ {h}) \cup {k}
      BY <2>1
  <2> HIDE DEF k
  <2> QED
      BY <1>2, <2>2, <2>3, <2>4 DEF FindSubscribers, Becomes
<1>3. Moves(h)
    BY DeliveryHandlerType DEF DeliveryTypeOK
<1>4. CASE Commit(h)
  <2>1. PICK k : Becomes(h, k) /\ k.pc = "ack"
      BY <1>3, <1>4, GoesOn DEF Commit
  <2> QED
      BY <1>4, <2>1 DEF Commit, FanOut, Recorded, Delivered
<1>5. CASE DeliveryFails(h)
  <2>1. PICK k : Becomes(h, k) /\ k.pc = "retry"
      BY <1>3, <1>5, GoesOn DEF DeliveryFails
  <2> QED
      BY <1>5, <2>1 DEF DeliveryFails
<1>6. CASE MarkDeliveryFailed(h)
  <2>1. PICK k : Becomes(h, k) /\ k.pc = "fail"
      BY <1>3, <1>6, GoesOn DEF MarkDeliveryFailed
  <2> QED
      BY <1>6, <2>1
<1>7. CASE DeliveryChannelStep(h)
  <2>1. /\ h.pc # "fail"
        /\ Ends(h) \/ GoesTo(h, "retry") \/ GoesTo(h, "fail")
      BY <1>7 DEF DeliveryChannelStep, Acknowledge, RetryOrGiveUp, RetryOrReject, NoChannel,
                  ClosedChannel, Rejects
  <2>2. \E k : Becomes(h, k) /\ k.pc \in {"retry", "fail"}
      BY <1>3, <2>1, GoesOn
  <2> QED
      BY <2>1, <2>2
<1> QED
    BY <1>1, <1>2, <1>4, <1>5, <1>6, <1>7 DEF DeliveryHandlerStep

\* A call that is past its COMMIT has its rows, with the subscribers it read.
LEMMA CallsFirstNext ==
    ASSUME DeliveryTypeOK, FoundSteady, DeliveredFirst, DeliveryNext
    PROVE  FoundSteady' /\ DeliveredFirst'
<1>1. CASE \E h \in handlers : DeliveryHandlerStep(h)
  <2>1. PICK h \in handlers : DeliveryHandlerStep(h)
      BY <1>1
  <2>2. PICK k : /\ Becomes(h, k) /\ (k.pc = "commit" => Steady \subseteq k.found)
                 /\ k.pc = "ack" => Delivered(h.message)'
      BY <2>1, DeliveryMoves
  <2> QED
      BY <2>2, DeliveryGrows DEF FoundSteady, DeliveredFirst, Delivered, Becomes
<1>2. CASE \E c \in Copies : DeliverDisaster(c)
  <2>1. PICK c \in Copies : handlers' = handlers \cup {DeliveryCall(c)}
      BY <1>2 DEF DeliverDisaster, Deliver
  <2>2. DeliveryCall(c).pc = "record"
      BY DEF DeliveryCall
  <2> QED
      BY <2>1, <2>2, DeliveryGrows DEF FoundSteady, DeliveredFirst, Delivered
<1>3. CASE handlers' \subseteq handlers
    BY <1>3, DeliveryGrows DEF FoundSteady, DeliveredFirst, Delivered
<1> QED
    BY <1>1, <1>2, <1>3, ConnectionType
       DEF DeliveryTypeOK, DeliveryNext, DeliveryStep, PublishDisaster, Publish, WaitExpires,
           DeliveryBrokerStep, BrokerTakes

\* A COMMIT makes all of a fan-out visible, or nothing.
LEMMA FanOutIsWholeNext ==
    ASSUME DeliveryTypeOK, FoundSteady, FanOutIsWhole, DeliveryNext
    PROVE  FanOutIsWhole'
<1>1. ASSUME NEW h \in handlers, h.pc = "commit", FanOut(h)
      PROVE  FanOutIsWhole'
  <2>1. Steady \subseteq h.found /\ Steady \subseteq Systems
      BY <1>1, SystemsAssumption DEF SystemsAssumption, FoundSteady
  <2>2. /\ \A d, s : <<d, s>> \in rows' <=> <<d, s>> \in rows \/ (d = h.message /\ s \in h.found)
        /\ \A d : Delivered(d)' <=> Delivered(d) \/ d = h.message
      BY <1>1 DEF FanOut, Recorded, Delivered
  <2> QED
      BY <2>1, <2>2 DEF FanOutIsWhole
<1>2. ASSUME rows' = rows, \A d : Delivered(d)' <=> Delivered(d)
      PROVE  FanOutIsWhole'
    BY <1>2 DEF FanOutIsWhole
<1>3. \A h : Recorded(h, "FAILED") => \A d : Delivered(d)' <=> Delivered(d)
    BY DEF Recorded, Delivered
<1>4. receiveLogs' = receiveLogs => \A d : Delivered(d)' <=> Delivered(d)
    BY DEF Delivered
<1> QED
    BY <1>1, <1>2, <1>3, <1>4, DeliveryTables, DeliveryElsewhere

\* The pipe gets a nack from who gives the disaster up, and from nobody else.
LEMMA NacksSent ==
    ASSUME DeliveryTypeOK, NEW h \in handlers, DeliveryHandlerStep(h)
    PROVE  \A i \in Confirms' :
               \/ i \in Confirms /\ pipe'[i] = pipe[i]
               \/ pipe'[i].op = "ack"
               \/ pipe'[i].message \in rejected'
<1>1. CallsTyped /\ QueueTypeOK
    BY DeliveryHandlerType DEF DeliveryTypeOK
<1>2. CASE pipe' = pipe
    BY <1>2 DEF Confirms
<1>3. CASE Acknowledge(h) \/ RetryOrReject(h) \/ Rejects(h)
  <2>1. Confirm(h, "ack") \in Command /\ Confirm(h, "nack") \in Command
      BY <1>1, CallCommands
  <2>2. CASE pipe' = Append(pipe, Confirm(h, "ack"))
    <3>1. \A i \in Confirms' : \/ i \in Confirms /\ pipe'[i] = pipe[i]
                               \/ pipe'[i] = Confirm(h, "ack")
        BY <1>1, <2>1, <2>2, LastAdded
    <3> QED
        BY <3>1, ConfirmProperties
  <2>3. CASE NextTry(h) \in Command /\ pipe' = pipe \o <<NextTry(h), Confirm(h, "ack")>>
    <3>1. NextTry(h).op = "retry"
        BY ConfirmProperties
    <3>2. \A i \in Confirms' : \/ i \in Confirms /\ pipe'[i] = pipe[i]
                               \/ pipe'[i] = Confirm(h, "ack")
        BY <1>1, <2>1, <2>3, <3>1, TwoAdded
    <3> QED
        BY <3>2, ConfirmProperties
  <2>4. CASE /\ RetryOrReject(h) /\ ~(h.retry < MaxRetries)
             /\ pipe' = Append(pipe, Confirm(h, "nack"))
    <3>1. h.pc = "retry" /\ channel = "open"
        BY <2>4 DEF RetryOrReject
    <3>2. ~Acknowledge(h) /\ ~NoChannel(h) /\ ~ClosedChannel(h)
        BY <3>1 DEF Acknowledge, NoChannel, ClosedChannel
    <3>3. RetryOrGiveUp(h)
        BY <3>1, <3>2 DEF DeliveryHandlerStep, DeliveryChannelStep, RecordDelivery,
                          FindSubscribers, Commit, DeliveryFails, MarkDeliveryFailed
    <3>4. h.message \in rejected'
        BY <2>4, <3>3 DEF RetryOrGiveUp
    <3>5. \A i \in Confirms' : \/ i \in Confirms /\ pipe'[i] = pipe[i]
                               \/ pipe'[i] = Confirm(h, "nack")
        BY <1>1, <2>1, <2>4, LastAdded
    <3> QED
        BY <3>4, <3>5, ConfirmProperties
  <2> QED
      BY <1>1, <1>2, <1>3, <2>2, <2>3, <2>4, ChannelCommands
<1> QED
    BY <1>2, <1>3, DeliverySteps DEF amqp

\* A nack under way was written by a call that gave its message up.
LEMMA NacksGiveUpNext ==
    ASSUME DeliveryTypeOK, NacksGiveUp, DeliveryNext
    PROVE  NacksGiveUp'
<1>1. QueueTypeOK
    BY DEF DeliveryTypeOK
<1>2. CASE \E h \in handlers : DeliveryHandlerStep(h)
    BY <1>2, NacksSent, DeliveryGrows DEF NacksGiveUp
<1>3. CASE pipe' = pipe
    BY <1>3, DeliveryGrows DEF NacksGiveUp, Confirms
<1>4. CASE pipe' = <<>>
    BY <1>4, EmptySeq DEF NacksGiveUp, Confirms
<1>5. CASE pipe # <<>> /\ pipe' = Tail(pipe)
    BY <1>1, <1>5, FirstTaken, DeliveryGrows DEF NacksGiveUp
<1> QED
    BY <1>2, <1>3, <1>4, <1>5
       DEF DeliveryNext, DeliveryStep, PublishDisaster, Publish, DeliverDisaster, Deliver,
           WaitExpires, DeliveryBrokerStep, BrokerTakes, ChannelError, ConnectionLost,
           Reconnect, Restart, Crash, NewProcess, OpenChannel, amqp

\* What was published is delivered, given up or kept.
LEMMA DeliveryKeeps ==
    ASSUME DeliveryTypeOK, DeliveredFirst, NacksGiveUp, TagsAreOwn,
           \A d \in published : Delivered(d) \/ d \in rejected \/ Kept(d),
           DeliveryNext, ~outlived'
    PROVE  /\ TagsAreOwn'
           /\ \A d \in published' : Delivered(d)' \/ d \in rejected' \/ Kept(d)'
<1>1. QueueTypeOK /\ CallsTyped /\ \A h \in handlers : Moves(h)
    BY DeliveryHandlerType DEF DeliveryTypeOK
<1>2. \A d : (Delivered(d) => Delivered(d)') /\ (d \in rejected => d \in rejected')
    BY DeliveryGrows DEF Delivered
<1>3. CASE \E d \in Messages : PublishDisaster(d)
  <2>1. PICK d \in Messages : Publish(d)
      BY <1>3 DEF PublishDisaster
  <2>2. published' = published \cup {d}
      BY <2>1 DEF Publish
  <2> QED
      BY <1>1, <1>2, <2>1, <2>2, PublishKeeps
<1>4. CASE \E c \in Copies : DeliverDisaster(c)
  <2>1. PICK c \in Copies : Deliver(c, DeliveryCall(c))
      BY <1>4 DEF DeliverDisaster
  <2>2. /\ DeliveryCall(c).tag = nextTag /\ DeliveryCall(c).message = copies[c].message
        /\ DeliveryCall(c).retry = copies[c].retry
      BY DEF DeliveryCall
  <2>3. published' = published
      BY <2>1 DEF Deliver
  <2> QED
      BY <1>1, <1>2, <2>1, <2>2, <2>3, DeliverKeeps
<1>5. CASE \E c \in Copies : WaitExpires(c)
    BY <1>1, <1>2, <1>5, ExpiresKeeps DEF WaitExpires
<1>6. CASE DeliveryBrokerStep
  <2>1. BrokerTakes(DeadLetterPlace) /\ published' = published
      BY <1>6 DEF DeliveryBrokerStep, BrokerTakes
  <2>2. /\ TagsAreOwn'
        /\ \A d : Kept(d) => \/ Kept(d)'
                             \/ /\ 1 \in Confirms
                                /\ pipe[1].op = "nack" /\ pipe[1].message = d
      BY <1>1, <2>1, LetteredType, BrokerKeeps
  <2>3. 1 \in Confirms /\ pipe[1].op = "nack" => pipe[1].message \in rejected
      BY DEF NacksGiveUp
  <2> QED
      BY <1>2, <2>1, <2>2, <2>3
<1>7. CASE \E h \in handlers : DeliveryHandlerStep(h)
  <2>1. PICK h \in handlers : DeliveryHandlerStep(h)
      BY <1>7
  <2>2. CASE Acknowledge(h) \/ RetryOrReject(h) \/ Rejects(h)
    <3>1. TagsAreOwn' /\ \A r : Kept(r) => Kept(r)' \/ (h.pc = "ack" /\ r = h.message)
        BY <1>1, <2>2, ChannelKeeps
    <3>2. h.pc = "ack" => Delivered(h.message)
        BY DEF DeliveredFirst
    <3>3. published' = published
        BY <2>2 DEF Acknowledge, RetryOrReject, Rejects, broker
    <3> QED
        BY <1>2, <3>1, <3>2, <3>3
  <2>3. CASE UNCHANGED <<broker, amqp>>
    <3>1. PICK k : Becomes(h, k) /\ (h.pc = "fail" => k.pc = "fail")
        BY <2>1, DeliveryMoves
    <3>2. UNCHANGED <<broker, nextTag, pipe, channel>> /\ published' = published
        BY <2>3 DEF broker, amqp
    <3> QED
        BY <1>1, <1>2, <3>1, <3>2, QuietKeeps
  <2> QED
      BY <2>1, <2>2, <2>3, DeliverySteps
<1>8. CASE ConnectionLost \/ Reconnect \/ Restart \/ Crash
  <2>1. published' = published
      BY <1>8 DEF ConnectionLost, Reconnect, Restart, Crash, NewProcess, broker
  <2> QED
      BY <1>1, <1>2, <1>8, <2>1, ConnectionKeeps
<1> QED
    BY <1>3, <1>4, <1>5, <1>6, <1>7, <1>8 DEF DeliveryNext, DeliveryStep

\* The invariant of the disaster delivery holds at first.
LEMMA DeliveryInitInv == DeliveryInit => DeliveryInv
BY QueueInitType, NothingUnderWay
   DEF DeliveryInit, DeliveryInv, DeliveryTypeOK, FanOutIsWhole, Delivered, FoundSteady,
       DeliveredFirst, NacksGiveUp

\* Every step of the disaster delivery keeps it.
LEMMA DeliveryNextInv == DeliveryInv /\ [DeliveryNext]_deliveryVars => DeliveryInv'
<1> SUFFICES ASSUME DeliveryInv, [DeliveryNext]_deliveryVars PROVE DeliveryInv'
    OBVIOUS
<1> USE DEF DeliveryInv
<1>1. CASE UNCHANGED deliveryVars
  <2>1. /\ UNCHANGED queueVars
        /\ receiveLogs' = receiveLogs /\ rows' = rows /\ rejected' = rejected
      BY <1>1 DEF deliveryVars, queueVars, broker, amqp, logs
  <2> QED
      BY <2>1, SameQueue
         DEF DeliveryTypeOK, FanOutIsWhole, Delivered, FoundSteady, DeliveredFirst, NacksGiveUp
<1>2. CASE DeliveryNext
  <2>1. DeliveryTypeOK' /\ FanOutIsWhole' /\ FoundSteady' /\ DeliveredFirst' /\ NacksGiveUp'
      BY <1>2, DeliveryType, FanOutIsWholeNext, CallsFirstNext, NacksGiveUpNext
  <2>2. ~outlived' => ~outlived
      BY <1>2, OutlivedStays, DeliverySteps
         DEF DeliveryNext, DeliveryStep, PublishDisaster, DeliverDisaster, DeliveryBrokerStep
  <2> QED
      BY <1>2, <2>1, <2>2, DeliveryKeeps
<1> QED
    BY <1>1, <1>2

\* The invariant of the delivery holds in every state.
THEOREM SpecDeliveryInv == DeliverySpec => []DeliveryInv
BY DeliveryInitInv, DeliveryNextInv, PTL DEF DeliverySpec

\* The tables of the external service and the queue keep their shape, whatever is
\* lost and restarted.
THEOREM DeliveryTypes == DeliverySpec => []DeliveryTypeOK
<1>1. DeliveryInv => DeliveryTypeOK
    BY DEF DeliveryInv
<1> QED
    BY <1>1, SpecDeliveryInv, PTL

\* A disaster that reached the broker was delivered, is still in the broker or was
\* rejected after its last retry, as long as no handler outlived its channel:
\* _consumeDisasterMessage acknowledges after the COMMIT, and a nack is for a
\* disaster that was given up.
THEOREM NoDisasterIsLost == DeliverySpec => []NoDisasterLost
<1>1. DeliveryInv => NoDisasterLost
    BY DEF DeliveryInv, NoDisasterLost, Kept, Stays, Held
<1> QED
    BY <1>1, SpecDeliveryInv, PTL

\* The acknowledgements of the external service find their messages as well.
THEOREM DisasterAcksFindTheirOwn == DeliverySpec => []AcksAreOwn
<1>1. DeliveryInv => AcksAreOwn
    BY OwnTagsOwnAcks DEF DeliveryInv
<1> QED
    BY <1>1, SpecDeliveryInv, PTL

\* Rows and verdict of a disaster appear together, for every system that was
\* subscribed all along: createBulk and updateStatus share the transaction.
THEOREM WholeFanOut == DeliverySpec => []FanOutIsWhole
<1>1. DeliveryInv => FanOutIsWhole
    BY DEF DeliveryInv
<1> QED
    BY <1>1, SpecDeliveryInv, PTL
-----------------------------------------------------------------------------
(* The process of either service.                                           *)

\* A process of Consumption is one of ReportIntake or one of DisasterDelivery,
\* for as long as it runs, and the tables of the other service stay empty.
LEMMA OneOfTheTwo ==
    ConsumptionSpec => \/ Spec /\ [](receiveLogs = {} /\ rows = {})
                       \/ DeliverySpec /\ [](inbox = {})
<1> DEFINE NoDeliveries == receiveLogs = {} /\ rows = {}
           NoReports == inbox = {}
<1>1. ConsumptionInit => \/ Central /\ NoDeliveries /\ Init
                         \/ External /\ NoReports /\ DeliveryInit
    BY DEF ConsumptionInit, Central, External, Init, DeliveryInit
<1>2. Central /\ NoDeliveries /\ [ConsumptionNext]_consumptionVars =>
          Central' /\ NoDeliveries' /\ [Next]_vars
    BY DEF ConsumptionNext, consumptionVars, Central, External, logs
<1>3. External /\ NoReports /\ [ConsumptionNext]_consumptionVars =>
          External' /\ NoReports' /\ [DeliveryNext]_deliveryVars
    BY DEF ConsumptionNext, consumptionVars, Central, External, tables, vars, deliveryVars
<1> QED
    BY <1>1, <1>2, <1>3, PTL DEF ConsumptionSpec, Spec, DeliverySpec

\* Whichever service it is one of, and however many messages, copies, retries,
\* losses and crashes there are: nothing published is lost, unless a handler
\* outlived its channel.
THEOREM NoMessageIsLost == ConsumptionSpec => []NoMessageLost
<1>1. NothingLost \/ NoDisasterLost => NoMessageLost
    BY DEF NothingLost, NoDisasterLost, NoMessageLost, Settled
<1> QED
    BY <1>1, OneOfTheTwo, NoReportIsLost, NoDisasterIsLost, PTL

\* In both services acknowledgements are for the messages of their handlers.
THEOREM AllAcksAreOwn == ConsumptionSpec => []AcksAreOwn
<1> QED
    BY OneOfTheTwo, AcksFindTheirOwn, DisasterAcksFindTheirOwn, PTL

\* In both services the verdict of the inbox goes with the rows of the outbox.
THEOREM VerdictsHaveRows == ConsumptionSpec => [](SuccessHasRow /\ FanOutIsWhole)
<1>1. inbox = {} => SuccessHasRow
    BY DEF SuccessHasRow
<1>2. receiveLogs = {} /\ rows = {} => FanOutIsWhole
    BY DEF FanOutIsWhole, Delivered
<1> QED
    BY <1>1, <1>2, OneOfTheTwo, RowsBeforeVerdicts, WholeFanOut, PTL
=============================================================================
