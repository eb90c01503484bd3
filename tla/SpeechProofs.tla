---------------------------- MODULE SpeechProofs ----------------------------
(***************************************************************************)
(* The two ends of what is spoken: the server's response, for any length   *)
(* of its queue, of its stream and of the audio of a unit; and the phone,  *)
(* for any number of recordings, chunks and taps.                          *)
(*                                                                         *)
(* The order of the chunks on the wire is not inductive.  It follows from  *)
(* what the queue holds (QueueInv: the units that were completed and not   *)
(* yet taken, then the mark), from which of the two tasks may still send   *)
(* (TurnInv), and from what the one that may has sent so far (OutInv).     *)
(***************************************************************************)
EXTENDS SpeechPipeline, VoiceClient, SequenceTheorems, TLAPS

Event == [kind : {"chunk"}, index : Nat, unit : Nat]
           \union [kind : {"end"}, reason : {"completed", "error", "cancelled"}]

\* A response that is neither cleaned up nor over, and one whose units are all
\* completed.
Working == turn \notin Cleaning \union {"over"}
Ending  == {"join", "tail", "tailSent", "end", "ended"}
Marked  == turn \in {"final", "drain"} \union Ending

\* The k-th thing that the speaking task will take.
Upcoming(k) == IF unit + k <= made THEN unit + k ELSE Stop

QueueInv ==
  Working /\ voice \notin Finished =>
    /\ unit <= made
    /\ Len(queue) + Len(ready) = (made - unit) + IF Marked THEN 1 ELSE 0
    /\ \A k \in 1..Len(queue) : queue[k] = Upcoming(k)
    /\ \A k \in 1..Len(ready) : ready[k] = Upcoming(Len(queue) + k)

\* What the place of one task says of the other's.
TurnInv ==
  /\ turn \in {"recognize", "model"} \union Ending => ready = <<>>
  /\ turn \in {"put", "final", "drain"} => ready # <<>>
  /\ turn = "recognize" => deltas = 0
  /\ turn \in {"text", "put"} => deltas > 0
  /\ turn \in {"recognize", "model"} /\ deltas = 0 => queue = <<>> /\ voice = "get" /\ made = 0
  /\ Marked => made > 0
  /\ turn \in Ending \ {"join"} => voice = "done"
  /\ turn \in {"close", "closing"} => voice \in Finished
  /\ turn = "over" => voice \in Finished \union {"get"}
  /\ turn \in Cleaning => reason \in {"error", "cancelled"}
  /\ voice = "done" /\ Working => turn \in Ending
  /\ voice = "cancelled" => ~Working
  /\ canceller = "told" => turn = "over"

VoiceInv ==
  /\ voice = "get" => unit = spoken
  /\ voice \in {"speak", "announce", "send", "sent"} => unit = spoken + 1
  /\ voice \in {"announce", "send", "sent"} => pieces < MaxPieces
  /\ voice = "done" => spoken = made

\* OutputIsOrdered, of the chunks in any sequence of events.
Ordered(events) ==
  \A n \in 1..Len(events) :
    events[n].kind = "chunk" =>
      /\ events[n].index = n - 1
      /\ n = 1 => events[n].unit = 1
      /\ n > 1 =>
           /\ events[n - 1].kind = "chunk"
           /\ events[n].unit - events[n - 1].unit \in {0, 1}

AllChunks(events) == \A n \in 1..Len(events) : events[n].kind = "chunk"

\* A chunk of unit u may be the next one.
Continues(events, u) ==
  IF events = <<>> THEN u = 1 ELSE u - events[Len(events)].unit \in {0, 1}

\* More audio may follow.
Talking == voice \notin Finished \/ (voice = "done" /\ turn \in {"join", "tail", "tailSent"})

\* The unit of the latest chunk, if there is one.
Latest == IF voice = "sent" \/ (voice \in {"speak", "announce", "send"} /\ pieces > 0)
          THEN unit ELSE spoken

OutInv ==
  /\ Ordered(out)
  /\ \A n \in 1..Len(out) : out[n] = End("completed") => voice = "done"
  /\ Talking =>
       /\ AllChunks(out)
       /\ Len(out) = index + IF voice = "sent" \/ turn = "tailSent" THEN 1 ELSE 0
       /\ IF out = <<>> THEN Latest = 0 ELSE out[Len(out)].unit = Latest

SpeechInv == TypeOK /\ QueueInv /\ TurnInv /\ VoiceInv /\ OutInv

-----------------------------------------------------------------------------
(* Sequences of events. *)

LEMMA ChunkFollows ==
  ASSUME NEW events \in Seq(Event), Ordered(events), AllChunks(events),
         NEW u \in Nat, Continues(events, u),
         NEW more, more = Append(events, Chunk(Len(events), u))
  PROVE  /\ more \in Seq(Event) /\ Ordered(more) /\ AllChunks(more)
         /\ Len(more) = Len(events) + 1
         /\ more # <<>> /\ more[Len(more)].unit = u
<1> USE DEF AllChunks, Continues
<1> DEFINE e == Chunk(Len(events), u)
<1>1. Len(events) \in Nat /\ (events # <<>> => Len(events) > 0)
  BY LenProperties, EmptySeq, SeqEqual
<1>2. e \in Event /\ e.kind = "chunk" /\ e.index = Len(events) /\ e.unit = u
  BY <1>1 DEF Event, Chunk
<1> HIDE DEF e
<1>3. /\ more \in Seq(Event) /\ Len(more) = Len(events) + 1 /\ more # <<>>
      /\ \A n \in 1..Len(events) : more[n] = events[n]
      /\ more[Len(events) + 1] = e
  BY <1>2, AppendProperties DEF e
<1>4. Ordered(more)
  <2> SUFFICES ASSUME NEW n \in 1..Len(more)
               PROVE /\ more[n].index = n - 1
                     /\ n = 1 => more[n].unit = 1
                     /\ n > 1 => /\ more[n - 1].kind = "chunk"
                                 /\ more[n].unit - more[n - 1].unit \in {0, 1}
    BY DEF Ordered
  <2>1. CASE n \in 1..Len(events)
    BY <1>1, <1>3, <2>1, SMTT(30) DEF Ordered
  <2>2. CASE n = Len(events) + 1
    <3>1. n = 1 => events = <<>>
      BY <1>1, <2>2
    <3>2. n > 1 => n - 1 = Len(events) /\ Len(events) \in 1..Len(events) /\ events # <<>>
      BY <1>1, <2>2, EmptySeq
    <3> QED
      BY <1>2, <1>3, <2>2, <3>1, <3>2
  <2> QED
    BY <1>1, <1>3, <2>1, <2>2
<1> QED
  BY <1>1, <1>2, <1>3, <1>4

LEMMA EndFollows ==
  ASSUME NEW events \in Seq(Event), Ordered(events),
         NEW why \in {"completed", "error", "cancelled"},
         NEW more, more = Append(events, End(why))
  PROVE  /\ more \in Seq(Event) /\ Ordered(more)
         /\ \A n \in 1..Len(more) : more[n] = End("completed") =>
              why = "completed" \/ \E k \in 1..Len(events) : events[k] = End("completed")
<1> DEFINE e == End(why)
<1>1. e \in Event /\ e.kind = "end" /\ e.reason = why /\ Len(events) \in Nat
  BY LenProperties DEF Event, End
<1> HIDE DEF e
<1>2. /\ more \in Seq(Event) /\ Len(more) = Len(events) + 1
      /\ \A n \in 1..Len(events) : more[n] = events[n]
      /\ more[Len(events) + 1] = e
  BY <1>1, AppendProperties DEF e
<1>3. \A n \in 1..Len(more) : n \in 1..Len(events) \/ n = Len(events) + 1
  BY <1>1, <1>2
<1>4. Ordered(more)
  BY <1>1, <1>2, <1>3 DEF Ordered
<1>5. e = End("completed") => why = "completed"
  BY <1>1 DEF End
<1> QED
  BY <1>2, <1>3, <1>4, <1>5

-----------------------------------------------------------------------------
(* The turn's task. *)

LEMMA SpeechStarts == Init => SpeechInv
<1> SUFFICES ASSUME Init PROVE SpeechInv
  OBVIOUS
<1> USE BoundsAssumption, EmptySeq DEF Init
<1>1. TypeOK
  <2>1. ready \in Seq(Nat) /\ queue \in Seq(Nat) /\ out \in Seq(Event)
    OBVIOUS
  <2>2. deltas \in 0..MaxDeltas /\ pieces \in 0..MaxPieces
    OBVIOUS
  <2>3. turn \in Turns /\ voice \in Voices
    BY DEF Turns, Voices
  <2> QED
    BY <2>1, <2>2, <2>3 DEF TypeOK, Stop, Event
<1>2. QueueInv
  BY DEF QueueInv, Marked, Ending, Stop
<1>3. TurnInv /\ VoiceInv
  BY DEF TurnInv, VoiceInv, Ending, Marked, Cleaning, Finished, Stop
<1>4. OutInv
  BY DEF OutInv, Ordered, AllChunks, Talking, Latest, Finished
<1> QED
  BY <1>1, <1>2, <1>3, <1>4 DEF SpeechInv

\* Steps that send nothing, and after which no more audio may follow than before.
LEMMA OutStays ==
  ASSUME SpeechInv, UNCHANGED <<voiceVars, index, out>>,
         Talking' => Talking /\ (turn' = "tailSent" <=> turn = "tailSent")
  PROVE  OutInv'
BY DEF SpeechInv, OutInv, Latest, voiceVars

\* The turn's task fails or is cancelled.
LEMMA FailKeeps ==
  ASSUME SpeechInv, NEW why \in {"error", "cancelled"}, Fail(why), turn \in Responding,
         UNCHANGED <<voiceVars, queue, started, index, out>>,
         link' \in BOOLEAN, canceller' \in {"none", "asked"}
  PROVE  SpeechInv'
<1> USE DEF SpeechInv, voiceVars
<1>1. /\ UNCHANGED <<deltas, made, ready>>
      /\ \/ turn' = "cleanup" /\ reason' = why
         \/ turn' = "over" /\ UNCHANGED reason /\ turn \in {"tail", "tailSent", "end", "ended"}
  BY DEF Fail, Untried, Goto
<1>2. TypeOK'
  BY <1>1 DEF TypeOK, Turns, Cleaning
<1>3. QueueInv' /\ TurnInv' /\ VoiceInv'
  <2>1. CASE turn' = "cleanup"
    BY <1>1, <2>1 DEF QueueInv, TurnInv, VoiceInv, Working, Marked, Ending, Cleaning
  <2>2. CASE turn' = "over"
    <3>1. voice = "done"
      BY <1>1, <2>2 DEF TurnInv, Ending
    <3> QED
      BY <1>1, <2>2, <3>1 DEF QueueInv, TurnInv, VoiceInv, Working, Marked, Ending, Cleaning, Finished
  <2> QED
    BY <1>1, <2>1, <2>2
<1>4. OutInv'
  <2>1. Talking' => Talking /\ turn' # "tailSent" /\ turn # "tailSent"
    BY <1>1 DEF Talking, TurnInv, Ending, Finished
  <2> QED
    BY <2>1, <1>1, OutStays
<1> QED
  BY <1>2, <1>3, <1>4

\* The turn's task goes on to its next await and has changed nothing else.
LEMMA GoesKeeps ==
  ASSUME SpeechInv, NEW next \in Turns, Goto(next),
         UNCHANGED <<voiceVars, queue, started, index, out>>,
         link' \in BOOLEAN, canceller' \in {"none", "asked", "told"},
         \/ /\ turn = "recognize" /\ next = "model" /\ canceller' # "told"
         \/ /\ turn = "text" /\ canceller' # "told"
            /\ next = (IF ready = <<>> THEN "model" ELSE "put")
            /\ deltas > 0
         \/ turn = "final" /\ next = "drain" /\ canceller' # "told"
         \/ /\ turn = "join" /\ voice = "done" /\ next \in {"tail", "end"} /\ canceller' # "told"
         \/ turn = "ended" /\ next = "over"
         \/ turn = "cleanup" /\ voice \in Finished /\ next \in {"close", "over"} /\ canceller' # "told"
         \/ turn \in {"close", "closing"} /\ next = "over"
         \/ turn = "recognize" /\ next = "over"
         \/ turn = "model" /\ deltas = 0 /\ next = "over"
  PROVE  SpeechInv'
<1> USE DEF SpeechInv, voiceVars
<1>1. turn' = next /\ UNCHANGED <<reason, deltas, made, ready>>
  BY DEF Goto
<1>2. TypeOK'
  BY <1>1 DEF TypeOK
<1>3. QueueInv'
  BY <1>1 DEF QueueInv, Working, Marked, Ending, Cleaning, TurnInv, Upcoming, Finished
<1>4. TurnInv'
  BY <1>1 DEF TurnInv, Working, Marked, Ending, Cleaning, Finished
<1>5. VoiceInv'
  BY <1>1 DEF VoiceInv
<1>6. OutInv'
  <2>1. Talking' => Talking /\ turn' # "tailSent" /\ turn # "tailSent"
    BY <1>1 DEF Talking, TurnInv, Ending, Finished
  <2> QED
    BY <2>1, OutStays
<1> QED
  BY <1>2, <1>3, <1>4, <1>5, <1>6

\* New units, or the mark, are ready to be put into the queue.
LEMMA UnitsReady ==
  ASSUME SpeechInv, turn = "model", NEW n \in Nat, NEW mark \in BOOLEAN,
         turn' = (IF mark THEN "final" ELSE "text"),
         deltas' \in 0..MaxDeltas, made' = made + n,
         ready' = [k \in 1..(IF mark THEN n + 1 ELSE n) |-> IF k > n THEN Stop ELSE made + k],
         mark => made' > 0,
         ~mark => deltas' > 0 /\ voice \notin Finished,
         UNCHANGED <<reason, voiceVars, queue, started, index, out, link, canceller>>
  PROVE  SpeechInv'
<1> USE DEF SpeechInv, voiceVars, Stop
<1> DEFINE total == IF mark THEN n + 1 ELSE n
<1>1. /\ made \in Nat /\ made' \in Nat /\ unit \in Nat /\ total \in Nat
      /\ ready = <<>> /\ Len(ready) = 0 /\ Len(queue) \in Nat
  BY EmptySeq, LenProperties DEF TypeOK, TurnInv
<1>2. /\ ready' \in Seq(Nat) /\ Len(ready') = total
      /\ \A k \in 1..total : ready'[k] = IF k > n THEN Stop ELSE made + k
  <2>1. \A k \in 1..total : (IF k > n THEN 0 ELSE made + k) \in Nat
    BY <1>1
  <2> QED
    BY <1>1, <2>1
<1> HIDE DEF total
<1>3. TypeOK'
  BY <1>1, <1>2 DEF TypeOK, Turns, Responding
<1>4. QueueInv'
  <2> SUFFICES ASSUME voice \notin Finished
               PROVE /\ unit <= made'
                     /\ Len(queue) + Len(ready') = (made' - unit) + IF Marked' THEN 1 ELSE 0
                     /\ \A k \in 1..Len(queue) : queue[k] = Upcoming(k)'
                     /\ \A k \in 1..Len(ready') : ready'[k] = Upcoming(Len(queue) + k)'
    BY DEF QueueInv
  <2>1. /\ unit <= made /\ Len(queue) = made - unit
        /\ \A k \in 1..Len(queue) : queue[k] = unit + k
    BY <1>1 DEF QueueInv, Working, Marked, Ending, Cleaning, Upcoming
  <2>2. Marked' <=> mark
    BY DEF Marked, Ending
  <2>3. total = IF mark THEN n + 1 ELSE n
    BY DEF total
  <2>4. \A k \in 1..Len(queue) : queue[k] = Upcoming(k)'
    BY <1>1, <2>1 DEF Upcoming
  <2>5. \A k \in 1..Len(ready') : ready'[k] = Upcoming(Len(queue) + k)'
    BY <1>1, <1>2, <2>1, <2>3 DEF Upcoming
  <2>6. unit <= made' /\ Len(queue) + total = (made' - unit) + IF mark THEN 1 ELSE 0
    BY <1>1, <2>1, <2>3
  <2> QED
    BY <1>2, <2>2, <2>4, <2>5, <2>6
<1>5. TurnInv'
  <2>1. turn' = "final" => ready' # <<>>
    BY <1>1, <1>2, EmptySeq DEF total
  <2>2. voice # "done"
    BY DEF TurnInv, Working, Cleaning, Ending
  <2> QED
    BY <2>1, <2>2 DEF TurnInv, Working, Marked, Ending, Cleaning, Finished
<1>6. VoiceInv' /\ OutInv'
  <2>1. voice # "done"
    BY DEF TurnInv, Working, Cleaning, Ending
  <2>2. Talking' => Talking /\ turn' # "tailSent" /\ turn # "tailSent"
    BY <2>1 DEF Talking
  <2> QED
    BY <2>1, <2>2, OutStays DEF VoiceInv
<1> QED
  BY <1>3, <1>4, <1>5, <1>6

LEMMA ModelKeeps ==
  ASSUME SpeechInv,
         \/ \E n \in 0..MaxReady : Delta(n) \/ WholeReply(n)
         \/ \E rest \in BOOLEAN : StreamEnds(rest)
  PROVE  SpeechInv'
<1> USE DEF SpeechInv
<1>1. /\ turn = "model" /\ turn \in Responding /\ made \in Nat /\ deltas \in 0..MaxDeltas
      /\ UNCHANGED <<voiceVars, queue, started, index, out, link, canceller>>
      /\ link' \in BOOLEAN /\ canceller' \in {"none", "asked", "told"} /\ canceller # "told"
      /\ MaxDeltas \in Nat /\ MaxReady \in Nat
  BY BoundsAssumption DEF Delta, WholeReply, StreamEnds, Responding, TypeOK, TurnInv
<1>2. ASSUME Fail("error") PROVE SpeechInv'
  BY <1>1, <1>2, FailKeeps
<1>3. ASSUME NEW n \in 0..MaxReady, voice \notin Finished, deltas < MaxDeltas,
             turn' = "text", deltas' = deltas + 1, made' = made + n,
             ready' = [k \in 1..n |-> made + k], UNCHANGED reason
      PROVE SpeechInv'
  <2>1. [k \in 1..n |-> made + k] = [k \in 1..n |-> IF k > n THEN Stop ELSE made + k]
    BY <1>1
  <2>2. n \in Nat /\ deltas' \in 0..MaxDeltas /\ deltas' > 0
    BY <1>1, <1>3
  <2> QED
    BY <1>1, <1>3, <2>1, <2>2, UnitsReady
<1>4. ASSUME NEW n \in 0..MaxReady, deltas = 0, n > 0, turn' = "final", made' = n,
             ready' = [k \in 1..(n + 1) |-> IF k > n THEN Stop ELSE k], UNCHANGED <<reason, deltas>>
      PROVE SpeechInv'
  <2>1. made = 0 /\ n \in Nat
    BY <1>1, <1>4 DEF TurnInv
  <2>2. ready' = [k \in 1..(n + 1) |-> IF k > n THEN Stop ELSE made + k] /\ made' = made + n
    BY <1>4, <2>1
  <2> QED
    BY <1>1, <1>4, <2>1, <2>2, UnitsReady
<1>5. ASSUME deltas = 0, Goto("over") PROVE SpeechInv'
  BY <1>1, <1>5, GoesKeeps DEF Turns
<1>6. ASSUME NEW rest \in BOOLEAN, deltas > 0, rest \/ made > 0, turn' = "final",
             made' = (IF rest THEN made + 1 ELSE made),
             ready' = (IF rest THEN <<made + 1, Stop>> ELSE <<Stop>>), UNCHANGED <<reason, deltas>>
      PROVE SpeechInv'
  <2> DEFINE n == IF rest THEN 1 ELSE 0
  <2>1. ready' = [k \in 1..(n + 1) |-> IF k > n THEN Stop ELSE made + k]
    BY <1>1, <1>6 DEF Stop
  <2>2. n \in Nat /\ made' = made + n /\ made' > 0
    BY <1>1, <1>6
  <2> HIDE DEF n
  <2> QED
    BY <1>1, <1>6, <2>1, <2>2, UnitsReady
<1> QED
  BY <1>2, <1>3, <1>4, <1>5, <1>6 DEF Delta, WholeReply, StreamEnds

\* speech_queue.put: the first of what is ready goes to the end of the queue.
LEMMA PutKeeps ==
  ASSUME SpeechInv, NEW limit \in Nat, NEW next,
         \/ turn = "put" /\ next = "model"
         \/ turn = "drain" /\ next = "join",
         Put(limit, next)
  PROVE  SpeechInv'
<1> USE DEF SpeechInv, voiceVars
<1> DEFINE q == Len(queue)
           r == Len(ready)
           n == Smaller(r, limit - q)
<1>1. /\ queue \in Seq(Nat) /\ ready \in Seq(Nat) /\ q \in Nat /\ r \in Nat
      /\ n \in Int /\ n > 0 /\ n <= r
  BY LenProperties DEF TypeOK, Put, Smaller
<1>2. /\ queue' = queue \o SubSeq(ready, 1, n) /\ ready' = SubSeq(ready, n + 1, r)
      /\ turn' = IF n = r THEN next ELSE turn
      /\ UNCHANGED <<reason, deltas, made, voiceVars, started, index, out, link, canceller>>
  BY DEF Put
<1> HIDE DEF n
<1>3. /\ SubSeq(ready, 1, n) \in Seq(Nat) /\ Len(SubSeq(ready, 1, n)) = n
      /\ \A k \in 1..n : SubSeq(ready, 1, n)[k] = ready[k]
  <2>1. \A k \in 1..n : ready[k] \in Nat
    BY <1>1, ElementOfSeq
  <2>2. /\ SubSeq(ready, 1, n) \in Seq(Nat)
        /\ Len(SubSeq(ready, 1, n)) = IF 1 <= n THEN n - 1 + 1 ELSE 0
        /\ \A k \in 1..(n - 1 + 1) : SubSeq(ready, 1, n)[k] = ready[1 + k - 1]
    BY <1>1, <2>1, SubSeqProperties
  <2> QED
    BY <1>1, <2>2
<1>4. /\ ready' \in Seq(Nat) /\ Len(ready') = r - n
      /\ \A k \in 1..(r - n) : ready'[k] = ready[n + k]
  <2>1. \A k \in (n + 1)..r : ready[k] \in Nat
    BY <1>1, ElementOfSeq
  <2> DEFINE m == n + 1
             rest == SubSeq(ready, m, r)
  <2>2. m \in Int /\ r \in Int /\ r - m + 1 = r - n /\ (m <= r \/ r - n = 0)
    BY <1>1
  <2> HIDE DEF m
  <2>3. \A k \in m..r : ready[k] \in Nat
    BY <2>1 DEF m
  <2>4. /\ rest \in Seq(Nat)
        /\ Len(rest) = IF m <= r THEN r - m + 1 ELSE 0
        /\ \A k \in 1..(r - m + 1) : rest[k] = ready[m + k - 1]
    BY <2>2, <2>3, SubSeqProperties
  <2>5. ready' = rest
    BY <1>2 DEF m
  <2> HIDE DEF rest
  <2>6. \A k \in 1..(r - n) : m + k - 1 = n + k
    BY <1>1 DEF m
  <2> QED
    BY <2>2, <2>4, <2>5, <2>6
<1>5. /\ queue' \in Seq(Nat) /\ Len(queue') = q + n
      /\ \A k \in 1..(q + n) : queue'[k] = IF k <= q THEN queue[k] ELSE ready[k - q]
  <2> DEFINE first == SubSeq(ready, 1, n)
  <2>1. first \in Seq(Nat) /\ Len(first) = n /\ \A k \in 1..n : first[k] = ready[k]
    BY <1>3
  <2>2. queue' = queue \o first
    BY <1>2
  <2> HIDE DEF first
  <2>3. /\ queue' \in Seq(Nat) /\ Len(queue') = q + n
        /\ \A k \in 1..(q + n) : queue'[k] = IF k <= q THEN queue[k] ELSE first[k - q]
    BY <1>1, <2>1, <2>2, ConcatProperties
  <2>4. ASSUME NEW k \in 1..(q + n), k > q
        PROVE first[k - q] = ready[k - q]
    <3>1. k - q \in 1..n
      BY <1>1, <2>4
    <3> QED
      BY <2>1, <3>1
  <2>5. \A k \in 1..(q + n) : k <= q \/ k > q
    BY <1>1
  <2> QED
    BY <2>3, <2>4, <2>5
<1>6. TypeOK'
  BY <1>2, <1>4, <1>5 DEF TypeOK, Turns, Responding
<1>7. Working /\ Working' /\ (Marked' <=> Marked)
  BY <1>2 DEF Working, Marked, Ending, Cleaning
<1>8. QueueInv'
  <2> SUFFICES ASSUME voice \notin Finished
               PROVE /\ unit <= made
                     /\ Len(queue') + Len(ready') = (made - unit) + IF Marked THEN 1 ELSE 0
                     /\ \A k \in 1..Len(queue') : queue'[k] = Upcoming(k)
                     /\ \A k \in 1..Len(ready') : ready'[k] = Upcoming(Len(queue') + k)
    BY <1>2, <1>7 DEF QueueInv, Upcoming
  <2>1. /\ unit <= made /\ q + r = (made - unit) + IF Marked THEN 1 ELSE 0
        /\ \A k \in 1..q : queue[k] = Upcoming(k)
        /\ \A k \in 1..r : ready[k] = Upcoming(q + k)
    BY <1>7 DEF QueueInv
  <2>2. Len(queue') + Len(ready') = q + r
    BY <1>1, <1>4, <1>5
  <2>3. \A k \in 1..Len(queue') : queue'[k] = Upcoming(k)
    <3> SUFFICES ASSUME NEW k \in 1..(q + n) PROVE queue'[k] = Upcoming(k)
      BY <1>5
    <3>1. CASE k <= q
      <4>1. k \in 1..q /\ queue'[k] = queue[k]
        BY <1>1, <1>5, <3>1
      <4> QED
        BY <2>1, <4>1
    <3>2. CASE k > q
      <4>1. k - q \in 1..r /\ q + (k - q) = k
        BY <1>1, <3>2
      <4>2. queue'[k] = ready[k - q]
        BY <1>1, <1>5, <3>2
      <4>3. ready[k - q] = Upcoming(q + (k - q))
        BY <2>1, <4>1
      <4> QED
        BY <4>1, <4>2, <4>3
    <3> QED
      BY <1>1, <3>1, <3>2
  <2>4. \A k \in 1..Len(ready') : ready'[k] = Upcoming(Len(queue') + k)
    <3> SUFFICES ASSUME NEW k \in 1..(r - n) PROVE ready'[k] = Upcoming(Len(queue') + k)
      BY <1>4
    <3>1. n + k \in 1..r /\ q + (n + k) = (q + n) + k
      BY <1>1
    <3>2. ready'[k] = ready[n + k] /\ ready[n + k] = Upcoming(q + (n + k))
      BY <1>4, <2>1, <3>1
    <3> QED
      BY <1>5, <3>1, <3>2
  <2> QED
    BY <2>1, <2>2, <2>3, <2>4
<1>9. TurnInv'
  <2>1. n = r => ready' = <<>>
    BY <1>1, <1>4, EmptySeq, SeqEqual
  <2>2. n # r => ready' # <<>>
    BY <1>1, <1>4, EmptySeq
  <2> QED
    BY <1>2, <1>7, <2>1, <2>2 DEF TurnInv, Working, Marked, Ending, Cleaning, Finished
<1>10. VoiceInv' /\ OutInv'
  <2>1. voice # "done"
    BY <1>7 DEF TurnInv, Ending
  <2>2. Talking' => Talking /\ turn' # "tailSent" /\ turn # "tailSent"
    BY <1>2, <2>1 DEF Talking
  <2> QED
    BY <1>2, <2>1, <2>2, OutStays DEF VoiceInv
<1> QED
  BY <1>6, <1>8, <1>9, <1>10

LEMMA TalkKeeps ==
  ASSUME SpeechInv,
         Recognize \/ ForwardText \/ FinalText \/ PutUnits \/ DrainUnits \/ Join \/ StopVoice
  PROVE  SpeechInv'
<1> USE DEF SpeechInv
<1>1. /\ link \in BOOLEAN /\ canceller \in {"none", "asked", "told"}
      /\ turn # "over" => canceller # "told"
      /\ "error" \in {"error", "cancelled"} /\ made \in Nat /\ QueueSize \in Nat
  BY BoundsAssumption DEF TypeOK, TurnInv
<1>2. CASE Recognize
  BY <1>1, <1>2, GoesKeeps DEF Recognize, Turns, Responding
<1>3. CASE ForwardText
  BY <1>1, <1>3, GoesKeeps, FailKeeps DEF ForwardText, Tell, Turns, Responding, TurnInv
<1>4. CASE FinalText
  BY <1>1, <1>4, GoesKeeps, FailKeeps DEF FinalText, Tell, Turns, Responding
<1>5. CASE PutUnits
  BY <1>1, <1>5, PutKeeps DEF PutUnits
<1>6. CASE DrainUnits
  <2>1. turn = "drain" /\ \E limit \in Nat : Put(limit, "join")
    BY <1>1, <1>6 DEF DrainUnits
  <2> QED
    BY <2>1, PutKeeps
<1>7. CASE Join
  BY <1>1, <1>7, GoesKeeps, FailKeeps DEF Join, Turns, Responding
<1>8. CASE StopVoice
  BY <1>1, <1>8, GoesKeeps DEF StopVoice, Turns, Cleaning
<1> QED
  BY <1>2, <1>3, <1>4, <1>5, <1>6, <1>7, <1>8

\* The turn's task sends: the silence at the end, and an end.
LEMMA SendingKeeps ==
  ASSUME SpeechInv, NEW next, Goto(next),
         \/ turn = "tail" /\ next = "tailSent"
         \/ turn = "tailSent" /\ next = "end"
         \/ turn = "end" /\ next = "ended"
         \/ turn = "close" /\ next = "closing",
         UNCHANGED <<voiceVars, queue, started, link, canceller>>,
         index' \in Nat, out' \in Seq(Event), OutInv'
  PROVE  SpeechInv'
<1> USE DEF SpeechInv, voiceVars
<1>1. turn' = next /\ UNCHANGED <<reason, deltas, made, ready>>
  BY DEF Goto
<1>2. voice \in Finished
  BY DEF TurnInv, Ending, Finished
<1>3. TypeOK'
  BY <1>1 DEF TypeOK, Turns, Responding, Cleaning, Event
<1>4. QueueInv' /\ TurnInv' /\ VoiceInv'
  BY <1>1, <1>2 DEF QueueInv, TurnInv, VoiceInv, Working, Marked, Ending, Cleaning
<1> QED
  BY <1>3, <1>4

LEMMA TailKeeps == ASSUME SpeechInv, SendTail PROVE SpeechInv'
<1> USE DEF SpeechInv
<1>1. /\ turn \in {"tail", "tailSent"} /\ turn \in Responding
      /\ UNCHANGED <<voiceVars, queue, started, link, canceller>>
      /\ link \in BOOLEAN /\ canceller \in {"none", "asked"} /\ index \in Nat /\ made \in Nat
      /\ voice = "done" /\ spoken = made /\ made > 0 /\ out \in Seq(Event)
  BY DEF SendTail, Responding, TypeOK, TurnInv, VoiceInv, Ending, Marked, Event
<1>2. CASE turn = "tail" /\ link
  <2>1. out' = Append(out, Chunk(index, made)) /\ Goto("tailSent") /\ UNCHANGED index
    BY <1>2 DEF SendTail
  <2>2. /\ Talking /\ Latest = made /\ Len(out) = index
        /\ AllChunks(out)
        /\ out # <<>> /\ out[Len(out)].unit = made
    BY <1>1, <1>2 DEF OutInv, Talking, Latest
  <2>3. /\ out' \in Seq(Event) /\ Ordered(out') /\ Len(out') = index + 1
        /\ AllChunks(out')
        /\ out' # <<>> /\ out'[Len(out')].unit = made
    <3>1. /\ out \in Seq(Event) /\ made \in Nat
          /\ Ordered(out) /\ AllChunks(out) /\ Continues(out, made)
      BY <1>1, <2>2 DEF OutInv, Continues
    <3>2. out' = Append(out, Chunk(Len(out), made))
      BY <2>1, <2>2
    <3>3. /\ out' \in Seq(Event) /\ Ordered(out') /\ AllChunks(out')
          /\ Len(out') = Len(out) + 1
          /\ out' # <<>> /\ out'[Len(out')].unit = made
      BY <3>1, <3>2, ChunkFollows
    <3> QED
      BY <2>2, <3>3
  <2>4. turn' = "tailSent" /\ UNCHANGED <<voice, unit, pieces, spoken, index>>
    BY <1>1, <2>1 DEF Goto, voiceVars
  <2>5. OutInv'
    BY <1>1, <2>3, <2>4 DEF OutInv, Latest
  <2> QED
    BY <1>1, <1>2, <2>1, <2>3, <2>5, SendingKeeps
<1>3. CASE turn = "tailSent" /\ link
  <2>1. index' = index + 1 /\ Goto("end") /\ UNCHANGED out
    BY <1>3 DEF SendTail
  <2>2. turn' = "end" /\ UNCHANGED voice /\ ~Talking'
    BY <1>1, <2>1 DEF Goto, voiceVars, Talking, Finished
  <2>3. OutInv'
    BY <2>1, <2>2 DEF OutInv
  <2> QED
    BY <1>1, <1>3, <2>1, <2>3, SendingKeeps
<1>4. CASE ~link
  BY <1>1, <1>4, FailKeeps DEF SendTail
<1> QED
  BY <1>1, <1>2, <1>3, <1>4

LEMMA EndKeeps == ASSUME SpeechInv, SendEnd \/ CloseOutput PROVE SpeechInv'
<1> USE DEF SpeechInv
<1>1. /\ UNCHANGED <<voiceVars, queue, started, index, link, canceller>>
      /\ link \in BOOLEAN /\ canceller \in {"none", "asked", "told"} /\ index \in Nat
      /\ turn # "over" => canceller # "told"
      /\ out \in Seq(Event) /\ voice \in Finished
  BY DEF SendEnd, CloseOutput, TypeOK, TurnInv, Ending, Finished, Event
<1>2. ASSUME NEW why \in {"completed", "error", "cancelled"}, out' = Append(out, End(why)),
             NEW next, Goto(next),
             \/ turn = "end" /\ next = "ended"
             \/ turn = "close" /\ next = "closing",
             why = "completed" => voice = "done"
      PROVE SpeechInv'
  <2>1. /\ out' \in Seq(Event) /\ Ordered(out')
        /\ \A n \in 1..Len(out') : out'[n] = End("completed") =>
             why = "completed" \/ \E k \in 1..Len(out) : out[k] = End("completed")
    BY <1>1, <1>2, EndFollows DEF OutInv
  <2>2. ~Talking' /\ UNCHANGED voice
    BY <1>1, <1>2 DEF Talking, Goto, voiceVars
  <2>3. OutInv'
    BY <1>2, <2>1, <2>2 DEF OutInv
  <2> QED
    BY <1>1, <1>2, <2>1, <2>3, SendingKeeps
<1>3. CASE turn = "end" /\ link
  BY <1>1, <1>2, <1>3 DEF SendEnd, CloseOutput, TurnInv, Ending
<1>4. CASE turn = "close" /\ link
  <2>1. reason \in {"error", "cancelled"}
    BY <1>4 DEF TurnInv, Cleaning
  <2> QED
    BY <1>1, <1>2, <1>4, <2>1 DEF SendEnd, CloseOutput
<1>5. CASE turn = "ended" /\ link
  BY <1>1, <1>5, GoesKeeps DEF SendEnd, CloseOutput, Turns
<1>6. CASE turn \in {"end", "ended"} /\ ~link
  BY <1>1, <1>6, FailKeeps DEF SendEnd, CloseOutput, Responding
<1>7. CASE turn = "closing" \/ (turn = "close" /\ ~link)
  BY <1>1, <1>7, GoesKeeps DEF SendEnd, CloseOutput, Turns
<1> QED
  BY <1>3, <1>4, <1>5, <1>6, <1>7 DEF SendEnd, CloseOutput

-----------------------------------------------------------------------------
(* The speaking task. *)

LEMMA GetKeeps == ASSUME SpeechInv, GetUnit PROVE SpeechInv'
<1> USE DEF SpeechInv, turnVars, Stop
<1>1. /\ voice = "get" /\ Working /\ queue # <<>>
      /\ queue' = Tail(queue) /\ unit' = Head(queue) /\ pieces' = 0
      /\ voice' = IF Head(queue) = 0 THEN "done" ELSE "speak"
      /\ UNCHANGED <<turn, reason, deltas, made, ready, spoken, started, index, out, link, canceller>>
  BY DEF GetUnit, Speaking, Working
<1>2. /\ queue \in Seq(Nat) /\ ready \in Seq(Nat) /\ unit \in Nat /\ made \in Nat
      /\ unit = spoken /\ MaxPieces \in Nat \ {0}
  BY <1>1, BoundsAssumption DEF TypeOK, VoiceInv
<1>3. /\ queue' \in Seq(Nat) /\ Len(queue') = Len(queue) - 1 /\ Head(queue) = queue[1]
      /\ Len(queue) \in Nat /\ Len(queue) > 0 /\ Len(ready) \in Nat
      /\ \A k \in 1..Len(queue') : queue'[k] = queue[k + 1]
      /\ Head(queue) \in Nat
  <2>1. Len(queue) \in Nat /\ Len(queue) > 0 /\ Len(ready) \in Nat
    BY <1>1, <1>2, LenProperties, EmptySeq, SeqEqual
  <2> QED
    BY <1>1, <1>2, <2>1, HeadTailProperties
<1>4. /\ unit <= made
      /\ Len(queue) + Len(ready) = (made - unit) + IF Marked THEN 1 ELSE 0
      /\ \A k \in 1..Len(queue) : queue[k] = Upcoming(k)
      /\ \A k \in 1..Len(ready) : ready[k] = Upcoming(Len(queue) + k)
  BY <1>1 DEF QueueInv, Finished
<1>5. TypeOK'
  BY <1>1, <1>2, <1>3 DEF TypeOK, Voices, Finished
<1>6. queue[1] = IF unit + 1 <= made THEN unit + 1 ELSE 0
  BY <1>3, <1>4 DEF Upcoming
<1>7. voice' # "get" /\ ~(turn \in {"recognize", "model"} /\ deltas = 0)
  BY <1>1 DEF TurnInv
<1>8. CASE unit + 1 <= made
  <2>1. unit' = unit + 1 /\ voice' = "speak"
    BY <1>1, <1>2, <1>3, <1>6, <1>8
  <2>2. QueueInv'
    <3>1. \A k \in 1..Len(queue') : queue'[k] = Upcoming(k)'
      BY <1>1, <1>2, <1>3, <1>4, <2>1, SMTT(30) DEF Upcoming
    <3>2. \A k \in 1..Len(ready) : ready[k] = IF unit' + (Len(queue') + k) <= made THEN unit' + (Len(queue') + k) ELSE 0
      BY <1>1, <1>2, <1>3, <1>4, <2>1, SMTT(30) DEF Upcoming
    <3>3. /\ unit' <= made
          /\ Len(queue') + Len(ready) = (made - unit') + IF Marked THEN 1 ELSE 0
      BY <1>2, <1>3, <1>4, <1>8, <2>1
    <3>4. Marked' <=> Marked
      BY <1>1 DEF Marked
    <3> QED
      BY <1>1, <3>1, <3>2, <3>3, <3>4 DEF QueueInv, Upcoming
  <2>3. TurnInv'
    BY <1>1, <1>7, <2>1 DEF TurnInv, Working, Marked, Ending, Cleaning, Finished
  <2>4. VoiceInv' /\ OutInv'
    BY <1>1, <1>2, <2>1 DEF VoiceInv, OutInv, Talking, Latest, Finished, Ending
  <2> QED
    BY <1>5, <2>2, <2>3, <2>4
<1>9. CASE ~(unit + 1 <= made)
  <2>1. unit' = 0 /\ voice' = "done" /\ spoken = made
    BY <1>1, <1>2, <1>3, <1>4, <1>6, <1>9
  <2>2. Marked /\ Len(ready) = 0
    BY <1>2, <1>3, <1>4, <1>9
  <2>3. turn \in Ending /\ turn \notin Ending \ {"join"}
    <3>1. ready = <<>>
      BY <1>2, <2>2, EmptySeq, SeqEqual
    <3> QED
      BY <1>1, <2>2, <3>1 DEF TurnInv, Marked
  <2>4. turn = "join"
    BY <2>3
  <2>5. QueueInv' /\ VoiceInv'
    BY <1>1, <2>1 DEF QueueInv, VoiceInv, Finished
  <2>6. TurnInv'
    BY <1>1, <1>7, <2>1, <2>4 DEF TurnInv, Working, Marked, Ending, Cleaning, Finished
  <2>7. OutInv'
    BY <1>1, <2>1, <2>4 DEF OutInv, Talking, Latest, Finished
  <2> QED
    BY <1>5, <2>5, <2>6, <2>7
<1> QED
  BY <1>8, <1>9

\* The speaking task stays with its unit, or is finished with it.
LEMMA VoiceMoves ==
  ASSUME SpeechInv, voice \notin Finished \union {"get"},
         voice' \in (Voices \ {"done", "cancelled"}) \/ (voice' = "cancelled" /\ ~Working),
         Working \/ voice' = "cancelled",
         UNCHANGED <<turnVars, queue, unit, link, canceller>>,
         pieces' \in 0..MaxPieces, spoken' \in Nat, started' \in BOOLEAN, index' \in Nat,
         out' \in Seq(Event), VoiceInv', OutInv'
  PROVE  SpeechInv'
<1> USE DEF SpeechInv, turnVars
<1>1. TypeOK'
  BY DEF TypeOK, Voices, Finished, Event
<1>2. QueueInv'
  BY DEF QueueInv, Working, Marked, Upcoming
<1>3. TurnInv'
  BY DEF TurnInv, Working, Marked, Ending, Cleaning, Finished, Voices
<1> QED
  BY <1>1, <1>2, <1>3

LEMMA SynthesisKeeps == ASSUME SpeechInv, Synthesize \/ Announce PROVE SpeechInv'
<1> USE DEF SpeechInv
<1>1. /\ voice \in {"speak", "announce"} /\ voice \notin Finished \union {"get"} /\ Working
      /\ voice' \in {"send", "announce", "get", "failed"}
      /\ voice' \in (Voices \ {"done", "cancelled"})
      /\ UNCHANGED <<turnVars, queue, unit, link, canceller, pieces, index, out>>
      /\ pieces \in 0..MaxPieces /\ spoken \in Nat /\ unit \in Nat /\ started' \in BOOLEAN
      /\ index \in Nat /\ out \in Seq(Event) /\ turn' = turn /\ made' = made
  BY DEF Synthesize, Announce, Speaking, Working, Finished, Voices, TypeOK, Event, turnVars
<1>2. /\ voice' \in {"send", "announce"} => pieces < MaxPieces /\ spoken' = spoken
      /\ voice' = "get" => pieces > 0 /\ spoken' = unit
      /\ voice' = "failed" => spoken' = spoken
      /\ spoken' \in Nat
  <2>1. CASE Synthesize
    BY <1>1, <2>1, BoundsAssumption DEF Synthesize
  <2>2. CASE Announce
    BY <1>1, <2>2 DEF Announce, Speaking, VoiceInv
  <2> QED
    BY <2>1, <2>2
<1>3. unit = spoken + 1 /\ VoiceInv'
  BY <1>1, <1>2 DEF VoiceInv
<1>4. OutInv'
  <2>1. Talking /\ turn # "tailSent"
    BY <1>1 DEF Talking, TurnInv, Ending
  <2>2. voice' # "failed" => Latest' = Latest
    BY <1>1, <1>2 DEF Latest
  <2>3. voice' = "failed" => ~Talking'
    BY DEF Talking, Finished
  <2> QED
    BY <1>1, <2>1, <2>2, <2>3 DEF OutInv
<1> QED
  BY <1>1, <1>2, <1>3, <1>4, VoiceMoves

\* The chunk that the speaking task sends is the next one.
LEMMA ChunkKeeps ==
  ASSUME SpeechInv, voice = "send", out' = Append(out, Chunk(index, unit))
  PROVE  /\ out' \in Seq(Event) /\ Ordered(out') /\ Len(out') = index + 1
         /\ AllChunks(out')
         /\ out' # <<>> /\ out'[Len(out')].unit = unit
<1> USE DEF SpeechInv
<1>1. /\ turn # "tailSent" /\ Talking /\ unit \in Nat /\ spoken \in Nat /\ unit = spoken + 1
      /\ out \in Seq(Event) /\ index \in Nat
  BY DEF TypeOK, TurnInv, VoiceInv, Talking, Ending, Finished, Event
<1>2. /\ Ordered(out) /\ Len(out) = index
      /\ AllChunks(out)
      /\ IF out = <<>> THEN Latest = 0 ELSE out[Len(out)].unit = Latest
  BY <1>1 DEF OutInv
<1>3. Latest \in {unit, spoken}
  BY DEF Latest
<1>4. Continues(out, unit) /\ out' = Append(out, Chunk(Len(out), unit))
  BY <1>1, <1>2, <1>3 DEF Continues
<1> QED
  BY <1>1, <1>2, <1>4, ChunkFollows

LEMMA SendKeeps == ASSUME SpeechInv, SendChunk PROVE SpeechInv'
<1> USE DEF SpeechInv
<1>1. /\ voice \in {"send", "sent"} /\ voice \notin Finished \union {"get"} /\ Working
      /\ UNCHANGED <<turnVars, queue, unit, spoken, started, link, canceller>>
      /\ pieces \in 0..MaxPieces /\ pieces < MaxPieces /\ MaxPieces \in Nat
      /\ spoken \in Nat /\ unit \in Nat /\ started \in BOOLEAN /\ unit = spoken + 1
      /\ index \in Nat /\ out \in Seq(Event) /\ turn' = turn /\ turn # "tailSent" /\ Talking
      /\ {"sent", "speak", "failed"} \subseteq Voices \ {"done", "cancelled"}
  BY BoundsAssumption
  DEF SendChunk, Speaking, Working, Finished, Voices, TypeOK, Event, turnVars, VoiceInv, TurnInv,
      Ending, Talking
<1>2. CASE voice = "send" /\ link
  <2>1. out' = Append(out, Chunk(index, unit)) /\ voice' = "sent" /\ UNCHANGED <<pieces, index>>
    BY <1>2 DEF SendChunk, Speaking
  <2>2. /\ out' \in Seq(Event) /\ Ordered(out') /\ Len(out') = index + 1
        /\ AllChunks(out')
        /\ out' # <<>> /\ out'[Len(out')].unit = unit
    BY <1>2, <2>1, ChunkKeeps
  <2>3. VoiceInv'
    BY <1>1, <2>1 DEF VoiceInv
  <2>4. OutInv'
    <3>1. \A n \in 1..Len(out') : out'[n] # End("completed")
      BY <2>2 DEF AllChunks, End
    <3>2. Latest' = unit
      BY <1>1, <2>1 DEF Latest
    <3> QED
      BY <1>1, <2>1, <2>2, <3>1, <3>2 DEF OutInv
  <2> QED
    BY <1>1, <2>1, <2>2, <2>3, <2>4, VoiceMoves
<1>3. CASE voice = "sent" /\ link
  <2>1. voice' = "speak" /\ pieces' = pieces + 1 /\ index' = index + 1 /\ UNCHANGED out
    BY <1>3 DEF SendChunk, Speaking
  <2>2. VoiceInv'
    BY <1>1, <2>1 DEF VoiceInv
  <2>3. Latest' = unit /\ Latest = unit
    BY <1>1, <1>3, <2>1 DEF Latest
  <2>4. OutInv'
    BY <1>1, <1>3, <2>1, <2>3 DEF OutInv
  <2>5. pieces' \in 0..MaxPieces /\ index' \in Nat
    BY <1>1, <2>1
  <2> QED
    BY <1>1, <2>1, <2>2, <2>4, <2>5, VoiceMoves
<1>4. CASE ~link
  <2>1. voice' = "failed" /\ UNCHANGED <<pieces, index, out>>
    BY <1>4 DEF SendChunk
  <2>2. VoiceInv' /\ OutInv'
    BY <1>1, <2>1 DEF VoiceInv, OutInv, Talking, Finished
  <2> QED
    BY <1>1, <2>1, <2>2, VoiceMoves
<1> QED
  BY <1>1, <1>2, <1>3, <1>4

LEMMA CancelledVoiceKeeps ==
  ASSUME SpeechInv, VoiceCancelled
  PROVE  SpeechInv' /\ (canceller = "told" => UNCHANGED out)
<1> USE DEF SpeechInv
<1>1. /\ voice \notin Finished /\ ~Working /\ voice' = "cancelled" /\ "cancelled" \in Voices
      /\ turn \in Cleaning \union {"over"}
      /\ UNCHANGED <<turnVars, unit, pieces, spoken, queue, started, index, link, canceller>>
      /\ out \in Seq(Event)
  BY DEF VoiceCancelled, Working, Voices, Finished, TypeOK, Event
<1>2. out' \in Seq(Event) /\ Ordered(out') /\ \A n \in 1..Len(out') : out'[n] # End("completed")
  <2>1. CASE UNCHANGED out
    BY <1>1, <2>1 DEF OutInv, Finished
  <2>2. CASE voice = "send" /\ out' = Append(out, Chunk(index, unit))
    <3>1. out' \in Seq(Event) /\ Ordered(out') /\ AllChunks(out')
      BY <2>2, ChunkKeeps
    <3> QED
      BY <3>1 DEF AllChunks, End
  <2> QED
    BY <2>1, <2>2 DEF VoiceCancelled
<1>3. TypeOK'
  BY <1>1, <1>2 DEF TypeOK, turnVars, Event
<1>4. QueueInv' /\ VoiceInv'
  BY <1>1 DEF QueueInv, VoiceInv, Finished
<1>5. TurnInv'
  BY <1>1 DEF TurnInv, turnVars, Working, Marked, Ending, Cleaning, Finished
<1>6. OutInv'
  BY <1>1, <1>2 DEF OutInv, Talking, Finished
<1>7. canceller = "told" => UNCHANGED out
  BY <1>1 DEF TurnInv, VoiceCancelled
<1> QED
  BY <1>3, <1>4, <1>5, <1>6, <1>7

-----------------------------------------------------------------------------
(* The session. *)

LEMMA SessionKeeps ==
  ASSUME SpeechInv, Cancel \/ AnswerCancel \/ LinkLost \/ UNCHANGED vars
  PROVE  SpeechInv'
<1> USE DEF SpeechInv
<1>1. link \in BOOLEAN /\ canceller \in {"none", "asked", "told"} /\ turn \in Turns
  BY DEF TypeOK
<1>2. ASSUME UNCHANGED <<turnVars, voiceVars, queue, started, index, out>>,
             link' \in BOOLEAN, canceller' \in {"none", "asked", "told"},
             canceller' = "told" => turn = "over"
      PROVE SpeechInv'
  <2> USE DEF turnVars, voiceVars
  <2>1. TypeOK'
    BY <1>2 DEF TypeOK
  <2>2. QueueInv' /\ VoiceInv'
    BY <1>2 DEF QueueInv, VoiceInv, Working, Marked, Upcoming
  <2>3. TurnInv'
    BY <1>2 DEF TurnInv, Working, Marked
  <2>4. OutInv'
    BY <1>2 DEF OutInv, Talking, Latest
  <2> QED
    BY <2>1, <2>2, <2>3, <2>4
<1>3. CASE AnswerCancel
  BY <1>1, <1>2, <1>3 DEF AnswerCancel
<1>4. CASE LinkLost
  BY <1>1, <1>2, <1>4 DEF LinkLost, TurnInv
<1>5. CASE UNCHANGED vars
  BY <1>1, <1>2, <1>5 DEF vars, TurnInv
<1>6. CASE Cancel
  <2>1. /\ canceller = "none" /\ canceller' = "asked" /\ link' = link
        /\ UNCHANGED <<voiceVars, queue, started, index, out>>
    BY <1>6 DEF Cancel
  <2>2. CASE turn \in Responding /\ Fail("cancelled")
    BY <1>1, <2>1, <2>2, FailKeeps
  <2>3. CASE turn \in {"recognize", "close", "closing"} /\ Goto("over")
    BY <1>1, <2>1, <2>3, GoesKeeps DEF Turns
  <2>4. CASE turn \in {"cleanup", "over"} /\ UNCHANGED turnVars
    BY <1>1, <1>2, <2>1, <2>4
  <2> QED
    BY <1>6, <2>2, <2>3, <2>4 DEF Cancel
<1> QED
  BY <1>3, <1>4, <1>5, <1>6

LEMMA SpeechStep ==
  SpeechInv /\ [Next]_vars => SpeechInv' /\ (canceller = "told" => UNCHANGED out)
<1> SUFFICES ASSUME SpeechInv, [Next]_vars
             PROVE SpeechInv' /\ (canceller = "told" => UNCHANGED out)
  OBVIOUS
<1>1. CASE TurnStep
  <2>1. SpeechInv'
    BY <1>1, ModelKeeps, TalkKeeps, TailKeeps, EndKeeps DEF TurnStep
  <2>2. turn # "over"
    BY <1>1
    DEF TurnStep, Recognize, Delta, WholeReply, StreamEnds, ForwardText, PutUnits, FinalText,
        DrainUnits, Join, SendTail, SendEnd, StopVoice, CloseOutput
  <2> QED
    BY <2>1, <2>2 DEF SpeechInv, TurnInv
<1>2. CASE VoiceCancelled
  BY <1>2, CancelledVoiceKeeps
<1>3. CASE GetUnit \/ Synthesize \/ Announce \/ SendChunk
  <2>1. SpeechInv'
    BY <1>3, GetKeeps, SynthesisKeeps, SendKeeps
  <2>2. turn # "over"
    BY <1>3 DEF GetUnit, Synthesize, Announce, SendChunk, Speaking
  <2> QED
    BY <2>1, <2>2 DEF SpeechInv, TurnInv
<1>4. CASE Cancel \/ AnswerCancel \/ LinkLost \/ UNCHANGED vars
  <2>1. UNCHANGED out
    BY <1>4 DEF Cancel, AnswerCancel, LinkLost, vars
  <2> QED
    BY <1>4, <2>1, SessionKeeps
<1> QED
  BY <1>1, <1>2, <1>3, <1>4 DEF Next, VoiceStep, Rest

LEMMA SpeechAlways == Spec => []SpeechInv
<1>1. SpeechInv /\ [Next]_vars => SpeechInv'
  BY SpeechStep
<1> QED
  BY <1>1, SpeechStarts, PTL DEF Spec

LEMMA SpeechIsImplied == SpeechInv => OutputIsOrdered
<1> SUFFICES ASSUME SpeechInv PROVE OutputIsOrdered
  OBVIOUS
<1> USE DEF SpeechInv
<1>1. DOMAIN out = 1..Len(out) /\ Ordered(out)
  BY LenProperties DEF TypeOK, OutInv
<1>2. \A n \in 1..Len(out) : out[n] = End("completed") => spoken = made
  BY DEF OutInv, VoiceInv
<1> QED
  BY <1>1, <1>2 DEF OutputIsOrdered, Ordered

\* The chunks on the wire are numbered without a gap, carry the units in their
\* order with none left out, and nothing is heard after an end.
THEOREM OutputOrder == Spec => []OutputIsOrdered
<1> QED
  BY SpeechIsImplied, SpeechAlways, PTL

\* After operation.cancel has been answered the response sends no more audio.
THEOREM CancelFinality == Spec => CancelIsFinal
<1>1. SpeechInv /\ [Next]_vars => [canceller = "told" => UNCHANGED out]_vars
  BY SpeechStep
<1> QED
  BY <1>1, SpeechAlways, PTL DEF Spec, CancelIsFinal

-----------------------------------------------------------------------------
(***************************************************************************)
(* The phone.  That it and the server agree when nothing is on its way     *)
(* follows from what each message on its way will do: the invariant says   *)
(* for a start that its stream is still meant or its end is behind it, for *)
(* the open stream the same, for an approval that it is on its way or      *)
(* shown, and for the recording that a job of its own is alive.            *)
(***************************************************************************)

\* What travels between the phone and the server, and what the threads of the
\* phone keep.
Message == [type : {"start", "chunk", "answer", "cancel"} \union Reasons,
            stream : 0..MaxStreams, index : Nat, late : BOOLEAN]
Answer == [type : {"listening", "thinking", "speaking", "vad_end", "interrupted", "text",
                   "audio", "completed", "cancelled", "approval", "invalid", "error"},
           stream : 0..MaxStreams]
CommandSet == [op : {"chunk", "finish", "abort"}, gen : Nat]
TrackSet == [state : {"none", "playing", "paused"}, gen : Nat]
ChunkSet == [type : {"chunk"}, stream : 0..MaxStreams, index : Nat, late : BOOLEAN]
SlotSet == [phase : {"free", "active", "processing", "pending"}, stream : 0..MaxStreams, count : Nat]
WorkerSet == [doing : {"idle", "chunk", "finish"}, gen : Nat]
App == [conversation : BOOLEAN,
        assistant : {"idle", "recognizing", "listening", "thinking", "executing", "speaking", "waiting",
                     "interrupted"},
        target : 0..MaxStreams, approval : BOOLEAN,
        stream : 0..MaxStreams, chunk : Nat, opened : 0..MaxStreams, active : BOOLEAN,
        gen : Nat, commands : Seq(CommandSet),
        track : TrackSet,
        up : Seq(Message), fresh : BOOLEAN, sent : Nat, abandoned : SUBSET Streams]

\* Every variable has its type, and no thread posts anything but the end of a
\* playback and a failure.
Types ==
  /\ job \in [Streams -> Jobs]
  /\ held \in [Streams -> ChunkSet]
  /\ worker \in WorkerSet
  /\ posted \subseteq {"complete", "failed"}
  /\ slot \in SlotSet
  /\ down \in Seq(Answer)
  /\ killed \subseteq Streams /\ rejected \subseteq Streams

\* No command and no track is of a generation to come, and what plays is of
\* this one.
Gens(a) ==
  /\ \A n \in 1..Len(a.commands) : a.commands[n].gen <= a.gen
  /\ a.track.gen <= a.gen
  /\ a.track.state = "playing" => a.track.gen = a.gen

\* Nothing is about a stream that has not been opened yet.
Known(a) ==
  /\ a.stream <= a.opened /\ a.target <= a.opened /\ slot.stream <= a.opened
  /\ \A n \in 1..Len(a.up) : a.up[n].stream <= a.opened
  /\ \A n \in 1..Len(down) : down[n].stream <= a.opened
  /\ \A s \in Streams : held[s].stream <= a.opened
  /\ a.active => a.stream # None

\* A start on its way is the first that the server hears of its stream: nothing
\* about the stream precedes it, the stream is not open and was not refused.
StartsFirst(a) ==
  \A n \in 1..Len(a.up) : a.up[n].type = "start" =>
    /\ a.up[n].stream # None
    /\ \A k \in 1..(n - 1) : a.up[k].stream # a.up[n].stream
    /\ slot.phase = "active" => slot.stream # a.up[n].stream
    /\ \A k \in 1..Len(down) : down[k].type = "invalid" => down[k].stream # a.up[n].stream

\* An end of stream t is on its way, behind the first n messages.
EndIsSent(a, n, t) == \E k \in (n + 1)..Len(a.up) : a.up[k].type \in Reasons /\ a.up[k].stream = t

\* The app still means stream t, or has given it up in a way that StreamsAgree
\* names.
Agreed(a, t) == a.stream = t \/ t \in a.abandoned \/ overtaken # {}

\* A start on its way is of a stream the app means, or the end follows it.
StartsAgree(a) ==
  \A n \in 1..Len(a.up) : a.up[n].type = "start" =>
    Agreed(a, a.up[n].stream) \/ EndIsSent(a, n, a.up[n].stream)

\* So is the open stream of the server; and a refusal on its way that names it
\* is that of one of its chunks.
SlotAgrees(a) ==
  slot.phase = "active" =>
    /\ slot.stream # None
    /\ Agreed(a, slot.stream) \/ slot.stream \in rejected \/ EndIsSent(a, 0, slot.stream)
    /\ \A k \in 1..Len(down) :
         down[k].type = "invalid" /\ down[k].stream = slot.stream => slot.stream \in rejected

\* While the server waits for an approval the question or the answer is on its
\* way, or the app shows it.
Asked(a) ==
  slot.phase = "pending" =>
    \/ a.approval
    \/ "answer" \in overtaken
    \/ \E n \in 1..Len(a.up) : a.up[n].type = "answer"
    \/ \E n \in 1..Len(down) : down[n].type = "approval"

\* Of the stream that the app records a job records, unless that is about to be
\* found out.
Alive ==
  app.stream # None =>
    \/ "failed" \in posted
    \/ app.stream \in killed
    \/ app.active /\ job[app.stream] \in {"loop", "read", "taken", "holding"}

\* What holds of the app before and after each handler of the main thread.
Good(a) ==
  /\ a \in App /\ Gens(a) /\ Known(a) /\ StartsFirst(a) /\ StartsAgree(a) /\ SlotAgrees(a)
  /\ Asked(a)

\* Two states of the app that differ neither in the player, nor in the streams.
SamePlayer(a, b) == b.gen = a.gen /\ b.commands = a.commands /\ b.track = a.track

SameStreams(a, b) ==
  /\ b.stream = a.stream /\ b.opened = a.opened /\ b.active = a.active
  /\ b.abandoned = a.abandoned /\ b.target = a.target /\ b.approval = a.approval
  /\ b.conversation = a.conversation

\* The inductive invariant.
PhoneInv == Types /\ Good(app) /\ worker.gen <= app.gen /\ Alive

USE DEF CommandSet, TrackSet, ChunkSet, SlotSet, WorkerSet

LEMMA Bounds == MaxStreams \in Nat \ {0}
  BY PhoneBounds

\* The fields of the app have their types.
LEMMA Fields ==
  ASSUME NEW a \in App
  PROVE  /\ a.target \in 0..MaxStreams /\ a.approval \in BOOLEAN
         /\ a.stream \in 0..MaxStreams /\ a.opened \in 0..MaxStreams /\ a.active \in BOOLEAN
         /\ a.gen \in Nat /\ a.commands \in Seq(CommandSet)
         /\ a.track \in TrackSet
         /\ a.up \in Seq(Message) /\ a.abandoned \in SUBSET Streams
  BY DEF App

\* So have the elements of its queues.
LEMMA Elements ==
  ASSUME NEW a \in App
  PROVE  /\ \A n \in 1..Len(a.commands) : a.commands[n].gen \in Nat
         /\ \A n \in 1..Len(a.up) : a.up[n] \in Message /\ a.up[n].stream \in 0..MaxStreams
<1>1. /\ a.commands \in Seq(CommandSet)
      /\ a.up \in Seq(Message)
  BY Fields
<1>2. \A n \in 1..Len(a.commands) : a.commands[n] \in CommandSet
  BY <1>1, ElementOfSeq
<1>3. \A n \in 1..Len(a.up) : a.up[n] \in Message
  BY <1>1, ElementOfSeq
<1> QED  BY <1>2, <1>3 DEF Message

LEMMA ServerElements ==
  ASSUME Types
  PROVE  /\ slot.stream \in 0..MaxStreams
         /\ \A n \in 1..Len(down) : down[n] \in Answer /\ down[n].stream \in 0..MaxStreams
         /\ \A s \in Streams : held[s].stream \in 0..MaxStreams
<1>1. \A n \in 1..Len(down) : down[n] \in Answer
  BY ElementOfSeq DEF Types
<1>2. \A n \in 1..Len(down) : down[n].stream \in 0..MaxStreams
  BY <1>1 DEF Answer
<1>3. slot.stream \in 0..MaxStreams /\ \A s \in Streams : held[s].stream \in 0..MaxStreams
  BY DEF Types
<1> QED  BY <1>1, <1>2, <1>3

\* A step that leaves the streams and the messages alone, and one that does not
\* touch the player either but may change what the app would cancel.
LEMMA PlayerOnly ==
  ASSUME NEW a, Good(a), NEW b \in App, SameStreams(a, b), b.up = a.up, Gens(b)
  PROVE  Good(b)
<1>1. Known(b) /\ StartsFirst(b)
  BY DEF Good, SameStreams, Known, StartsFirst
<1>2. StartsAgree(b) /\ SlotAgrees(b) /\ Asked(b)
  BY DEF Good, SameStreams, StartsAgree, SlotAgrees, Agreed, EndIsSent, Asked
<1> QED  BY <1>1, <1>2 DEF Good

LEMMA TargetOnly ==
  ASSUME NEW a, Good(a), NEW b \in App, SamePlayer(a, b), b.up = a.up, b.target <= b.opened,
         b.stream = a.stream, b.opened = a.opened, b.active = a.active, b.abandoned = a.abandoned,
         a.approval => b.approval
  PROVE  Good(b)
<1>1. Known(b) /\ StartsFirst(b) /\ Gens(b)
  BY DEF Good, SamePlayer, Known, StartsFirst, Gens
<1>2. StartsAgree(b) /\ SlotAgrees(b)
  BY DEF Good, StartsAgree, SlotAgrees, Agreed, EndIsSent
<1>3. Asked(b)
  BY DEF Good, Asked
<1> QED  BY <1>1, <1>2, <1>3 DEF Good

\* PcmPlayer.stop and enqueue.
LEMMA PlayerStopIs ==
  ASSUME NEW a \in App
  PROVE  LET b == PlayerStop(a)
         IN /\ b \in App /\ b.gen = a.gen + 1
            /\ b.track.state # "playing" /\ b.track.gen = a.track.gen
            /\ b.commands = Append(a.commands, [op |-> "abort", gen |-> a.gen + 1])
            /\ SameStreams(a, b) /\ b.up = a.up /\ b.assistant = a.assistant
<1> DEFINE t == [a.track EXCEPT !.state = IF @ = "none" THEN "none" ELSE "paused"]
           c == Append(a.commands, [op |-> "abort", gen |-> a.gen + 1])
           b == [a EXCEPT !.gen = a.gen + 1, !.track = t, !.commands = c]
<1>1. a.gen + 1 \in Nat /\ c \in Seq(CommandSet)
  BY Fields
<1>2. t \in TrackSet /\ t.state # "playing" /\ t.gen = a.track.gen
  BY Fields
<1>3. PlayerStop(a) = b
  BY DEF App, PlayerStop
<1> HIDE DEF t, c
<1>4. b \in App
  BY <1>1, <1>2 DEF App
<1>5. b.gen = a.gen + 1 /\ b.track = t /\ b.commands = c
  BY DEF App
<1>6. SameStreams(a, b) /\ b.up = a.up /\ b.assistant = a.assistant
  BY DEF App, SameStreams
<1> HIDE DEF b
<1> QED  BY <1>2, <1>3, <1>4, <1>5, <1>6 DEF c

LEMMA PlayerStopIsGood ==
  ASSUME NEW a, Good(a)
  PROVE  Good(PlayerStop(a))
<1> DEFINE b == PlayerStop(a)
           m == [op |-> "abort", gen |-> a.gen + 1]
<1>1. a \in App  BY DEF Good
<1>2. /\ b \in App /\ b.gen = a.gen + 1
      /\ b.track.state # "playing" /\ b.track.gen = a.track.gen
      /\ b.commands = Append(a.commands, m) /\ SameStreams(a, b) /\ b.up = a.up
  BY <1>1, PlayerStopIs
<1> HIDE DEF b
<1>3. /\ Len(b.commands) = Len(a.commands) + 1 /\ Len(a.commands) \in Nat
      /\ b.commands[Len(a.commands) + 1] = m
      /\ \A n \in 1..Len(a.commands) : b.commands[n] = a.commands[n]
  BY <1>1, <1>2, Fields
<1>4. Gens(b)
  <2>1. a.gen \in Nat /\ a.track.gen \in Nat /\ m.gen = a.gen + 1
    BY <1>1, Fields
  <2>2. ASSUME NEW n \in 1..Len(b.commands)  PROVE b.commands[n].gen <= b.gen
    <3>1. CASE n \in 1..Len(a.commands)
      BY <1>1, <1>2, <1>3, <2>1, <3>1, Elements DEF Good, Gens
    <3>2. CASE n = Len(a.commands) + 1
      BY <1>2, <1>3, <2>1, <3>2
    <3> QED  BY <1>3, <3>1, <3>2
  <2> QED  BY <1>2, <2>1, <2>2 DEF Good, Gens
<1> QED  BY <1>2, <1>4, PlayerOnly DEF b

LEMMA EnqueueIsGood ==
  ASSUME NEW a, Good(a), NEW op \in {"chunk", "finish"}
  PROVE  LET b == Enqueue(a, op)
         IN Good(b) /\ SameStreams(a, b) /\ b.gen = a.gen /\ b.up = a.up
<1> DEFINE m == [op |-> op, gen |-> a.gen]
           c == Append(a.commands, m)
           b == [a EXCEPT !.commands = c]
<1>1. a \in App  BY DEF Good
<1>2. c \in Seq(CommandSet)
  BY <1>1, Fields
<1>3. /\ Len(c) = Len(a.commands) + 1 /\ Len(a.commands) \in Nat
      /\ c[Len(a.commands) + 1] = m
      /\ \A n \in 1..Len(a.commands) : c[n] = a.commands[n]
  BY <1>1, Fields
<1>4. Enqueue(a, op) = b
  BY <1>1 DEF App, Enqueue
<1> HIDE DEF c
<1>5. b \in App
  BY <1>1, <1>2 DEF App
<1>6. b.commands = c /\ b.gen = a.gen /\ b.track = a.track /\ SameStreams(a, b) /\ b.up = a.up
  BY <1>1 DEF App, SameStreams
<1> HIDE DEF b
<1>7. Gens(b)
  <2>1. a.gen \in Nat /\ m.gen = a.gen
    BY <1>1, Fields
  <2>2. ASSUME NEW n \in 1..Len(b.commands)  PROVE b.commands[n].gen <= b.gen
    <3>1. CASE n \in 1..Len(a.commands)
      BY <1>3, <1>6, <3>1 DEF Good, Gens
    <3>2. CASE n = Len(a.commands) + 1
      BY <1>3, <1>6, <2>1, <3>2
    <3> QED  BY <1>3, <1>6, <3>1, <3>2
  <2> QED  BY <1>6, <2>2 DEF Good, Gens
<1> QED  BY <1>4, <1>5, <1>6, <1>7, PlayerOnly

\* A message that is not a start may always be sent.
LEMMA SendNowIs ==
  ASSUME NEW a \in App, NEW type \in {"start", "answer", "cancel"} \union Reasons,
         NEW t \in 0..MaxStreams
  PROVE  LET b == SendNow(a, type, t)
             m == [type |-> type, stream |-> t, index |-> 0, late |-> FALSE]
         IN /\ b \in App /\ b.up = Append(a.up, m) /\ m \in Message
            /\ SameStreams(a, b) /\ SamePlayer(a, b) /\ b.assistant = a.assistant
<1> DEFINE m == [type |-> type, stream |-> t, index |-> 0, late |-> FALSE]
           u == Append(a.up, m)
           b == [a EXCEPT !.up = u]
<1>1. m \in Message  BY DEF Message
<1>2. u \in Seq(Message)  BY <1>1, Fields
<1>3. SendNow(a, type, t) = b
  BY DEF App, SendNow
<1> HIDE DEF u
<1>4. b \in App
  BY <1>2 DEF App
<1>5. b.up = u /\ SameStreams(a, b) /\ SamePlayer(a, b) /\ b.assistant = a.assistant
  BY DEF App, SameStreams, SamePlayer
<1> QED  BY <1>1, <1>3, <1>4, <1>5 DEF u

LEMMA OneMore ==
  ASSUME NEW a \in App, NEW b, NEW m \in Message, b.up = Append(a.up, m)
  PROVE  /\ Len(b.up) = Len(a.up) + 1 /\ Len(a.up) \in Nat /\ b.up[Len(a.up) + 1] = m
         /\ \A n \in 1..Len(a.up) : b.up[n] = a.up[n] /\ a.up[n].stream \in 0..MaxStreams
<1>1. a.up \in Seq(Message)  BY Fields
<1> QED  BY <1>1, Elements

LEMMA AppendIsGood ==
  ASSUME NEW a, Good(a), NEW b \in App, NEW m \in Message, b.up = Append(a.up, m),
         SameStreams(a, b), SamePlayer(a, b), m.type # "start", m.stream <= a.opened
  PROVE  Good(b)
<1>0. a \in App  BY DEF Good
<1>2. /\ Len(b.up) = Len(a.up) + 1 /\ Len(a.up) \in Nat /\ b.up[Len(a.up) + 1] = m
      /\ \A n \in 1..Len(a.up) : b.up[n] = a.up[n] /\ a.up[n].stream \in 0..MaxStreams
  BY <1>0, OneMore
<1>4. Gens(b)
  BY DEF Good, Gens, SamePlayer
<1>5. Known(b)
  BY <1>0, <1>2 DEF Good, Known, SameStreams
<1>6. StartsFirst(b)
  BY <1>0, <1>2 DEF Good, StartsFirst, SameStreams
<1>7. StartsAgree(b)
  <2> SUFFICES ASSUME NEW n \in 1..Len(b.up), b.up[n].type = "start"
               PROVE  Agreed(b, b.up[n].stream) \/ EndIsSent(b, n, b.up[n].stream)
    BY DEF StartsAgree
  <2>1. n \in 1..Len(a.up) /\ b.up[n] = a.up[n]  BY <1>2
  <2>2. CASE Agreed(a, a.up[n].stream)
    BY <2>1, <2>2 DEF Agreed, SameStreams
  <2>3. CASE EndIsSent(a, n, a.up[n].stream)
    <3>1. PICK k \in (n + 1)..Len(a.up) :
            a.up[k].type \in Reasons /\ a.up[k].stream = a.up[n].stream
      BY <2>3 DEF EndIsSent
    <3>2. k \in (n + 1)..Len(b.up) /\ b.up[k] = a.up[k]  BY <1>2, <2>1, <3>1
    <3> QED  BY <2>1, <3>1, <3>2 DEF EndIsSent
  <2> QED  BY <2>1, <2>2, <2>3 DEF Good, StartsAgree
<1>8. SlotAgrees(b)
  BY <1>0, <1>2 DEF Good, SlotAgrees, Agreed, EndIsSent, SameStreams
<1>9. Asked(b)
  BY <1>2 DEF Good, Asked, SameStreams
<1> QED  BY <1>4, <1>5, <1>6, <1>7, <1>8, <1>9 DEF Good

LEMMA SendNowIsGood ==
  ASSUME NEW a, Good(a), NEW type \in {"answer", "cancel"} \union Reasons, NEW t \in 0..a.opened
  PROVE  Good(SendNow(a, type, t))
<1> DEFINE b == SendNow(a, type, t)
           m == [type |-> type, stream |-> t, index |-> 0, late |-> FALSE]
<1>0. a \in App /\ t \in 0..MaxStreams /\ type # "start" /\ t <= a.opened
  BY Fields, Bounds DEF Good, Reasons
<1>1. b \in App /\ b.up = Append(a.up, m) /\ m \in Message /\ SameStreams(a, b) /\ SamePlayer(a, b)
  BY <1>0, SendNowIs
<1>2. m.type # "start" /\ m.stream <= a.opened  BY <1>0
<1> HIDE DEF b, m
<1>3. Good(b)  BY <1>1, <1>2, AppendIsGood
<1> QED  BY <1>3 DEF b

\* The server is told of the end of the stream, or has refused the stream.
Told(a, why, tell) ==
  \/ tell /\ why \in Reasons
  \/ ~tell /\ \E k \in 1..Len(down) : down[k].type = "invalid" /\ down[k].stream = a.stream

\* A stream is given up.
LEMMA StopListeningIs ==
  ASSUME NEW a \in App, NEW why, NEW tell \in BOOLEAN, tell => why \in Reasons
  PROVE  LET b == StopListening(a, why, tell)
             m == [type |-> why, stream |-> a.stream, index |-> 0, late |-> FALSE]
         IN /\ b \in App /\ SamePlayer(a, b)
            /\ b.stream = None /\ ~b.active /\ b.opened = a.opened /\ b.abandoned = a.abandoned
            /\ b.target = a.target /\ b.approval = a.approval /\ b.conversation = a.conversation
            /\ tell /\ a.stream # None => b.up = Append(a.up, m) /\ m \in Message
            /\ ~(tell /\ a.stream # None) => b.up = a.up
<1> DEFINE m == [type |-> why, stream |-> a.stream, index |-> 0, late |-> FALSE]
           c == IF tell /\ a.stream # None THEN SendNow(a, why, a.stream) ELSE a
           b == StopListening(a, why, tell)
<1>1. /\ c \in App /\ SameStreams(a, c) /\ SamePlayer(a, c)
      /\ tell /\ a.stream # None => c.up = Append(a.up, m) /\ m \in Message
      /\ ~(tell /\ a.stream # None) => c.up = a.up
  <2>1. CASE tell /\ a.stream # None
    <3>1. a.stream \in 0..MaxStreams /\ why \in Reasons  BY <2>1, Fields
    <3> QED  BY <2>1, <3>1, SendNowIs
  <2>2. CASE ~(tell /\ a.stream # None)
    BY <2>2 DEF SameStreams, SamePlayer
  <2> QED  BY <2>1, <2>2
<1>2. b = [c EXCEPT !.active = FALSE, !.stream = None,
                    !.assistant = IF why = "client_stop" THEN "recognizing" ELSE @]
  BY DEF StopListening
<1> HIDE DEF b, c
<1>3. None \in 0..MaxStreams  BY Bounds DEF None
<1>4. b \in App
  BY <1>1, <1>2, <1>3 DEF App
<1>5. /\ SamePlayer(c, b) /\ b.stream = None /\ ~b.active /\ b.opened = c.opened
      /\ b.abandoned = c.abandoned /\ b.target = c.target /\ b.approval = c.approval
      /\ b.conversation = c.conversation /\ b.up = c.up
  BY <1>1, <1>2 DEF App, SamePlayer
<1> HIDE DEF m
<1>6. QED  BY <1>1, <1>4, <1>5 DEF SamePlayer, SameStreams, b, m

LEMMA StopListeningIsGood ==
  ASSUME NEW a, Good(a), NEW why, NEW tell \in BOOLEAN, Told(a, why, tell)
  PROVE  Good(StopListening(a, why, tell))
<1> DEFINE b == StopListening(a, why, tell)
           m == [type |-> why, stream |-> a.stream, index |-> 0, late |-> FALSE]
<1>0. a \in App  BY DEF Good
<1>1. /\ b \in App /\ SamePlayer(a, b)
      /\ b.stream = None /\ ~b.active /\ b.opened = a.opened /\ b.abandoned = a.abandoned
      /\ b.target = a.target /\ b.approval = a.approval
      /\ tell /\ a.stream # None => b.up = Append(a.up, m) /\ m \in Message
      /\ ~(tell /\ a.stream # None) => b.up = a.up
  BY <1>0, StopListeningIs DEF Told
<1>2. a.stream \in 0..MaxStreams /\ a.opened \in 0..MaxStreams /\ None = 0
  BY <1>0, Fields DEF None
<1>3. m.stream = a.stream /\ m.type = why  OBVIOUS
<1> HIDE DEF b, m
<1>4. Gens(b)
  BY <1>1 DEF Good, Gens, SamePlayer
<1>7. /\ b.stream = None /\ ~b.active /\ b.opened = a.opened /\ b.abandoned = a.abandoned
      /\ b.target = a.target /\ b.approval = a.approval
  BY <1>1
<1>5. CASE tell /\ a.stream # None
  <2>1. /\ Len(b.up) = Len(a.up) + 1 /\ Len(a.up) \in Nat /\ b.up[Len(a.up) + 1] = m
        /\ \A n \in 1..Len(a.up) : b.up[n] = a.up[n] /\ a.up[n].stream \in 0..MaxStreams
    BY <1>0, <1>1, <1>5, OneMore
  <2>2. m.type \in Reasons /\ m.type # "start"  BY <1>3, <1>5 DEF Told, Reasons
  <2>3. Known(b)
    <3>1. Known(a) /\ b.stream = 0 /\ ~b.active /\ b.opened = a.opened /\ b.target = a.target
      BY <1>2, <1>7 DEF Good
    <3>2. ASSUME NEW n \in 1..Len(b.up)  PROVE b.up[n].stream <= b.opened
      <4>1. CASE n \in 1..Len(a.up)
        <5>1. b.up[n] = a.up[n] /\ a.up[n].stream <= a.opened  BY <2>1, <3>1, <4>1 DEF Known
        <5> QED  BY <3>1, <5>1
      <4>2. CASE n = Len(a.up) + 1
        BY <1>3, <2>1, <3>1, <4>2 DEF Known
      <4> QED  BY <2>1, <4>1, <4>2
    <3> QED  BY <1>2, <3>1, <3>2 DEF Known
  <2>4. StartsFirst(b)
    <3> SUFFICES ASSUME NEW n \in 1..Len(b.up), b.up[n].type = "start"
                 PROVE  /\ b.up[n].stream # None
                        /\ \A k \in 1..(n - 1) : b.up[k].stream # b.up[n].stream
                        /\ slot.phase = "active" => slot.stream # b.up[n].stream
                        /\ \A k \in 1..Len(down) :
                             down[k].type = "invalid" => down[k].stream # b.up[n].stream
      BY DEF StartsFirst
    <3>1. n \in 1..Len(a.up) /\ b.up[n] = a.up[n]  BY <2>1, <2>2
    <3>2. \A k \in 1..(n - 1) : k \in 1..Len(a.up) /\ b.up[k] = a.up[k]  BY <2>1, <3>1
    <3>3. /\ a.up[n].stream # None
          /\ \A k \in 1..(n - 1) : a.up[k].stream # a.up[n].stream
          /\ slot.phase = "active" => slot.stream # a.up[n].stream
          /\ \A k \in 1..Len(down) :
               down[k].type = "invalid" => down[k].stream # a.up[n].stream
      BY <3>1 DEF Good, StartsFirst
    <3> DEFINE t == a.up[n].stream
    <3>4. b.up[n].stream = t  BY <3>1
    <3>5. \A k \in 1..(n - 1) : b.up[k].stream # t  BY <3>2, <3>3
    <3> HIDE DEF t
    <3> QED  BY <3>3, <3>4, <3>5, Zenon DEF t
  <2>5. StartsAgree(b)
    <3> SUFFICES ASSUME NEW n \in 1..Len(b.up), b.up[n].type = "start"
                 PROVE  Agreed(b, b.up[n].stream) \/ EndIsSent(b, n, b.up[n].stream)
      BY DEF StartsAgree
    <3>1. n \in 1..Len(a.up) /\ b.up[n] = a.up[n]  BY <2>1, <2>2
    <3>2. Agreed(a, a.up[n].stream) \/ EndIsSent(a, n, a.up[n].stream)
      BY <3>1 DEF Good, StartsAgree
    <3>3. CASE EndIsSent(a, n, a.up[n].stream)
      <4>1. PICK k \in (n + 1)..Len(a.up) :
              a.up[k].type \in Reasons /\ a.up[k].stream = a.up[n].stream
        BY <3>3 DEF EndIsSent
      <4>2. k \in (n + 1)..Len(b.up) /\ b.up[k] = a.up[k]  BY <2>1, <3>1, <4>1
      <4> QED  BY <3>1, <4>1, <4>2 DEF EndIsSent
    <3>4. CASE Agreed(a, a.up[n].stream)
      <4>1. CASE a.stream = a.up[n].stream
        <5>1. Len(a.up) + 1 \in (n + 1)..Len(b.up)  BY <2>1, <3>1
        <5> QED  BY <1>3, <2>1, <2>2, <3>1, <4>1, <5>1 DEF EndIsSent
      <4>2. CASE a.stream # a.up[n].stream
        BY <1>7, <3>1, <3>4, <4>2 DEF Agreed
      <4> QED  BY <4>1, <4>2
    <3> QED  BY <3>2, <3>3, <3>4
  <2>6. SlotAgrees(b)
    <3> SUFFICES ASSUME slot.phase = "active"
                 PROVE  Agreed(b, slot.stream) \/ slot.stream \in rejected \/ EndIsSent(b, 0, slot.stream)
      BY DEF Good, SlotAgrees
    <3>1. Agreed(a, slot.stream) \/ slot.stream \in rejected \/ EndIsSent(a, 0, slot.stream)
      BY DEF Good, SlotAgrees
    <3>2. CASE EndIsSent(a, 0, slot.stream)
      BY <2>1, <3>2 DEF EndIsSent
    <3>3. CASE Agreed(a, slot.stream)
      <4>1. CASE a.stream = slot.stream
        <5>1. Len(a.up) + 1 \in (0 + 1)..Len(b.up)  BY <2>1
        <5> QED  BY <1>3, <2>1, <2>2, <4>1, <5>1 DEF EndIsSent
      <4>2. CASE a.stream # slot.stream
        BY <1>7, <3>3, <4>2 DEF Agreed
      <4> QED  BY <4>1, <4>2
    <3> QED  BY <3>1, <3>2, <3>3
  <2>7. Asked(b)
    BY <1>7, <2>1 DEF Good, Asked
  <2> QED  BY <1>1, <1>4, <2>3, <2>4, <2>5, <2>6, <2>7 DEF Good, b
<1>6. CASE ~(tell /\ a.stream # None)
  <2>1. b.up = a.up  BY <1>1, <1>6
  <2>2. Known(b) /\ StartsFirst(b)
    BY <1>1, <1>2, <2>1 DEF Good, Known, StartsFirst
  <2>3. StartsAgree(b)
    BY <1>1, <1>2, <1>6, <2>1 DEF Good, Told, StartsFirst, StartsAgree, Agreed, EndIsSent
  <2>4. SlotAgrees(b)
    BY <1>1, <1>2, <1>6, <2>1 DEF Good, Told, SlotAgrees, Agreed, EndIsSent
  <2>5. Asked(b)
    BY <1>7, <2>1 DEF Good, Asked
  <2> QED  BY <1>1, <1>4, <2>2, <2>3, <2>4, <2>5 DEF Good, b
<1> QED  BY <1>5, <1>6

\* interrupt and endConversation.
LEMMA InterruptIsGood ==
  ASSUME NEW a, Good(a)
  PROVE  LET b == Interrupt(a)
         IN /\ Good(b) /\ b.gen = a.gen + 1 /\ b.opened = a.opened /\ b.approval = a.approval
            /\ a.active => b.stream = None /\ ~b.active
            /\ ~a.active => b.stream = a.stream /\ ~b.active
<1> DEFINE quiet == PlayerStop(a)
           deaf == IF quiet.active THEN StopListening(quiet, "barge_in", TRUE) ELSE quiet
           told == IF a.target # None THEN SendNow(deaf, "cancel", a.target) ELSE deaf
           b == Interrupt(a)
<1>0. a \in App  BY DEF Good
<1>1. /\ Good(quiet) /\ quiet \in App /\ quiet.gen = a.gen + 1 /\ quiet.stream = a.stream
      /\ quiet.opened = a.opened /\ quiet.active = a.active /\ quiet.target = a.target
      /\ quiet.approval = a.approval
  BY <1>0, PlayerStopIs, PlayerStopIsGood DEF SameStreams
<1> HIDE DEF quiet
<1>2. /\ Good(deaf) /\ deaf \in App /\ deaf.gen = a.gen + 1 /\ deaf.opened = a.opened
      /\ deaf.target = a.target /\ deaf.approval = a.approval
      /\ a.active => deaf.stream = None /\ ~deaf.active
      /\ ~a.active => deaf.stream = a.stream /\ ~deaf.active
  <2>1. CASE quiet.active
    <3>1. Told(quiet, "barge_in", TRUE)  BY DEF Told, Reasons
    <3>2. Good(StopListening(quiet, "barge_in", TRUE))
      BY <1>1, <3>1, StopListeningIsGood
    <3>3. deaf = StopListening(quiet, "barge_in", TRUE)  BY <2>1
    <3> HIDE DEF deaf
    <3>4. /\ deaf \in App /\ SamePlayer(quiet, deaf) /\ deaf.stream = None /\ ~deaf.active
          /\ deaf.opened = quiet.opened /\ deaf.target = quiet.target /\ deaf.approval = quiet.approval
      BY <1>1, <3>3, StopListeningIs DEF Reasons
    <3>5. a.active  BY <1>1, <2>1
    <3> QED  BY <1>1, <3>2, <3>3, <3>4, <3>5 DEF SamePlayer
  <2>2. CASE ~quiet.active
    BY <1>1, <2>2
  <2> QED  BY <2>1, <2>2
<1> HIDE DEF deaf
<1>3. /\ Good(told) /\ told \in App /\ told.gen = deaf.gen /\ told.opened = deaf.opened
      /\ told.active = deaf.active /\ told.stream = deaf.stream /\ told.approval = deaf.approval
      /\ told.target = deaf.target
  <2>1. CASE a.target # None
    <3>1. a.target \in 0..deaf.opened /\ a.target \in 0..MaxStreams
      BY <1>0, <1>1, <1>2, Fields, Bounds DEF Good, Known
    <3>2. Good(SendNow(deaf, "cancel", a.target))
      BY <1>2, <3>1, SendNowIsGood
    <3>3. /\ SendNow(deaf, "cancel", a.target) \in App
          /\ SameStreams(deaf, SendNow(deaf, "cancel", a.target))
          /\ SamePlayer(deaf, SendNow(deaf, "cancel", a.target))
      BY <1>2, <3>1, SendNowIs
    <3>4. told = SendNow(deaf, "cancel", a.target)  BY <2>1
    <3> HIDE DEF told
    <3> QED  BY <1>2, <3>2, <3>3, <3>4 DEF SamePlayer, SameStreams
  <2>2. CASE a.target = None
    BY <1>2, <2>2
  <2> QED  BY <2>1, <2>2
<1>4. b = [told EXCEPT !.assistant = "interrupted"]
  BY DEF Interrupt, told, deaf, quiet
<1> HIDE DEF told, b
<1>5. b \in App
  BY <1>3, <1>4 DEF App
<1>6. SamePlayer(told, b) /\ SameStreams(told, b) /\ b.up = told.up
  BY <1>3, <1>4 DEF App, SamePlayer, SameStreams
<1>7. Good(b)
  <2>1. Gens(b)  BY <1>3, <1>6 DEF Good, Gens, SamePlayer
  <2> QED  BY <1>3, <1>5, <1>6, <2>1, PlayerOnly
<1> QED  BY <1>2, <1>3, <1>6, <1>7 DEF SamePlayer, SameStreams, b

LEMMA EndConversationIsGood ==
  ASSUME NEW a, Good(a)
  PROVE  LET b == EndConversation(a)
         IN /\ Good(b) /\ b.gen = a.gen + 1 /\ b.opened = a.opened /\ b.approval = a.approval
            /\ b.stream = None
<1> DEFINE deaf == StopListening(a, "disconnect", TRUE)
           quiet == PlayerStop(deaf)
           told == IF /\ a.stream = None /\ a.target # None
                      /\ quiet.assistant \in {"thinking", "executing", "speaking"}
                   THEN SendNow(quiet, "cancel", a.target) ELSE quiet
           b == EndConversation(a)
<1>0. a \in App  BY DEF Good
<1>1. /\ Good(deaf) /\ deaf \in App /\ deaf.gen = a.gen /\ deaf.stream = None
      /\ deaf.opened = a.opened /\ deaf.target = a.target /\ deaf.approval = a.approval
  <2>1. Told(a, "disconnect", TRUE)  BY DEF Told, Reasons
  <2>2. Good(deaf)  BY <2>1, StopListeningIsGood
  <2> QED  BY <1>0, <2>1, <2>2, StopListeningIs DEF Told, SamePlayer
<1> HIDE DEF deaf
<1>2. /\ Good(quiet) /\ quiet \in App /\ quiet.gen = a.gen + 1 /\ quiet.stream = None
      /\ quiet.opened = a.opened /\ quiet.target = a.target /\ quiet.approval = a.approval
  <2>1. Good(PlayerStop(deaf))  BY <1>1, PlayerStopIsGood
  <2>2. /\ PlayerStop(deaf) \in App /\ PlayerStop(deaf).gen = deaf.gen + 1
        /\ SameStreams(deaf, PlayerStop(deaf))
    BY <1>1, PlayerStopIs
  <2> QED  BY <1>1, <2>1, <2>2 DEF SameStreams
<1> HIDE DEF quiet
<1>3. /\ Good(told) /\ told \in App /\ told.gen = quiet.gen /\ told.opened = quiet.opened
      /\ told.stream = quiet.stream /\ told.approval = quiet.approval
      /\ told.target = quiet.target
  <2>1. CASE told = SendNow(quiet, "cancel", a.target)
    <3>1. a.target \in 0..quiet.opened /\ a.target \in 0..MaxStreams
      BY <1>0, <1>1, <1>2, Fields, Bounds DEF Good, Known
    <3>2. Good(SendNow(quiet, "cancel", a.target))
      BY <1>2, <3>1, SendNowIsGood
    <3>3. /\ SendNow(quiet, "cancel", a.target) \in App
          /\ SameStreams(quiet, SendNow(quiet, "cancel", a.target))
          /\ SamePlayer(quiet, SendNow(quiet, "cancel", a.target))
      BY <1>2, <3>1, SendNowIs
    <3> HIDE DEF told
    <3> QED  BY <1>2, <2>1, <3>2, <3>3 DEF SamePlayer, SameStreams
  <2>2. CASE told = quiet
    BY <1>2, <2>2
  <2> QED  BY <2>1, <2>2
<1>4. b = [told EXCEPT !.conversation = FALSE, !.assistant = "idle"]
  BY DEF EndConversation, told, deaf, quiet
<1> HIDE DEF told, b
<1>5. b \in App
  BY <1>3, <1>4 DEF App
<1>6. /\ SamePlayer(told, b) /\ b.up = told.up /\ b.target = told.target /\ b.opened = told.opened
      /\ b.stream = told.stream /\ b.active = told.active /\ b.abandoned = told.abandoned
      /\ b.approval = told.approval
  BY <1>3, <1>4 DEF App, SamePlayer
<1>7. Good(b)
  <2>1. b.target <= b.opened  BY <1>3, <1>6 DEF Good, Known
  <2> QED  BY <1>3, <1>5, <1>6, <2>1, TargetOnly
<1> QED  BY <1>2, <1>3, <1>6, <1>7 DEF SamePlayer, b

\* A stream is announced: the recording of b, if any, was given up.
\* The start of the next stream.
AnnounceStream(b) ==
  [SendNow(b, "start", b.opened + 1) EXCEPT !.opened = b.opened + 1,
     !.abandoned = @ \union ({b.stream} \ {None})]

LEMMA AnnounceIs ==
  ASSUME NEW b, Good(b), b.opened < MaxStreams
  PROVE  LET c == AnnounceStream(b)
             m == [type |-> "start", stream |-> b.opened + 1, index |-> 0, late |-> FALSE]
         IN /\ c \in App /\ SamePlayer(b, c) /\ c.up = Append(b.up, m) /\ m \in Message
            /\ c.opened = b.opened + 1 /\ c.abandoned = b.abandoned \union ({b.stream} \ {None})
            /\ c.stream = b.stream /\ c.active = b.active /\ c.target = b.target
            /\ c.approval = b.approval
<1> DEFINE m == [type |-> "start", stream |-> b.opened + 1, index |-> 0, late |-> FALSE]
           d == SendNow(b, "start", b.opened + 1)
           g == d.abandoned \union ({b.stream} \ {None})
           c == AnnounceStream(b)
<1>0. /\ b \in App /\ b.opened + 1 \in 1..MaxStreams /\ b.opened + 1 \in 0..MaxStreams
      /\ b.stream \in 0..MaxStreams
  BY Bounds, Fields DEF Good
<1>1. /\ d \in App /\ d.up = Append(b.up, m) /\ m \in Message /\ SameStreams(b, d)
      /\ SamePlayer(b, d)
  BY <1>0, SendNowIs
<1>2. g \in SUBSET Streams
  BY <1>0, <1>1, Fields DEF Streams, None
<1>3. c = [d EXCEPT !.opened = b.opened + 1, !.abandoned = g]
  BY <1>1 DEF AnnounceStream, App
<1> HIDE DEF c, g, d
<1>4. c \in App
  BY <1>0, <1>1, <1>2, <1>3 DEF App
<1>5. /\ SamePlayer(d, c) /\ c.up = d.up /\ c.opened = b.opened + 1 /\ c.abandoned = g
      /\ c.stream = d.stream /\ c.active = d.active /\ c.target = d.target /\ c.approval = d.approval
  BY <1>1, <1>3 DEF App, SamePlayer
<1> HIDE DEF m
<1> QED  BY <1>1, <1>4, <1>5 DEF SamePlayer, SameStreams, c, g, m

\* Once the app records it, has given it up or has ended it, all is well.
LEMMA AnnounceIsGood ==
  ASSUME Types, NEW b, Good(b), b.opened < MaxStreams,
         NEW a \in App, a.up = AnnounceStream(b).up, SamePlayer(b, a),
         a.opened = b.opened + 1, a.target = b.target, a.approval = b.approval,
         a.stream \in {None, a.opened}, a.active => a.stream # None,
         AnnounceStream(b).abandoned \subseteq a.abandoned,
         a.stream = a.opened \/ a.opened \in a.abandoned
  PROVE  Good(a)
<1> DEFINE t == b.opened + 1
           m == [type |-> "start", stream |-> t, index |-> 0, late |-> FALSE]
<1>0. /\ b \in App /\ b.opened \in Nat /\ b.target \in Nat /\ None = 0
      /\ b.stream \in Nat
  BY Fields, Bounds DEF Good, None
<1>1. /\ a.up = Append(b.up, m) /\ m \in Message
      /\ b.abandoned \union ({b.stream} \ {None}) \subseteq a.abandoned
  BY AnnounceIs
<1>3. m.type = "start" /\ m.stream = t  OBVIOUS
<1> HIDE DEF m
<1>2. /\ Len(a.up) = Len(b.up) + 1 /\ Len(b.up) \in Nat /\ a.up[Len(b.up) + 1] = m
      /\ \A n \in 1..Len(b.up) : a.up[n] = b.up[n] /\ b.up[n].stream \in 0..MaxStreams
  <2>1. b \in App /\ m \in Message /\ a.up = Append(b.up, m)  BY <1>0, <1>1
  <2> QED  BY ONLY <2>1, OneMore
<1>11. /\ slot.stream \in 0..MaxStreams
       /\ \A n \in 1..Len(down) : down[n].stream \in 0..MaxStreams
       /\ \A s \in Streams : held[s].stream \in 0..MaxStreams
  BY ServerElements
<1>4. Gens(a)
  BY DEF Good, Gens, SamePlayer
<1>5. Known(a)
  <2>1. \A n \in 1..Len(a.up) : a.up[n].stream <= a.opened
    <3>1. \A n \in 1..Len(b.up) : a.up[n].stream <= b.opened
      BY <1>2 DEF Good, Known
    <3>2. \A n \in 1..Len(b.up) : a.up[n].stream \in Nat
      BY <1>2, Bounds
    <3>3. \A n \in 1..Len(a.up) : n \in 1..Len(b.up) \/ n = Len(b.up) + 1
      BY <1>2
    <3>4. a.up[Len(b.up) + 1].stream <= a.opened  BY <1>0, <1>2, <1>3
    <3>5. \A n \in 1..Len(b.up) : a.up[n].stream <= a.opened  BY <1>0, <3>1, <3>2
    <3> QED  BY <3>3, <3>4, <3>5
  <2>2. a.stream <= a.opened /\ a.target <= a.opened /\ (a.active => a.stream # None)
    BY <1>0 DEF Good, Known
  <2> QED  BY <1>0, <1>11, <2>1, <2>2 DEF Good, Known
<1>6. StartsFirst(a)
  <2> SUFFICES ASSUME NEW n \in 1..Len(a.up), a.up[n].type = "start"
               PROVE  /\ a.up[n].stream # None
                      /\ \A k \in 1..(n - 1) : a.up[k].stream # a.up[n].stream
                      /\ slot.phase = "active" => slot.stream # a.up[n].stream
                      /\ \A k \in 1..Len(down) :
                           down[k].type = "invalid" => down[k].stream # a.up[n].stream
    BY DEF StartsFirst
  <2>1. CASE n \in 1..Len(b.up)
    <3>1. \A k \in 1..(n - 1) : a.up[k] = b.up[k]  BY <1>2, <2>1
    <3>2. a.up[n] = b.up[n] /\ StartsFirst(b)  BY <1>2, <2>1 DEF Good
    <3> QED  BY <2>1, <3>1, <3>2 DEF StartsFirst
  <2>2. CASE n = Len(b.up) + 1
    <3>1. \A k \in 1..(n - 1) : a.up[k].stream <= b.opened /\ a.up[k].stream \in 0..MaxStreams
      BY <1>2, <2>2 DEF Good, Known
    <3>2. a.up[n].stream = t  BY <1>2, <1>3, <2>2
    <3> QED  BY <1>0, <1>11, <3>1, <3>2 DEF Good, Known
  <2> QED  BY <1>2, <2>1, <2>2
<1>7. \A s \in Streams : Agreed(b, s) => Agreed(a, s)
  BY <1>0, <1>1 DEF Agreed, Streams
<1>8. b.stream # None => b.stream \in a.abandoned
  BY <1>1
<1>9. StartsAgree(a)
  <2> SUFFICES ASSUME NEW n \in 1..Len(a.up), a.up[n].type = "start"
               PROVE  Agreed(a, a.up[n].stream) \/ EndIsSent(a, n, a.up[n].stream)
    BY DEF StartsAgree
  <2>1. CASE n \in 1..Len(b.up)
    <3>1. a.up[n].stream \in Streams /\ a.up[n] = b.up[n]
      BY <1>0, <1>2, <2>1, Bounds DEF Good, StartsFirst, Streams
    <3>2. Agreed(b, b.up[n].stream) \/ EndIsSent(b, n, b.up[n].stream)
      BY <2>1, <3>1 DEF Good, StartsAgree
    <3>3. EndIsSent(b, n, b.up[n].stream) => EndIsSent(a, n, a.up[n].stream)
      <4> SUFFICES ASSUME NEW k \in (n + 1)..Len(b.up),
                          b.up[k].type \in Reasons, b.up[k].stream = b.up[n].stream
                   PROVE  EndIsSent(a, n, a.up[n].stream)
        BY DEF EndIsSent
      <4>1. k \in 1..Len(b.up) /\ k \in (n + 1)..Len(a.up)  BY <1>2, <2>1
      <4> QED  BY <1>2, <3>1, <4>1 DEF EndIsSent
    <3> QED  BY <1>7, <3>1, <3>2, <3>3
  <2>2. CASE n = Len(b.up) + 1
    BY <1>2, <1>3, <2>2 DEF Agreed
  <2> QED  BY <1>2, <2>1, <2>2
<1>10. SlotAgrees(a)
  <2> SUFFICES ASSUME slot.phase = "active"
               PROVE  Agreed(a, slot.stream) \/ slot.stream \in rejected \/ EndIsSent(a, 0, slot.stream)
    BY DEF Good, SlotAgrees
  <2>1. slot.stream \in Streams
    BY <1>0, Bounds DEF Types, Good, SlotAgrees, Streams
  <2>2. EndIsSent(b, 0, slot.stream) => EndIsSent(a, 0, slot.stream)
    BY <1>2 DEF EndIsSent
  <2> QED  BY <1>7, <2>1, <2>2 DEF Good, SlotAgrees
<1>12. Asked(a)
  BY <1>2 DEF Good, Asked
<1> QED  BY <1>4, <1>5, <1>6, <1>9, <1>10, <1>12 DEF Good

\* startListening, whatever becomes of the service and the microphone.
LEMMA StartListeningIsGood ==
  ASSUME Types, NEW a, Good(a), NEW how \in Outcomes
  PROVE  LET b == StartListening(a, how)
         IN /\ Good(b) /\ b.gen \in Nat /\ a.gen <= b.gen /\ b.approval = a.approval
            /\ \/ b = a
               \/ /\ ~a.active /\ b.opened = a.opened + 1
                  /\ b.stream = None \/ (b.stream = b.opened /\ b.active)
<1>0. a \in App /\ a.gen \in Nat /\ a.opened \in 0..MaxStreams /\ MaxStreams \in Nat
  BY Fields, Bounds DEF Good
<1>1. CASE a.active \/ a.opened = MaxStreams
  <2>1. StartListening(a, how) = a  BY <1>1 DEF StartListening
  <2> QED  BY <1>0, <2>1
<1>2. CASE ~a.active /\ a.opened # MaxStreams
  <2> DEFINE b == IF a.assistant = "speaking" THEN Interrupt(a) ELSE PlayerStop(a)
             c == AnnounceStream(b)
             s == a.opened + 1
             z == StartListening(a, how)
  <2>1. /\ Good(b) /\ b \in App /\ b.gen = a.gen + 1 /\ ~b.active /\ b.opened = a.opened
        /\ b.approval = a.approval
    <3>1. CASE a.assistant = "speaking"
      <4>1. b = Interrupt(a)  BY <3>1
      <4> HIDE DEF b
      <4> QED  BY <1>2, <4>1, InterruptIsGood DEF Good
    <3>2. CASE a.assistant # "speaking"
      <4>1. b = PlayerStop(a)  BY <3>2
      <4> HIDE DEF b
      <4> QED  BY <1>0, <1>2, <4>1, PlayerStopIs, PlayerStopIsGood DEF SameStreams
    <3> QED  BY <3>1, <3>2
  <2> HIDE DEF b
  <2>2. b.opened < MaxStreams /\ s = b.opened + 1 /\ s \in 0..MaxStreams /\ s \in Streams
    BY <1>0, <1>2, <2>1 DEF Streams
  <2>3. /\ c \in App /\ SamePlayer(b, c) /\ c.opened = s /\ c.active = b.active
        /\ c.target = b.target /\ c.approval = b.approval
    BY <2>1, <2>2, AnnounceIs
  <2>4. None \in 0..MaxStreams  BY <1>0 DEF None
  <2>5. CASE how = "no_service"
    <3> DEFINE d == [c EXCEPT !.stream = None, !.abandoned = @ \union {s}]
    <3>1. z = d
      BY <1>2, <2>1, <2>5 DEF StartListening, AnnounceStream, b
    <3> HIDE DEF c
    <3>2. d \in App
      BY <2>2, <2>3, <2>4 DEF App
    <3>3. /\ SamePlayer(c, d) /\ d.up = c.up /\ d.stream = None /\ d.active = c.active
          /\ d.opened = c.opened /\ d.target = c.target /\ d.approval = c.approval
          /\ d.abandoned = c.abandoned \union {s}
      BY <2>3 DEF App, SamePlayer
    <3> HIDE DEF d
    <3>4. Good(d)
      <4>1. SamePlayer(b, d)  BY <2>3, <3>3 DEF SamePlayer
      <4>2. d.up = AnnounceStream(b).up /\ AnnounceStream(b).abandoned \subseteq d.abandoned
        BY <3>3 DEF c
      <4>3. d.opened = b.opened + 1 /\ d.target = b.target /\ d.approval = b.approval /\ d.stream \in {None, d.opened}
        BY <2>2, <2>3, <3>3
      <4>4. ~d.active  BY <2>1, <2>3, <3>3
      <4>5. d.opened \in d.abandoned  BY <2>3, <3>3
      <4> QED  BY <2>1, <2>2, <3>2, <4>1, <4>2, <4>3, <4>4, <4>5, AnnounceIsGood
    <3> QED  BY <1>0, <1>2, <2>1, <2>2, <2>3, <3>1, <3>3, <3>4 DEF SamePlayer
  <2>6. CASE how = "no_microphone"
    <3> DEFINE d == [c EXCEPT !.stream = s]
    <3>1. z = StopListening(d, "client_stop", TRUE)
      BY <1>2, <2>1, <2>6 DEF StartListening, AnnounceStream, b
    <3> HIDE DEF c
    <3>2. d \in App
      BY <2>2, <2>3 DEF App
    <3>3. /\ SamePlayer(c, d) /\ d.up = c.up /\ d.stream = s /\ d.active = c.active
          /\ d.opened = c.opened /\ d.target = c.target /\ d.approval = c.approval
          /\ d.abandoned = c.abandoned
      BY <2>3 DEF App, SamePlayer
    <3> HIDE DEF d
    <3>4. Good(d)
      <4>1. SamePlayer(b, d)  BY <2>3, <3>3 DEF SamePlayer
      <4>2. d.up = AnnounceStream(b).up /\ AnnounceStream(b).abandoned \subseteq d.abandoned
        BY <3>3 DEF c
      <4>3. d.opened = b.opened + 1 /\ d.target = b.target /\ d.approval = b.approval /\ d.stream = d.opened
        BY <2>2, <2>3, <3>3
      <4>4. ~d.active  BY <2>1, <2>3, <3>3
      <4> QED  BY <2>1, <2>2, <3>2, <4>1, <4>2, <4>3, <4>4, AnnounceIsGood
    <3>5. Told(d, "client_stop", TRUE)  BY DEF Told, Reasons
    <3>6. Good(StopListening(d, "client_stop", TRUE))
      BY <3>4, <3>5, StopListeningIsGood
    <3>7. /\ SamePlayer(d, z) /\ z.stream = None /\ z.opened = d.opened /\ z.approval = d.approval
      <4>1. "client_stop" \in Reasons  BY DEF Reasons
      <4> HIDE DEF z
      <4> QED  BY <3>1, <3>2, <4>1, StopListeningIs
    <3> HIDE DEF z
    <3>8. Good(z)  BY <3>1, <3>6
    <3>9. z.gen = a.gen + 1 /\ z.approval = a.approval /\ z.opened = a.opened + 1 /\ ~a.active
      BY <1>2, <2>1, <2>3, <3>3, <3>7 DEF SamePlayer
    <3> QED  BY <1>0, <3>7, <3>8, <3>9 DEF z
  <2>7. CASE how = "recording"
    <3> DEFINE d == [c EXCEPT !.stream = s, !.active = TRUE, !.chunk = 0,
                              !.assistant = "listening", !.conversation = TRUE]
    <3>1. z = d
      BY <1>2, <2>1, <2>7 DEF StartListening, AnnounceStream, b
    <3> HIDE DEF c
    <3>2. d \in App
      BY <2>2, <2>3 DEF App
    <3>3. /\ SamePlayer(c, d) /\ d.up = c.up /\ d.stream = s /\ d.active
          /\ d.opened = c.opened /\ d.target = c.target /\ d.approval = c.approval
          /\ d.abandoned = c.abandoned
      BY <2>3 DEF App, SamePlayer
    <3> HIDE DEF d
    <3>4. Good(d)
      <4>1. SamePlayer(b, d)  BY <2>3, <3>3 DEF SamePlayer
      <4>2. d.up = AnnounceStream(b).up /\ AnnounceStream(b).abandoned \subseteq d.abandoned
        BY <3>3 DEF c
      <4>3. d.opened = b.opened + 1 /\ d.target = b.target /\ d.approval = b.approval /\ d.stream = d.opened
        BY <2>2, <2>3, <3>3
      <4>4. d.stream # None  BY <1>0, <3>3 DEF None
      <4> QED  BY <2>1, <2>2, <3>2, <4>1, <4>2, <4>3, <4>4, AnnounceIsGood
    <3> QED  BY <1>0, <1>2, <2>1, <2>2, <2>3, <3>1, <3>3, <3>4 DEF SamePlayer
  <2> QED  BY <2>5, <2>6, <2>7 DEF Outcomes
<1> QED  BY <1>1, <1>2

-----------------------------------------------------------------------------
\* What a handler of the main thread may do to the recording.
\* What a handler may do to the recording: keep it, end it, or begin the next.
Leads(a, b) ==
  \/ b.stream = None
  \/ b.stream = a.stream /\ b.active = a.active /\ b.opened = a.opened
  \/ ~a.active /\ b.opened = a.opened + 1 /\ b.stream = b.opened /\ b.active

\* The main thread takes the app to a good state, and a job begins with the
\* recording.
LEMMA MainToIsGood ==
  ASSUME PhoneInv, NEW b, Good(b), b.gen \in Nat, app.gen <= b.gen, Leads(app, b), MainTo(b),
         UNCHANGED slot, 
         \/ down' = down
         \/ down # <<>> /\ down' = Tail(down) /\ (Head(down).type = "approval" => b.approval),
         posted' \subseteq posted, "failed" \in posted' \/ "failed" \notin posted \/ b.stream = None
  PROVE  Types' /\ Good(app)' /\ (worker.gen <= app.gen)' /\ Alive'
<1> DEFINE z == [b EXCEPT !.fresh = b.up # app.up]
<1>0. app \in App /\ b \in App /\ MaxStreams \in Nat
  BY Bounds DEF PhoneInv, Good
<1>1. app' = z  BY DEF MainTo
<1>2. z \in App  BY <1>0 DEF App
<1>3. /\ SamePlayer(b, z) /\ z.up = b.up /\ z.target = b.target /\ z.stream = b.stream
      /\ z.opened = b.opened /\ z.active = b.active /\ z.abandoned = b.abandoned
      /\ z.approval = b.approval
  BY <1>0 DEF App, SamePlayer
<1> HIDE DEF z
<1>4. Good(z)
  BY <1>2, <1>3, TargetOnly DEF Good, Known
<1>5. /\ UNCHANGED <<slot, worker, killed, overtaken, rejected>>
      /\ held' = [s \in Streams |->
           [held[s] EXCEPT !.late = @ \/ (job[s] = "holding" /\ b.up # app.up)]]
      /\ job' = [s \in Streams |-> IF s \in Begun(b) /\ s = b.stream THEN "loop" ELSE job[s]]
  BY DEF MainTo, observed
<1>6. Len(down) \in Nat /\ Len(down') \in Nat /\ down' \in Seq(Answer)
  <2>1. down \in Seq(Answer)  BY DEF PhoneInv, Types
  <2>2. down # <<>> => Tail(down) \in Seq(Answer)  BY <2>1
  <2> QED  BY <2>1, <2>2
<1>7. \A n \in 1..Len(down') : \E k \in 1..Len(down) : down'[n] = down[k]
  <2>1. CASE down' = down  BY <2>1
  <2>2. CASE down # <<>> /\ down' = Tail(down)
    <3>1. Len(down') = Len(down) - 1 /\ \A n \in 1..Len(down') : down'[n] = down[n + 1]
      BY <2>2 DEF PhoneInv, Types
    <3> QED  BY <1>6, <3>1
  <2> QED  BY <2>1, <2>2
<1>8. \A s \in Streams : held'[s].stream = held[s].stream
  BY <1>5 DEF PhoneInv, Types
<1>9. Types'
  <2>1. job' \in [Streams -> Jobs]
    BY <1>5 DEF PhoneInv, Types, Jobs
  <2>2. held' \in [Streams -> ChunkSet]
    <3>1. \A s \in Streams : [held[s] EXCEPT !.late = @ \/ (job[s] = "holding" /\ b.up # app.up)] \in ChunkSet
      <4> TAKE s \in Streams
      <4>1. held[s] \in ChunkSet  BY DEF PhoneInv, Types
      <4>2. (job[s] = "holding" /\ b.up # app.up) \in BOOLEAN  OBVIOUS
      <4> QED  BY <4>1, <4>2
    <3> QED  BY <1>5, <3>1
  <2>3. posted' \subseteq {"complete", "failed"}
    BY DEF PhoneInv, Types
  <2> QED  BY <1>5, <1>6, <2>1, <2>2, <2>3 DEF PhoneInv, Types
<1>10. Good(app)'
  <2>1. Gens(app')
    BY <1>1, <1>4 DEF Good
  <2>2. Known(app)'
    BY <1>1, <1>4, <1>5, <1>7, <1>8 DEF Good, Known
  <2>3. StartsFirst(app)'
    BY <1>1, <1>4, <1>5, <1>7 DEF Good, StartsFirst
  <2>4. StartsAgree(app)'
    BY <1>1, <1>4, <1>5 DEF Good, StartsAgree, Agreed, EndIsSent
  <2>5. SlotAgrees(app)'
    BY <1>1, <1>4, <1>5, <1>7 DEF Good, SlotAgrees, Agreed, EndIsSent
  <2>6. Asked(app)'
    <3>1. Asked(z)  BY <1>4 DEF Good
    <3>2. CASE down' = down
      BY <1>1, <1>5, <3>1, <3>2 DEF Asked
    <3>3. CASE /\ down # <<>> /\ down' = Tail(down)
               /\ Head(down).type = "approval" => b.approval
      <4>1. /\ \A n \in 1..Len(down) : n = 1 \/ (n - 1 \in 1..Len(down') /\ down'[n - 1] = down[n])
            /\ Head(down) = down[1]
        BY <3>3 DEF PhoneInv, Types
      <4> QED  BY <1>1, <1>3, <1>5, <3>1, <3>3, <4>1 DEF Asked
    <3> QED  BY <3>2, <3>3
  <2> QED  BY <1>1, <1>2, <2>1, <2>2, <2>3, <2>4, <2>5, <2>6 DEF Good, Gens, App, Message
<1>11. (worker.gen <= app.gen)'
  BY <1>0, <1>1, <1>3, <1>5, Fields DEF PhoneInv, Types, SamePlayer
<1>12. Alive'
  <2> SUFFICES ASSUME b.stream # None
               PROVE  \/ "failed" \in posted'
                      \/ b.stream \in killed'
                      \/ b.active /\ job'[b.stream] \in {"loop", "read", "taken", "holding"}
    BY <1>1, <1>3 DEF Alive
  <2>1. b.stream \in Streams
    BY <1>0, Fields DEF Streams, None
  <2>2. CASE b.stream = app.stream /\ b.active = app.active /\ b.opened = app.opened
    <3>1. Begun(b) = {}
      BY <1>0, <2>2, Fields, Bounds DEF Begun, Streams
    <3>2. job'[b.stream] = job[b.stream]
      BY <1>5, <2>1, <3>1
    <3> QED  BY <1>5, <2>2, <3>2 DEF PhoneInv, Alive
  <2>3. CASE b.opened = app.opened + 1 /\ b.stream = b.opened /\ b.active
    <3>1. b.stream \in Begun(b)
      BY <1>0, <2>1, <2>3, Fields DEF Begun, Streams
    <3>2. job'[b.stream] = "loop"
      BY <1>5, <2>1, <3>1
    <3> QED  BY <2>3, <3>2
  <2> QED  BY <2>2, <2>3 DEF Leads
<1> QED  BY <1>9, <1>10, <1>11, <1>12
\* The user.
\* The handlers of the main thread, one by one.
LEMMA TapKeeps ==
  ASSUME PhoneInv, Tap
  PROVE  PhoneInv'
<1>0. /\ Types /\ Good(app) /\ app \in App /\ app.gen \in Nat /\ app.opened \in 0..MaxStreams
      /\ UNCHANGED <<posted, slot, down>>
  BY Fields DEF PhoneInv, Good, Tap, server
<1>1. ASSUME NEW how \in Outcomes, MainTo(StartListening(app, how))
      PROVE  PhoneInv'
  <2> DEFINE b == StartListening(app, how)
  <2>1. /\ Good(b) /\ b.gen \in Nat /\ app.gen <= b.gen
        /\ \/ b = app
           \/ /\ ~app.active /\ b.opened = app.opened + 1
              /\ b.stream = None \/ (b.stream = b.opened /\ b.active)
    BY <1>0, StartListeningIsGood
  <2> HIDE DEF b
  <2>2. Leads(app, b)
    BY <2>1 DEF Leads
  <2>3. MainTo(b)  BY <1>1 DEF b
  <2> QED  BY <1>0, <2>1, <2>2, <2>3, MainToIsGood DEF PhoneInv
<1>2. ASSUME MainTo(StopListening(app, "client_stop", TRUE))
      PROVE  PhoneInv'
  <2> DEFINE b == StopListening(app, "client_stop", TRUE)
  <2>1. Told(app, "client_stop", TRUE)  BY DEF Told, Reasons
  <2>2. Good(b)  BY <1>0, <2>1, StopListeningIsGood
  <2>3. b.gen = app.gen /\ b.stream = None
    BY <1>0, <2>1, StopListeningIs DEF Told, SamePlayer
  <2> HIDE DEF b
  <2>4. Leads(app, b)  BY <2>3 DEF Leads
  <2>5. MainTo(b)  BY <1>2 DEF b
  <2> QED  BY <1>0, <2>2, <2>3, <2>4, <2>5, MainToIsGood DEF PhoneInv
<1>3. ASSUME MainTo(Interrupt(app))
      PROVE  PhoneInv'
  <2> DEFINE b == Interrupt(app)
  <2>1. /\ Good(b) /\ b.gen = app.gen + 1 /\ b.opened = app.opened
        /\ app.active => b.stream = None
        /\ ~app.active => b.stream = app.stream /\ ~b.active
    BY <1>0, InterruptIsGood
  <2> HIDE DEF b
  <2>2. app.active \in BOOLEAN /\ b.active \in BOOLEAN
    BY <1>0, <2>1, Fields DEF Good
  <2>3. Leads(app, b)  BY <2>1, <2>2 DEF Leads
  <2>4. MainTo(b)  BY <1>3 DEF b
  <2> QED  BY <1>0, <2>1, <2>3, <2>4, MainToIsGood DEF PhoneInv
<1>4. ASSUME MainTo(EndConversation(app))
      PROVE  PhoneInv'
  <2> DEFINE b == EndConversation(app)
  <2>1. Good(b) /\ b.gen = app.gen + 1 /\ b.stream = None
    BY <1>0, EndConversationIsGood
  <2> HIDE DEF b
  <2>3. Leads(app, b)  BY <2>1 DEF Leads
  <2>4. MainTo(b)  BY <1>4 DEF b
  <2> QED  BY <1>0, <2>1, <2>3, <2>4, MainToIsGood DEF PhoneInv
<1>5. ASSUME NEW decided \in {"executing", "idle"},
             MainTo([SendNow(app, "answer", None) EXCEPT !.approval = FALSE, !.assistant = decided])
      PROVE  PhoneInv'
  <2> DEFINE c == SendNow(app, "answer", None)
             b == [c EXCEPT !.approval = FALSE, !.assistant = decided]
             m == [type |-> "answer", stream |-> None, index |-> 0, late |-> FALSE]
  <2>1. /\ c \in App /\ c.up = Append(app.up, m) /\ m \in Message
        /\ SameStreams(app, c) /\ SamePlayer(app, c)
    BY <1>0, Bounds, SendNowIs DEF None
  <2>2. Good(c)
    BY <1>0, SendNowIsGood DEF None
  <2>3. m.type = "answer"  OBVIOUS
  <2> HIDE DEF c, m
  <2>4. b \in App  BY <2>1 DEF App
  <2>5. /\ SamePlayer(c, b) /\ b.up = c.up /\ b.target = c.target /\ b.stream = c.stream
        /\ b.opened = c.opened /\ b.active = c.active /\ b.abandoned = c.abandoned
    BY <2>1 DEF App, SamePlayer
  <2> HIDE DEF b
  <2>6. Good(b)
    <3>1. Known(b) /\ StartsFirst(b) /\ Gens(b)
      BY <2>2, <2>5 DEF Good, SamePlayer, Known, StartsFirst, Gens
    <3>2. StartsAgree(b) /\ SlotAgrees(b)
      BY <2>2, <2>5 DEF Good, StartsAgree, SlotAgrees, Agreed, EndIsSent
    <3>3. b.up[Len(app.up) + 1].type = "answer" /\ Len(app.up) + 1 \in 1..Len(b.up)
      BY <1>0, <2>1, <2>3, <2>5, OneMore
    <3>4. Asked(b)
      BY <3>3 DEF Asked
    <3> QED  BY <2>4, <3>1, <3>2, <3>4 DEF Good
  <2>7. Leads(app, b)
    BY <2>1, <2>5 DEF Leads, SameStreams
  <2>8. b.gen = app.gen  BY <2>1, <2>5 DEF SamePlayer
  <2>9. MainTo(b)  BY <1>5 DEF b, c
  <2> QED  BY <1>0, <2>6, <2>7, <2>8, <2>9, MainToIsGood DEF PhoneInv
<1> QED  BY <1>1, <1>2, <1>3, <1>4, <1>5 DEF Tap

\* A recording starts again.
LEMMA StartsAgain ==
  ASSUME PhoneInv, NEW b, Good(b), SamePlayer(app, b), SameStreams(app, b), NEW how \in Outcomes
  PROVE  LET c == StartListening(b, how)
         IN /\ Good(c) /\ c.gen \in Nat /\ app.gen <= c.gen /\ Leads(app, c)
            /\ c.approval = app.approval
            /\ c.stream = app.stream \/ ~app.active
<1> DEFINE c == StartListening(b, how)
<1>1. /\ Good(c) /\ c.gen \in Nat /\ b.gen <= c.gen /\ c.approval = b.approval
      /\ \/ c = b
         \/ /\ ~b.active /\ c.opened = b.opened + 1
            /\ c.stream = None \/ (c.stream = c.opened /\ c.active)
  BY StartListeningIsGood DEF PhoneInv
<1> HIDE DEF c
<1>2. Leads(app, c)
  BY <1>1 DEF Leads, SameStreams
<1> QED  BY <1>1, <1>2 DEF SamePlayer, SameStreams, c

LEMMA PlaybackCompleteKeeps ==
  ASSUME PhoneInv, PlaybackComplete
  PROVE  PhoneInv'
<1>0. /\ Types /\ Good(app) /\ app \in App /\ app.gen \in Nat
      /\ UNCHANGED <<slot, down>> /\ posted' = posted \ {"complete"}
  BY Fields DEF PhoneInv, Good, PlaybackComplete, server
<1>1. CASE MainTo(app)
  BY <1>0, <1>1, MainToIsGood DEF PhoneInv, Leads
<1>2. ASSUME NEW how \in Outcomes, MainTo(StartListening([app EXCEPT !.assistant = "idle"], how))
      PROVE  PhoneInv'
  <2> DEFINE a == [app EXCEPT !.assistant = "idle"]
             b == StartListening(a, how)
  <2>1. a \in App /\ SamePlayer(app, a) /\ SameStreams(app, a) /\ a.up = app.up
    BY <1>0 DEF App, SamePlayer, SameStreams
  <2> HIDE DEF a
  <2>2. Good(a)
    <3>1. Gens(a)  BY <1>0, <2>1 DEF Good, Gens, SamePlayer
    <3> QED  BY <1>0, <2>1, <3>1, PlayerOnly
  <2>3. Good(b) /\ b.gen \in Nat /\ app.gen <= b.gen /\ Leads(app, b)
    BY <2>1, <2>2, StartsAgain
  <2> HIDE DEF b
  <2>4. MainTo(b)  BY <1>2 DEF a, b
  <2> QED  BY <1>0, <2>3, <2>4, MainToIsGood DEF PhoneInv
<1> QED  BY <1>1, <1>2 DEF PlaybackComplete

LEMMA RecorderFailedKeeps ==
  ASSUME PhoneInv, RecorderFailed
  PROVE  PhoneInv'
<1> DEFINE b == StopListening(app, "client_stop", TRUE)
<1>0. /\ Types /\ Good(app) /\ app \in App /\ app.gen \in Nat
      /\ UNCHANGED <<slot, down>> /\ posted' = posted \ {"failed"} /\ MainTo(b)
  BY Fields DEF PhoneInv, Good, RecorderFailed, server
<1>1. Told(app, "client_stop", TRUE)  BY DEF Told, Reasons
<1>2. Good(b)  BY <1>0, <1>1, StopListeningIsGood
<1>3. b.gen = app.gen /\ b.stream = None
  BY <1>0, <1>1, StopListeningIs DEF Told, SamePlayer
<1> HIDE DEF b
<1>4. Leads(app, b)  BY <1>3 DEF Leads
<1> QED  BY <1>0, <1>2, <1>3, <1>4, MainToIsGood DEF PhoneInv

LEMMA HandleIsGood ==
  ASSUME PhoneInv, down # <<>>, NEW how \in Outcomes
  PROVE  LET m == Head(down)
             b == Handle(app, m, how)
         IN /\ Good(b) /\ b.gen \in Nat /\ app.gen <= b.gen /\ Leads(app, b)
            /\ m.type = "approval" => b.approval
            /\ \/ b.stream = app.stream \/ ~app.active
               \/ m.type = "vad_end" \/ m.stream = app.stream
<1> DEFINE m == Head(down)
           b == Handle(app, m, how)
<1>0. Types /\ Good(app) /\ app \in App /\ app.gen \in Nat
  BY Fields DEF PhoneInv, Good
<1>1. m = down[1] /\ 1 \in 1..Len(down)
  BY <1>0 DEF Types
<1>2. m \in Answer /\ m.stream <= app.opened /\ m.stream \in 0..MaxStreams
  BY <1>0, <1>1, ServerElements DEF Good, Known
<1>3. SUFFICES /\ Good(b) /\ b.gen \in Nat /\ app.gen <= b.gen /\ Leads(app, b)
               /\ m.type = "approval" => b.approval
               /\ b.stream = app.stream \/ ~app.active \/ m.type = "vad_end" \/ m.stream = app.stream
  OBVIOUS
<1> HIDE DEF m
<1>5. CASE m.type \in {"listening", "thinking", "speaking"}
  <2>1. b = [app EXCEPT !.assistant = m.type]  BY <1>5 DEF Handle
  <2> HIDE DEF b
  <2>2. b \in App /\ SamePlayer(app, b) /\ SameStreams(app, b) /\ b.up = app.up
    BY <1>0, <1>5, <2>1 DEF App, SamePlayer, SameStreams
  <2>3. Good(b)
    <3>1. Gens(b)  BY <1>0, <2>2 DEF Good, Gens, SamePlayer
    <3> QED  BY <1>0, <2>2, <3>1, PlayerOnly
  <2> QED  BY <1>0, <1>5, <2>2, <2>3 DEF SamePlayer, SameStreams, Leads
<1>6. CASE m.type = "vad_end"
  <2> DEFINE a == [app EXCEPT !.assistant = "recognizing"]
  <2>1. b = IF a.active THEN StopListening(a, "vad_end", TRUE) ELSE a  BY <1>6 DEF Handle
  <2> HIDE DEF b
  <2>2. a \in App /\ SamePlayer(app, a) /\ SameStreams(app, a) /\ a.up = app.up
    BY <1>0 DEF App, SamePlayer, SameStreams
  <2> HIDE DEF a
  <2>3. Good(a)
    <3>1. Gens(a)  BY <1>0, <2>2 DEF Good, Gens, SamePlayer
    <3> QED  BY <1>0, <2>2, <3>1, PlayerOnly
  <2>4. CASE b = StopListening(a, "vad_end", TRUE)
    <3>1. Told(a, "vad_end", TRUE) /\ "vad_end" \in Reasons  BY DEF Told, Reasons
    <3>2. Good(b)  BY <2>3, <2>4, <3>1, StopListeningIsGood
    <3>3. SamePlayer(a, b) /\ b.stream = None
      BY <2>2, <2>4, <3>1, StopListeningIs
    <3> QED  BY <1>0, <1>6, <2>2, <3>2, <3>3 DEF SamePlayer, Leads
  <2>5. CASE b = a
    BY <1>0, <1>6, <2>2, <2>3, <2>5 DEF SamePlayer, SameStreams, Leads
  <2> QED  BY <2>1, <2>4, <2>5
<1>7. CASE m.type = "interrupted"
  <2> DEFINE a == [app EXCEPT !.assistant = "interrupted"]
  <2>1. b = IF a.conversation THEN StartListening(a, how) ELSE a  BY <1>7 DEF Handle
  <2> HIDE DEF b
  <2>2. a \in App /\ SamePlayer(app, a) /\ SameStreams(app, a) /\ a.up = app.up
    BY <1>0 DEF App, SamePlayer, SameStreams
  <2> HIDE DEF a
  <2>3. Good(a)
    <3>1. Gens(a)  BY <1>0, <2>2 DEF Good, Gens, SamePlayer
    <3> QED  BY <1>0, <2>2, <3>1, PlayerOnly
  <2>4. CASE b = StartListening(a, how)
    BY <1>7, <2>2, <2>3, <2>4, StartsAgain
  <2>5. CASE b = a
    BY <1>0, <1>7, <2>2, <2>3, <2>5 DEF SamePlayer, SameStreams, Leads
  <2> QED  BY <2>1, <2>4, <2>5
<1>8. CASE m.type = "text"
  <2>1. b = [app EXCEPT !.target = m.stream]  BY <1>8 DEF Handle
  <2> HIDE DEF b
  <2>2. /\ b \in App /\ SamePlayer(app, b) /\ b.up = app.up /\ b.target = m.stream
        /\ b.stream = app.stream /\ b.opened = app.opened /\ b.active = app.active
        /\ b.abandoned = app.abandoned /\ b.approval = app.approval
    BY <1>0, <1>2, <2>1 DEF App, SamePlayer
  <2>3. Good(b)  BY <1>0, <1>2, <2>2, TargetOnly
  <2> QED  BY <1>0, <1>8, <2>2, <2>3 DEF SamePlayer, Leads
<1>9. CASE m.type \in {"audio", "completed"}
  <2>1. PICK op \in {"chunk", "finish"} : b = Enqueue(app, op)  BY <1>9 DEF Handle
  <2> HIDE DEF b
  <2>2. Good(b) /\ SameStreams(app, b) /\ b.gen = app.gen
    BY <1>0, <2>1, EnqueueIsGood
  <2> QED  BY <1>0, <1>9, <2>2 DEF SameStreams, Leads
<1>10. CASE m.type = "cancelled"
  <2>1. b = PlayerStop(app)  BY <1>10 DEF Handle
  <2> HIDE DEF b
  <2>2. Good(b) /\ SameStreams(app, b) /\ b.gen = app.gen + 1
    BY <1>0, <2>1, PlayerStopIs, PlayerStopIsGood
  <2> QED  BY <1>0, <1>10, <2>2 DEF SameStreams, Leads
<1>11. CASE m.type = "approval"
  <2>1. b = [app EXCEPT !.approval = TRUE, !.target = m.stream, !.assistant = "waiting"]
    BY <1>11 DEF Handle
  <2> HIDE DEF b
  <2>2. /\ b \in App /\ SamePlayer(app, b) /\ b.up = app.up /\ b.target = m.stream
        /\ b.stream = app.stream /\ b.opened = app.opened /\ b.active = app.active
        /\ b.abandoned = app.abandoned /\ b.approval
    BY <1>0, <1>2, <2>1 DEF App, SamePlayer
  <2>3. Good(b)  BY <1>0, <1>2, <2>2, TargetOnly
  <2> QED  BY <1>0, <2>2, <2>3 DEF SamePlayer, Leads
<1>12. CASE m.type = "invalid"
  <2>1. b = Rejected(app, m)  BY <1>12 DEF Handle
  <2> HIDE DEF b
  <2>2. CASE m.stream = app.stream /\ app.active
    <3>1. b = StopListening(app, "rejected", FALSE)  BY <2>1, <2>2 DEF Rejected
    <3>2. Told(app, "rejected", FALSE)
      BY <1>1, <1>12, <2>2 DEF Told
    <3>3. Good(b)  BY <1>0, <3>1, <3>2, StopListeningIsGood
    <3>4. SamePlayer(app, b) /\ b.stream = None
      BY <1>0, <3>1, StopListeningIs
    <3> QED  BY <1>0, <1>12, <2>2, <3>3, <3>4 DEF SamePlayer, Leads
  <2>3. CASE ~(m.stream = app.stream /\ app.active)
    <3>1. b = app  BY <2>1, <2>3 DEF Rejected
    <3> QED  BY <1>0, <1>12, <3>1 DEF Leads
  <2> QED  BY <2>2, <2>3
<1>13. CASE m.type = "error"
  <2>1. b = app  BY <1>13 DEF Handle
  <2> HIDE DEF b
  <2> QED  BY <1>0, <1>13, <2>1 DEF Leads
<1>14. m.type \in {"listening", "thinking", "speaking", "vad_end", "interrupted", "text",
                   "audio", "completed", "cancelled", "approval", "invalid", "error"}
  BY <1>2 DEF Answer
<1> HIDE DEF b
<1> QED  BY <1>5, <1>6, <1>7, <1>8, <1>9, <1>10, <1>11, <1>12, <1>13, <1>14

LEMMA HandleEnvelopeKeeps ==
  ASSUME PhoneInv, HandleEnvelope
  PROVE  PhoneInv'
<1>1. /\ Types /\ Good(app) /\ UNCHANGED <<slot, posted>> /\ down # <<>> /\ down' = Tail(down)
  BY DEF PhoneInv, HandleEnvelope
<1>2. PICK how \in Outcomes : MainTo(Handle(app, Head(down), how))
  BY DEF HandleEnvelope
<1> DEFINE b == Handle(app, Head(down), how)
<1>3. /\ Good(b) /\ b.gen \in Nat /\ app.gen <= b.gen /\ Leads(app, b)
      /\ Head(down).type = "approval" => b.approval
  BY <1>1, HandleIsGood
<1>4. MainTo(b)  BY <1>2
<1> HIDE DEF b
<1>5. posted' \subseteq posted /\ ("failed" \in posted' \/ "failed" \notin posted)  BY <1>1
<1>6. Types' /\ Good(app)' /\ (worker.gen <= app.gen)' /\ Alive'
  BY <1>1, <1>3, <1>4, <1>5, MainToIsGood
<1> QED  BY <1>6 DEF PhoneInv

-----------------------------------------------------------------------------
\* What other threads do.
\* The steps of the recorder's jobs leave the app as good as it was.
LEMMA OtherThread ==
  ASSUME PhoneInv, NEW b, Good(b), app' = b, b.stream = app.stream, b.opened = app.opened,
         UNCHANGED <<slot, down, overtaken, rejected>>,
         \A s \in Streams : held'[s].stream <= b.opened
  PROVE  Good(app)'
<1>1. Known(app)'
  BY DEF Good, Known
<1>2. StartsFirst(app)' /\ Gens(app)' /\ Asked(app)'
  BY DEF Good, StartsFirst, Gens, Asked
<1>3. StartsAgree(app)' /\ SlotAgrees(app)'
  BY DEF Good, StartsAgree, SlotAgrees, Agreed, EndIsSent
<1>4. (app \in App)'
  BY DEF Good, App, Message
<1> QED  BY <1>1, <1>2, <1>3, <1>4 DEF Good

LEMMA RecordingKeeps ==
  ASSUME PhoneInv, NEW s \in Streams, Recording(s)
  PROVE  PhoneInv'
<1>0. /\ Types /\ Good(app) /\ UNCHANGED <<app, held, worker, posted, slot, down, killed, overtaken, rejected>>
      /\ job[s] = "loop" /\ job' = [job EXCEPT ![s] = IF app.active THEN "read" ELSE "closing"]
  BY DEF PhoneInv, Recording, JobGoes, server, observed
<1>1. Types'
  <2>1. (IF app.active THEN "read" ELSE "closing") \in Jobs  BY DEF Jobs
  <2>2. job' \in [Streams -> Jobs]
    BY <1>0, <2>1 DEF Types
  <2> QED  BY <1>0, <2>2 DEF Types
<1>2. Good(app)'
  <2>1. \A x \in Streams : held'[x].stream <= app.opened  BY <1>0 DEF Good, Known
  <2> QED  BY <1>0, <2>1, OtherThread
<1>3. Alive'
  <2> SUFFICES ASSUME app.stream # None, "failed" \notin posted, app.stream \notin killed
               PROVE  app.active /\ job'[app.stream] \in {"loop", "read", "taken", "holding"}
    BY <1>0 DEF Alive
  <2>1. app.active /\ job[app.stream] \in {"loop", "read", "taken", "holding"}
    BY DEF PhoneInv, Alive
  <2>2. app.stream \in Streams
    BY Fields DEF PhoneInv, Good, Streams, None
  <2> QED  BY <1>0, <2>1, <2>2 DEF Types
<1> QED  BY <1>0, <1>1, <1>2, <1>3 DEF PhoneInv

LEMMA NumberKeeps ==
  ASSUME PhoneInv, NEW s \in Streams, Number(s)
  PROVE  PhoneInv'
<1>0. /\ Types /\ Good(app) /\ UNCHANGED <<app, held, worker, posted, slot, down, killed, overtaken, rejected>>
      /\ job' = [job EXCEPT ![s] = "holding"]
  BY DEF PhoneInv, Number, JobGoes, server, observed
<1>1. Types'
  <2>1. job' \in [Streams -> Jobs]  BY <1>0 DEF Types, Jobs
  <2> QED  BY <1>0, <2>1 DEF Types
<1>2. Good(app)'
  <2>1. \A x \in Streams : held'[x].stream <= app.opened  BY <1>0 DEF Good, Known
  <2> QED  BY <1>0, <2>1, OtherThread
<1>3. Alive'
  BY <1>0 DEF PhoneInv, Alive, Types
<1> QED  BY <1>0, <1>1, <1>2, <1>3 DEF PhoneInv

LEMMA ReadReturnsKeeps ==
  ASSUME PhoneInv, NEW s \in Streams, ReadReturns(s)
  PROVE  PhoneInv'
<1>0. /\ Types /\ Good(app) /\ app \in App /\ job[s] = "read" /\ job \in [Streams -> Jobs]
      /\ UNCHANGED <<worker, slot, down, killed, overtaken, rejected>>
  BY DEF PhoneInv, Good, Types, ReadReturns, server, observed
<1>1. ASSUME NEW i \in NextIndex, app.stream # None, JobGoes(s, "taken"),
             held' = [held EXCEPT ![s] = [NoChunk EXCEPT !.stream = app.stream, !.index = i]],
             app' = [app EXCEPT !.chunk = i + 1, !.sent = @ + 1],
             UNCHANGED posted
      PROVE  PhoneInv'
  <2>1. job' = [job EXCEPT ![s] = "taken"]  BY <1>1 DEF JobGoes
  <2>2. app.stream \in 0..MaxStreams /\ app.stream <= app.opened /\ i \in Nat
    <3>1. \A t \in Streams : held[t].index \in Nat  BY <1>0 DEF Types
    <3>2. app.chunk \in Nat  BY <1>0 DEF App
    <3>3. i \in Nat  BY <1>1, <3>1, <3>2 DEF NextIndex
    <3> QED  BY <1>0, <3>3, Fields DEF Good, Known
  <2>3. held' \in [Streams -> ChunkSet]
    BY <1>0, <1>1, <2>2 DEF Types, NoChunk
  <2>4. \A x \in Streams : held'[x].stream = IF x = s THEN app.stream ELSE held[x].stream
    BY <1>0, <1>1 DEF Types, NoChunk
  <2>5. /\ app' \in App /\ SamePlayer(app, app') /\ SameStreams(app, app') /\ app'.up = app.up
    <3> DEFINE c == i + 1
               n == app.sent + 1
    <3>1. c \in Nat /\ n \in Nat  BY <1>0, <2>2 DEF App
    <3>2. app' = [app EXCEPT !.chunk = c, !.sent = n]  BY <1>0, <1>1 DEF App
    <3> HIDE DEF c, n
    <3>3. app' \in App  BY <1>0, <3>1, <3>2 DEF App
    <3> QED  BY <1>0, <3>2, <3>3 DEF App, SamePlayer, SameStreams
  <2>6. Good(app)'
    <3>1. Good(app')
      <4>1. Gens(app')  BY <1>0, <2>5 DEF Good, Gens, SamePlayer
      <4> QED  BY <1>0, <2>5, <4>1, PlayerOnly
    <3>2. app'.stream = app.stream /\ app'.opened = app.opened  BY <2>5 DEF SameStreams
    <3>3. \A x \in Streams : held'[x].stream <= app'.opened
      BY <1>0, <2>2, <2>4, <3>2 DEF Good, Known
    <3> QED  BY <1>0, <3>1, <3>2, <3>3, OtherThread
  <2>7. Types'
    <3>1. job' \in [Streams -> Jobs]  BY <1>0, <2>1 DEF Types, Jobs
    <3> QED  BY <1>0, <1>1, <2>3, <3>1 DEF Types
  <2>8. Alive'
    BY <1>0, <1>1, <2>1, <2>5 DEF PhoneInv, Alive, SameStreams
  <2>9. (worker.gen <= app.gen)'
    BY <1>0, <2>5 DEF PhoneInv, SamePlayer
  <2> QED  BY <2>6, <2>7, <2>8, <2>9 DEF PhoneInv
<1>2. CASE ~app.active /\ JobGoes(s, "loop") /\ UNCHANGED <<app, held, posted>>
  <2>1. job' = [job EXCEPT ![s] = "loop"]  BY <1>2 DEF JobGoes
  <2>2. Good(app)'
    <3>1. \A x \in Streams : held'[x].stream <= app.opened  BY <1>0, <1>2 DEF Good, Known
    <3> QED  BY <1>0, <1>2, <3>1, OtherThread
  <2>3. Types'
    <3>1. job' \in [Streams -> Jobs]  BY <1>0, <2>1 DEF Types, Jobs
    <3> QED  BY <1>0, <1>2, <3>1 DEF Types
  <2>4. Alive'
    BY <1>0, <1>2 DEF PhoneInv, Alive
  <2> QED  BY <1>0, <1>2, <2>2, <2>3, <2>4 DEF PhoneInv
<1>3. CASE app.active /\ JobGoes(s, "closing") /\ posted' = posted \union {"failed"} /\ UNCHANGED <<app, held>>
  <2>1. job' = [job EXCEPT ![s] = "closing"]  BY <1>3 DEF JobGoes
  <2>2. Good(app)'
    <3>1. \A x \in Streams : held'[x].stream <= app.opened  BY <1>0, <1>3 DEF Good, Known
    <3> QED  BY <1>0, <1>3, <3>1, OtherThread
  <2>3. Types'
    <3>1. job' \in [Streams -> Jobs]  BY <1>0, <2>1 DEF Types, Jobs
    <3> QED  BY <1>0, <1>3, <3>1 DEF Types
  <2>4. Alive'
    BY <1>3 DEF Alive
  <2> QED  BY <1>0, <1>3, <2>2, <2>3, <2>4 DEF PhoneInv
<1> QED  BY <1>1, <1>2, <1>3 DEF ReadReturns

LEMMA ClosesKeeps ==
  ASSUME PhoneInv, NEW s \in Streams, Closes(s)
  PROVE  PhoneInv'
<1>0. /\ Types /\ Good(app) /\ app \in App /\ job[s] = "closing" /\ job' = [job EXCEPT ![s] = "ended"]
      /\ app' = [app EXCEPT !.active = FALSE]
      /\ killed' = (IF app.active /\ app.stream # s THEN killed \union {app.stream} ELSE killed)
      /\ UNCHANGED <<held, worker, posted, slot, down, overtaken, rejected>>
  BY DEF PhoneInv, Good, Closes, JobGoes, server
<1>1. /\ app' \in App /\ SamePlayer(app, app') /\ app'.up = app.up /\ ~app'.active
      /\ app'.stream = app.stream /\ app'.opened = app.opened /\ app'.target = app.target
      /\ app'.abandoned = app.abandoned /\ app'.approval = app.approval
  BY <1>0 DEF App, SamePlayer
<1>2. app.stream # None => app.stream \in Streams
  BY <1>0, Fields DEF Streams, None
<1>3. Types'
  <2>1. job' \in [Streams -> Jobs]  BY <1>0 DEF Types, Jobs
  <2>2. app.active => app.stream # None  BY <1>0 DEF Good, Known
  <2>3. killed' \subseteq Streams  BY <1>0, <1>2, <2>2 DEF Types
  <2> QED  BY <1>0, <2>1, <2>3 DEF Types
<1>4. Good(app)'
  <2>1. Good(app')
    <3>1. Known(app') /\ StartsFirst(app') /\ Gens(app') /\ Asked(app')
      BY <1>0, <1>1 DEF Good, SamePlayer, Known, StartsFirst, Gens, Asked
    <3>2. StartsAgree(app') /\ SlotAgrees(app')
      BY <1>0, <1>1 DEF Good, StartsAgree, SlotAgrees, Agreed, EndIsSent
    <3> QED  BY <1>1, <3>1, <3>2 DEF Good
  <2>2. \A x \in Streams : held'[x].stream <= app'.opened  BY <1>0, <1>1 DEF Good, Known
  <2> QED  BY <1>0, <1>1, <2>1, <2>2, OtherThread
<1>5. Alive'
  <2> SUFFICES ASSUME app.stream # None, "failed" \notin posted
               PROVE  app.stream \in killed'
    BY <1>0, <1>1 DEF Alive
  <2>1. CASE app.stream \in killed  BY <1>0, <2>1
  <2>2. CASE app.active /\ job[app.stream] \in {"loop", "read", "taken", "holding"}
    BY <1>0, <2>2
  <2> QED  BY <2>1, <2>2 DEF PhoneInv, Alive
<1>6. (worker.gen <= app.gen)'  BY <1>0, <1>1 DEF PhoneInv, SamePlayer
<1> QED  BY <1>3, <1>4, <1>5, <1>6 DEF PhoneInv

LEMMA PassOnKeeps ==
  ASSUME PhoneInv, NEW s \in Streams, PassOn(s)
  PROVE  PhoneInv'
<1> DEFINE m == held[s]
<1>0. /\ Types /\ Good(app) /\ app \in App /\ job[s] = "holding" /\ job' = [job EXCEPT ![s] = "loop"]
      /\ app' = [app EXCEPT !.up = Append(@, held[s]), !.fresh = FALSE]
      /\ held' = [held EXCEPT ![s] = NoChunk]
      /\ UNCHANGED <<worker, posted, slot, down, killed, overtaken, rejected>>
  BY DEF PhoneInv, Good, PassOn, JobGoes, server, observed
<1>1. m \in Message /\ m.type # "start" /\ m.stream <= app.opened
  BY <1>0 DEF Types, Message, Good, Known
<1>2. /\ app' \in App /\ SamePlayer(app, app') /\ SameStreams(app, app')
      /\ app'.up = Append(app.up, m)
  <2> DEFINE u == Append(app.up, m)
  <2>1. u \in Seq(Message)  BY <1>0, <1>1, Fields
  <2>2. app' = [app EXCEPT !.up = u, !.fresh = FALSE]  BY <1>0 DEF App
  <2> HIDE DEF u
  <2>3. app' \in App  BY <1>0, <2>1, <2>2 DEF App
  <2> QED  BY <1>0, <2>2, <2>3 DEF App, SamePlayer, SameStreams, u
<1>3. \A x \in Streams : held'[x].stream \in {None, held[x].stream}
  BY <1>0 DEF Types, NoChunk
<1>4. Types'
  <2>1. job' \in [Streams -> Jobs]  BY <1>0 DEF Types, Jobs
  <2>2. NoChunk \in ChunkSet
    BY Bounds DEF NoChunk, None
  <2>3. held' \in [Streams -> ChunkSet]
    BY <1>0, <2>2 DEF Types
  <2> QED  BY <1>0, <2>1, <2>3 DEF Types
<1>5. Good(app)'
  <2>1. Good(app')
    <3> HIDE DEF m
    <3> QED  BY <1>0, <1>1, <1>2, AppendIsGood
  <2>2. \A x \in Streams : held'[x].stream <= app'.opened
    BY <1>0, <1>2, <1>3, Fields DEF Good, Known, None, SameStreams
  <2> QED  BY <1>0, <1>2, <2>1, <2>2, OtherThread DEF SameStreams
<1>6. Alive'
  BY <1>0, <1>2 DEF PhoneInv, Alive, SameStreams, Types
<1>7. (worker.gen <= app.gen)'
  BY <1>0, <1>2 DEF PhoneInv, SamePlayer
<1> QED  BY <1>4, <1>5, <1>6, <1>7 DEF PhoneInv

\* A chunk that passes a message: the one step that does not append to what is
\* on its way.
LEMMA OvertakeKeeps ==
  ASSUME PhoneInv, NEW s \in Streams, Overtake(s)
  PROVE  PhoneInv'
<1> DEFINE m == held[s]
           n == Len(app.up)
           last == [app.up[n] EXCEPT !.late = TRUE]
           u == Append(Append(SubSeq(app.up, 1, n - 1), m), last)
<1>0. /\ Types /\ Good(app) /\ app \in App /\ job[s] = "taken" /\ job' = [job EXCEPT ![s] = "loop"]
      /\ app.up # <<>> /\ ~(app.up[n].type = "start" /\ app.up[n].stream = m.stream)
      /\ app' = [app EXCEPT !.up = u, !.fresh = FALSE]
      /\ held' = [held EXCEPT ![s] = NoChunk]
      /\ UNCHANGED <<worker, posted, slot, down, killed, overtaken, rejected>>
  BY DEF PhoneInv, Good, Overtake, JobGoes, server, observed, App
<1>1. /\ m \in Message /\ m.type = "chunk" /\ m.stream <= app.opened
  BY <1>0 DEF Types, Message, Good, Known
<1>2. app.up \in Seq(Message) /\ n \in Nat \ {0}
  BY <1>0, Fields
<1>3. last \in Message /\ last.type = app.up[n].type /\ last.stream = app.up[n].stream
  <2>1. app.up[n] \in Message  BY <1>0, <1>2, Elements
  <2> QED  BY <2>1 DEF Message
<1> HIDE DEF m, last
<1>4. /\ u \in Seq(Message) /\ Len(u) = n + 1
      /\ u[n] = m /\ u[n + 1] = last /\ \A k \in 1..(n - 1) : u[k] = app.up[k]
  <2> DEFINE p == SubSeq(app.up, 1, n - 1)
             q == Append(p, m)
  <2>1. p \in Seq(Message) /\ Len(p) = n - 1 /\ \A k \in 1..(n - 1) : p[k] = app.up[k]
    BY <1>2
  <2> HIDE DEF p
  <2>2. q \in Seq(Message) /\ Len(q) = n /\ q[n] = m /\ \A k \in 1..(n - 1) : q[k] = app.up[k]
    BY <1>1, <1>2, <2>1
  <2> HIDE DEF q
  <2>3. u = Append(q, last)  BY DEF q, p
  <2> HIDE DEF u
  <2> QED  BY <1>2, <1>3, <2>2, <2>3
<1> HIDE DEF u
<1>5. /\ app' \in App /\ SamePlayer(app, app') /\ SameStreams(app, app') /\ app'.up = u
  <2>1. app' \in App  BY <1>0, <1>4 DEF App
  <2> QED  BY <1>0, <2>1 DEF App, SamePlayer, SameStreams
<1>6. \A x \in Streams : held'[x].stream \in {None, held[x].stream}
  BY <1>0 DEF Types, NoChunk
<1>7. Types'
  <2>1. job' \in [Streams -> Jobs]  BY <1>0 DEF Types, Jobs
  <2>2. NoChunk \in ChunkSet
    BY Bounds DEF NoChunk, None
  <2>3. held' \in [Streams -> ChunkSet]
    BY <1>0, <2>2 DEF Types
  <2> QED  BY <1>0, <2>1, <2>3 DEF Types
<1>8. Good(app')
  <2>1. Gens(app')
    BY <1>0, <1>5 DEF Good, Gens, SamePlayer
  <2>2. Known(app')
    <3>1. \A k \in 1..Len(u) : u[k].stream <= app.opened
      <4> TAKE k \in 1..Len(u)
      <4>1. k \in 1..(n - 1) \/ k = n \/ k = n + 1  BY <1>2, <1>4
      <4>2. \A i \in 1..n : app.up[i].stream <= app.opened  BY <1>0 DEF Good, Known
      <4>3. n \in 1..n /\ (k \in 1..(n - 1) => k \in 1..n)  BY <1>2
      <4> QED  BY <1>1, <1>3, <1>4, <4>1, <4>2, <4>3
    <3> QED  BY <1>0, <1>5, <3>1 DEF Good, Known, SameStreams
  <2>3. StartsFirst(app')
    <3> SUFFICES ASSUME NEW i \in 1..Len(u), u[i].type = "start"
                 PROVE  /\ u[i].stream # None
                        /\ \A k \in 1..(i - 1) : u[k].stream # u[i].stream
                        /\ slot.phase = "active" => slot.stream # u[i].stream
                        /\ \A k \in 1..Len(down) :
                             down[k].type = "invalid" => down[k].stream # u[i].stream
      BY <1>5 DEF StartsFirst
    <3>1. CASE i \in 1..(n - 1)
      <4>1. i \in 1..Len(app.up) /\ u[i] = app.up[i] /\ \A k \in 1..(i - 1) : u[k] = app.up[k]
        BY <1>2, <1>4, <3>1
      <4> QED  BY <1>0, <4>1 DEF Good, StartsFirst
    <3>2. CASE i = n + 1
      <4>1. n \in 1..Len(app.up) /\ app.up[n].type = "start" /\ u[i].stream = app.up[n].stream
        BY <1>2, <1>3, <1>4, <3>2
      <4>2. /\ u[i].stream # None /\ \A k \in 1..(n - 1) : u[k].stream # u[i].stream
            /\ slot.phase = "active" => slot.stream # u[i].stream
            /\ \A k \in 1..Len(down) : down[k].type = "invalid" => down[k].stream # u[i].stream
        BY <1>0, <1>4, <4>1 DEF Good, StartsFirst
      <4>3. u[n].stream # u[i].stream
        BY <1>0, <1>1, <1>4, <4>1, <4>2
      <4>4. \A k \in 1..(i - 1) : k \in 1..(n - 1) \/ k = n  BY <1>2, <3>2
      <4> QED  BY <4>2, <4>3, <4>4
    <3>3. i # n  BY <1>1, <1>4
    <3>4. i \in 1..(n - 1) \/ i = n + 1  BY <1>2, <1>4, <3>3
    <3> QED  BY <3>1, <3>2, <3>4
  <2>4. ASSUME NEW i \in 0..(n - 1), NEW t, EndIsSent(app, i, t)  PROVE EndIsSent(app', i, t)
    <3>1. PICK k \in (i + 1)..n : app.up[k].type \in Reasons /\ app.up[k].stream = t
      BY <2>4 DEF EndIsSent
    <3>2. CASE k = n
      <4>1. n + 1 \in (i + 1)..Len(u)  BY <1>2, <1>4
      <4> QED  BY <1>3, <1>4, <1>5, <3>1, <3>2, <4>1 DEF EndIsSent
    <3>3. CASE k # n
      <4>1. k \in (i + 1)..Len(u) /\ u[k] = app.up[k]  BY <1>2, <1>4, <3>1, <3>3
      <4> QED  BY <1>5, <3>1, <4>1 DEF EndIsSent
    <3> QED  BY <3>2, <3>3
  <2>5. StartsAgree(app')
    <3> SUFFICES ASSUME NEW i \in 1..Len(u), u[i].type = "start"
                 PROVE  Agreed(app, u[i].stream) \/ EndIsSent(app', i, u[i].stream)
      BY <1>5 DEF StartsAgree, Agreed, SameStreams
    <3>1. CASE i \in 1..(n - 1)
      <4>1. i \in 1..Len(app.up) /\ i \in 0..(n - 1) /\ u[i] = app.up[i]
        BY <1>2, <1>4, <3>1
      <4>2. Agreed(app, u[i].stream) \/ EndIsSent(app, i, u[i].stream)
        BY <1>0, <4>1 DEF Good, StartsAgree
      <4> QED  BY <2>4, <4>1, <4>2
    <3>2. CASE i = n + 1
      <4>1. n \in 1..Len(app.up) /\ app.up[n].type = "start" /\ u[i].stream = app.up[n].stream
        BY <1>2, <1>3, <1>4, <3>2
      <4>2. ~EndIsSent(app, n, u[i].stream)  BY <1>2 DEF EndIsSent
      <4> QED  BY <1>0, <4>1, <4>2 DEF Good, StartsAgree
    <3>3. i # n  BY <1>1, <1>4
    <3>4. i \in 1..(n - 1) \/ i = n + 1  BY <1>2, <1>4, <3>3
    <3> QED  BY <3>1, <3>2, <3>4
  <2>6. SlotAgrees(app')
    <3>1. 0 \in 0..(n - 1)  BY <1>2
    <3>2. \A t : EndIsSent(app, 0, t) => EndIsSent(app', 0, t)  BY <2>4, <3>1
    <3> QED  BY <1>0, <1>5, <3>2 DEF Good, SlotAgrees, Agreed, SameStreams
  <2>7. Asked(app')
    <3>1. (\E k \in 1..n : app.up[k].type = "answer") => \E k \in 1..Len(u) : u[k].type = "answer"
      <4> SUFFICES ASSUME NEW k \in 1..n, app.up[k].type = "answer"
                   PROVE  \E x \in 1..Len(u) : u[x].type = "answer"
        OBVIOUS
      <4>1. CASE k = n
        <5>1. n + 1 \in 1..Len(u)  BY <1>2, <1>4
        <5> QED  BY <1>3, <1>4, <4>1, <5>1
      <4>2. CASE k # n
        <5>1. k \in 1..Len(u) /\ u[k] = app.up[k]  BY <1>2, <1>4, <4>2
        <5> QED  BY <5>1
      <4> QED  BY <4>1, <4>2
    <3> QED  BY <1>0, <1>5, <3>1 DEF Good, Asked, SameStreams
  <2> QED  BY <1>5, <2>1, <2>2, <2>3, <2>5, <2>6, <2>7 DEF Good
<1>9. Good(app)'
  <2>1. \A x \in Streams : held'[x].stream <= app'.opened
    BY <1>0, <1>5, <1>6, Fields DEF Good, Known, None, SameStreams
  <2> QED  BY <1>0, <1>5, <1>8, <2>1, OtherThread DEF SameStreams
<1>10. Alive'
  BY <1>0, <1>5 DEF PhoneInv, Alive, SameStreams, Types
<1>11. (worker.gen <= app.gen)'
  BY <1>0, <1>5 DEF PhoneInv, SamePlayer
<1> QED  BY <1>7, <1>9, <1>10, <1>11 DEF PhoneInv

\* The worker of the player.
\* The worker of the player.
LEMMA PlayerLeaves ==
  ASSUME PhoneInv, NEW b \in App, app' = b, SameStreams(app, b), b.up = app.up, Gens(b),
         b.gen = app.gen, UNCHANGED <<job, held, slot, down, killed, overtaken, rejected>>,
         posted \subseteq posted', posted' \subseteq {"complete", "failed"},
         worker' \in WorkerSet, worker'.gen <= app.gen
  PROVE  PhoneInv'
<1>1. Good(b)
  BY PlayerOnly DEF PhoneInv
<1>2. Good(app)'
  <2>1. \A s \in Streams : held'[s].stream <= b.opened
    BY <1>1 DEF Good, Known
  <2> QED  BY <1>1, <2>1, OtherThread DEF SameStreams
<1>3. Types'
  BY DEF PhoneInv, Types
<1>4. Alive'
  BY DEF PhoneInv, Alive, SameStreams
<1> QED  BY <1>2, <1>3, <1>4 DEF PhoneInv

LEMMA IdleIs == Idle \in WorkerSet /\ Idle.gen = 0
  BY DEF Idle

LEMMA NoTrackIs ==
  NoTrack \in TrackSet /\ NoTrack.gen = 0 /\ NoTrack.state = "none"
  BY DEF NoTrack

LEMMA TakeKeeps ==
  ASSUME PhoneInv, Take
  PROVE  PhoneInv'
<1> DEFINE q == Tail(app.commands)
           r == IF Command.op = "abort" /\ Current THEN NoTrack ELSE app.track
           b == [app EXCEPT !.commands = q, !.track = r]
<1>0. /\ Types /\ Good(app) /\ app \in App /\ app.gen \in Nat /\ app.commands # <<>>
      /\ app.track \in TrackSet
      /\ app.commands \in Seq(CommandSet)
      /\ UNCHANGED <<job, held, posted, slot, down, killed, overtaken, rejected>>
      /\ worker' = (IF Current /\ Command.op # "abort" THEN [doing |-> Command.op, gen |-> Command.gen] ELSE Idle)
  BY Fields DEF PhoneInv, Good, Take, server, observed
<1>1. app' = b  BY <1>0 DEF Take, App
<1>2. Command \in CommandSet /\ Command.gen <= app.gen
  <2>1. Command = app.commands[1] /\ 1 \in 1..Len(app.commands)  BY <1>0 DEF Command
  <2>2. app.commands[1] \in CommandSet
    BY <1>0, <2>1, ElementOfSeq
  <2> QED  BY <1>0, <2>1, <2>2 DEF Good, Gens
<1>3. /\ q \in Seq(CommandSet)
      /\ Len(q) = Len(app.commands) - 1 /\ Len(app.commands) \in Nat
      /\ \A n \in 1..Len(q) : q[n] = app.commands[n + 1]
  BY <1>0
<1>4. r \in TrackSet /\ (r = NoTrack \/ r = app.track)
  BY <1>0, NoTrackIs
<1> HIDE DEF q, r
<1>5. b \in App  BY <1>0, <1>3, <1>4 DEF App
<1>6. SameStreams(app, b) /\ b.up = app.up /\ b.gen = app.gen /\ b.commands = q /\ b.track = r
  BY <1>0 DEF App, SameStreams
<1> HIDE DEF b
<1>7. Gens(b)
  <2>1. \A n \in 1..Len(q) : q[n].gen <= app.gen
    <3> TAKE n \in 1..Len(q)
    <3>1. n + 1 \in 1..Len(app.commands)  BY <1>3
    <3> QED  BY <1>0, <1>3, <3>1 DEF Good, Gens
  <2>2. r.gen <= app.gen /\ (r.state = "playing" => r.gen = app.gen)
    BY <1>0, <1>4, NoTrackIs DEF Good, Gens
  <2> QED  BY <1>6, <2>1, <2>2 DEF Gens
<1>8. worker' \in WorkerSet /\ worker'.gen <= app.gen
  <2>1. CASE worker' = Idle  BY <1>0, <2>1, IdleIs
  <2>2. CASE Command.op # "abort" /\ worker' = [doing |-> Command.op, gen |-> Command.gen]
    BY <1>2, <2>2
  <2> QED  BY <1>0, <2>1, <2>2
<1>9. posted \subseteq posted' /\ posted' \subseteq {"complete", "failed"}
  BY <1>0 DEF Types
<1> QED  BY <1>0, <1>1, <1>5, <1>6, <1>7, <1>8, <1>9, PlayerLeaves

LEMMA TrackChanges ==
  ASSUME PhoneInv, NEW r \in TrackSet,
         r = NoTrack \/ r.gen = app.gen, app' = [app EXCEPT !.track = r],
         UNCHANGED <<job, held, slot, down, killed, overtaken, rejected>>, worker' = Idle,
         posted \subseteq posted', posted' \subseteq {"complete", "failed"}
  PROVE  PhoneInv'
<1> DEFINE b == [app EXCEPT !.track = r]
<1>0. Good(app) /\ app \in App /\ app.gen \in Nat  BY Fields DEF PhoneInv, Good
<1>1. b \in App  BY <1>0 DEF App
<1>2. SameStreams(app, b) /\ b.up = app.up /\ b.gen = app.gen /\ b.commands = app.commands /\ b.track = r
  BY <1>0 DEF App, SameStreams
<1>3. app' = b  OBVIOUS
<1> HIDE DEF b
<1>4. Gens(b)
  BY <1>0, <1>2, NoTrackIs DEF Good, Gens
<1>5. worker' \in WorkerSet /\ worker'.gen <= app.gen
  BY <1>0, IdleIs
<1> QED  BY <1>1, <1>2, <1>3, <1>4, <1>5, PlayerLeaves

LEMMA PlayerKeeps ==
  ASSUME PhoneInv, Player
  PROVE  PhoneInv'
<1>0. worker.gen \in Nat /\ posted \subseteq {"complete", "failed"}
  BY DEF PhoneInv, Types
<1>1. CASE Take  BY <1>1, TakeKeeps
<1>2. CASE Write
  <2>0. worker' = Idle /\ UNCHANGED <<job, held, posted, slot, down, killed, overtaken, rejected>>
    BY <1>2 DEF Write, server, observed
  <2>1. CASE app' = [app EXCEPT !.track = NoTrack]
    BY <1>0, <2>0, <2>1, NoTrackIs, TrackChanges
  <2>2. CASE worker.gen = app.gen /\ app' = [app EXCEPT !.track = [state |-> "playing", gen |-> worker.gen]]
    <3> DEFINE r == [state |-> "playing", gen |-> worker.gen]
    <3>1. r \in TrackSet /\ r.gen = app.gen
      BY <1>0, <2>2
    <3>2. app' = [app EXCEPT !.track = r]  BY <2>2
    <3> HIDE DEF r
    <3> QED  BY <1>0, <2>0, <3>1, <3>2, TrackChanges
  <2> QED  BY <1>2, <2>1, <2>2 DEF Write
<1>3. CASE Drain
  <2>1. /\ worker' = Idle /\ app' = [app EXCEPT !.track = NoTrack]
        /\ UNCHANGED <<job, held, slot, down, killed, overtaken, rejected>>
        /\ posted' = posted \/ posted' = posted \union {"complete"}
    BY <1>3 DEF Drain, server, observed
  <2>2. posted \subseteq posted' /\ posted' \subseteq {"complete", "failed"}
    BY <1>0, <2>1
  <2> QED  BY <2>1, <2>2, NoTrackIs, TrackChanges
<1> QED  BY <1>1, <1>2, <1>3 DEF Player

\* The server.
\* The server's answers.
Kinds == {"listening", "thinking", "speaking", "vad_end", "interrupted", "text",
          "audio", "completed", "cancelled", "approval", "invalid", "error"}

LEMMA Replies ==
  ASSUME Types, NEW types \in Seq(Kinds), NEW t \in 0..MaxStreams, Reply(types, t)
  PROVE  /\ down' \in Seq(Answer) /\ Len(down) \in Nat /\ Len(types) \in Nat
         /\ Len(down') = Len(down) + Len(types)
         /\ \A k \in 1..Len(down) : down'[k] = down[k]
         /\ \A k \in 1..Len(down') : k \in 1..Len(down) \/
              \E x \in 1..Len(types) : k = Len(down) + x /\ down'[k] = [type |-> types[x], stream |-> t]
<1> DEFINE r == [n \in DOMAIN types |-> [type |-> types[n], stream |-> t]]
<1>1. down \in Seq(Answer) /\ down' = down \o r  BY DEF Types, Reply
<1>2. DOMAIN types = 1..Len(types) /\ Len(types) \in Nat  OBVIOUS
<1>3. \A n \in 1..Len(types) : [type |-> types[n], stream |-> t] \in Answer
  <2> TAKE n \in 1..Len(types)
  <2>1. types[n] \in Kinds  BY ElementOfSeq
  <2> QED  BY <2>1 DEF Answer, Kinds
<1>4. r \in Seq(Answer) /\ Len(r) = Len(types)
      /\ \A n \in 1..Len(types) : r[n] = [type |-> types[n], stream |-> t]
  <2>1. r \in [1..Len(types) -> Answer]  BY <1>2, <1>3
  <2> QED  BY <1>2, <2>1
<1> HIDE DEF r
<1>5. /\ down' \in Seq(Answer) /\ Len(down') = Len(down) + Len(r) /\ Len(down) \in Nat
      /\ \A k \in 1..Len(down) : down'[k] = down[k]
      /\ \A x \in 1..Len(r) : down'[Len(down) + x] = r[x]
  <2>1. /\ down \o r \in Seq(Answer) /\ Len(down \o r) = Len(down) + Len(r)
        /\ \A k \in 1..(Len(down) + Len(r)) :
             (down \o r)[k] = IF k <= Len(down) THEN down[k] ELSE r[k - Len(down)]
    <3>1. down \in Seq(Answer) /\ r \in Seq(Answer)  BY <1>1, <1>4
    <3> QED  BY ONLY <3>1, ConcatProperties
  <2>2. Len(down) \in Nat /\ Len(r) \in Nat  BY <1>1, <1>4
  <2>3. \A x \in 1..Len(r) : (down \o r)[Len(down) + x] = r[x]
    <3> TAKE x \in 1..Len(r)
    <3>1. /\ Len(down) + x \in 1..(Len(down) + Len(r)) /\ ~(Len(down) + x <= Len(down))
          /\ (Len(down) + x) - Len(down) = x
      BY <2>2
    <3> QED  BY <2>1, <3>1
  <2> QED  BY <1>1, <2>1, <2>2, <2>3
<1>6. ASSUME NEW k \in 1..Len(down'), k \notin 1..Len(down)
      PROVE  \E x \in 1..Len(types) : k = Len(down) + x /\ down'[k] = [type |-> types[x], stream |-> t]
  <2>1. k - Len(down) \in 1..Len(types) /\ k = Len(down) + (k - Len(down))
    BY <1>2, <1>4, <1>5, <1>6
  <2> QED  BY <1>4, <1>5, <2>1
<1> QED  BY <1>2, <1>4, <1>5, <1>6

\* What the next message m does to the slot, and what is said of it.
\* What a message does to the slot, and what is said of it.
SlotMoves(m) ==
  /\ slot'.phase = "active" =>
       \/ slot.phase = "active" /\ slot'.stream = slot.stream /\ (m.late \/ m.type \notin Reasons)
       \/ slot.phase = "free" /\ m.type = "start" /\ slot'.stream = m.stream
  /\ slot'.phase = "pending" => slot.phase = "pending" /\ (m.late \/ m.type # "answer")
  /\ slot' \in SlotSet
  /\ slot'.stream \in {slot.stream, m.stream, None}

Says(m) ==
  /\ down' \in Seq(Answer)
  /\ \A k \in 1..Len(down) : k \in 1..Len(down') /\ down'[k] = down[k]
  /\ \A k \in 1..Len(down') : k \in 1..Len(down) \/
       /\ down'[k].stream \in {m.stream, None}
       /\ down'[k].type = "invalid" /\ down'[k].stream # None =>
            \/ slot'.phase # "active"
            \/ slot.phase = "active" /\ m.type = "start"
            \/ slot.phase = "active" /\ m.type = "chunk" /\ (slot.stream # m.stream \/ m.stream \in rejected')

\* The receive loop.
LEMMA ReceiveKeepsGood ==
  ASSUME PhoneInv, Receive, NEW m, m = Head(app.up), SlotMoves(m), Says(m),
         overtaken \subseteq overtaken', m.late => m.type \in overtaken',
         rejected \subseteq rejected'
  PROVE  Good(app)'
<1> DEFINE u == app.up
           v == app'.up
           Settled(t) == app'.stream = t \/ t \in app'.abandoned \/ overtaken' # {}
<1>0. /\ Types /\ Good(app) /\ app \in App /\ u # <<>> /\ u \in Seq(Message)
      /\ app' = [app EXCEPT !.up = Tail(@)]
      /\ UNCHANGED <<job, held, worker, posted, taps, killed>>
  BY Fields DEF PhoneInv, Good, Receive
<1>1. /\ Len(u) \in Nat \ {0} /\ m = u[1] /\ Tail(u) \in Seq(Message) /\ Len(Tail(u)) = Len(u) - 1
      /\ \A n \in 1..Len(Tail(u)) : n + 1 \in 1..Len(u) /\ Tail(u)[n] = u[n + 1]
  BY <1>0
<1>2. /\ app' \in App /\ SamePlayer(app, app') /\ SameStreams(app, app') /\ v = Tail(u)
  <2> DEFINE w == Tail(u)
  <2>1. app' = [app EXCEPT !.up = w]  BY <1>0 DEF App
  <2>2. w \in Seq(Message)  BY <1>1
  <2> HIDE DEF w
  <2>3. app' \in App  BY <1>0, <2>1, <2>2 DEF App
  <2> QED  BY <1>0, <2>1, <2>3 DEF App, SamePlayer, SameStreams, w
<1>3. m \in Message /\ m.stream \in 0..MaxStreams /\ m.stream <= app.opened /\ 1 \in 1..Len(u)
  BY <1>0, <1>1, Elements DEF Good, Known
<1>4. /\ Len(v) = Len(u) - 1 /\ \A n \in 1..Len(v) : n + 1 \in 1..Len(u) /\ v[n] = u[n + 1]
      /\ \A n \in 1..Len(u) : n = 1 \/ (n - 1 \in 1..Len(v) /\ v[n - 1] = u[n])
  BY <1>1, <1>2
<1> HIDE DEF v
<1>5. Gens(app')
  BY <1>0, <1>2 DEF Good, Gens, SamePlayer
<1>6. ASSUME NEW n \in 0..Len(v), NEW t, EndIsSent(app, n + 1, t)  PROVE EndIsSent(app', n, t)
  <2>1. PICK k \in (n + 2)..Len(u) : u[k].type \in Reasons /\ u[k].stream = t
    BY <1>1, <1>6 DEF EndIsSent
  <2>2. k - 1 \in (n + 1)..Len(v) /\ v[k - 1] = u[k]  BY <1>1, <1>4, <2>1
  <2> QED  BY <2>1, <2>2 DEF EndIsSent, v
<1>7. Known(app)'
  <2>1. \A n \in 1..Len(v) : v[n].stream <= app.opened
    BY <1>0, <1>4 DEF Good, Known
  <2>2. \A n \in 1..Len(down') : down'[n].stream <= app.opened
    <3> TAKE n \in 1..Len(down')
    <3>1. CASE n \in 1..Len(down)
      BY <1>0, <3>1 DEF Good, Known, Says
    <3>2. CASE n \notin 1..Len(down)
      <4>1. down'[n].stream \in {m.stream, None}  BY <1>0, <3>2 DEF Says
      <4>2. m.stream <= app.opened /\ None <= app.opened  BY <1>0, <1>3, Fields DEF None
      <4> QED  BY <4>1, <4>2
    <3> QED  BY <3>1, <3>2
  <2>3. slot'.stream <= app.opened
    BY <1>0, <1>3, Fields DEF SlotMoves, Good, Known, None
  <2> QED  BY <1>0, <1>2, <2>1, <2>2, <2>3 DEF Good, Known, SameStreams, v
<1>8. ASSUME NEW n \in 1..Len(v), v[n].type = "start"
      PROVE  /\ v[n].stream # None /\ v[n].stream # m.stream
             /\ \A k \in 1..(n - 1) : v[k].stream # v[n].stream
             /\ slot.phase = "active" => slot.stream # v[n].stream
             /\ \A k \in 1..Len(down) : down[k].type = "invalid" => down[k].stream # v[n].stream
  <2>1. n + 1 \in 1..Len(u) /\ v[n] = u[n + 1] /\ 1 \in 1..((n + 1) - 1)
    BY <1>1, <1>4
  <2>2. /\ v[n].stream # None
        /\ \A k \in 1..((n + 1) - 1) : u[k].stream # v[n].stream
        /\ slot.phase = "active" => slot.stream # v[n].stream
        /\ \A k \in 1..Len(down) : down[k].type = "invalid" => down[k].stream # v[n].stream
    BY <1>0, <1>8, <2>1 DEF Good, StartsFirst
  <2>3. \A k \in 1..(n - 1) : k + 1 \in 1..((n + 1) - 1) /\ v[k] = u[k + 1]
    BY <1>4
  <2> QED  BY <1>1, <2>1, <2>2, <2>3
<1>9. StartsFirst(app)'
  <2> SUFFICES ASSUME NEW n \in 1..Len(v), v[n].type = "start"
               PROVE  /\ v[n].stream # None
                      /\ \A k \in 1..(n - 1) : v[k].stream # v[n].stream
                      /\ slot'.phase = "active" => slot'.stream # v[n].stream
                      /\ \A k \in 1..Len(down') :
                           down'[k].type = "invalid" => down'[k].stream # v[n].stream
    BY DEF StartsFirst, v
  <2>1. /\ v[n].stream # None /\ v[n].stream # m.stream
        /\ \A k \in 1..(n - 1) : v[k].stream # v[n].stream
        /\ slot.phase = "active" => slot.stream # v[n].stream
        /\ \A k \in 1..Len(down) : down[k].type = "invalid" => down[k].stream # v[n].stream
    BY <1>8
  <2>2. slot'.phase = "active" => slot'.stream # v[n].stream
    BY <2>1 DEF SlotMoves
  <2>3. ASSUME NEW k \in 1..Len(down'), down'[k].type = "invalid"  PROVE down'[k].stream # v[n].stream
    BY <2>1, <2>3 DEF Says
  <2> QED  BY <2>1, <2>2, <2>3
<1>10. \A t : Agreed(app, t) => Settled(t)
  BY <1>2 DEF Agreed, SameStreams
<1>11. StartsAgree(app)'
  <2> SUFFICES ASSUME NEW n \in 1..Len(v), v[n].type = "start"
               PROVE  Settled(v[n].stream) \/ EndIsSent(app', n, v[n].stream)
    BY DEF StartsAgree, v, EndIsSent, Agreed
  <2>1. n + 1 \in 1..Len(u) /\ v[n] = u[n + 1] /\ n \in 0..Len(v)  BY <1>4
  <2>2. Agreed(app, v[n].stream) \/ EndIsSent(app, n + 1, v[n].stream)
    BY <1>0, <2>1 DEF Good, StartsAgree
  <2> QED  BY <1>6, <1>10, <2>1, <2>2
<1>12. SlotAgrees(app)'
  <2> SUFFICES ASSUME slot'.phase = "active"
               PROVE  /\ slot'.stream # None
                      /\ Settled(slot'.stream) \/ slot'.stream \in rejected' \/ EndIsSent(app', 0, slot'.stream)
                      /\ \A k \in 1..Len(down') : down'[k].type = "invalid" /\ down'[k].stream = slot'.stream
                            => slot'.stream \in rejected'
    BY DEF SlotAgrees, EndIsSent, Agreed
  <2>1. CASE slot.phase = "active" /\ slot'.stream = slot.stream /\ (m.late \/ m.type \notin Reasons)
    <3> DEFINE t == slot.stream
    <3>1. /\ t # None
          /\ Agreed(app, t) \/ t \in rejected \/ EndIsSent(app, 0, t)
          /\ \A k \in 1..Len(down) : down[k].type = "invalid" /\ down[k].stream = t => t \in rejected
      BY <1>0, <2>1 DEF Good, SlotAgrees
    <3>2. EndIsSent(app, 0, t) => Settled(t) \/ EndIsSent(app', 0, t)
      <4> SUFFICES ASSUME NEW k \in (0 + 1)..Len(u), u[k].type \in Reasons, u[k].stream = t
                   PROVE  Settled(t) \/ EndIsSent(app', 0, t)
        BY DEF EndIsSent
      <4>1. CASE k = 1
        <5>1. m.late /\ m.type \in overtaken'  BY <1>1, <2>1, <4>1
        <5> QED  BY <5>1
      <4>2. CASE k # 1
        <5>1. k - 1 \in (0 + 1)..Len(v) /\ v[k - 1] = u[k]  BY <1>1, <1>4, <4>2
        <5> QED  BY <5>1 DEF EndIsSent, v
      <4> QED  BY <4>1, <4>2
    <3>3. ASSUME NEW k \in 1..Len(down'), down'[k].type = "invalid", down'[k].stream = t
          PROVE  t \in rejected'
      <4>1. CASE k \in 1..Len(down)
        BY <3>1, <3>3, <4>1 DEF Says
      <4>2. CASE k \notin 1..Len(down)
        <5>1. m.stream = t  BY <3>1, <3>3, <4>2 DEF Says
        <5>2. m.type # "start"
          BY <1>0, <1>1, <1>3, <2>1, <5>1 DEF Good, StartsFirst
        <5> QED  BY <3>1, <3>3, <4>2, <5>1, <5>2 DEF Says
      <4> QED  BY <4>1, <4>2
    <3> QED  BY <1>10, <2>1, <3>1, <3>2, <3>3
  <2>2. CASE slot.phase = "free" /\ m.type = "start" /\ slot'.stream = m.stream
    <3> DEFINE t == m.stream
    <3>1. /\ t # None
          /\ \A k \in 1..Len(down) : down[k].type = "invalid" => down[k].stream # t
          /\ Agreed(app, t) \/ EndIsSent(app, 1, t)
      BY <1>0, <1>1, <1>3, <2>2 DEF Good, StartsFirst, StartsAgree
    <3>2. EndIsSent(app, 1, t) => EndIsSent(app', 0, t)
      <4>1. 0 \in 0..Len(v) /\ 0 + 1 = 1  BY <1>1, <1>4
      <4> QED  BY <1>6, <4>1
    <3>3. \A k \in 1..Len(down') : ~(down'[k].type = "invalid" /\ down'[k].stream = t)
      BY <2>2, <3>1 DEF Says
    <3> QED  BY <1>10, <2>2, <3>1, <3>2, <3>3
  <2> QED  BY <2>1, <2>2 DEF SlotMoves
<1>13. Asked(app)'
  <2> SUFFICES ASSUME slot'.phase = "pending"
               PROVE  \/ app'.approval
                      \/ "answer" \in overtaken'
                      \/ \E n \in 1..Len(v) : v[n].type = "answer"
                      \/ \E n \in 1..Len(down') : down'[n].type = "approval"
    BY DEF Asked, v
  <2>1. slot.phase = "pending" /\ (m.late \/ m.type # "answer")  BY DEF SlotMoves
  <2>2. CASE app.approval  BY <1>2, <2>2 DEF SameStreams
  <2>3. CASE "answer" \in overtaken  BY <2>3
  <2>4. ASSUME NEW n \in 1..Len(u), u[n].type = "answer"
        PROVE  "answer" \in overtaken' \/ \E k \in 1..Len(v) : v[k].type = "answer"
    BY <1>1, <1>4, <2>1, <2>4
  <2>5. CASE \E n \in 1..Len(down) : down[n].type = "approval"
    BY <2>5 DEF Says
  <2> QED  BY <1>0, <2>1, <2>2, <2>3, <2>4, <2>5 DEF Good, Asked
<1> QED  BY <1>2, <1>5, <1>7, <1>9, <1>11, <1>12, <1>13 DEF Good, Gens, App, Message

\* The answers, as far as the other side can tell.
LEMMA SaysOne ==
  ASSUME Types, NEW m, m.stream \in 0..MaxStreams, NEW t \in {m.stream, None},
         NEW types \in Seq(Kinds), Reply(types, t),
         t = None \/ (\A x \in 1..Len(types) : types[x] # "invalid")
           \/ slot'.phase # "active" \/ (slot.phase = "active" /\ m.type = "start")
           \/ (slot.phase = "active" /\ m.type = "chunk" /\ (slot.stream # m.stream \/ m.stream \in rejected'))
  PROVE  Says(m)
<1>1. t \in 0..MaxStreams  BY Bounds DEF None
<1>2. /\ down' \in Seq(Answer) /\ Len(down) \in Nat /\ Len(types) \in Nat
      /\ Len(down') = Len(down) + Len(types)
      /\ \A k \in 1..Len(down) : down'[k] = down[k]
      /\ \A k \in 1..Len(down') : k \in 1..Len(down) \/
           \E x \in 1..Len(types) : k = Len(down) + x /\ down'[k] = [type |-> types[x], stream |-> t]
  BY <1>1, Replies
<1>3. \A k \in 1..Len(down) : k \in 1..Len(down')  BY <1>2
<1>4. ASSUME NEW k \in 1..Len(down'), k \notin 1..Len(down)
      PROVE  /\ down'[k].stream \in {m.stream, None}
             /\ down'[k].type = "invalid" /\ down'[k].stream # None =>
                  \/ slot'.phase # "active"
                  \/ slot.phase = "active" /\ m.type = "start"
                  \/ slot.phase = "active" /\ m.type = "chunk"
                     /\ (slot.stream # m.stream \/ m.stream \in rejected')
  <2>1. PICK x \in 1..Len(types) : down'[k] = [type |-> types[x], stream |-> t]
    BY <1>2, <1>4
  <2>2. down'[k].stream = t /\ down'[k].type = types[x]  BY <2>1
  <2> QED  BY <2>2
<1> QED  BY <1>2, <1>3, <1>4 DEF Says

LEMMA OneKind ==
  ASSUME NEW x \in Kinds
  PROVE  <<x>> \in Seq(Kinds) /\ Len(<<x>>) = 1 /\ <<x>>[1] = x
  OBVIOUS

LEMMA ReceiveKeeps ==
  ASSUME PhoneInv, Receive
  PROVE  PhoneInv'
<1> DEFINE m == Head(app.up)
<1>0. /\ Types /\ Good(app) /\ app \in App /\ app.up # <<>> /\ app.up \in Seq(Message)
      /\ app' = [app EXCEPT !.up = Tail(@)]
      /\ UNCHANGED <<job, held, worker, posted, taps, killed>>
      /\ slot \in SlotSet /\ rejected \subseteq Streams
  BY Fields DEF PhoneInv, Good, Receive, Types
<1>1. m \in Message /\ m.stream \in 0..MaxStreams
  <2>1. m = app.up[1] /\ 1 \in 1..Len(app.up)  BY <1>0
  <2> QED  BY <1>0, <2>1, Elements
<1>2. Free \in SlotSet /\ Free.phase = "free" /\ Free.stream = None
  BY Bounds DEF Free, None
<1> HIDE DEF m
<1>3. /\ SlotMoves(m) /\ Says(m) /\ overtaken \subseteq overtaken' /\ (m.late => m.type \in overtaken')
      /\ rejected \subseteq rejected' /\ rejected' \subseteq Streams
  <2>1. CASE m.late /\ overtaken' = overtaken \union {m.type} /\ Reply(<<"error">>, m.stream)
             /\ UNCHANGED <<slot, rejected>>
    <3>1. SlotMoves(m)  BY <1>0, <2>1 DEF SlotMoves
    <3>2. <<"error">> \in Seq(Kinds) /\ \A x \in 1..Len(<<"error">>) : <<"error">>[x] # "invalid"
      BY OneKind DEF Kinds
    <3>3. Says(m)
      <4>1. Reply(<<"error">>, m.stream)  BY <2>1
      <4> DEFINE y == <<"error">>
      <4> HIDE DEF y
      <4>2. y \in Seq(Kinds) /\ (\A x \in 1..Len(y) : y[x] # "invalid") /\ Reply(y, m.stream)
        BY <3>2, <4>1 DEF y
      <4> QED  BY <1>0, <1>1, <4>2, SaysOne
    <3> QED  BY <1>0, <2>1, <3>1, <3>3
  <2>2. CASE ~m.late /\ AnswerStart(m) /\ UNCHANGED <<rejected, overtaken>>
    <3>1. /\ m.type = "start"
          /\ slot' = (IF slot.phase = "free" THEN [phase |-> "active", stream |-> m.stream, count |-> 0] ELSE slot)
          /\ Reply(IF slot.phase = "free" THEN <<"listening">> ELSE <<"invalid">>, m.stream)
      BY <2>2 DEF AnswerStart
    <3>2. SlotMoves(m)
      <4>1. CASE slot.phase = "free"
        BY <1>0, <1>1, <3>1, <4>1 DEF SlotMoves
      <4>2. CASE slot.phase # "free"
        <5>1. slot' = slot /\ m.type \notin Reasons /\ m.type # "answer"
          BY <3>1, <4>2 DEF Reasons
        <5> QED  BY <1>0, <5>1 DEF SlotMoves
      <4> QED  BY <4>1, <4>2
    <3>3. Says(m)
      <4>1. CASE slot.phase = "free"
        <5> DEFINE y == <<"listening">>
        <5>1. y \in Seq(Kinds) /\ (\A x \in 1..Len(y) : y[x] # "invalid")
          BY OneKind DEF Kinds
        <5>2. Reply(y, m.stream)  BY <3>1, <4>1
        <5> HIDE DEF y
        <5> QED  BY <1>0, <1>1, <5>1, <5>2, SaysOne
      <4>2. CASE slot.phase # "free"
        <5> DEFINE y == <<"invalid">>
        <5>1. y \in Seq(Kinds)  BY OneKind DEF Kinds
        <5>2. Reply(y, m.stream)  BY <3>1, <4>2
        <5>3. slot'.phase # "active" \/ (slot.phase = "active" /\ m.type = "start")
          BY <3>1, <4>2
        <5> HIDE DEF y
        <5> QED  BY <1>0, <1>1, <5>1, <5>2, <5>3, SaysOne
      <4> QED  BY <4>1, <4>2
    <3> QED  BY <1>0, <2>2, <3>2, <3>3
  <2>3. CASE ~m.late /\ AnswerEnd(m) /\ UNCHANGED <<rejected, overtaken>>
    <3>1. m.type \in Reasons /\ m.type # "answer"  BY <2>3 DEF AnswerEnd, Reasons
    <3>2. /\ slot' \in SlotSet /\ slot'.phase # "active" /\ slot'.stream \in {slot.stream, None}
          /\ slot'.phase = "pending" => slot.phase = "pending"
      <4>1. \/ slot' = [slot EXCEPT !.phase = "processing", !.count = 0]
            \/ slot' = Free
            \/ slot' = slot /\ slot.phase # "active"
        BY <2>3 DEF AnswerEnd
      <4>2. CASE slot' = [slot EXCEPT !.phase = "processing", !.count = 0]
        BY <1>0, <4>2
      <4>3. CASE slot' = Free
        BY <1>2, <4>3
      <4>4. CASE slot' = slot /\ slot.phase # "active"
        BY <1>0, <4>4
      <4> QED  BY <4>1, <4>2, <4>3, <4>4
    <3>3. PICK x \in {"thinking", "interrupted", "invalid"} : Reply(<<x>>, m.stream)
      BY <2>3 DEF AnswerEnd
    <3>4. SlotMoves(m)  BY <3>1, <3>2 DEF SlotMoves
    <3>5. Says(m)
      <4> DEFINE y == <<x>>
      <4>1. y \in Seq(Kinds)  BY OneKind DEF Kinds
      <4>2. Reply(y, m.stream)  BY <3>3
      <4> HIDE DEF y
      <4> QED  BY <1>0, <1>1, <3>2, <4>1, <4>2, SaysOne
    <3> QED  BY <1>0, <2>3, <3>4, <3>5
  <2>4. CASE ~m.late /\ AnswerCancelRequest(m) /\ UNCHANGED <<rejected, overtaken>>
    <3>1. m.type = "cancel" /\ m.type \notin Reasons /\ (slot' = Free \/ slot' = slot)
      BY <2>4 DEF AnswerCancelRequest, Reasons
    <3>2. SlotMoves(m)  BY <1>0, <1>2, <3>1 DEF SlotMoves
    <3>3. \/ Reply(<<>>, m.stream) \/ Reply(<<"cancelled", "interrupted">>, m.stream)
          \/ Reply(<<"interrupted">>, m.stream)
      BY <2>4 DEF AnswerCancelRequest
    <3>4. PICK y \in {<<>>, <<"cancelled", "interrupted">>, <<"interrupted">>} : Reply(y, m.stream)
      BY <3>3
    <3>5. y \in Seq(Kinds) /\ \A x \in 1..Len(y) : y[x] # "invalid"
      <4>1. CASE y = <<>>  BY <4>1
      <4>2. CASE y = <<"cancelled", "interrupted">>  BY <4>2 DEF Kinds
      <4>3. CASE y = <<"interrupted">>  BY <4>3, OneKind DEF Kinds
      <4> QED  BY <4>1, <4>2, <4>3
    <3>6. Says(m)  BY <1>0, <1>1, <3>4, <3>5, SaysOne
    <3> QED  BY <1>0, <2>4, <3>2, <3>6
  <2>5. CASE ~m.late /\ AnswerApproval(m) /\ UNCHANGED <<rejected, overtaken>>
    <3>1. /\ m.type = "answer" /\ m.type \notin Reasons
          /\ slot' = (IF slot.phase = "pending" THEN [slot EXCEPT !.phase = "processing"] ELSE slot)
          /\ Reply(IF slot.phase = "pending" THEN <<>> ELSE <<"invalid">>, None)
      BY <2>5 DEF AnswerApproval, Reasons
    <3>2. SlotMoves(m)
      <4>1. /\ slot' \in SlotSet /\ slot'.stream = slot.stream /\ slot'.phase # "pending"
            /\ slot'.phase = "active" => slot.phase = "active"
        BY <1>0, <3>1
      <4> QED  BY <3>1, <4>1 DEF SlotMoves
    <3>3. PICK y \in {<<>>, <<"invalid">>} : Reply(y, None)
      BY <3>1
    <3>4. y \in Seq(Kinds)
      <4>1. CASE y = <<>>  BY <4>1
      <4>2. CASE y = <<"invalid">>  BY <4>2, OneKind DEF Kinds
      <4> QED  BY <4>1, <4>2
    <3>5. Says(m)  BY <1>0, <1>1, <3>3, <3>4, SaysOne
    <3> QED  BY <1>0, <2>5, <3>2, <3>5
  <2>6. CASE ~m.late /\ AnswerChunk(m) /\ UNCHANGED overtaken
    <3> DEFINE fits == Open(m) /\ m.index = slot.count /\ slot.count < Limit
    <3>1. /\ m.type = "chunk" /\ m.type \notin Reasons /\ m.type # "answer"
          /\ slot' = (IF fits THEN [slot EXCEPT !.count = @ + 1] ELSE slot)
          /\ \/ ~fits /\ Reply(<<"invalid">>, m.stream)
             \/ fits /\ UNCHANGED down
             \/ fits /\ Reply(<<"vad_end">>, m.stream)
          /\ rejected' = (IF ~fits /\ Open(m) THEN rejected \union {m.stream} ELSE rejected)
      BY <2>6 DEF AnswerChunk, Reasons
    <3>2. fits => slot.phase = "active"  BY DEF Open
    <3> HIDE DEF fits
    <3>3. slot' \in SlotSet /\ slot'.phase = slot.phase /\ slot'.stream = slot.stream
      BY <1>0, <3>1
    <3>4. SlotMoves(m)  BY <3>1, <3>3 DEF SlotMoves
    <3>5. rejected \subseteq rejected' /\ rejected' \subseteq Streams
      <4>1. Open(m) => m.stream \in Streams
        BY <1>0, <1>1, Bounds DEF Open, Good, SlotAgrees, Streams, None
      <4> QED  BY <1>0, <3>1, <4>1
    <3>6. Says(m)
      <4>1. CASE ~fits /\ Reply(<<"invalid">>, m.stream)
        <5> DEFINE y == <<"invalid">>
        <5>1. y \in Seq(Kinds)  BY OneKind DEF Kinds
        <5>2. Reply(y, m.stream)  BY <4>1
        <5>3. slot'.phase # "active" \/ (slot.phase = "active" /\ m.type = "chunk"
                /\ (slot.stream # m.stream \/ m.stream \in rejected'))
          BY <3>1, <3>3, <4>1 DEF Open
        <5> HIDE DEF y
        <5> QED  BY <1>0, <1>1, <5>1, <5>2, <5>3, SaysOne
      <4>2. CASE UNCHANGED down
        BY <1>0, <4>2 DEF Says, Types
      <4>3. CASE Reply(<<"vad_end">>, m.stream)
        <5> DEFINE y == <<"vad_end">>
        <5>1. y \in Seq(Kinds) /\ (\A x \in 1..Len(y) : y[x] # "invalid")
          BY OneKind DEF Kinds
        <5>2. Reply(y, m.stream)  BY <4>3
        <5> HIDE DEF y
        <5> QED  BY <1>0, <1>1, <5>1, <5>2, SaysOne
      <4> QED  BY <3>1, <4>1, <4>2, <4>3
    <3> QED  BY <2>6, <3>4, <3>5, <3>6
  <2> QED  BY <2>1, <2>2, <2>3, <2>4, <2>5, <2>6 DEF Receive, m
<1>4. Good(app)'
  BY <1>3, ReceiveKeepsGood DEF m
<1>5. Types'
  BY <1>0, <1>3 DEF Types, SlotMoves, Says
<1>6. app'.stream = app.stream /\ app'.active = app.active /\ app'.gen = app.gen
  BY <1>0 DEF App
<1>7. Alive' /\ (worker.gen <= app.gen)'
  BY <1>0, <1>6 DEF PhoneInv, Alive
<1> QED  BY <1>4, <1>5, <1>7 DEF PhoneInv

LEMMA RespondKeeps ==
  ASSUME PhoneInv, Respond
  PROVE  PhoneInv'
<1>0. /\ Types /\ Good(app) /\ app \in App /\ slot \in SlotSet /\ slot.phase = "processing"
      /\ slot.stream \in 0..MaxStreams /\ slot.stream <= app.opened /\ slot.count \in Nat
      /\ UNCHANGED <<app, job, held, worker, posted, killed, overtaken, rejected>>
  BY DEF PhoneInv, Good, Types, Respond, observed, Known
<1>1. PICK y \in {<<"text", "speaking", "audio">>, <<"audio">>, <<"completed">>, <<"error">>, <<"approval">>} :
        /\ Reply(y, slot.stream)
        /\ slot' \in {[slot EXCEPT !.count = @ + 1], Free, [slot EXCEPT !.phase = "pending"]}
        /\ slot' = [slot EXCEPT !.phase = "pending"] => y = <<"approval">>
  <2> DEFINE P(y) == /\ Reply(y, slot.stream)
                     /\ slot' \in {[slot EXCEPT !.count = @ + 1], Free, [slot EXCEPT !.phase = "pending"]}
                     /\ slot' = [slot EXCEPT !.phase = "pending"] => y = <<"approval">>
  <2>0. /\ [slot EXCEPT !.count = @ + 1] # [slot EXCEPT !.phase = "pending"]
        /\ Free # [slot EXCEPT !.phase = "pending"]
    <3>1. [slot EXCEPT !.count = @ + 1].phase = "processing" /\ [slot EXCEPT !.phase = "pending"].phase = "pending"
      BY <1>0
    <3>2. Free.phase = "free"  BY DEF Free
    <3> QED  BY <3>1, <3>2
  <2>1. CASE slot' = [slot EXCEPT !.count = @ + 1]
             /\ Reply(IF slot.count = 0 THEN <<"text", "speaking", "audio">> ELSE <<"audio">>, slot.stream)
    <3>1. P(<<"text", "speaking", "audio">>) \/ P(<<"audio">>)  BY <2>0, <2>1
    <3> QED  BY <3>1
  <2>2. CASE slot' = Free /\ Reply(<<"completed">>, slot.stream)
    <3>1. P(<<"completed">>)  BY <2>0, <2>2
    <3> QED  BY <3>1
  <2>3. CASE slot' = Free /\ Reply(<<"error">>, slot.stream)
    <3>1. P(<<"error">>)  BY <2>0, <2>3
    <3> QED  BY <3>1
  <2>4. CASE slot' = [slot EXCEPT !.phase = "pending"] /\ Reply(<<"approval">>, slot.stream)
    <3>1. P(<<"approval">>)  BY <2>4
    <3> QED  BY <3>1
  <2> QED  BY <2>1, <2>2, <2>3, <2>4 DEF Respond
<1>2. y \in Seq(Kinds) /\ \A x \in 1..Len(y) : y[x] # "invalid"
  <2>1. CASE y = <<"text", "speaking", "audio">>  BY <2>1 DEF Kinds
  <2>2. CASE y \in {<<"audio">>, <<"completed">>, <<"error">>, <<"approval">>}
    <3>1. PICK z \in {"audio", "completed", "error", "approval"} : y = <<z>>  BY <2>2
    <3>2. z \in Kinds  BY DEF Kinds
    <3> QED  BY <3>1, <3>2, OneKind
  <2> QED  BY <1>1, <2>1, <2>2
<1>3. /\ down' \in Seq(Answer) /\ Len(down) \in Nat /\ Len(y) \in Nat
      /\ Len(down') = Len(down) + Len(y)
      /\ \A k \in 1..Len(down) : down'[k] = down[k]
      /\ \A k \in 1..Len(down') : k \in 1..Len(down) \/
           \E x \in 1..Len(y) : k = Len(down) + x /\ down'[k] = [type |-> y[x], stream |-> slot.stream]
  <2>1. Types /\ y \in Seq(Kinds) /\ slot.stream \in 0..MaxStreams /\ Reply(y, slot.stream)
    BY <1>0, <1>1, <1>2
  <2> QED  BY ONLY <2>1, Replies
<1>4. /\ slot' \in SlotSet /\ slot'.phase # "active" /\ slot'.stream \in {slot.stream, None}
      /\ slot'.phase = "pending" => slot' = [slot EXCEPT !.phase = "pending"]
  <2>1. CASE slot' = [slot EXCEPT !.count = @ + 1]  BY <1>0, <2>1
  <2>2. CASE slot' = Free  BY <2>2, Bounds DEF Free, None
  <2>3. CASE slot' = [slot EXCEPT !.phase = "pending"]  BY <1>0, <2>3
  <2> QED  BY <1>1, <2>1, <2>2, <2>3
<1>5. ASSUME NEW k \in 1..Len(down'), k \notin 1..Len(down)
      PROVE  down'[k].stream = slot.stream /\ down'[k].type # "invalid"
  <2>1. PICK x \in 1..Len(y) : down'[k] = [type |-> y[x], stream |-> slot.stream]
    BY <1>3, <1>5
  <2> QED  BY <1>2, <2>1
<1>6. Known(app)'
  <2>1. \A k \in 1..Len(down') : down'[k].stream <= app.opened
    BY <1>0, <1>3, <1>5 DEF Good, Known
  <2>2. slot'.stream <= app.opened
    BY <1>0, <1>4, Fields DEF None
  <2> QED  BY <1>0, <2>1, <2>2 DEF Good, Known
<1>7. StartsFirst(app)'
  <2> SUFFICES ASSUME NEW n \in 1..Len(app.up), app.up[n].type = "start"
               PROVE  /\ app.up[n].stream # None
                      /\ \A k \in 1..(n - 1) : app.up[k].stream # app.up[n].stream
                      /\ \A k \in 1..Len(down') :
                           down'[k].type = "invalid" => down'[k].stream # app.up[n].stream
    BY <1>0, <1>4 DEF StartsFirst
  <2>1. ASSUME NEW k \in 1..Len(down'), down'[k].type = "invalid"
        PROVE  down'[k].stream # app.up[n].stream
    <3>1. k \in 1..Len(down) /\ down'[k] = down[k]  BY <1>3, <1>5, <2>1
    <3> QED  BY <1>0, <2>1, <3>1 DEF Good, StartsFirst
  <2> QED  BY <1>0, <2>1 DEF Good, StartsFirst
<1>8. StartsAgree(app)' /\ Gens(app)'
  BY <1>0 DEF Good, StartsAgree, Agreed, EndIsSent, Gens
<1>9. SlotAgrees(app)'
  BY <1>4 DEF SlotAgrees
<1>10. Asked(app)'
  <2> SUFFICES ASSUME slot'.phase = "pending"
               PROVE  \E n \in 1..Len(down') : down'[n].type = "approval"
    BY DEF Asked
  <2>1. y = <<"approval">>  BY <1>1, <1>4
  <2>2. Len(y) = 1 /\ y[1] = "approval"  BY <2>1
  <2>3. Len(down) + 1 \in 1..Len(down') /\ Len(down) + 1 \notin 1..Len(down)  BY <1>3, <2>2
  <2>4. PICK x \in 1..Len(y) : down'[Len(down) + 1] = [type |-> y[x], stream |-> slot.stream]
    BY <1>3, <2>3
  <2>5. x = 1  BY <2>2
  <2> QED  BY <2>2, <2>3, <2>4, <2>5
<1>11. Good(app)'
  BY <1>0, <1>6, <1>7, <1>8, <1>9, <1>10 DEF Good, App, Message
<1>12. Types'
  BY <1>0, <1>3, <1>4 DEF Types
<1> QED  BY <1>0, <1>11, <1>12 DEF PhoneInv, Alive

\* The first state, and every step.
LEMMA PhoneInitKeeps == PhoneInit => PhoneInv
<1> SUFFICES ASSUME PhoneInit PROVE PhoneInv
  OBVIOUS
<1>0. /\ None \in 0..MaxStreams /\ None = 0 /\ MaxStreams \in Nat
      /\ <<>> \in Seq(CommandSet) /\ <<>> \in Seq(Message) /\ <<>> \in Seq(Answer)
  BY Bounds DEF None
<1>1. /\ app.stream = None /\ app.target = None /\ app.opened = 0 /\ ~app.active /\ app.gen = 1
      /\ app.commands = <<>> /\ app.track = NoTrack /\ app.up = <<>> /\ app.abandoned = {}
  BY DEF PhoneInit
<1>2. app \in App
  <2>1. app = [conversation |-> TRUE, assistant |-> "idle", target |-> None, approval |-> FALSE,
               stream |-> None, chunk |-> 0, opened |-> 0, active |-> FALSE,
               gen |-> 1, commands |-> <<>>, track |-> NoTrack,
               up |-> <<>>, fresh |-> FALSE, sent |-> 0, abandoned |-> {}]
    BY DEF PhoneInit
  <2>2. 0 \in 0..MaxStreams /\ {} \in SUBSET Streams  BY <1>0
  <2> QED  BY <1>0, <2>1, <2>2, NoTrackIs DEF App, CommandSet
<1>3. /\ held = [s \in Streams |-> NoChunk] /\ slot = Free /\ down = <<>> /\ worker = Idle
      /\ job = [s \in Streams |-> "none"] /\ posted = {} /\ killed = {} /\ overtaken = {} /\ rejected = {}
  BY DEF PhoneInit
<1>4. Types
  <2>1. NoChunk \in ChunkSet
    BY <1>0 DEF NoChunk
  <2>2. held \in [Streams -> ChunkSet]
    BY <1>3, <2>1
  <2>3. job \in [Streams -> Jobs]  BY <1>3 DEF Jobs
  <2>4. slot \in SlotSet
    BY <1>0, <1>3 DEF Free
  <2> QED  BY <1>0, <1>3, <2>2, <2>3, <2>4, IdleIs DEF Types
<1>5. Good(app)
  <2>1. Gens(app)  BY <1>0, <1>1, NoTrackIs DEF Gens
  <2>2. \A s \in Streams : held[s].stream = None  BY <1>3 DEF NoChunk
  <2>3. slot.stream = None /\ slot.phase = "free"  BY <1>3 DEF Free
  <2>4. Known(app)  BY <1>0, <1>1, <1>3, <2>2, <2>3 DEF Known
  <2>5. StartsFirst(app) /\ StartsAgree(app) /\ SlotAgrees(app) /\ Asked(app)
    BY <1>1, <2>3 DEF StartsFirst, StartsAgree, SlotAgrees, Asked
  <2> QED  BY <1>2, <2>1, <2>4, <2>5 DEF Good
<1>6. worker.gen <= app.gen  BY <1>1, <1>3, IdleIs
<1>7. Alive
  BY <1>1, <1>3 DEF Alive
<1> QED  BY <1>4, <1>5, <1>6, <1>7 DEF PhoneInv

LEMMA PhoneInvStep == PhoneInv /\ [PhoneNext]_phoneVars => PhoneInv'
<1> SUFFICES ASSUME PhoneInv, [PhoneNext]_phoneVars PROVE PhoneInv'
  OBVIOUS
<1>1. CASE Tap  BY <1>1, TapKeeps
<1>2. CASE PlaybackComplete  BY <1>2, PlaybackCompleteKeeps
<1>3. CASE RecorderFailed  BY <1>3, RecorderFailedKeeps
<1>4. CASE HandleEnvelope  BY <1>4, HandleEnvelopeKeeps
<1>5. CASE Recorder
  <2> SUFFICES ASSUME NEW s \in Streams,
                      \/ Recording(s) \/ ReadReturns(s) \/ Number(s) \/ PassOn(s)
                      \/ Overtake(s) \/ Closes(s)
               PROVE  PhoneInv'
    BY <1>5 DEF Recorder
  <2> QED  BY RecordingKeeps, ReadReturnsKeeps, NumberKeeps, PassOnKeeps, OvertakeKeeps, ClosesKeeps
<1>6. CASE Player  BY <1>6, PlayerKeeps
<1>7. CASE Receive  BY <1>7, ReceiveKeeps
<1>8. CASE Respond  BY <1>8, RespondKeeps
<1>9. CASE UNCHANGED phoneVars
  <2>1. UNCHANGED <<app, job, held, worker, posted, slot, down, killed, overtaken, rejected>>
    BY <1>9 DEF phoneVars, server, observed
  <2>2. Types' /\ Alive'
    BY <2>1 DEF PhoneInv, Types, Alive
  <2>3. Good(app)'
    <3>1. Good(app) /\ \A s \in Streams : held'[s].stream <= app.opened
      BY <2>1 DEF PhoneInv, Good, Known
    <3> QED  BY <2>1, <3>1, OtherThread
  <2> QED  BY <2>1, <2>2, <2>3 DEF PhoneInv
<1> QED  BY <1>1, <1>2, <1>3, <1>4, <1>5, <1>6, <1>7, <1>8, <1>9 DEF PhoneNext

\* What the property says is what the invariant says of a connection with
\* nothing on its way.
LEMMA PhoneInvSound == PhoneInv => VoiceIsSound
<1> SUFFICES ASSUME PhoneInv PROVE VoiceIsSound
  OBVIOUS
<1>0. Types /\ Good(app) /\ app \in App  BY DEF PhoneInv, Good
<1>1. PhoneTypeOK
  <2>1. /\ app.stream \in 0..MaxStreams /\ app.target \in 0..MaxStreams /\ app.opened \in 0..MaxStreams
        /\ app.active \in BOOLEAN /\ app.conversation \in BOOLEAN /\ app.approval \in BOOLEAN
        /\ app.abandoned \subseteq Streams
    BY <1>0 DEF App
  <2>2. app.track \in [state : {"none", "playing", "paused"}, gen : 0..app.gen]
    <3>1. app.track \in TrackSet /\ app.gen \in Nat
          /\ app.track.gen <= app.gen
      BY <1>0, Fields DEF Good, Gens
    <3> QED  BY <3>1
  <2> QED  BY <1>0, <2>1, <2>2 DEF PhoneTypeOK, PhoneInv, Types
<1>2. NoStaleAudio
  BY <1>0 DEF Good, Gens, NoStaleAudio
<1>3. InFlight \/ (Len(app.up) = 0 /\ Len(down) = 0)
  BY DEF InFlight
<1>4. StreamsAgree
  <2> SUFFICES ASSUME slot.phase = "active", ~InFlight
               PROVE  app.stream = slot.stream \/ slot.stream \in rejected \union app.abandoned \/ overtaken # {}
    BY DEF StreamsAgree
  <2>1. ~EndIsSent(app, 0, slot.stream)  BY <1>3 DEF EndIsSent
  <2> QED  BY <1>0, <2>1 DEF Good, SlotAgrees, Agreed
<1>5. ApprovalsAgree
  <2> SUFFICES ASSUME slot.phase = "pending", ~InFlight
               PROVE  app.approval \/ "answer" \in overtaken
    BY DEF ApprovalsAgree
  <2> QED  BY <1>0, <1>3 DEF Good, Asked
<1>6. RecordingIsAlive
  BY DEF PhoneInv, Alive, RecordingIsAlive
<1> QED  BY <1>1, <1>2, <1>4, <1>5, <1>6 DEF VoiceIsSound

\* Between a message and its answer the phone and the server may differ, and
\* the invariant says how.
THEOREM PhoneInvariant == PhoneSpec => []PhoneInv
<1>1. PhoneInit => PhoneInv  BY PhoneInitKeeps
<1>2. PhoneInv /\ [PhoneNext]_phoneVars => PhoneInv'  BY PhoneInvStep
<1> QED  BY <1>1, <1>2, PTL DEF PhoneSpec

\* Whatever the interleaving of the main thread, the recorders and the player,
\* and however many recordings, chunks and taps: no audio of a playback that
\* was stopped is heard, the server keeps no stream open and no question
\* unanswered that the app has given up, and the app does not take itself to
\* be recording when no job records - but for the races that the property
\* names.
THEOREM VoiceSoundness == PhoneSpec => []VoiceIsSound
  BY PhoneInvariant, PhoneInvSound, PTL

\* The stream after a handler is the one the handler leaves.
LEMMA MainToStream ==
  ASSUME NEW b, MainTo(b), PhoneInv, Good(b)
  PROVE  app'.stream = b.stream
  BY DEF MainTo, Good, App

\* A recording stops for the user, the end of speech, the refusal of its own
\* stream, or a failure of the recorder: stopListening is reached from no
\* answer to an earlier stream and from no end of an earlier playback.
THEOREM RecordingsGoOn == PhoneSpec => RecordingGoesOn
<1> DEFINE Reasonable == \A s \in Streams : Stops(s) =>
             \/ taps' # taps
             \/ "failed" \in posted
             \/ s \in killed
             \/ down # <<>> /\ (Head(down).type = "vad_end" \/ Head(down).stream = s)
           Counted == taps \in Nat
<1>1. PhoneInv /\ Counted /\ [PhoneNext]_phoneVars => Reasonable
  <2> SUFFICES ASSUME PhoneInv, Counted, [PhoneNext]_phoneVars, NEW s \in Streams,
                      app.stream = s, app'.stream # s, taps' = taps,
                      "failed" \notin posted, s \notin killed
               PROVE  down # <<>> /\ (Head(down).type = "vad_end" \/ Head(down).stream = s)
    BY DEF Stops
  <2>0. Types /\ Good(app) /\ app \in App  BY DEF PhoneInv, Good
  <2>1. app.active
    <3>1. app.stream # None  BY DEF Streams, None
    <3> QED  BY <3>1 DEF PhoneInv, Alive
  <2>2. CASE Tap  BY <2>2 DEF Tap
  <2>3. CASE PlaybackComplete
    <3>1. CASE MainTo(app)  BY <2>0, <3>1, MainToStream
    <3>2. ASSUME NEW how \in Outcomes, MainTo(StartListening([app EXCEPT !.assistant = "idle"], how))
          PROVE  FALSE
      <4> DEFINE a == [app EXCEPT !.assistant = "idle"]
                 b == StartListening(a, how)
      <4>1. a \in App /\ SamePlayer(app, a) /\ SameStreams(app, a) /\ a.up = app.up
        BY <2>0 DEF App, SamePlayer, SameStreams
      <4>2. MainTo(b)  BY <3>2
      <4> HIDE DEF a
      <4>3. Good(a)
        <5>1. Gens(a)  BY <2>0, <4>1 DEF Good, Gens, SamePlayer
        <5> QED  BY <2>0, <4>1, <5>1, PlayerOnly
      <4>4. Good(b) /\ (b.stream = app.stream \/ ~app.active)  BY <4>1, <4>3, StartsAgain
      <4> HIDE DEF b
      <4> QED  BY <2>1, <4>2, <4>4, MainToStream
    <3> QED  BY <2>3, <3>1, <3>2 DEF PlaybackComplete
  <2>4. CASE RecorderFailed  BY <2>4 DEF RecorderFailed
  <2>5. CASE HandleEnvelope
    <3>1. PICK how \in Outcomes : MainTo(Handle(app, Head(down), how))
      BY <2>5 DEF HandleEnvelope
    <3>2. down # <<>>  BY <2>5 DEF HandleEnvelope
    <3> DEFINE m == Head(down)
               b == Handle(app, m, how)
    <3>3. b.stream = app.stream \/ ~app.active \/ m.type = "vad_end" \/ m.stream = app.stream
      BY <3>2, HandleIsGood
    <3>4. app' = [b EXCEPT !.fresh = b.up # app.up]  BY <3>1 DEF MainTo
    <3> HIDE DEF b
    <3>5. app'.stream = b.stream  BY <3>4
    <3> QED  BY <2>1, <3>2, <3>3, <3>5
  <2>6. CASE Recorder
    <3>1. PICK x \in Streams : \/ Recording(x) \/ ReadReturns(x) \/ Number(x) \/ PassOn(x)
                               \/ Overtake(x) \/ Closes(x)
      BY <2>6 DEF Recorder
    <3> QED  BY <2>0, <3>1 DEF Recording, ReadReturns, Number, PassOn, Overtake, Closes, App
  <2>7. CASE Player
    BY <2>0, <2>7 DEF Player, Take, Write, Drain, App
  <2>8. CASE Receive
    BY <2>0, <2>8 DEF Receive, App
  <2>9. CASE Respond
    BY <2>9 DEF Respond
  <2>10. CASE UNCHANGED phoneVars
    BY <2>10 DEF phoneVars
  <2> QED  BY <2>2, <2>3, <2>4, <2>5, <2>6, <2>7, <2>8, <2>9, <2>10 DEF PhoneNext
<1>2. PhoneInit => Counted  BY DEF PhoneInit
<1>3. Counted /\ [PhoneNext]_phoneVars => Counted'
  <2> SUFFICES ASSUME Counted, [PhoneNext]_phoneVars PROVE taps' \in Nat
    OBVIOUS
  <2>1. taps' = taps + 1 \/ taps' = taps
    <3>1. CASE Tap  BY <3>1 DEF Tap
    <3>2. CASE PlaybackComplete \/ RecorderFailed \/ HandleEnvelope
      BY <3>2 DEF PlaybackComplete, RecorderFailed, HandleEnvelope
    <3>3. CASE Recorder
      BY <3>3 DEF Recorder, Recording, ReadReturns, Number, PassOn, Overtake, Closes
    <3>4. CASE Player  BY <3>4 DEF Player, Take, Write, Drain
    <3>5. CASE Receive \/ Respond  BY <3>5 DEF Receive, Respond
    <3>6. CASE UNCHANGED phoneVars  BY <3>6 DEF phoneVars
    <3> QED  BY <3>1, <3>2, <3>3, <3>4, <3>5, <3>6 DEF PhoneNext
  <2> QED  BY <2>1
<1>4. RecordingGoesOn <=> [][Reasonable]_phoneVars
  BY DEF RecordingGoesOn
<1> QED  BY <1>1, <1>2, <1>3, <1>4, PhoneInvariant, PTL DEF PhoneSpec

=============================================================================
