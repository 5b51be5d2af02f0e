---------------------------- MODULE ObserverProofs ----------------------------
(***************************************************************************)
(* Proofs about Projection and about Observer, which lives on it: for any  *)
(* number of builders and rebuilds beside each other, any size of a batch, *)
(* any number of requests, visits and failures and any limits of the feed  *)
(* and of a page.                                                          *)
(*                                                                         *)
(* No lock keeps builders apart: what a builder read may be stale, but only*)
(* by being older (Sound), and then its rows meet rows that are there -    *)
(* unless these were erased since (late), and then its save is the one that*)
(* tears.                                                                  *)
(*                                                                         *)
(* What the screen, the stream and the requests know of the projection     *)
(* stays at or below its position (Knows), since that only grows until     *)
(* somebody rebuilds it; so whatever is read later has at least what was   *)
(* delivered before. What is shown is a row of positions with the last one *)
(* delivered in it (Anchored), and what the stream brings is the row that  *)
(* follows.                                                                *)
(***************************************************************************)
EXTENDS Observer, TLAPS, SequenceTheorems, FiniteSetTheorems

-----------------------------------------------------------------------------
(* The projection.                                                         *)

(* The events up to n.                                                     *)
Told(n) == [i \in 1 .. n |-> i]

(* How much the projection shows.                                          *)
Shown(at) == IF at = None THEN 0 ELSE at.event

Mid == {"agents", "events", "save"}

(* What holds of a builder when the journal has all events, late or not.   *)
Honest(k, all) ==
  /\ k.step \in Mid => k.seen # None /\ k.seen.sequence = k.seen.event /\ k.seen.event <= all
  /\ k.step = "save" => k.seen.event < k.upto /\ k.upto <= all

(* What one may rely on whose rows were not erased.                        *)
Sound(k, at) ==
  /\ k.step \in Mid => at # None /\ k.seen.event <= at.event
  /\ k.step \in {"events", "save"} =>
       k.found /\ \E n \in k.seen.event .. at.event : k.cards = Told(n)

(* Feed, cards and builders while nothing is torn.                         *)
Untorn ==
  /\ feed = Told(Shown(position)) /\ agents = Told(Shown(position))
  /\ \A b \in Builders : ~builder[b].late => Sound(builder[b], position)

(* What is torn still has no event in another's place.                     *)
InPlace ==
  /\ \A p \in DOMAIN feed : feed[p] = p /\ p <= journal
  /\ position # None => position.event = position.sequence /\ position.event <= journal

IInv ==
  /\ TypeOK /\ InPlace
  /\ \A b \in Builders : Honest(builder[b], journal)
  /\ ~torn => Untorn

-----------------------------------------------------------------------------
(* Nothing happened yet: the empty sequence tells the events up to none.   *)
LEMMA NothingTold == Told(0) = << >>
<1>1. Told(0) \in Seq(Nat) /\ Len(Told(0)) = 0
  BY DEF Told
<1>2. QED
  BY <1>1, EmptySeq

LEMMA ToldIsSeq ==
  ASSUME NEW n \in 0 .. MaxJournal
  PROVE  Told(n) \in Seq(Events) /\ Len(Told(n)) = n
<1>1. n \in Nat /\ \A i \in 1 .. n : i \in Events
  BY ProjectionAssumption DEF Events
<1>2. QED
  BY <1>1 DEF Told

(* The events after n, told after those up to n.                           *)
LEMMA ToldOn ==
  ASSUME NEW n \in Nat, NEW m \in Nat, n <= m
  PROVE  Told(n) \o [i \in 1 .. m - n |-> n + i] = Told(m)
<1> DEFINE old == Told(n)
           more == [i \in 1 .. m - n |-> n + i]
<1>1. m - n \in Nat /\ n + (m - n) = m
  OBVIOUS
<1>2. old \in Seq(Nat) /\ Len(old) = n /\ \A i \in 1 .. n : old[i] = i
  BY DEF Told
<1>3. more \in Seq(Nat) /\ Len(more) = m - n /\ \A i \in 1 .. m - n : more[i] = n + i
  BY <1>1
<1>4. Told(m) \in Seq(Nat) /\ Len(Told(m)) = m /\ \A i \in 1 .. m : Told(m)[i] = i
  BY DEF Told
<1> HIDE DEF old, more
<1>5. /\ old \o more \in Seq(Nat) /\ Len(old \o more) = m
      /\ \A i \in 1 .. m : (old \o more)[i] = IF i <= n THEN old[i] ELSE more[i - n]
  BY <1>1, <1>2, <1>3, ConcatProperties
<1>6. ASSUME NEW i \in 1 .. m PROVE (old \o more)[i] = Told(m)[i]
  <2>1. CASE i <= n
    BY <1>2, <1>4, <1>5, <2>1
  <2>2. CASE ~(i <= n)
    <3>1. i - n \in 1 .. m - n /\ n + (i - n) = i
      BY <2>2
    <3>2. QED
      BY <1>3, <1>4, <1>5, <2>2, <3>1
  <2>3. QED
    BY <2>1, <2>2
<1>7. old \o more = Told(m)
  BY <1>4, <1>5, <1>6, SeqEqual
<1>8. QED
  BY <1>7 DEF old, more

(* A process that is not in the middle of a step relies on nothing.        *)
LEMMA RestIsSound ==
  ASSUME NEW k, k.step \notin Mid, NEW at, NEW all
  PROVE  Honest(k, all) /\ Sound(k, at)
<1>1. QED
  BY DEF Honest, Sound, Mid

LEMMA DownIsProcess == Down \in Process /\ Down.step \notin Mid
<1>1. << >> \in Seq(Events) /\ 0 \in 0 .. MaxJournal
  BY ProjectionAssumption
<1>2. QED
  BY <1>1 DEF Down, Process, Steps, Modes, Mid

(* A process between two steps.                                            *)
LEMMA AtStepIsProcess ==
  ASSUME TypeOK, NEW b \in Builders, NEW s \in Steps
  PROVE  AtStep(b, s) \in Process /\ AtStep(b, s).step = s
<1>1. << >> \in Seq(Events) /\ 0 \in 0 .. MaxJournal
  BY ProjectionAssumption
<1>2. builder[b].mode \in Modes
  BY DEF TypeOK, Process
<1>3. QED
  BY <1>1, <1>2 DEF AtStep, Down, Process

(* The journal only grows, and so does the position while others work.     *)
LEMMA HonestGrows ==
  ASSUME NEW k \in Process, NEW all \in Nat, NEW all2 \in Nat, Honest(k, all), all <= all2
  PROVE  Honest(k, all2)
<1>1. k.seen \in Positions \cup {None} /\ k.upto \in Nat
  BY ProjectionAssumption DEF Process
<1>2. k.seen # None => k.seen.event \in Nat
  BY <1>1, ProjectionAssumption DEF Positions
<1>3. QED
  BY <1>1, <1>2 DEF Honest

LEMMA SoundGrows ==
  ASSUME NEW k \in Process, NEW all, Honest(k, all),
         NEW at \in Positions \cup {None}, NEW at2 \in Positions \cup {None},
         Sound(k, at), at # None => at2 # None /\ at.event <= at2.event
  PROVE  Sound(k, at2)
<1> USE DEF Positions, Mid
<1>0. k.seen \in Positions \cup {None}
  BY DEF Process
<1>1. k.step \in Mid => at2 # None /\ at.event <= at2.event /\ k.seen # None /\ k.seen.event <= at2.event
  BY <1>0 DEF Sound, Honest
<1>2. ASSUME k.step \in {"events", "save"}
      PROVE  k.found /\ \E n \in k.seen.event .. at2.event : k.cards = Told(n)
  <2>1. PICK n \in k.seen.event .. at.event : k.cards = Told(n)
    BY <1>2 DEF Sound
  <2>2. n \in k.seen.event .. at2.event
    BY <1>0, <1>1, <1>2, <2>1 DEF Sound
  <2>3. QED
    BY <1>2, <2>1, <2>2 DEF Sound
<1>3. QED
  BY <1>1, <1>2 DEF Sound

(* A builder that fails goes back to where it can try again.               *)
LEMMA GivesUpRests ==
  ASSUME TypeOK, NEW b \in Builders
  PROVE  GivesUp(b) \in Process /\ GivesUp(b).step \notin Mid
<1>1. "closed" \in Steps \ Mid /\ "idle" \in Steps \ Mid
  BY DEF Steps, Mid
<1>2. builder[b].mode \in {"worker", "rebuild"}
  BY DEF TypeOK, Process, Modes
<1>3. GivesUp(b) \in {Down, AtStep(b, "closed"), AtStep(b, "idle")}
  BY <1>2 DEF GivesUp
<1>4. QED
  BY <1>1, <1>3, DownIsProcess, AtStepIsProcess

(* Nat and its parts, as the steps need them.                              *)
LEMMA Numbers ==
  ASSUME TypeOK
  PROVE  /\ journal \in Nat /\ Shown(position) \in 0 .. MaxJournal
         /\ position # None => position.event \in Nat /\ position.sequence \in Nat
<1>1. QED
  BY ProjectionAssumption DEF TypeOK, Positions, Shown

-----------------------------------------------------------------------------
LEMMA InitIInv == Init => IInv
<1> SUFFICES ASSUME Init PROVE IInv
  OBVIOUS
<1>1. << >> \in Seq(Events) /\ 0 \in 0 .. MaxJournal /\ 0 \in 0 .. MaxFaults /\ 0 \in 0 .. MaxRebuilds
  BY ProjectionAssumption
<1>2. DOMAIN feed = {} /\ Range(feed) = {}
  BY DEF Init, Range
<1>3. TypeOK
  BY <1>1, <1>2, DownIsProcess DEF Init, TypeOK
<1>4. InPlace
  BY <1>2 DEF Init, InPlace
<1>5. \A b \in Builders : Honest(builder[b], journal) /\ Sound(builder[b], position)
  BY DownIsProcess, RestIsSound DEF Init
<1>6. Untorn
  BY <1>5, NothingTold DEF Init, Untorn, Shown
<1>7. QED
  BY <1>3, <1>4, <1>5, <1>6 DEF IInv

(* A step that writes no table.                                            *)
LEMMA QuietStep ==
  ASSUME IInv, NEW b \in Builders, NEW k \in Process,
         builder' = [builder EXCEPT ![b] = k], UNCHANGED <<journal, tables>>,
         faults' \in 0 .. MaxFaults, rebuilds' \in 0 .. MaxRebuilds,
         Honest(k, journal), ~torn /\ ~k.late => Sound(k, position)
  PROVE  IInv'
<1>1. TypeOK' /\ InPlace'
  BY DEF IInv, TypeOK, InPlace, tables
<1>2. \A c \in Builders : Honest(builder'[c], journal')
  BY DEF IInv, TypeOK
<1>3. ~torn' => Untorn'
  BY DEF IInv, TypeOK, Untorn, tables
<1>4. QED
  BY <1>1, <1>2, <1>3 DEF IInv

(* One after which the process is not in the middle of a step.             *)
LEMMA RestStep ==
  ASSUME IInv, NEW b \in Builders, NEW k \in Process, k.step \notin Mid,
         builder' = [builder EXCEPT ![b] = k], UNCHANGED <<journal, tables>>,
         faults' \in 0 .. MaxFaults, rebuilds' \in 0 .. MaxRebuilds
  PROVE  IInv'
<1>1. Honest(k, journal) /\ Sound(k, position)
  BY RestIsSound
<1>2. QED
  BY <1>1, QuietStep

(* An exception leaves the tables as they are.                             *)
LEMMA ThrowStep ==
  ASSUME IInv, NEW b \in Builders, Throw(b), UNCHANGED journal,
         faults' \in 0 .. MaxFaults, rebuilds' \in 0 .. MaxRebuilds
  PROVE  IInv'
<1>1. GivesUp(b) \in Process /\ GivesUp(b).step \notin Mid
  BY GivesUpRests DEF IInv
<1>2. builder' = [builder EXCEPT ![b] = GivesUp(b)] /\ UNCHANGED <<journal, tables>>
  BY DEF Throw
<1>3. QED
  BY <1>1, <1>2, RestStep

LEMMA OpenStep ==
  ASSUME IInv, NEW b \in Builders, Open(b), UNCHANGED <<journal, faults, rebuilds>>
  PROVE  IInv'
<1> DEFINE s == IF position = None THEN "create"
                ELSE IF builder[b].mode = "rebuild" THEN "reset" ELSE "idle"
<1>1. s \in Steps /\ s \notin Mid
  BY DEF Steps, Mid
<1>2. builder' = [builder EXCEPT ![b] = AtStep(b, s)] /\ UNCHANGED tables
  BY DEF Open
<1>3. faults' \in 0 .. MaxFaults /\ rebuilds' \in 0 .. MaxRebuilds
  BY DEF IInv, TypeOK
<1> HIDE DEF s
<1>4. AtStep(b, s) \in Process /\ AtStep(b, s).step \notin Mid
  BY <1>1, AtStepIsProcess DEF IInv
<1>5. QED
  BY <1>2, <1>3, <1>4, RestStep

(* A projection that is made begins with genesis and no feed.              *)
LEMMA CreateStep ==
  ASSUME IInv, NEW b \in Builders, Create(b), UNCHANGED <<journal, faults, rebuilds>>
  PROVE  IInv'
<1>1. faults' \in 0 .. MaxFaults /\ rebuilds' \in 0 .. MaxRebuilds
  BY DEF IInv, TypeOK
<1>2. CASE position # None
  BY <1>1, <1>2, ThrowStep DEF Create
<1>3. CASE position = None
  <2> DEFINE s == IF builder[b].mode = "rebuild" /\ builder[b].step = "create" THEN "reset" ELSE "idle"
  <2>1. /\ position' = Genesis /\ agents' = << >> /\ feed' = feed /\ torn' = torn
        /\ builder' = [builder EXCEPT ![b] = AtStep(b, s)]
    BY <1>3 DEF Create
  <2>2. s \in Steps /\ s \notin Mid
    BY DEF Steps, Mid
  <2> HIDE DEF s
  <2>3. AtStep(b, s) \in Process /\ AtStep(b, s).step \notin Mid
    BY <2>2, AtStepIsProcess DEF IInv
  <2>4. Genesis \in Positions /\ Genesis # None /\ Genesis.event = 0 /\ Genesis.sequence = 0
    BY ProjectionAssumption DEF Genesis, Positions
  <2>5. journal \in Nat /\ journal' = journal
    BY Numbers DEF IInv
  <2>6. TypeOK'
    <3>1. builder' \in [Builders -> Process] /\ agents' \in Seq(Events)
      BY <2>1, <2>3 DEF IInv, TypeOK
    <3>2. QED
      BY <2>1, <2>4, <3>1 DEF IInv, TypeOK
  <2>7. InPlace'
    BY <2>1, <2>4, <2>5 DEF IInv, InPlace
  <2>8. \A c \in Builders : Honest(builder'[c], journal')
    BY <2>1, <2>3, <2>5, RestIsSound DEF IInv, TypeOK
  <2>9. ASSUME ~torn' PROVE Untorn'
    <3>1. Untorn /\ feed = << >>
      BY <1>3, <2>1, <2>9, NothingTold DEF IInv, Untorn, Shown
    <3>2. feed' = Told(Shown(position')) /\ agents' = Told(Shown(position'))
      BY <2>1, <2>4, <3>1, NothingTold DEF Shown
    <3>3. ASSUME NEW c \in Builders, ~builder'[c].late PROVE Sound(builder'[c], position')
      <4>1. CASE c = b
        BY <2>1, <2>3, <4>1, RestIsSound DEF IInv, TypeOK
      <4>2. CASE c # b
        <5>1. builder'[c] = builder[c] /\ Sound(builder[c], position)
          BY <2>1, <3>1, <3>3, <4>2 DEF IInv, TypeOK, Untorn
        <5>2. builder[c].step \notin Mid
          BY <1>3, <5>1 DEF Sound
        <5>3. QED
          BY <5>1, <5>2, RestIsSound
      <4>3. QED
        BY <4>1, <4>2
    <3>4. QED
      BY <3>2, <3>3 DEF Untorn
  <2>10. QED
    BY <2>6, <2>7, <2>8, <2>9 DEF IInv
<1>4. QED
  BY <1>2, <1>3

(* After a reset whoever is in the middle of a step is late.               *)
LEMMA ResetStep ==
  ASSUME IInv, NEW b \in Builders, Reset(b), UNCHANGED <<journal, faults, rebuilds>>
  PROVE  IInv'
<1>1. AtStep(b, "recreate") \in Process /\ AtStep(b, "recreate").step \notin Mid
  BY AtStepIsProcess DEF IInv, Steps, Mid
<1>2. position' = None /\ agents' = << >> /\ feed' = << >> /\ torn' = FALSE
  BY DEF Reset
<1>3. ASSUME NEW c \in Builders, c # b
      PROVE  /\ builder'[c] \in Process /\ builder'[c].step = builder[c].step
             /\ builder'[c].late = (builder[c].step \in Mid)
             /\ builder'[c].seen = builder[c].seen /\ builder'[c].upto = builder[c].upto
  <2>1. builder'[c] = [builder[c] EXCEPT !.late = MidStep(c)]
    BY <1>3 DEF Reset
  <2>2. builder[c] \in Process /\ MidStep(c) \in BOOLEAN /\ MidStep(c) = (builder[c].step \in Mid)
    BY DEF IInv, TypeOK, MidStep, Mid
  <2>3. QED
    BY <2>1, <2>2 DEF Process
<1>4. builder'[b] = AtStep(b, "recreate") /\ builder' = [c \in Builders |-> builder'[c]]
  BY DEF Reset
<1>5. TypeOK'
  <2>1. DOMAIN feed' = {} /\ Range(feed') = {}
    BY <1>2 DEF Range
  <2>2. \A c \in Builders : builder'[c] \in Process
    BY <1>1, <1>3, <1>4, Zenon
  <2>3. builder' \in [Builders -> Process]
    BY <1>4, <2>2
  <2>4. torn' \in BOOLEAN /\ agents' \in Seq(Events) /\ position' \in Positions \cup {None}
    <3>1. << >> \in Seq(Events)
      OBVIOUS
    <3>2. QED
      BY <1>2, <3>1
  <2>5. QED
    BY <2>1, <2>3, <2>4 DEF IInv, TypeOK
<1>6. InPlace'
  BY <1>2 DEF InPlace
<1>7. ASSUME NEW c \in Builders
      PROVE  Honest(builder'[c], journal') /\ (~builder'[c].late => Sound(builder'[c], position'))
  <2>1. CASE c = b
    BY <1>1, <1>4, <2>1, RestIsSound
  <2>2. CASE c # b
    <3>1. Honest(builder'[c], journal')
      BY <1>3, <2>2 DEF IInv, Honest
    <3>2. ~builder'[c].late => builder'[c].step \notin Mid
      BY <1>3, <2>2
    <3>3. QED
      BY <3>1, <3>2, RestIsSound
  <2>3. QED
    BY <2>1, <2>2
<1>8. Untorn'
  BY <1>2, <1>7, NothingTold DEF Untorn, Shown
<1>9. QED
  BY <1>5, <1>6, <1>7, <1>8 DEF IInv

-----------------------------------------------------------------------------
(* The three reads of a step.                                              *)
LEMMA ReadPositionStep ==
  ASSUME IInv, NEW b \in Builders, ReadPosition(b), UNCHANGED <<journal, faults, rebuilds>>
  PROVE  IInv'
<1>1. faults' \in 0 .. MaxFaults /\ rebuilds' \in 0 .. MaxRebuilds
  BY DEF IInv, TypeOK
<1>2. CASE position = None
  BY <1>1, <1>2, ThrowStep DEF ReadPosition
<1>3. CASE position # None
  <2> DEFINE k == [builder[b] EXCEPT !.step = "agents", !.seen = position]
  <2>1. builder' = [builder EXCEPT ![b] = k] /\ UNCHANGED <<journal, tables>>
    BY <1>3 DEF ReadPosition
  <2>2. builder[b] \in Process /\ position \in Positions
    BY <1>3 DEF IInv, TypeOK
  <2>3. k \in Process /\ k.step = "agents" /\ k.seen = position
    BY <2>2 DEF Process, Steps
  <2>4. position.event \in Nat
    BY <1>3, Numbers DEF IInv
  <2>5. Honest(k, journal) /\ Sound(k, position)
    BY <1>3, <2>3, <2>4 DEF Honest, Sound, IInv, InPlace
  <2> HIDE DEF k
  <2>6. QED
    BY <1>1, <2>1, <2>3, <2>5, QuietStep
<1>4. QED
  BY <1>2, <1>3

LEMMA ReadAgentsStep ==
  ASSUME IInv, NEW b \in Builders, ReadAgents(b), UNCHANGED <<journal, faults, rebuilds>>
  PROVE  IInv'
<1> DEFINE k == [builder[b] EXCEPT !.step = "events", !.cards = agents, !.found = (position # None)]
<1>1. builder' = [builder EXCEPT ![b] = k] /\ UNCHANGED <<journal, tables>>
      /\ builder[b].step = "agents"
  BY DEF ReadAgents
<1>2. builder[b] \in Process /\ agents \in Seq(Events)
  BY DEF IInv, TypeOK
<1>3. /\ k \in Process /\ k.step = "events" /\ k.cards = agents /\ k.found = (position # None)
      /\ k.seen = builder[b].seen /\ k.late = builder[b].late
  BY <1>2 DEF Process, Steps
<1>4. Honest(k, journal)
  BY <1>1, <1>3 DEF IInv, Honest, Mid
<1>5. ASSUME ~torn, ~k.late PROVE Sound(k, position)
  <2>1. position # None /\ k.seen.event <= position.event /\ agents = Told(position.event)
    BY <1>1, <1>3, <1>5 DEF IInv, Untorn, Sound, Shown, Mid
  <2>2. k.seen # None
    BY <1>3, <1>4 DEF Honest, Mid
  <2>3. position.event \in k.seen.event .. position.event
    BY <1>3, <2>1, <2>2, ProjectionAssumption DEF IInv, TypeOK, Positions, Process
  <2>4. QED
    BY <1>3, <2>1, <2>3 DEF Sound
<1>6. faults' \in 0 .. MaxFaults /\ rebuilds' \in 0 .. MaxRebuilds
  BY DEF IInv, TypeOK
<1> HIDE DEF k
<1>7. QED
  BY <1>1, <1>3, <1>4, <1>5, <1>6, QuietStep

LEMMA ReadOutboxStep ==
  ASSUME IInv, NEW b \in Builders, ReadOutbox(b), UNCHANGED <<journal, faults, rebuilds>>
  PROVE  IInv'
<1> DEFINE after == builder[b].seen.event
           full == [builder[b] EXCEPT !.step = "save", !.upto = Upto(after)]
           over == IF builder[b].mode = "rebuild" THEN Down ELSE AtStep(b, "idle")
<1>1. builder[b] \in Process /\ builder[b].step = "events"
  BY DEF ReadOutbox, IInv, TypeOK
<1>2. faults' \in 0 .. MaxFaults /\ rebuilds' \in 0 .. MaxRebuilds
  BY DEF IInv, TypeOK
<1>3. CASE Throw(b)
  BY <1>2, <1>3, ThrowStep
<1>4. CASE after < journal /\ builder' = [builder EXCEPT ![b] = full] /\ UNCHANGED tables
  <2>1. builder[b].seen # None /\ builder[b].seen.sequence = after
    BY <1>1 DEF IInv, Honest, Mid
  <2>2. after \in Nat /\ journal \in 0 .. MaxJournal
    BY <1>1, <2>1, ProjectionAssumption DEF IInv, TypeOK, Process, Positions
  <2>3. Upto(after) \in 0 .. MaxJournal /\ after < Upto(after) /\ Upto(after) <= journal
    BY <1>4, <2>2, ProjectionAssumption DEF Upto
  <2>4. /\ full \in Process /\ full.step = "save" /\ full.cards = builder[b].cards
        /\ full.found = builder[b].found /\ full.late = builder[b].late
        /\ full.seen = builder[b].seen /\ full.upto = Upto(after)
    BY <1>1, <2>3 DEF Process, Steps
  <2>5. Honest(full, journal)
    BY <1>4, <2>1, <2>2, <2>3, <2>4 DEF Honest
  <2>6. ~torn /\ ~full.late => Sound(full, position)
    BY <1>1, <2>4 DEF IInv, Untorn, Sound, Mid
  <2> HIDE DEF full
  <2>7. QED
    BY <1>2, <1>4, <2>4, <2>5, <2>6, QuietStep
<1>5. CASE builder' = [builder EXCEPT ![b] = over] /\ UNCHANGED tables
  <2>1. over \in Process /\ over.step \notin Mid
    BY AtStepIsProcess, DownIsProcess DEF IInv, Steps, Mid
  <2> HIDE DEF over
  <2>2. QED
    BY <1>2, <1>5, <2>1, RestStep
<1>6. QED
  BY <1>3, <1>4, <1>5 DEF ReadOutbox

-----------------------------------------------------------------------------
(* The rows a builder emits stand in their own places.                     *)
LEMMA RowsInPlace ==
  ASSUME IInv, NEW b \in Builders, builder[b].step = "save"
  PROVE  LET k == builder[b]
         IN /\ k.seen.event \in Nat /\ k.seen.sequence = k.seen.event
            /\ k.upto \in 0 .. MaxJournal /\ k.seen.event < k.upto /\ k.upto <= journal
            /\ k.seen.sequence + Fresh(k) = k.upto
            /\ Emitted(k) = [p \in k.seen.event + 1 .. k.upto |-> p]
<1> DEFINE k == builder[b]
           from == k.seen.event
<1>1. k \in Process /\ k.seen # None /\ k.seen.sequence = from /\ from < k.upto /\ k.upto <= journal
  BY DEF IInv, TypeOK, Honest, Mid
<1>2. from \in Nat /\ k.upto \in 0 .. MaxJournal /\ k.upto \in Nat
  BY <1>1, ProjectionAssumption DEF Process, Positions
<1>3. from + (k.upto - from) = k.upto /\ \A p \in from + 1 .. k.upto : from + (p - from) = p
  BY <1>2
<1>4. Emitted(k) = [p \in from + 1 .. from + (k.upto - from) |-> from + (p - from)]
  BY <1>1 DEF Emitted, Fresh
<1>5. Emitted(k) = [p \in from + 1 .. k.upto |-> p]
  BY <1>3, <1>4
<1>6. QED
  BY <1>1, <1>2, <1>3, <1>5 DEF Fresh

(* A batch that was read from an older position has its first event in the *)
(* feed already: only a builder that is up to date gets its rows in.       *)
LEMMA StaleBatchConflicts ==
  ASSUME IInv, ~torn, NEW b \in Builders, builder[b].step = "save", ~builder[b].late,
         ~Conflicts(Emitted(builder[b]))
  PROVE  LET k == builder[b]
         IN /\ position # None /\ k.seen.event = position.event /\ k.found
            /\ k.cards = Told(position.event)
<1> DEFINE k == builder[b]
           from == k.seen.event
<1>1. /\ from \in Nat /\ k.upto \in Nat /\ from < k.upto
      /\ DOMAIN Emitted(k) = from + 1 .. k.upto
  <2>1. /\ from \in Nat /\ k.upto \in 0 .. MaxJournal /\ from < k.upto
        /\ Emitted(k) = [p \in from + 1 .. k.upto |-> p]
    BY RowsInPlace
  <2>2. k.upto \in Nat
    BY <2>1, ProjectionAssumption
  <2>3. DOMAIN Emitted(k) = from + 1 .. k.upto
    BY <2>1
  <2>4. QED
    BY <2>1, <2>2, <2>3
<1>2. position # None /\ from <= position.event /\ k.found
      /\ \E n \in from .. position.event : k.cards = Told(n)
  BY DEF IInv, Untorn, Sound, Mid
<1>3. position.event \in Nat /\ DOMAIN feed = 1 .. position.event
  BY <1>2, Numbers DEF IInv, Untorn, Shown, Told
<1>4. from = position.event
  <2>1. SUFFICES ASSUME from < position.event PROVE FALSE
    BY <1>1, <1>2, <1>3
  <2>2. from + 1 \in DOMAIN feed /\ from + 1 \in DOMAIN Emitted(k)
    BY <1>1, <1>3, <2>1
  <2>3. QED
    BY <2>2 DEF Conflicts
<1>5. QED
  BY <1>1, <1>2, <1>3, <1>4

(* What a save that is not late leaves behind.                             *)
LEMMA SaveShows ==
  ASSUME IInv, ~torn, NEW b \in Builders, Save(b), ~builder[b].late,
         ~Conflicts(Emitted(builder[b]))
  PROVE  LET k == builder[b]
         IN /\ position # None /\ position.event < k.upto /\ position'.event = k.upto
            /\ position' # None /\ Shown(position) = position.event
            /\ feed' = Told(k.upto) /\ agents' = Told(k.upto)
<1> DEFINE k == builder[b]
           at == position.event
           rows == Emitted(k)
<1>1. k.step = "save"
  BY DEF Save
<1>2. position # None /\ k.seen.event = at /\ k.found /\ k.cards = Told(at)
  BY <1>1, StaleBatchConflicts
<1>3. /\ at \in Nat /\ k.upto \in Nat /\ at < k.upto /\ k.upto \in 0 .. MaxJournal
      /\ k.seen.sequence + Fresh(k) = k.upto
      /\ rows = [p \in at + 1 .. k.upto |-> p]
  BY <1>1, <1>2, RowsInPlace, ProjectionAssumption
<1>4. /\ feed' = [p \in DOMAIN feed \cup DOMAIN rows |-> IF p \in DOMAIN rows THEN rows[p] ELSE feed[p]]
      /\ agents' = Cards(k)
      /\ position' = [sequence |-> k.upto, event |-> k.upto]
  BY <1>2, <1>3 DEF Save
<1>5. feed' = Told(k.upto)
  <2>1. feed = [p \in 1 .. at |-> p]
    BY <1>2 DEF IInv, Untorn, Shown, Told
  <2>2. (1 .. at) \cup (at + 1 .. k.upto) = 1 .. k.upto
    BY <1>3
  <2>3. QED
    BY <1>3, <1>4, <2>1, <2>2 DEF Told
<1>6. agents' = Told(k.upto)
  <2>1. agents' = Told(at) \o [i \in 1 .. k.upto - at |-> at + i]
    BY <1>2, <1>4 DEF Cards, Fresh
  <2>2. at \in Nat /\ k.upto \in Nat /\ at <= k.upto
    BY <1>3
  <2>3. Told(at) \o [i \in 1 .. k.upto - at |-> at + i] = Told(k.upto)
    BY <2>2, ToldOn, Zenon
  <2>4. QED
    BY <2>1, <2>3
<1>7. position' # None
  <2>1. position' \in [sequence : Nat, event : Nat]
    BY <1>3, <1>4
  <2>2. QED
    BY <2>1, ProjectionAssumption
<1>8. QED
  BY <1>2, <1>3, <1>4, <1>5, <1>6, <1>7 DEF Shown

LEMMA SaveStep ==
  ASSUME IInv, NEW b \in Builders, Save(b), UNCHANGED <<journal, faults, rebuilds>>
  PROVE  IInv'
<1> DEFINE k == builder[b]
           rows == Emitted(k)
<1>1. k.step = "save" /\ faults' \in 0 .. MaxFaults /\ rebuilds' \in 0 .. MaxRebuilds
  BY DEF Save, IInv, TypeOK
<1>2. CASE Conflicts(rows)
  BY <1>1, <1>2, ThrowStep DEF Save
<1>3. CASE ~Conflicts(rows)
  <2>1. /\ k.seen.event \in Nat /\ k.seen.event < k.upto
        /\ k.upto \in 0 .. MaxJournal /\ k.upto \in Nat /\ k.upto <= journal
        /\ k.seen.sequence + Fresh(k) = k.upto
        /\ rows = [p \in k.seen.event + 1 .. k.upto |-> p]
    BY <1>1, RowsInPlace, ProjectionAssumption
  <2>2. journal \in 0 .. MaxJournal /\ MaxJournal \in Nat /\ journal' = journal
    BY ProjectionAssumption DEF IInv, TypeOK
  <2>3. /\ feed' = [p \in DOMAIN feed \cup DOMAIN rows |-> IF p \in DOMAIN rows THEN rows[p] ELSE feed[p]]
        /\ agents' = IF position # None /\ k.found THEN Cards(k) ELSE agents
        /\ position' = IF position = None THEN None ELSE [sequence |-> k.upto, event |-> k.upto]
        /\ torn' = (torn \/ k.late)
        /\ builder' = [builder EXCEPT ![b] = AtStep(b, "idle")]
    BY <1>3, <2>1 DEF Save
  <2>4. AtStep(b, "idle") \in Process /\ AtStep(b, "idle").step \notin Mid
    BY AtStepIsProcess DEF IInv, Steps, Mid
  <2>5. position' \in Positions \cup {None}
    BY <2>1, <2>3 DEF Positions
  <2>6. TypeOK'
    <3>1. builder' \in [Builders -> Process] /\ torn' \in BOOLEAN
      BY <2>3, <2>4 DEF IInv, TypeOK, Process
    <3>2. agents' \in Seq(Events)
      <4>1. k.cards \in Seq(Events) /\ agents \in Seq(Events)
        BY DEF IInv, TypeOK, Process
      <4>2. k.upto - k.seen.event \in Nat
        BY <2>1
      <4>3. \A i \in 1 .. k.upto - k.seen.event : k.seen.event + i \in Events
        BY <2>1, <2>2 DEF Events
      <4>4. [i \in 1 .. Fresh(k) |-> k.seen.event + i] \in Seq(Events)
        BY <4>2, <4>3 DEF Fresh
      <4>5. Cards(k) \in Seq(Events)
        BY <4>1, <4>4 DEF Cards
      <4>6. QED
        BY <2>3, <4>1, <4>5
    <3>3. DOMAIN feed' \subseteq 1 .. MaxJournal /\ Range(feed') \subseteq Events
      <4>1. DOMAIN rows \subseteq 1 .. MaxJournal /\ \A p \in DOMAIN rows : rows[p] \in Events
        BY <2>1, <2>2 DEF Events
      <4>2. DOMAIN feed \subseteq 1 .. MaxJournal /\ \A p \in DOMAIN feed : feed[p] \in Events
        BY DEF IInv, TypeOK, Range
      <4>3. DOMAIN feed' = DOMAIN feed \cup DOMAIN rows
            /\ \A p \in DOMAIN feed' : feed'[p] = IF p \in DOMAIN rows THEN rows[p] ELSE feed[p]
        BY <2>3
      <4>4. \A p \in DOMAIN feed' : feed'[p] \in Events
        BY <4>1, <4>2, <4>3
      <4>5. QED
        BY <4>1, <4>2, <4>3, <4>4 DEF Range
    <3>4. QED
      BY <1>1, <2>2, <2>5, <3>1, <3>2, <3>3 DEF IInv, TypeOK
  <2>7. InPlace'
    BY <2>1, <2>2, <2>3 DEF IInv, InPlace
  <2>8. \A c \in Builders : Honest(builder'[c], journal')
    BY <2>2, <2>3, <2>4, RestIsSound DEF IInv, TypeOK
  <2>9. ASSUME ~torn' PROVE Untorn'
    <3>1. ~torn /\ ~k.late
      BY <2>3, <2>9
    <3>2. /\ position # None /\ position.event < k.upto /\ position'.event = k.upto
          /\ position' # None /\ feed' = Told(k.upto) /\ agents' = Told(k.upto)
      BY <1>3, <3>1, SaveShows
    <3>3. ASSUME NEW c \in Builders, ~builder'[c].late PROVE Sound(builder'[c], position')
      <4>1. CASE c = b
        BY <2>3, <2>4, <4>1, RestIsSound DEF IInv, TypeOK
      <4>2. CASE c # b
        <5>1. builder'[c] = builder[c] /\ builder[c] \in Process
              /\ Honest(builder[c], journal) /\ Sound(builder[c], position)
          BY <2>3, <3>1, <3>3, <4>2 DEF IInv, TypeOK, Untorn
        <5>2. position \in Positions \cup {None} /\ position.event \in Nat
              /\ position.event <= position'.event
          BY <2>1, <3>2, Numbers DEF IInv, TypeOK
        <5>3. QED
          BY <2>5, <3>2, <5>1, <5>2, SoundGrows
      <4>3. QED
        BY <4>1, <4>2
    <3>4. QED
      BY <3>2, <3>3 DEF Untorn, Shown
  <2>10. QED
    BY <2>6, <2>7, <2>8, <2>9 DEF IInv
<1>4. QED
  BY <1>2, <1>3

-----------------------------------------------------------------------------
LEMMA WorkStep ==
  ASSUME IInv, NEW b \in Builders, Work(b)
  PROVE  IInv'
<1>1. UNCHANGED <<journal, faults, rebuilds>>
  BY DEF Work
<1>2. CASE Open(b)
  BY <1>1, <1>2, OpenStep
<1>3. CASE Create(b)
  BY <1>1, <1>3, CreateStep
<1>4. CASE Reset(b)
  BY <1>1, <1>4, ResetStep
<1>5. CASE ReadPosition(b)
  BY <1>1, <1>5, ReadPositionStep
<1>6. CASE ReadAgents(b)
  BY <1>1, <1>6, ReadAgentsStep
<1>7. CASE ReadOutbox(b)
  BY <1>1, <1>7, ReadOutboxStep
<1>8. CASE Save(b)
  BY <1>1, <1>8, SaveStep
<1>9. QED
  BY <1>2, <1>3, <1>4, <1>5, <1>6, <1>7, <1>8 DEF Work

(* The world goes on: nobody's batch reaches beyond the journal.           *)
LEMMA HappenStep == ASSUME IInv, Happen PROVE IInv'
<1>1. /\ journal \in Nat /\ journal' = journal + 1 /\ journal' \in 0 .. MaxJournal
      /\ UNCHANGED <<tables, builder, faults, rebuilds>>
  BY ProjectionAssumption DEF IInv, TypeOK, Happen
<1>2. TypeOK'
  BY <1>1 DEF IInv, TypeOK, tables
<1>3. InPlace'
  <2>1. position # None => position.event \in Nat
    BY Numbers DEF IInv
  <2>2. \A p \in DOMAIN feed : p \in Nat
    BY ProjectionAssumption DEF IInv, TypeOK
  <2>3. QED
    BY <1>1, <2>1, <2>2 DEF IInv, InPlace, tables
<1>4. ASSUME NEW c \in Builders PROVE Honest(builder'[c], journal')
  <2>1. builder'[c] = builder[c] /\ builder[c] \in Process /\ Honest(builder[c], journal)
    BY <1>1 DEF IInv, TypeOK
  <2>2. journal' \in Nat /\ journal <= journal'
    BY <1>1
  <2>3. QED
    BY <1>1, <2>1, <2>2, HonestGrows
<1>5. ~torn' => Untorn'
  BY <1>1 DEF IInv, Untorn, tables
<1>6. QED
  BY <1>2, <1>3, <1>4, <1>5 DEF IInv

LEMMA StartStep ==
  ASSUME IInv, NEW b \in Builders, StartWorker(b) \/ StartRebuild(b)
  PROVE  IInv'
<1> DEFINE worker == [builder[b] EXCEPT !.step = "closed"]
           rebuild == [builder[b] EXCEPT !.step = "closed", !.mode = "rebuild"]
<1>1. /\ worker \in Process /\ worker.step \notin Mid
      /\ rebuild \in Process /\ rebuild.step \notin Mid
  BY DEF IInv, TypeOK, Process, Steps, Modes, Mid
<1>2. /\ \/ builder' = [builder EXCEPT ![b] = worker]
         \/ builder' = [builder EXCEPT ![b] = rebuild]
      /\ UNCHANGED <<journal, tables>>
      /\ faults' \in 0 .. MaxFaults /\ rebuilds' \in 0 .. MaxRebuilds
  BY ProjectionAssumption DEF StartWorker, StartRebuild, IInv, TypeOK
<1> HIDE DEF worker, rebuild
<1>3. QED
  BY <1>1, <1>2, RestStep

(* A failed statement and a killed process.                                *)
LEMMA FailStep ==
  ASSUME IInv, NEW b \in Builders, Fail(b)
  PROVE  IInv'
<1>1. /\ Throw(b) /\ UNCHANGED <<journal, rebuilds>> /\ faults' \in 0 .. MaxFaults
  BY ProjectionAssumption DEF Fail, IInv, TypeOK
<1>2. rebuilds' \in 0 .. MaxRebuilds
  BY <1>1 DEF IInv, TypeOK
<1>3. QED
  BY <1>1, <1>2, ThrowStep

LEMMA CrashStep ==
  ASSUME IInv, NEW b \in Builders, Crash(b)
  PROVE  IInv'
<1>1. /\ builder' = [builder EXCEPT ![b] = Down] /\ UNCHANGED <<journal, tables>>
      /\ faults' \in 0 .. MaxFaults /\ rebuilds' = rebuilds
  BY ProjectionAssumption DEF Crash, IInv, TypeOK
<1>2. rebuilds' \in 0 .. MaxRebuilds
  BY <1>1 DEF IInv, TypeOK
<1>3. QED
  BY <1>1, <1>2, DownIsProcess, RestStep

LEMMA NextIInv == IInv /\ [Next]_vars => IInv'
<1> SUFFICES ASSUME IInv, [Next]_vars PROVE IInv'
  OBVIOUS
<1>1. CASE Happen
  BY <1>1, HappenStep
<1>2. ASSUME NEW b \in Builders, StartWorker(b) \/ StartRebuild(b) PROVE IInv'
  BY <1>2, StartStep
<1>3. ASSUME NEW b \in Builders, Work(b) PROVE IInv'
  BY <1>3, WorkStep
<1>4. ASSUME NEW b \in Builders, Fail(b) PROVE IInv'
  BY <1>4, FailStep
<1>5. ASSUME NEW b \in Builders, Crash(b) PROVE IInv'
  BY <1>5, CrashStep
<1>6. CASE UNCHANGED vars
  BY <1>6 DEF IInv, TypeOK, InPlace, Untorn, vars
<1>7. QED
  BY <1>1, <1>2, <1>3, <1>4, <1>5, <1>6 DEF Next

LEMMA Invariance == Spec => []IInv
<1>1. QED
  BY InitIInv, NextIInv, PTL DEF Spec

-----------------------------------------------------------------------------
(* Every reachable state of the projection is well typed.                  *)
THEOREM TypeCorrectness == Spec => []TypeOK
<1>1. IInv => TypeOK
  BY DEF IInv
<1>2. QED
  BY <1>1, Invariance, PTL

(* D6: exactly once, in order and without a gap, with any number of        *)
(* builders and rebuilds that do not know of each other, until one of them *)
(* saves what it read before a reset (runProjectionStep).                  *)
THEOREM ExactlyOnce == Spec => []FeedIsWhole
<1>1. IInv => FeedIsWhole
  BY DEF IInv, InPlace, Untorn, FeedIsWhole, Shown, Told
<1>2. QED
  BY <1>1, Invariance, PTL

(* The cards and the position never tell of different moments, although a  *)
(* builder reads them in two statements (currentFoldState).                *)
THEOREM CardsTellThePosition == Spec => []CardsAtPosition
<1>1. IInv => CardsAtPosition
  BY DEF IInv, Untorn, CardsAtPosition, Shown, Told
<1>2. QED
  BY <1>1, Invariance, PTL

-----------------------------------------------------------------------------
(* A step that leaves the tables alone is none of the promise, unless an   *)
(* event happened.                                                         *)
LEMMA QuietIsPromised ==
  ASSUME UNCHANGED tables, journal' = journal \/ journal' = journal + 1
  PROVE  [Promised!Next]_Promised!vars
<1>1. QED
  BY DEF tables, Promised!Next, Promised!Happen, Promised!vars

(* A builder erases, shows more, or (late) spoils what was promised.       *)
LEMMA WorkIsPromised ==
  ASSUME IInv, NEW b \in Builders, Work(b)
  PROVE  [Promised!Next]_Promised!vars
<1>1. UNCHANGED journal
  BY DEF Work
<1>2. Promised!Beginning(0) = << >>
  BY NothingTold DEF Told, Promised!Beginning
<1>3. CASE UNCHANGED tables
  BY <1>1, <1>3, QuietIsPromised
<1>4. ASSUME Create(b), ~(UNCHANGED tables) PROVE [Promised!Next]_Promised!vars
  <2>1. position = None /\ agents' = << >> /\ UNCHANGED <<feed, torn>>
    BY <1>4 DEF Create, Throw
  <2>2. ~torn => agents = << >>
    BY <2>1, NothingTold DEF IInv, Untorn, Shown
  <2>3. QED
    BY <1>1, <2>1, <2>2 DEF Promised!vars
<1>5. CASE Reset(b)
  <2>1. torn' = FALSE /\ feed' = << >> /\ agents' = << >>
    BY <1>5 DEF Reset
  <2>2. QED
    BY <1>1, <1>2, <2>1 DEF Promised!Next, Promised!Erase
<1>6. ASSUME Save(b), ~(UNCHANGED tables) PROVE [Promised!Next]_Promised!vars
  <2>1. torn' = (torn \/ builder[b].late) /\ ~Conflicts(Emitted(builder[b])) /\ builder[b].step = "save"
    BY <1>6 DEF Save, Throw
  <2>2. CASE torn'
    BY <1>1, <1>2, <2>2 DEF Promised!Next, Promised!Erase
  <2>3. CASE ~torn'
    <3> DEFINE n == builder[b].upto
    <3>1. ~torn /\ ~builder[b].late
      BY <2>1, <2>3
    <3>2. /\ Shown(position) < n /\ feed' = Told(n) /\ agents' = Told(n)
      BY <1>6, <2>1, <3>1, SaveShows
    <3>3. n \in Nat /\ n <= journal /\ journal \in Nat /\ Shown(position) \in Nat
      <4>1. n \in 0 .. MaxJournal /\ n <= journal
        BY <2>1, RowsInPlace
      <4>2. QED
        BY <4>1, Numbers, ProjectionAssumption DEF IInv
    <3>4. feed = Told(Shown(position)) /\ Len(feed) = Shown(position)
      BY <3>1, <3>3 DEF IInv, Untorn, Told
    <3>5. n \in Len(feed) + 1 .. journal
      BY <3>2, <3>3, <3>4
    <3>6. feed' = Promised!Beginning(n) /\ agents' = Promised!Beginning(n)
      BY <3>2 DEF Told, Promised!Beginning
    <3> HIDE DEF n
    <3>7. Promised!Show
      BY <1>1, <2>3, <3>1, <3>5, <3>6 DEF Promised!Show
    <3>8. QED
      BY <3>7 DEF Promised!Next
  <2>4. QED
    BY <2>2, <2>3
<1>7. QED
  BY <1>3, <1>4, <1>5, <1>6
     DEF Work, Open, ReadPosition, ReadAgents, ReadOutbox, Throw

(* Everything the builders do is what the observer was promised: feed and  *)
(* cards show more of the journal, together, or are erased and shown again.*)
THEOREM Implements == Spec => ImplementsFeed
<1>1. Init => Promised!Init
  <2>1. Promised!Beginning(0) = << >>
    BY NothingTold DEF Told, Promised!Beginning
  <2>2. QED
    BY <2>1 DEF Init, Promised!Init
<1>2. IInv /\ [Next]_vars => [Promised!Next]_Promised!vars
  <2> SUFFICES ASSUME IInv, [Next]_vars PROVE [Promised!Next]_Promised!vars
    OBVIOUS
  <2>1. CASE Happen
    BY <2>1, QuietIsPromised DEF Happen
  <2>2. ASSUME NEW b \in Builders, StartWorker(b) \/ StartRebuild(b) \/ Crash(b)
        PROVE  [Promised!Next]_Promised!vars
    BY <2>2, QuietIsPromised DEF StartWorker, StartRebuild, Crash
  <2>3. ASSUME NEW b \in Builders, Fail(b) PROVE [Promised!Next]_Promised!vars
    BY <2>3, QuietIsPromised DEF Fail, Throw
  <2>4. ASSUME NEW b \in Builders, Work(b) PROVE [Promised!Next]_Promised!vars
    BY <2>4, WorkIsPromised
  <2>5. CASE UNCHANGED vars
    BY <2>5, QuietIsPromised DEF vars, tables
  <2>6. QED
    BY <2>1, <2>2, <2>3, <2>4, <2>5 DEF Next
<1>3. QED
  BY <1>1, <1>2, Invariance, PTL DEF Spec, ImplementsFeed, Promised!Spec

-----------------------------------------------------------------------------
(* The observer.                                                           *)

(* Nobody has begun to rebuild the projection.                             *)
FirstBuild ==
  /\ ~torn
  /\ \A b \in Builders :
       builder[b].mode = "worker" /\ builder[b].step # "reset" /\ ~builder[b].late

(* A position that was read, not before the event `after` was in the feed. *)
ReadAt(at, after) ==
  /\ at \in Positions /\ at.sequence = at.event /\ after \in Nat
  /\ after <= at.event /\ at.event <= Shown(position)

RequestFields == {"step", "purpose", "after", "position", "cards"}
ScreenFields ==
  {"phase", "cursor", "shown", "map", "loaded", "mapAfter", "short", "restarted", "strayed"}
StreamFields == {"state", "last", "page"}

Shaped(k, s, t) ==
  /\ k = [r \in Requests |-> k[r]]
  /\ \A r \in Requests : DOMAIN k[r] = RequestFields
  /\ DOMAIN s = ScreenFields /\ DOMAIN t = StreamFields

(* A screen with a map has a stream, or was told to start over.            *)
Followed(s, t) ==
  /\ s.phase = "paging" => s.loaded # None
  /\ s.map # None /\ ~s.restarted => t.state # "off"

(* What a request, the screen and the stream know.                         *)
RequestKnows(k) ==
  /\ k.after \in 0 .. Shown(position)
  /\ k.step = "half" => ReadAt(k.position, k.after)
  /\ k.step = "answered" /\ k.position # None =>
       ReadAt(k.position, k.after) /\ IsPrefix(Told(k.position.event), k.cards)

ScreenKnows(s) ==
  /\ s.cursor \in 0 .. Shown(position) /\ ~s.restarted
  /\ s.loaded # None => ReadAt(s.loaded.position, 0)
  /\ s.map # None => ReadAt(s.map.position, s.mapAfter)

StreamKnows(t) == t.last \in 0 .. Shown(position) /\ t.page \subseteq 1 .. Shown(position)

Knows ==
  ScreenKnows(screen) /\ StreamKnows(stream) /\ \A r \in Requests : RequestKnows(request[r])

OInv ==
  /\ IInv /\ Shaped(request, screen, stream) /\ Followed(screen, stream)
  /\ rebuilds = 0 => FirstBuild /\ Knows

-----------------------------------------------------------------------------
(* Whoever knows the events up to m knows a beginning of the cards at n.   *)
LEMMA ToldIsPrefix ==
  ASSUME NEW m \in Nat, NEW n \in Nat, m <= n
  PROVE  IsPrefix(Told(m), Told(n))
<1>1. /\ Told(m) \in Seq(Nat) /\ Len(Told(m)) = m /\ \A i \in 1 .. m : Told(m)[i] = i
      /\ Told(n) \in Seq(Nat) /\ Len(Told(n)) = n /\ \A i \in 1 .. n : Told(n)[i] = i
  BY DEF Told
<1> DEFINE s == SubSeq(Told(m), 1, m)
           t == SubSeq(Told(n), 1, m)
<1>2. s \in Seq(Nat) /\ Len(s) = m /\ \A i \in 1 .. m : s[i] = i
  BY <1>1
<1>3. t \in Seq(Nat) /\ Len(t) = m /\ \A i \in 1 .. m : t[i] = i
  BY <1>1
<1> HIDE DEF s, t
<1>4. s = t
  BY <1>2, <1>3, SeqEqual
<1>5. QED
  BY <1>1, <1>4 DEF IsPrefix, s, t

(* Before the first rebuild the feed is what the position says.            *)
LEMMA FeedIsTold ==
  ASSUME OInv, rebuilds = 0
  PROVE  /\ DOMAIN feed = 1 .. Shown(position) /\ agents = Told(Shown(position))
         /\ Shown(position) \in Nat
         /\ position # None => position \in Positions /\ position.sequence = position.event
                               /\ position.event = Shown(position)
<1>1. feed = Told(Shown(position)) /\ agents = Told(Shown(position)) /\ TypeOK /\ InPlace
  BY DEF OInv, IInv, FirstBuild, Untorn
<1>2. Shown(position) \in Nat
  BY <1>1, Numbers, ProjectionAssumption
<1>3. position # None => position \in Positions /\ position.sequence = position.event
  BY <1>1 DEF TypeOK, InPlace
<1>4. QED
  BY <1>1, <1>2, <1>3 DEF Told, Shown

LEMMA RowsAreThere ==
  ASSUME NEW after, NEW limit
  PROVE  RowsAfter(after, limit) \subseteq DOMAIN feed
BY DEF RowsAfter, FirstOf

(* Nobody is behind a feed that was never erased.                          *)
LEMMA NobodyIsBehind ==
  ASSUME OInv, rebuilds = 0
  PROVE  ~Behind(stream.last)
<1>1. stream.last \in 0 .. Shown(position)
  BY DEF OInv, Knows, StreamKnows
<1>2. DOMAIN feed = 1 .. Shown(position) /\ Shown(position) \in Nat
  BY FeedIsTold
<1>3. stream.last > 0 => 1 \in DOMAIN feed /\ ~(stream.last + 1 < 1)
  BY <1>1, <1>2
<1>4. QED
  BY <1>3 DEF Behind

-----------------------------------------------------------------------------
(* The projection while nobody rebuilds it.                                *)
LEMMA RebuildsCount ==
  ASSUME OInv, [Next]_vars, rebuilds' = 0
  PROVE  rebuilds = 0 /\ ~\E b \in Builders : StartRebuild(b)
<1>1. rebuilds \in Nat
  BY ProjectionAssumption DEF OInv, IInv, TypeOK
<1>2. rebuilds' = rebuilds \/ rebuilds' = rebuilds + 1
  BY DEF Next, Happen, StartWorker, StartRebuild, Work, Fail, Crash, vars
<1>3. ASSUME NEW b \in Builders, StartRebuild(b) PROVE FALSE
  BY <1>1, <1>3 DEF StartRebuild
<1>4. QED
  BY <1>1, <1>2, <1>3

(* A step of a builder that leaves it a worker.                            *)
LEMMA StillFirst ==
  ASSUME OInv, FirstBuild, NEW b \in Builders, NEW k, builder' = [builder EXCEPT ![b] = k],
         k.mode = "worker", k.step # "reset", ~k.late, torn' = torn
  PROVE  FirstBuild'
<1>1. \A c \in Builders : builder'[c] = IF c = b THEN k ELSE builder[c]
  BY DEF OInv, IInv, TypeOK
<1>2. QED
  BY <1>1 DEF FirstBuild

LEMMA AtStepIsFirst ==
  ASSUME FirstBuild, NEW b \in Builders, NEW s
  PROVE  LET k == AtStep(b, s) IN k.mode = "worker" /\ k.step = s /\ ~k.late
BY DEF FirstBuild, AtStep, Down

LEMMA ThrowIsFirst ==
  ASSUME OInv, FirstBuild, NEW b \in Builders, Throw(b)
  PROVE  FirstBuild' /\ UNCHANGED position
<1>1. builder' = [builder EXCEPT ![b] = GivesUp(b)] /\ UNCHANGED <<position, torn>>
  BY DEF Throw, tables
<1>2. GivesUp(b) \in {Down, AtStep(b, "closed"), AtStep(b, "idle")}
  BY DEF GivesUp
<1>3. Down.mode = "worker" /\ Down.step # "reset" /\ ~Down.late
  BY DEF Down
<1>4. GivesUp(b).mode = "worker" /\ GivesUp(b).step # "reset" /\ ~GivesUp(b).late
  BY <1>2, <1>3, AtStepIsFirst
<1>5. QED
  BY <1>1, <1>4, StillFirst

LEMMA WorkIsFirst ==
  ASSUME OInv, FirstBuild, NEW b \in Builders, Work(b)
  PROVE  FirstBuild' /\ (position # None => position' # None /\ position.event <= position'.event)
<1>1. builder[b].mode = "worker" /\ builder[b].step # "reset" /\ ~builder[b].late /\ ~torn
  BY DEF FirstBuild
<1>2. builder[b] \in Process /\ (position # None => position.event \in Nat)
  BY Numbers DEF OInv, IInv, TypeOK
<1>3. CASE UNCHANGED tables /\ \E s \in {"create", "idle"} : builder' = [builder EXCEPT ![b] = AtStep(b, s)]
  <2>1. FirstBuild'
    BY <1>3, StillFirst, AtStepIsFirst DEF tables
  <2>2. QED
    BY <1>2, <1>3, <2>1 DEF tables
<1>4. CASE Throw(b)
  BY <1>2, <1>4, ThrowIsFirst
<1>5. CASE Open(b)
  <2>1. builder' = [builder EXCEPT ![b] = AtStep(b, IF position = None THEN "create" ELSE "idle")]
    BY <1>1, <1>5 DEF Open
  <2>2. UNCHANGED tables
    BY <1>5 DEF Open
  <2>3. QED
    BY <1>3, <2>1, <2>2
<1>6. CASE Create(b) /\ ~Throw(b)
  <2>1. position = None /\ builder' = [builder EXCEPT ![b] = AtStep(b, "idle")] /\ torn' = torn
    BY <1>1, <1>6 DEF Create
  <2>2. FirstBuild'
    BY <2>1, StillFirst, AtStepIsFirst
  <2>3. QED
    BY <2>1, <2>2
<1>7. CASE Reset(b)
  BY <1>1, <1>7 DEF Reset
<1>8. CASE ReadPosition(b) /\ ~Throw(b)
  <2> DEFINE k == [builder[b] EXCEPT !.step = "agents", !.seen = position]
  <2>1. builder' = [builder EXCEPT ![b] = k] /\ UNCHANGED tables
    BY <1>8 DEF ReadPosition
  <2>2. k.mode = "worker" /\ k.step # "reset" /\ ~k.late
    BY <1>1, <1>2 DEF Process
  <2> HIDE DEF k
  <2>3. FirstBuild'
    BY <2>1, <2>2, StillFirst DEF tables
  <2>4. QED
    BY <1>2, <2>1, <2>3 DEF tables
<1>9. CASE ReadAgents(b)
  <2> DEFINE k == [builder[b] EXCEPT !.step = "events", !.cards = agents, !.found = (position # None)]
  <2>1. builder' = [builder EXCEPT ![b] = k] /\ UNCHANGED tables
    BY <1>9 DEF ReadAgents
  <2>2. k.mode = "worker" /\ k.step # "reset" /\ ~k.late
    BY <1>1, <1>2 DEF Process
  <2> HIDE DEF k
  <2>3. FirstBuild'
    BY <2>1, <2>2, StillFirst DEF tables
  <2>4. QED
    BY <1>2, <2>1, <2>3 DEF tables
<1>10. CASE ReadOutbox(b) /\ ~Throw(b)
  <2> DEFINE after == builder[b].seen.event
             k == [builder[b] EXCEPT !.step = "save", !.upto = Upto(after)]
  <2>1. /\ UNCHANGED tables
        /\ \/ builder' = [builder EXCEPT ![b] = k]
           \/ builder' = [builder EXCEPT ![b] = AtStep(b, "idle")]
    BY <1>1, <1>10 DEF ReadOutbox
  <2>2. k.mode = "worker" /\ k.step # "reset" /\ ~k.late
    BY <1>1, <1>2 DEF Process
  <2> HIDE DEF k
  <2>3. CASE builder' = [builder EXCEPT ![b] = k]
    <3>1. FirstBuild'
      BY <2>1, <2>2, <2>3, StillFirst DEF tables
    <3>2. QED
      BY <1>2, <2>1, <3>1 DEF tables
  <2>4. QED
    BY <1>3, <2>1, <2>3
<1>11. CASE Save(b) /\ ~Throw(b)
  <2>1. ~Conflicts(Emitted(builder[b])) /\ builder[b].step = "save"
    BY <1>11 DEF Save
  <2>2. position.event < builder[b].upto /\ position'.event = builder[b].upto /\ position' # None
    BY <1>1, <1>11, <2>1, SaveShows DEF OInv
  <2>3. builder' = [builder EXCEPT ![b] = AtStep(b, "idle")] /\ torn' = torn
    <3>1. builder' = [builder EXCEPT ![b] = AtStep(b, "idle")] /\ torn' = (torn \/ builder[b].late)
      BY <1>11, <2>1 DEF Save
    <3>2. torn \in BOOLEAN
      BY DEF OInv, IInv, TypeOK
    <3>3. QED
      BY <1>1, <3>1, <3>2, Zenon
  <2>4. FirstBuild'
    BY <2>3, StillFirst, AtStepIsFirst
  <2>5. builder[b].upto \in Nat
    BY <1>2, ProjectionAssumption DEF Process
  <2>6. QED
    BY <1>2, <2>2, <2>4, <2>5
<1>12. QED
  BY <1>4, <1>5, <1>6, <1>7, <1>8, <1>9, <1>10, <1>11 DEF Work

(* Until somebody rebuilds it the projection only shows more.              *)
LEMMA ShowsMore ==
  ASSUME OInv, [Next]_vars, rebuilds' = 0
  PROVE  FirstBuild' /\ Shown(position) <= Shown(position')
<1>1. rebuilds = 0 /\ FirstBuild /\ ~\E b \in Builders : StartRebuild(b)
  BY RebuildsCount DEF OInv
<1>2. Shown(position) \in Nat /\ Shown(position') \in Nat
  <2>1. TypeOK /\ TypeOK'
    BY NextIInv DEF OInv, IInv
  <2>2. QED
    BY <2>1, ProjectionAssumption DEF TypeOK, Positions, Shown
<1>3. CASE UNCHANGED vars
  BY <1>1, <1>2, <1>3 DEF vars, FirstBuild
<1>4. CASE Happen
  BY <1>1, <1>2, <1>4 DEF Happen, tables, FirstBuild
<1>5. ASSUME NEW b \in Builders, StartWorker(b)
      PROVE  FirstBuild' /\ UNCHANGED position
  <2> DEFINE k == [builder[b] EXCEPT !.step = "closed"]
  <2>1. builder' = [builder EXCEPT ![b] = k] /\ UNCHANGED tables
    BY <1>5 DEF StartWorker
  <2>2. k.mode = "worker" /\ k.step # "reset" /\ ~k.late
    BY <1>1 DEF OInv, IInv, TypeOK, Process, FirstBuild
  <2> HIDE DEF k
  <2>3. QED
    BY <1>1, <2>1, <2>2, StillFirst DEF tables
<1>6. ASSUME NEW b \in Builders, Fail(b)
      PROVE  FirstBuild' /\ UNCHANGED position
  BY <1>1, <1>6, ThrowIsFirst DEF Fail
<1>7. ASSUME NEW b \in Builders, Crash(b)
      PROVE  FirstBuild' /\ UNCHANGED position
  <2>1. builder' = [builder EXCEPT ![b] = Down] /\ UNCHANGED tables
    BY <1>7 DEF Crash
  <2>2. Down.mode = "worker" /\ Down.step # "reset" /\ ~Down.late
    BY DEF Down
  <2>3. QED
    BY <1>1, <2>1, <2>2, StillFirst DEF tables
<1>8. ASSUME NEW b \in Builders, Work(b)
      PROVE  FirstBuild' /\ Shown(position) <= Shown(position')
  <2>1. FirstBuild' /\ (position # None => position' # None /\ position.event <= position'.event)
    BY <1>1, <1>8, WorkIsFirst
  <2>2. QED
    BY <1>2, <2>1 DEF Shown
<1>9. QED
  BY <1>1, <1>2, <1>3, <1>4, <1>5, <1>6, <1>7, <1>8 DEF Next

(* Who knows what the projection has told knows it still when it tells more.*)
LEMMA KnowsStill ==
  ASSUME Knows, UNCHANGED screenVars, Shown(position) \in Nat, Shown(position') \in Nat,
         Shown(position) <= Shown(position')
  PROVE  Knows'
<1>1. ASSUME NEW at, NEW after, ReadAt(at, after)
      PROVE  ReadAt(at, after)'
  <2>1. at.event \in Nat
    BY <1>1, ProjectionAssumption DEF ReadAt, Positions
  <2>2. QED
    BY <1>1, <2>1 DEF ReadAt
<1>2. ScreenKnows(screen)' /\ StreamKnows(stream)'
  BY <1>1 DEF Knows, ScreenKnows, StreamKnows, screenVars
<1>3. ASSUME NEW r \in Requests
      PROVE  RequestKnows(request[r])'
  BY <1>1 DEF Knows, RequestKnows, screenVars
<1>4. QED
  BY <1>2, <1>3 DEF Knows

LEMMA BuildStep ==
  ASSUME OInv, [Next]_vars, UNCHANGED screenVars
  PROVE  OInv'
<1>1. IInv'
  BY NextIInv DEF OInv
<1>2. Shaped(request, screen, stream)' /\ Followed(screen, stream)'
  BY DEF OInv, Shaped, Followed, screenVars
<1>3. ASSUME rebuilds' = 0
      PROVE  FirstBuild' /\ Knows'
  <2>1. FirstBuild' /\ Shown(position) <= Shown(position') /\ Knows
    BY <1>3, ShowsMore, RebuildsCount DEF OInv
  <2>2. Shown(position) \in Nat /\ Shown(position') \in Nat
    BY <1>1, ProjectionAssumption DEF OInv, IInv, TypeOK, Positions, Shown
  <2>3. QED
    BY <2>1, <2>2, KnowsStill
<1>4. QED
  BY <1>1, <1>2, <1>3 DEF OInv

-----------------------------------------------------------------------------
(* The screen and the API. None of their steps changes the projection.     *)
Beside == UNCHANGED <<journal, tables, builder, rebuilds>> /\ faults' \in 0 .. MaxFaults

LEMMA ScreenStep ==
  ASSUME OInv, Beside, Shaped(request', screen', stream'), Followed(screen', stream'),
         rebuilds = 0 => /\ ScreenKnows(screen') /\ StreamKnows(stream')
                         /\ \A r \in Requests : RequestKnows(request'[r])
  PROVE  OInv'
<1>1. IInv'
  BY DEF OInv, IInv, TypeOK, InPlace, Untorn, tables, Beside
<1>2. Shaped(request, screen, stream)' /\ Followed(screen, stream)'
  BY DEF Shaped, Followed
<1>3. ASSUME rebuilds' = 0
      PROVE  FirstBuild' /\ Knows'
  <2>1. FirstBuild'
    BY <1>3 DEF OInv, FirstBuild, tables, Beside
  <2>2. position' = position /\ rebuilds' = rebuilds
    BY DEF tables, Beside
  <2>3. Knows'
    BY <1>3, <2>2 DEF Knows, ScreenKnows, StreamKnows, RequestKnows, ReadAt
  <2>4. QED
    BY <2>1, <2>3
<1>4. QED
  BY <1>1, <1>2, <1>3 DEF OInv

(* A request that asks, or rests, knows only what it was asked after.      *)
LEMMA UnaskedKnows ==
  ASSUME OInv, NEW step \in {"free", "asked"}, NEW purpose, NEW after,
         rebuilds = 0 => after \in 0 .. Shown(position)
  PROVE  LET k == [Unasked EXCEPT !.step = step, !.purpose = purpose, !.after = after]
         IN DOMAIN k = RequestFields /\ (rebuilds = 0 => RequestKnows(k))
<1> DEFINE k == [Unasked EXCEPT !.step = step, !.purpose = purpose, !.after = after]
<1>1. DOMAIN k = RequestFields /\ k.step = step /\ k.after = after
  BY DEF Unasked, RequestFields
<1> HIDE DEF k
<1>2. rebuilds = 0 => RequestKnows(k)
  BY <1>1 DEF RequestKnows
<1>3. QED
  BY <1>1, <1>2 DEF k

LEMMA FreeKnows ==
  ASSUME OInv
  PROVE  /\ DOMAIN Unasked = RequestFields /\ (rebuilds = 0 => RequestKnows(Unasked))
         /\ LET k == [Unasked EXCEPT !.step = "asked", !.purpose = "restore"]
            IN DOMAIN k = RequestFields /\ (rebuilds = 0 => RequestKnows(k))
<1>1. rebuilds = 0 => Shown(position) \in Nat
  BY FeedIsTold
<1>2. DOMAIN Unasked = RequestFields /\ Unasked.step = "free" /\ Unasked.after = 0
  BY DEF Unasked, RequestFields
<1> DEFINE k == [Unasked EXCEPT !.step = "asked", !.purpose = "restore"]
<1>3. DOMAIN k = RequestFields /\ k.step = "asked" /\ k.after = 0
  BY DEF Unasked, RequestFields
<1> HIDE DEF k
<1>4. rebuilds = 0 => RequestKnows(Unasked) /\ RequestKnows(k)
  BY <1>1, <1>2, <1>3 DEF RequestKnows
<1>5. QED
  BY <1>2, <1>3, <1>4 DEF k

(* One request goes on.                                                    *)
LEMMA RequestStep ==
  ASSUME OInv, NEW r \in Requests, NEW k, request' = [request EXCEPT ![r] = k],
         DOMAIN k = RequestFields, rebuilds = 0 => RequestKnows(k)
  PROVE  /\ request' = [q \in Requests |-> request'[q]]
         /\ \A q \in Requests : DOMAIN request'[q] = RequestFields
         /\ rebuilds = 0 => \A q \in Requests : RequestKnows(request'[q])
<1>1. request = [q \in Requests |-> request[q]]
  BY DEF OInv, Shaped
<1>2. \A q \in Requests : request'[q] = IF q = r THEN k ELSE request[q]
  BY <1>1
<1>3. request' = [q \in Requests |-> request'[q]]
  BY <1>1
<1>4. \A q \in Requests : DOMAIN request'[q] = RequestFields
  BY <1>2 DEF OInv, Shaped
<1>5. rebuilds = 0 => \A q \in Requests : RequestKnows(request'[q])
  BY <1>2 DEF OInv, Knows
<1>6. QED
  BY <1>3, <1>4, <1>5

(* The effect that opens a stream where there was no map.                  *)
LEMMA StreamForFollows ==
  ASSUME OInv, NEW map
  PROVE  /\ DOMAIN StreamFor(map) = StreamFields
         /\ map # None /\ ~screen.restarted => StreamFor(map).state # "off"
         /\ rebuilds = 0 => StreamKnows(StreamFor(map))
<1>1. rebuilds = 0 => Shown(position) \in Nat /\ screen.cursor \in 0 .. Shown(position)
  BY FeedIsTold DEF OInv, Knows, ScreenKnows
<1>2. CASE map = None
  <2>1. StreamFor(map) = Off
    BY <1>2 DEF StreamFor
  <2>2. DOMAIN Off = StreamFields /\ Off.last = 0 /\ Off.page = {}
    BY DEF Off, StreamFields
  <2>3. QED
    BY <1>1, <1>2, <2>1, <2>2 DEF StreamKnows
<1>3. CASE map # None /\ screen.map = None
  <2> DEFINE t == [Off EXCEPT !.state = "connecting", !.last = screen.cursor]
  <2>1. StreamFor(map) = t
    BY <1>3 DEF StreamFor
  <2>2. DOMAIN t = StreamFields /\ t.state = "connecting" /\ t.last = screen.cursor /\ t.page = {}
    BY DEF Off, StreamFields
  <2> HIDE DEF t
  <2>3. QED
    BY <1>1, <2>1, <2>2 DEF StreamKnows
<1>4. CASE map # None /\ screen.map # None
  BY <1>4 DEF StreamFor, OInv, Shaped, Followed, Knows
<1>5. QED
  BY <1>2, <1>3, <1>4

(* Only a request goes on.                                                 *)
LEMMA OnlyRequest ==
  ASSUME OInv, Beside, NEW r \in Requests, NEW k, request' = [request EXCEPT ![r] = k],
         DOMAIN k = RequestFields, rebuilds = 0 => RequestKnows(k), UNCHANGED <<screen, stream>>
  PROVE  OInv'
<1>1. Shaped(request', screen', stream') /\ Followed(screen', stream')
  BY RequestStep DEF OInv, Shaped
<1>2. rebuilds = 0 => /\ ScreenKnows(screen') /\ StreamKnows(stream')
                      /\ \A q \in Requests : RequestKnows(request'[q])
  BY RequestStep DEF OInv, Knows
<1>3. QED
  BY <1>1, <1>2, ScreenStep

LEMMA ReadSnapshotStep ==
  ASSUME OInv, Beside, NEW r \in Requests, ReadSnapshot(r), UNCHANGED <<screen, stream>>
  PROVE  OInv'
<1>1. DOMAIN request[r] = RequestFields /\ (rebuilds = 0 => RequestKnows(request[r]))
  BY DEF OInv, Shaped, Knows
<1>2. CASE request[r].step = "asked" /\ position = None
  <2> DEFINE k == [request[r] EXCEPT !.step = "answered", !.position = position]
  <2>1. request' = [request EXCEPT ![r] = k]
    BY <1>2 DEF ReadSnapshot
  <2>2. /\ DOMAIN k = RequestFields /\ k.step = "answered" /\ k.position = None
        /\ k.after = request[r].after
    BY <1>1, <1>2 DEF RequestFields
  <2> HIDE DEF k
  <2>3. rebuilds = 0 => RequestKnows(k)
    BY <1>1, <2>2 DEF RequestKnows
  <2>4. QED
    BY <2>1, <2>2, <2>3, OnlyRequest
<1>3. CASE request[r].step = "asked" /\ position # None
  <2> DEFINE k == [request[r] EXCEPT !.step = "half", !.position = position]
  <2>1. request' = [request EXCEPT ![r] = k]
    BY <1>3 DEF ReadSnapshot
  <2>2. /\ DOMAIN k = RequestFields /\ k.step = "half" /\ k.position = position
        /\ k.after = request[r].after
    BY <1>1 DEF RequestFields
  <2> HIDE DEF k
  <2>3. rebuilds = 0 => RequestKnows(k)
    BY <1>1, <1>3, <2>2, FeedIsTold DEF RequestKnows, ReadAt
  <2>4. QED
    BY <2>1, <2>2, <2>3, OnlyRequest
<1>4. CASE request[r].step = "half"
  <2> DEFINE k == [request[r] EXCEPT !.step = "answered", !.cards = agents]
  <2>1. request' = [request EXCEPT ![r] = k]
    BY <1>4 DEF ReadSnapshot
  <2>2. /\ DOMAIN k = RequestFields /\ k.step = "answered" /\ k.position = request[r].position
        /\ k.after = request[r].after /\ k.cards = agents
    BY <1>1 DEF RequestFields
  <2> HIDE DEF k
  <2>3. ASSUME rebuilds = 0
        PROVE  RequestKnows(k)
    <3>1. ReadAt(k.position, k.after) /\ k.after \in 0 .. Shown(position)
      BY <1>1, <1>4, <2>2, <2>3 DEF RequestKnows
    <3>2. k.position.event \in Nat /\ k.position.event <= Shown(position)
      BY <3>1, ProjectionAssumption DEF ReadAt, Positions
    <3>3. Shown(position) \in Nat /\ k.cards = Told(Shown(position))
      BY <2>2, <2>3, FeedIsTold
    <3>4. IsPrefix(Told(k.position.event), k.cards)
      BY <3>2, <3>3, ToldIsPrefix
    <3>5. QED
      BY <2>2, <3>1, <3>4 DEF RequestKnows
  <2>4. QED
    BY <2>1, <2>2, <2>3, OnlyRequest
<1>5. QED
  BY <1>2, <1>3, <1>4 DEF ReadSnapshot

LEMMA OpenPageStep ==
  ASSUME OInv, Beside, OpenPage
  PROVE  OInv'
<1>1. PICK r \in Requests :
        request' = [q \in Requests |->
          IF q = r THEN [Unasked EXCEPT !.step = "asked", !.purpose = "restore"] ELSE Unasked]
  BY DEF OpenPage
<1>2. /\ request' = [q \in Requests |-> request'[q]]
      /\ \A q \in Requests : DOMAIN request'[q] = RequestFields
      /\ rebuilds = 0 => \A q \in Requests : RequestKnows(request'[q])
  <2>1. \A q \in Requests :
          request'[q] = IF q = r THEN [Unasked EXCEPT !.step = "asked", !.purpose = "restore"]
                        ELSE Unasked
    BY <1>1
  <2>2. QED
    BY <1>1, <2>1, FreeKnows, Zenon
<1>3. /\ DOMAIN screen' = ScreenFields /\ screen'.phase = "restoring" /\ screen'.map = None
      /\ screen'.loaded = None /\ screen'.cursor = 0 /\ screen'.restarted = FALSE
  BY DEF OpenPage, Blank, ScreenFields
<1>4. DOMAIN stream' = StreamFields /\ stream'.last = 0 /\ stream'.page = {}
  BY DEF OpenPage, Off, StreamFields
<1>5. rebuilds = 0 => ScreenKnows(screen') /\ StreamKnows(stream')
  BY <1>3, <1>4, FeedIsTold DEF ScreenKnows, StreamKnows
<1>6. Shaped(request', screen', stream') /\ Followed(screen', stream')
  BY <1>2, <1>3, <1>4 DEF Shaped, Followed
<1>7. QED
  BY <1>2, <1>5, <1>6, ScreenStep

(* What an answered request brings.                                        *)
LEMMA AnswerKnows ==
  ASSUME OInv, NEW r \in Requests, request[r].step = "answered", Answer(r) # None, rebuilds = 0
  PROVE  /\ ReadAt(Answer(r).position, request[r].after) /\ ReadAt(Answer(r).position, 0)
         /\ Answer(r).position.sequence \in 0 .. Shown(position)
<1>1. request[r].position # None /\ Answer(r).position = request[r].position
  BY DEF Answer
<1>2. ReadAt(Answer(r).position, request[r].after)
  BY <1>1 DEF OInv, Knows, RequestKnows
<1>3. Answer(r).position.event \in Nat /\ Shown(position) \in Nat
  BY <1>2, FeedIsTold, ProjectionAssumption DEF ReadAt, Positions
<1>4. QED
  BY <1>2, <1>3 DEF ReadAt

LEMMA RestoredStep ==
  ASSUME OInv, Beside, NEW r \in Requests, Restored(r)
  PROVE  OInv'
<1>1. /\ request' = [q \in Requests |-> request'[q]]
      /\ \A q \in Requests : DOMAIN request'[q] = RequestFields
      /\ rebuilds = 0 => \A q \in Requests : RequestKnows(request'[q])
  BY RequestStep, FreeKnows DEF Restored
<1>2. DOMAIN screen = ScreenFields
  BY DEF OInv, Shaped
<1>3. CASE Answer(r) = None
  <2>1. screen' = [screen EXCEPT !.phase = "failed", !.map = None] /\ stream' = StreamFor(None)
    BY <1>3 DEF Restored
  <2>2. /\ DOMAIN screen' = ScreenFields /\ screen'.phase = "failed" /\ screen'.map = None
        /\ screen'.loaded = screen.loaded /\ screen'.cursor = screen.cursor
        /\ screen'.restarted = screen.restarted
    BY <1>2, <2>1 DEF ScreenFields
  <2>3. rebuilds = 0 => ScreenKnows(screen') /\ StreamKnows(stream')
    BY <2>1, <2>2, StreamForFollows DEF OInv, Knows, ScreenKnows
  <2>4. Shaped(request', screen', stream') /\ Followed(screen', stream')
    BY <1>1, <2>1, <2>2, StreamForFollows DEF Shaped, Followed
  <2>5. QED
    BY <1>1, <2>3, <2>4, ScreenStep
<1>4. CASE Answer(r) # None
  <2>1. /\ screen' = [screen EXCEPT !.phase = "paging", !.loaded = Answer(r),
                                    !.cursor = Answer(r).position.sequence]
        /\ stream' = stream /\ request[r].step = "answered"
    BY <1>4 DEF Restored
  <2>2. /\ DOMAIN screen' = ScreenFields /\ screen'.loaded = Answer(r) /\ screen'.map = screen.map
        /\ screen'.cursor = Answer(r).position.sequence /\ screen'.mapAfter = screen.mapAfter
        /\ screen'.restarted = screen.restarted
    BY <1>2, <2>1 DEF ScreenFields
  <2>3. rebuilds = 0 => ScreenKnows(screen') /\ StreamKnows(stream')
    BY <1>4, <2>1, <2>2, AnswerKnows DEF OInv, Knows, ScreenKnows
  <2>4. Shaped(request', screen', stream') /\ Followed(screen', stream')
    BY <1>1, <1>4, <2>1, <2>2 DEF OInv, Shaped, Followed
  <2>5. QED
    BY <1>1, <2>3, <2>4, ScreenStep
<1>5. QED
  BY <1>3, <1>4

LEMMA RefreshedStep ==
  ASSUME OInv, Beside, NEW r \in Requests, Refreshed(r)
  PROVE  OInv'
<1>1. /\ request' = [q \in Requests |-> request'[q]]
      /\ \A q \in Requests : DOMAIN request'[q] = RequestFields
      /\ rebuilds = 0 => \A q \in Requests : RequestKnows(request'[q])
  BY RequestStep, FreeKnows DEF Refreshed
<1>2. /\ screen' = [screen EXCEPT !.map = Answer(r), !.mapAfter = request[r].after]
      /\ stream' = StreamFor(Answer(r)) /\ request[r].step = "answered"
  BY DEF Refreshed
<1>3. /\ DOMAIN screen' = ScreenFields /\ screen'.phase = screen.phase /\ screen'.map = Answer(r)
      /\ screen'.mapAfter = request[r].after /\ screen'.loaded = screen.loaded
      /\ screen'.cursor = screen.cursor /\ screen'.restarted = screen.restarted
  BY <1>2 DEF OInv, Shaped, ScreenFields
<1>4. rebuilds = 0 => ScreenKnows(screen') /\ StreamKnows(stream')
  BY <1>2, <1>3, AnswerKnows, StreamForFollows DEF OInv, Knows, ScreenKnows
<1>5. Shaped(request', screen', stream') /\ Followed(screen', stream')
  BY <1>1, <1>2, <1>3, StreamForFollows DEF OInv, Shaped, Followed
<1>6. QED
  BY <1>1, <1>4, <1>5, ScreenStep

(* The requests are as they were.                                          *)
LEMMA SameRequests ==
  ASSUME OInv, UNCHANGED request
  PROVE  /\ request' = [q \in Requests |-> request'[q]]
         /\ \A q \in Requests : DOMAIN request'[q] = RequestFields
         /\ rebuilds = 0 => \A q \in Requests : RequestKnows(request'[q])
BY DEF OInv, Shaped, Knows

LEMMA PagedStep ==
  ASSUME OInv, Beside, Paged
  PROVE  OInv'
<1>1. /\ request' = [q \in Requests |-> request'[q]]
      /\ \A q \in Requests : DOMAIN request'[q] = RequestFields
      /\ rebuilds = 0 => \A q \in Requests : RequestKnows(request'[q])
  BY SameRequests DEF Paged
<1>2. screen.loaded # None /\ DOMAIN screen = ScreenFields /\ stream' = StreamFor(screen.loaded)
  BY DEF OInv, Shaped, Followed, Paged
<1>3. PICK rows, short, strayed :
        screen' = [screen EXCEPT !.phase = "shown", !.map = screen.loaded, !.loaded = None,
                                 !.mapAfter = 0, !.shown = rows, !.short = short,
                                 !.strayed = strayed]
  BY DEF Paged
<1>4. /\ DOMAIN screen' = ScreenFields /\ screen'.phase = "shown" /\ screen'.map = screen.loaded
      /\ screen'.loaded = None /\ screen'.mapAfter = 0 /\ screen'.cursor = screen.cursor
      /\ screen'.restarted = screen.restarted
  BY <1>2, <1>3 DEF ScreenFields
<1>5. rebuilds = 0 => ScreenKnows(screen') /\ StreamKnows(stream')
  BY <1>2, <1>4, StreamForFollows DEF OInv, Knows, ScreenKnows
<1>6. Shaped(request', screen', stream') /\ Followed(screen', stream')
  BY <1>1, <1>2, <1>4, StreamForFollows DEF Shaped, Followed
<1>7. QED
  BY <1>1, <1>5, <1>6, ScreenStep

(* The screen shows an error, or nothing at all.                           *)
LEMMA ErrorStep ==
  ASSUME OInv, Beside, UNCHANGED stream,
         \/ screen' = screen
         \/ screen' = [screen EXCEPT !.phase = "failed"]
         \/ screen' = [screen EXCEPT !.phase = "failed", !.loaded = None],
         /\ request' = [q \in Requests |-> request'[q]]
         /\ \A q \in Requests : DOMAIN request'[q] = RequestFields
         /\ rebuilds = 0 => \A q \in Requests : RequestKnows(request'[q])
  PROVE  OInv'
<1>1. /\ DOMAIN screen' = ScreenFields /\ screen'.phase \in {screen.phase, "failed"}
      /\ screen'.map = screen.map /\ screen'.mapAfter = screen.mapAfter
      /\ screen'.cursor = screen.cursor /\ screen'.restarted = screen.restarted
      /\ screen'.loaded \in {screen.loaded, None}
      /\ screen'.phase = "paging" => screen'.loaded = screen.loaded
  BY DEF OInv, Shaped, ScreenFields
<1>2. rebuilds = 0 => ScreenKnows(screen') /\ StreamKnows(stream')
  BY <1>1 DEF OInv, Knows, ScreenKnows
<1>3. Shaped(request', screen', stream') /\ Followed(screen', stream')
  BY <1>1 DEF OInv, Shaped, Followed
<1>4. QED
  BY <1>2, <1>3, ScreenStep

LEMMA LostStep ==
  ASSUME OInv, Beside, NEW r \in Requests, Lost(r)
  PROVE  OInv'
<1>1. /\ request' = [q \in Requests |-> request'[q]]
      /\ \A q \in Requests : DOMAIN request'[q] = RequestFields
      /\ rebuilds = 0 => \A q \in Requests : RequestKnows(request'[q])
  BY RequestStep, FreeKnows DEF Lost
<1>2. screen' = screen \/ screen' = [screen EXCEPT !.phase = "failed"]
  BY DEF Lost
<1>3. QED
  BY <1>1, <1>2, ErrorStep DEF Lost

LEMMA PageLostStep ==
  ASSUME OInv, Beside, PageLost
  PROVE  OInv'
BY SameRequests, ErrorStep DEF PageLost

(* The stream, which is not closed.                                        *)
LEMMA StreamStep ==
  ASSUME OInv, Beside, UNCHANGED request, DOMAIN stream' = StreamFields,
         NEW strayed, screen' = screen \/ screen' = [screen EXCEPT !.strayed = strayed],
         stream'.state # "off", rebuilds = 0 => StreamKnows(stream')
  PROVE  OInv'
<1>1. /\ DOMAIN screen' = ScreenFields /\ screen'.phase = screen.phase
      /\ screen'.cursor = screen.cursor /\ screen'.restarted = screen.restarted
      /\ screen'.loaded = screen.loaded
      /\ screen'.map = screen.map /\ screen'.mapAfter = screen.mapAfter
  BY DEF OInv, Shaped, ScreenFields
<1>2. Shaped(request', screen', stream') /\ Followed(screen', stream')
  BY <1>1 DEF OInv, Shaped, Followed
<1>3. rebuilds = 0 => ScreenKnows(screen') /\ \A r \in Requests : RequestKnows(request'[r])
  BY <1>1 DEF OInv, Knows, ScreenKnows
<1>4. QED
  BY <1>2, <1>3, ScreenStep

(* Rows that are there are known, before the first rebuild.                *)
LEMMA RowsAreKnown ==
  ASSUME OInv, rebuilds = 0, NEW after, NEW limit
  PROVE  RowsAfter(after, limit) \subseteq 1 .. Shown(position)
BY RowsAreThere, FeedIsTold

LEMMA ConnectStep ==
  ASSUME OInv, Beside, Connect
  PROVE  OInv'
<1>1. DOMAIN screen = ScreenFields /\ DOMAIN stream = StreamFields
  BY DEF OInv, Shaped
<1>2. CASE ~Behind(stream.last)
  <2>1. Bring /\ UNCHANGED request
    BY <1>2 DEF Connect, Bring
  <2>2. /\ DOMAIN stream' = StreamFields /\ stream'.state = "open" /\ stream'.last = stream.last
        /\ stream'.page = RowsAfter(stream.last, PageLimit)
    BY <1>1, <2>1 DEF StreamFields, Bring
  <2>3. rebuilds = 0 => StreamKnows(stream')
    BY <2>2, RowsAreKnown DEF OInv, Knows, StreamKnows
  <2>4. QED
    BY <2>1, <2>2, <2>3, StreamStep DEF Bring
<1>3. CASE Behind(stream.last)
  <2>1. rebuilds # 0
    BY <1>3, NobodyIsBehind
  <2>2. PICK r \in Requests : Ask(r, "restore", 0)
    BY <1>3 DEF Connect
  <2>3. /\ request' = [q \in Requests |-> request'[q]]
        /\ \A q \in Requests : DOMAIN request'[q] = RequestFields
    BY <2>1, <2>2, RequestStep, UnaskedKnows DEF Ask
  <2>4. stream' = Off /\ screen' = [screen EXCEPT !.phase = "restoring", !.restarted = TRUE]
    BY <1>3 DEF Connect
  <2>5. DOMAIN stream' = StreamFields
    BY <2>4 DEF Off, StreamFields
  <2>6. DOMAIN screen' = ScreenFields /\ screen'.phase = "restoring" /\ screen'.restarted
    BY <1>1, <2>4 DEF ScreenFields
  <2>7. Shaped(request', screen', stream') /\ Followed(screen', stream')
    BY <2>3, <2>5, <2>6 DEF Shaped, Followed
  <2>8. QED
    BY <2>1, <2>7, ScreenStep
<1>4. QED
  BY <1>2, <1>3

LEMMA PollStep ==
  ASSUME OInv, Beside, Poll
  PROVE  OInv'
<1>1. /\ DOMAIN stream' = StreamFields /\ stream'.state = "open" /\ stream'.last = stream.last
      /\ stream'.page = RowsAfter(stream.last, PageLimit)
  BY DEF OInv, Shaped, StreamFields, Poll, Bring
<1>2. rebuilds = 0 => StreamKnows(stream')
  BY <1>1, RowsAreKnown DEF OInv, Knows, StreamKnows
<1>3. QED
  BY <1>1, <1>2, StreamStep DEF Poll, Bring

LEMMA BreakStep ==
  ASSUME OInv, Beside, Break
  PROVE  OInv'
<1>1. stream' = [state |-> "connecting", last |-> stream.last, page |-> {}]
  BY DEF Break, LastReceived
<1>2. /\ DOMAIN stream' = StreamFields /\ stream'.state = "connecting" /\ stream'.last = stream.last
      /\ stream'.page = {}
  BY <1>1 DEF StreamFields
<1>3. rebuilds = 0 => StreamKnows(stream')
  BY <1>2 DEF OInv, Knows, StreamKnows
<1>4. QED
  BY <1>2, <1>3, StreamStep DEF Break

(* A snapshot that is asked for now has the event that was delivered now.  *)
LEMMA DeliverStep ==
  ASSUME OInv, Beside, Deliver
  PROVE  OInv'
<1>1. PICK p \in stream.page :
        /\ stream' = [stream EXCEPT !.last = p, !.page = @ \ {p}]
        /\ screen' = [screen EXCEPT !.cursor = IF @ > p THEN @ ELSE p, !.shown = Appended(@, p)]
        /\ \E r \in Requests : Ask(r, "refresh", p)
  BY DEF Deliver
<1>2. stream.state = "open" /\ DOMAIN screen = ScreenFields /\ DOMAIN stream = StreamFields
  BY DEF Deliver, OInv, Shaped
<1>3. rebuilds = 0 => Shown(position) \in Nat /\ p \in 0 .. Shown(position)
                      /\ screen.cursor \in 0 .. Shown(position)
  BY FeedIsTold DEF OInv, Knows, ScreenKnows, StreamKnows
<1>4. PICK r \in Requests : Ask(r, "refresh", p)
  BY <1>1
<1>5. /\ request' = [q \in Requests |-> request'[q]]
      /\ \A q \in Requests : DOMAIN request'[q] = RequestFields
      /\ rebuilds = 0 => \A q \in Requests : RequestKnows(request'[q])
  BY <1>3, <1>4, RequestStep, UnaskedKnows DEF Ask
<1>6. /\ DOMAIN stream' = StreamFields /\ stream'.state = "open" /\ stream'.last = p
      /\ stream'.page = stream.page \ {p}
  BY <1>1, <1>2 DEF StreamFields
<1>7. /\ DOMAIN screen' = ScreenFields /\ screen'.phase = screen.phase /\ screen'.map = screen.map
      /\ screen'.loaded = screen.loaded /\ screen'.mapAfter = screen.mapAfter
      /\ screen'.cursor \in {screen.cursor, p} /\ screen'.restarted = screen.restarted
  BY <1>1, <1>2 DEF ScreenFields
<1>8. rebuilds = 0 => ScreenKnows(screen') /\ StreamKnows(stream')
  BY <1>3, <1>6, <1>7 DEF OInv, Knows, ScreenKnows, StreamKnows
<1>9. Shaped(request', screen', stream') /\ Followed(screen', stream')
  BY <1>5, <1>6, <1>7 DEF OInv, Shaped, Followed
<1>10. QED
  BY <1>5, <1>8, <1>9, ScreenStep

-----------------------------------------------------------------------------
LEMMA InitOInv == ObserverInit => OInv
<1> SUFFICES ASSUME ObserverInit PROVE OInv
  OBVIOUS
<1>1. Init /\ rebuilds = 0 /\ IInv
  BY InitIInv DEF ObserverInit, Init
<1>2. FirstBuild
  BY DEF ObserverInit, Init, FirstBuild, Down
<1>3. Shown(position) \in Nat
  BY <1>1, Numbers, ProjectionAssumption DEF IInv
<1>4. \A r \in Requests : request[r] = Unasked
  BY DEF ObserverInit
<1>5. DOMAIN Unasked = RequestFields /\ Unasked.step = "free" /\ Unasked.after = 0
  BY DEF Unasked, RequestFields
<1>6. /\ DOMAIN screen = ScreenFields /\ screen.phase = "closed" /\ screen.map = None
      /\ screen.loaded = None /\ screen.cursor = 0 /\ screen.restarted = FALSE
  BY DEF ObserverInit, Blank, ScreenFields
<1>7. DOMAIN stream = StreamFields /\ stream.last = 0 /\ stream.page = {}
  BY DEF ObserverInit, Off, StreamFields
<1>8. Knows
  BY <1>3, <1>4, <1>5, <1>6, <1>7 DEF Knows, ScreenKnows, StreamKnows, RequestKnows
<1>9. request = [r \in Requests |-> request[r]]
  BY DEF ObserverInit
<1>10. Shaped(request, screen, stream) /\ Followed(screen, stream)
  BY <1>4, <1>5, <1>6, <1>7, <1>9 DEF Shaped, Followed
<1>11. QED
  BY <1>1, <1>2, <1>8, <1>10 DEF OInv

LEMMA NextOInv == OInv /\ [ObserverNext]_allVars => OInv'
<1> SUFFICES ASSUME OInv, [ObserverNext]_allVars PROVE OInv'
  OBVIOUS
<1>1. CASE Next /\ UNCHANGED screenVars
  BY <1>1, BuildStep
<1>2. CASE UNCHANGED allVars
  BY <1>2, BuildStep DEF allVars, projection, screenVars, vars, tables
<1>3. CASE (OpenPage \/ Follow \/ \E r \in Requests : Fetch(r)) /\ UNCHANGED projection
  <2>1. Beside
    BY <1>3 DEF Beside, projection, OInv, IInv, TypeOK
  <2>2. CASE OpenPage
    BY <2>1, <2>2, OpenPageStep
  <2>3. CASE Follow
    BY <2>1, <2>3, PagedStep, ConnectStep, PollStep, DeliverStep DEF Follow
  <2>4. ASSUME NEW r \in Requests, Fetch(r)
        PROVE  OInv'
    BY <2>1, <2>4, ReadSnapshotStep, RestoredStep, RefreshedStep DEF Fetch
  <2>5. QED
    BY <1>3, <2>2, <2>3, <2>4
<1>4. CASE Trouble
  <2>1. Beside
    BY <1>4, ProjectionAssumption DEF Beside, Trouble, OInv, IInv, TypeOK
  <2>2. QED
    BY <1>4, <2>1, BreakStep, PageLostStep, LostStep DEF Trouble
<1>5. QED
  BY <1>1, <1>2, <1>3, <1>4 DEF ObserverNext

LEMMA ObserverInvariance == ObserverSpec => []OInv
<1>1. QED
  BY InitOInv, NextOInv, PTL DEF ObserverSpec

(* A snapshot of the API, although it is read in two statements beside the *)
(* builders, has every event up to the position the stream goes on from.   *)
THEOREM SnapshotsAreComplete == ObserverSpec => []SnapshotMissesNothing
<1>1. OInv => SnapshotMissesNothing
  <2> SUFFICES ASSUME OInv, rebuilds = 0, NEW s \in Snapshots
               PROVE  IsPrefix([i \in 1 .. s.position.event |-> i], s.cards)
    BY DEF SnapshotMissesNothing
  <2>1. PICK r \in Requests : request[r].step = "answered" /\ s = Answer(r) /\ s # None
    BY DEF Snapshots
  <2>2. request[r].position # None /\ s.position = request[r].position /\ s.cards = request[r].cards
    BY <2>1 DEF Answer
  <2>3. IsPrefix(Told(s.position.event), s.cards)
    BY <2>1, <2>2 DEF OInv, Knows, RequestKnows
  <2>4. QED
    BY <2>3 DEF Told
<1>2. QED
  BY <1>1, ObserverInvariance, PTL

(* However late an answer comes and whatever it replaces, the map tells the*)
(* event after which it was asked for.                                     *)
THEOREM MapsAreNotBehind == ObserverSpec => []MapTellsItsEvent
<1>1. OInv => MapTellsItsEvent
  <2> SUFFICES ASSUME OInv, rebuilds = 0
               PROVE  /\ \A r \in Requests : request[r].step = "answered" /\ Answer(r) # None =>
                           request[r].after <= request[r].position.sequence
                      /\ screen.map # None => screen.mapAfter <= screen.map.position.sequence
    BY DEF MapTellsItsEvent
  <2>1. ASSUME NEW r \in Requests, request[r].step = "answered", Answer(r) # None
        PROVE  request[r].after <= request[r].position.sequence
    <3>1. request[r].position # None
      BY <2>1 DEF Answer
    <3>2. QED
      BY <2>1, <3>1 DEF OInv, Knows, RequestKnows, ReadAt
  <2>2. screen.map # None => screen.mapAfter <= screen.map.position.sequence
    BY DEF OInv, Knows, ScreenKnows, ReadAt
  <2>3. QED
    BY <2>1, <2>2
<1>2. QED
  BY <1>1, ObserverInvariance, PTL

(* Nothing but a rebuild makes a screen with a map stop following, whatever*)
(* is lost and whenever it is answered.                                    *)
THEOREM NobodyFallsSilent == ObserverSpec => []SilentOnlyAfterReset
<1>1. OInv => SilentOnlyAfterReset
  <2> SUFFICES ASSUME OInv
               PROVE  SilentOnlyAfterReset
    OBVIOUS
  <2>1. Watching /\ ~screen.restarted => stream.state # "off"
    BY DEF OInv, Followed, Watching
  <2>2. rebuilds \in Nat /\ (rebuilds = 0 => ~screen.restarted)
    BY ProjectionAssumption DEF OInv, IInv, TypeOK, Knows, ScreenKnows
  <2>3. screen.restarted => rebuilds > 0
    BY <2>2
  <2>4. QED
    BY <2>1, <2>3 DEF SilentOnlyAfterReset
<1>2. QED
  BY <1>1, ObserverInvariance, PTL

-----------------------------------------------------------------------------
(* The positions after lo up to hi, in order.                              *)
Row(shown, lo, hi) ==
  /\ lo \in Nat /\ hi \in Nat /\ lo <= hi
  /\ shown \in Seq(Nat) /\ Len(shown) = hi - lo /\ \A i \in 1 .. hi - lo : shown[i] = lo + i

(* Where the stream goes on, and what the screen counts up to, is in what  *)
(* is shown or just before it.                                             *)
Anchored(s, t) ==
  \E lo, hi \in Nat :
    /\ Row(s.shown, lo, hi) /\ lo <= s.cursor /\ s.cursor <= hi
    /\ t.state # "off" => lo <= t.last /\ t.last <= hi

(* The rows that were brought are the next ones.                           *)
NextRows(t) == \A p \in t.page : p > t.last /\ \A q \in t.last + 1 .. p : q \in t.page

(* Before there is a feed there is one request that may bring it.          *)
OneAsks(k, s) ==
  /\ \A r \in Requests :
       /\ k[r].purpose = "restore" => s.phase = "restoring"
       /\ k[r].purpose = "refresh" => s.phase = "shown"
  /\ \A r, q \in Requests : k[r].purpose = "restore" /\ k[q].purpose = "restore" => r = q

Idle(s, t) == t.state = "off" /\ t.page = {} /\ s.map = None /\ s.shown = <<>>

(* A screen that was not told to start over, and one that was.             *)
FirstTime(k, s, t) ==
  /\ OneAsks(k, s)
  /\ s.phase = "shown" => NextRows(t) /\ (~s.short => Anchored(s, t))
  /\ s.phase # "shown" => Idle(s, t)
Again(s, t) == t.page = {} /\ (~s.short => \E lo, hi \in Nat : Row(s.shown, lo, hi))

Counted(k, s, t) ==
  /\ s.cursor \in Nat /\ t.last \in Nat /\ t.page \subseteq Nat
  /\ \A r \in Requests : k[r].position # None => k[r].position.sequence \in Nat

Unbroken(k, s, t) ==
  /\ Counted(k, s, t)
  /\ ~s.strayed => /\ ~s.restarted => FirstTime(k, s, t)
                   /\ s.restarted => Again(s, t)

FInv == Unbroken(request, screen, stream)

-----------------------------------------------------------------------------
(* How many of some positions in a row there are up to one of them.        *)
LEMMA RankInRow ==
  ASSUME NEW a \in Nat, NEW b \in Nat, NEW p \in a + 1 .. b
  PROVE  Cardinality({q \in a + 1 .. b : q <= p}) = p - a
<1>1. {q \in a + 1 .. b : q <= p} = a + 1 .. p
  OBVIOUS
<1>2. a + 1 \in Int /\ p \in Int /\ ~(a + 1 > p) /\ p - (a + 1) + 1 = p - a
  OBVIOUS
<1>3. Cardinality(a + 1 .. p) = p - a
  BY ONLY <1>2, FS_Interval
<1>4. QED
  BY <1>1, <1>3

(* The rows after a position, when the feed has all of them.               *)
LEMMA RowsOfWhole ==
  ASSUME NEW n \in Nat, DOMAIN feed = 1 .. n, NEW a \in Nat, NEW limit \in Nat
  PROVE  \E b \in Nat : a <= b /\ RowsAfter(a, limit) = a + 1 .. b
<1> DEFINE m == IF a + limit < n THEN a + limit ELSE n
           b == IF a <= m THEN m ELSE a
<1>1. {p \in DOMAIN feed : p > a} = a + 1 .. n
  OBVIOUS
<1>2. RowsAfter(a, limit) =
        {p \in a + 1 .. n : Cardinality({q \in a + 1 .. n : q <= p}) <= limit}
  BY <1>1 DEF RowsAfter, FirstOf
<1>3. \A p \in a + 1 .. n : Cardinality({q \in a + 1 .. n : q <= p}) = p - a
  BY RankInRow
<1>4. RowsAfter(a, limit) = {p \in a + 1 .. n : p - a <= limit}
  BY ONLY <1>2, <1>3
<1>5. {p \in a + 1 .. n : p - a <= limit} = a + 1 .. b
  OBVIOUS
<1>6. b \in Nat /\ a <= b
  OBVIOUS
<1> HIDE DEF b
<1>7. QED
  BY <1>4, <1>5, <1>6

LEMMA RowsAreNext ==
  ASSUME OInv, ~torn, NEW a \in Nat, NEW limit \in Nat
  PROVE  \E b \in Nat : a <= b /\ RowsAfter(a, limit) = a + 1 .. b
<1>1. feed = Told(Shown(position)) /\ TypeOK
  BY DEF OInv, IInv, Untorn
<1>2. Shown(position) \in Nat
  BY <1>1, Numbers, ProjectionAssumption
<1>3. DOMAIN feed = 1 .. Shown(position)
  BY <1>1 DEF Told
<1>4. QED
  BY <1>2, <1>3, RowsOfWhole

(* In order, positions in a row are a row.                                 *)
LEMMA InOrderIsRow ==
  ASSUME NEW a \in Nat, NEW b \in Nat, a <= b
  PROVE  Row(InOrder(a + 1 .. b), a, b)
<1> DEFINE P == a + 1 .. b
           At(i) == CHOOSE p \in P : Cardinality({q \in P : q <= p}) = i
<1>1. Cardinality(P) = b - a
  <2>1. a + 1 \in Int /\ b \in Int /\ (IF a + 1 > b THEN 0 ELSE b - (a + 1) + 1) = b - a
    OBVIOUS
  <2>2. QED
    BY ONLY <2>1, FS_Interval
<1>2. ASSUME NEW i \in 1 .. b - a
      PROVE  At(i) = a + i
  <2>1. a + i \in P
    OBVIOUS
  <2>2. \A p \in P : Cardinality({q \in P : q <= p}) = p - a
    BY RankInRow
  <2> DEFINE Rank(p) == Cardinality({q \in P : q <= p})
  <2>3. \A p \in P : Rank(p) = i <=> p = a + i
    <3> SUFFICES ASSUME NEW p \in P PROVE Rank(p) = i <=> p = a + i
      OBVIOUS
    <3>1. Rank(p) = p - a
      BY <2>2
    <3> HIDE DEF Rank
    <3>2. QED
      BY <3>1
  <2> HIDE DEF P, Rank
  <2>4. (CHOOSE p \in P : Rank(p) = i) = a + i
    BY ONLY <2>1, <2>3
  <2>5. QED
    BY <2>4 DEF Rank
<1> HIDE DEF At
<1>3. InOrder(P) = [i \in 1 .. b - a |-> At(i)]
  BY <1>1 DEF InOrder, At
<1> HIDE DEF P
<1>4. b - a \in Nat /\ \A i \in 1 .. b - a : a + i \in Nat
  OBVIOUS
<1>5. InOrder(P) \in Seq(Nat) /\ Len(InOrder(P)) = b - a
      /\ \A i \in 1 .. b - a : InOrder(P)[i] = a + i
  BY <1>2, <1>3, <1>4
<1>6. QED
  BY <1>5 DEF Row, P

(* What follows a row, delivered, is in it or makes it longer; the first   *)
(* that are shown may go.                                                  *)
LEMMA RowGrows ==
  ASSUME NEW shown, NEW lo \in Nat, NEW hi \in Nat, Row(shown, lo, hi), NEW p \in Nat,
         lo < p, p <= hi + 1
  PROVE  \E low, high \in Nat :
           Row(Appended(shown, p), low, high) /\ low <= p /\ p <= high /\ hi <= high
<1>1. /\ lo <= hi /\ shown \in Seq(Nat) /\ Len(shown) = hi - lo
      /\ \A i \in 1 .. hi - lo : shown[i] = lo + i
  BY DEF Row
<1>2. CASE p <= hi
  <2>1. p - lo \in 1 .. Len(shown) /\ shown[p - lo] = p
    BY <1>1, <1>2
  <2>2. Appended(shown, p) = shown
    BY <2>1 DEF Appended, Contains
  <2>3. QED
    BY <1>2, <2>2
<1>3. CASE p = hi + 1
  <2> DEFINE all == Append(shown, p)
             long == Len(all) > FeedLimit
             first == IF long THEN Len(all) - FeedLimit + 1 ELSE 1
             low == lo + first - 1
  <2>1. ~Contains(shown, p)
    <3> SUFFICES ASSUME NEW i \in 1 .. Len(shown), shown[i] = p PROVE FALSE
      BY DEF Contains
    <3>1. shown[i] = lo + i /\ i <= hi - lo
      BY <1>1
    <3>2. QED
      BY <1>3, <3>1
  <2>2. /\ all \in Seq(Nat) /\ Len(all) = p - lo /\ \A i \in 1 .. p - lo : all[i] = lo + i
    BY <1>1, <1>3
  <2>3. Appended(shown, p) = SubSeq(all, first, Len(all))
    BY <2>1 DEF Appended
  <2> HIDE DEF all
  <2>4. first \in 1 .. Len(all) /\ low \in Nat /\ low < p /\ low = lo + first - 1
    BY <1>1, <1>3, <2>2, ScreenAssumption
  <2> HIDE DEF first, long, low
  <2> DEFINE last == SubSeq(all, first, Len(all))
  <2>5. last \in Seq(Nat) /\ Len(last) = Len(all) - first + 1
    <3>1. all \in Seq(Nat) /\ first \in 1 .. Len(all) + 1 /\ Len(all) \in 0 .. Len(all)
      BY <2>2, <2>4
    <3>2. QED
      BY ONLY <3>1, SubSeqProperties
  <2>6. Len(last) = p - low
    <3> HIDE DEF last
    <3>1. QED
      BY <2>2, <2>4, <2>5
  <2>7. ASSUME NEW i \in 1 .. p - low
        PROVE  last[i] = low + i
    <3>1. last[i] = all[first + i - 1] /\ first + i - 1 \in 1 .. p - lo
      BY <2>2, <2>4, <2>5, <2>6
    <3> HIDE DEF last
    <3>2. all[first + i - 1] = lo + (first + i - 1)
      BY <2>2, <3>1
    <3>3. lo + (first + i - 1) = low + i
      BY <2>2, <2>4
    <3>4. QED
      BY ONLY <3>1, <3>2, <3>3
  <2> HIDE DEF last
  <2>8. Row(last, low, p)
    <3>1. low <= p /\ low \in Nat
      BY <2>4
    <3>2. QED
      BY ONLY <2>5, <2>6, <2>7, <3>1, p \in Nat DEF Row
  <2>9. Row(Appended(shown, p), low, p)
    BY <2>3, <2>8 DEF last
  <2>10. low \in Nat /\ low <= p /\ p <= p /\ hi <= p
    BY <1>3, <2>4
  <2>11. QED
    BY ONLY <2>9, <2>10, p \in Nat
<1>4. QED
  BY <1>2, <1>3

-----------------------------------------------------------------------------
(* What of the projection a screen counts with.                            *)
LEMMA PositionCounts ==
  ASSUME OInv, position # None
  PROVE  position.sequence \in Nat
BY Numbers DEF OInv, IInv

LEMMA RequestBecomes ==
  ASSUME OInv, NEW r \in Requests, NEW k, request' = [request EXCEPT ![r] = k]
  PROVE  \A q \in Requests : request'[q] = IF q = r THEN k ELSE request[q]
BY DEF OInv, Shaped

LEMMA UnaskedCounts ==
  /\ Unasked.purpose = "none" /\ Unasked.position = None
  /\ \A purpose, after :
       LET k == [Unasked EXCEPT !.step = "asked", !.purpose = purpose, !.after = after]
       IN k.purpose = purpose /\ k.position = None
BY DEF Unasked

(* What a screen step leaves of what is counted with.                      *)
LEMMA CountedStep ==
  ASSUME FInv, screen'.cursor \in Nat, stream'.last \in Nat, stream'.page \subseteq Nat,
         \A q \in Requests :
           request'[q].position \in {request[q].position, None}
  PROVE  Counted(request', screen', stream')
BY DEF FInv, Unbroken, Counted

(* An answer is put away: of the others at most one is a restore.          *)
LEMMA OthersAsk ==
  ASSUME OInv, NEW r \in Requests, OneAsks(request, screen),
         request' = [request EXCEPT ![r] = Unasked]
  PROVE  /\ OneAsks(request', screen)
         /\ request[r].purpose = "restore" => \A s : OneAsks(request', s)
         /\ \A q \in Requests : request'[q].position \in {request[q].position, None}
<1>1. \A q \in Requests : request'[q] = IF q = r THEN Unasked ELSE request[q]
  BY RequestBecomes
<1>2. Unasked.purpose = "none" /\ Unasked.position = None
  BY UnaskedCounts
<1>3. OneAsks(request', screen)
  BY <1>1, <1>2 DEF OneAsks
<1>4. ASSUME request[r].purpose = "restore", NEW s
      PROVE  OneAsks(request', s)
  <2>1. screen.phase = "restoring"
    BY <1>4 DEF OneAsks
  <2>2. \A q \in Requests : q # r => request[q].purpose \notin {"restore", "refresh"}
    BY <1>4, <2>1 DEF OneAsks
  <2>3. \A q \in Requests : request'[q].purpose \notin {"restore", "refresh"}
    BY <1>1, <1>2, <2>2
  <2>4. QED
    BY <2>3 DEF OneAsks
<1>5. \A q \in Requests : request'[q].position \in {request[q].position, None}
  BY <1>1, <1>2
<1>6. QED
  BY <1>3, <1>4, <1>5

LEMMA PutAway ==
  ASSUME OInv, NEW r \in Requests, request' = [request EXCEPT ![r] = Unasked]
  PROVE  \A q \in Requests : request'[q].position \in {request[q].position, None}
BY RequestBecomes, UnaskedCounts

LEMMA OpenPageUnbroken ==
  ASSUME OInv, FInv, OpenPage
  PROVE  FInv'
<1>1. PICK r \in Requests :
        request' = [q \in Requests |->
          IF q = r THEN [Unasked EXCEPT !.step = "asked", !.purpose = "restore"] ELSE Unasked]
  BY DEF OpenPage
<1>2. \A q \in Requests :
        /\ request'[q].position = None
        /\ request'[q].purpose = IF q = r THEN "restore" ELSE "none"
  BY <1>1 DEF Unasked
<1>3. /\ screen'.phase = "restoring" /\ screen'.map = None /\ screen'.shown = <<>>
      /\ screen'.cursor = 0 /\ screen'.restarted = FALSE
  BY DEF OpenPage, Blank
<1>4. stream'.state = "off" /\ stream'.last = 0 /\ stream'.page = {}
  BY DEF OpenPage, Off
<1>5. Counted(request', screen', stream')
  BY <1>2, <1>3, <1>4 DEF Counted
<1>6. OneAsks(request', screen')
  BY <1>2, <1>3 DEF OneAsks
<1>7. FirstTime(request', screen', stream')
  BY <1>3, <1>4, <1>6 DEF FirstTime, Idle
<1>8. QED
  BY <1>3, <1>5, <1>7 DEF FInv, Unbroken

LEMMA ReadSnapshotUnbroken ==
  ASSUME OInv, FInv, NEW r \in Requests, ReadSnapshot(r), UNCHANGED <<screen, stream>>
  PROVE  FInv'
<1>1. DOMAIN request[r] = RequestFields
  BY DEF OInv, Shaped
<1>2. PICK k : /\ request' = [request EXCEPT ![r] = k] /\ k.purpose = request[r].purpose
               /\ k.position \in {request[r].position, position}
  <2>1. CASE request[r].step = "asked"
    <3> DEFINE k == [request[r] EXCEPT !.step = IF position = None THEN "answered" ELSE "half",
                                       !.position = position]
    <3>1. request' = [request EXCEPT ![r] = k]
      BY <2>1 DEF ReadSnapshot
    <3>2. k.purpose = request[r].purpose /\ k.position = position
      BY <1>1 DEF RequestFields
    <3> HIDE DEF k
    <3>3. QED
      BY <3>1, <3>2
  <2>2. CASE request[r].step = "half"
    <3> DEFINE k == [request[r] EXCEPT !.step = "answered", !.cards = agents]
    <3>1. request' = [request EXCEPT ![r] = k]
      BY <2>2 DEF ReadSnapshot
    <3>2. k.purpose = request[r].purpose /\ k.position = request[r].position
      BY <1>1 DEF RequestFields
    <3> HIDE DEF k
    <3>3. QED
      BY <3>1, <3>2
  <2>3. QED
    BY <2>1, <2>2 DEF ReadSnapshot
<1>3. \A q \in Requests : request'[q] = IF q = r THEN k ELSE request[q]
  BY <1>2, RequestBecomes
<1>4. \A q \in Requests : request'[q].purpose = request[q].purpose
  BY <1>2, <1>3
<1>5. Counted(request', screen', stream')
  BY <1>2, <1>3, PositionCounts DEF FInv, Unbroken, Counted
<1>6. FirstTime(request, screen, stream) => FirstTime(request', screen', stream')
  BY <1>4 DEF FirstTime, OneAsks
<1>7. QED
  BY <1>5, <1>6 DEF FInv, Unbroken

LEMMA StreamForIs ==
  ASSUME NEW map
  PROVE  LET t == StreamFor(map)
         IN \/ t.state = "off" /\ t.last = 0 /\ t.page = {} /\ map = None
            \/ /\ t.state = "connecting" /\ t.last = screen.cursor /\ t.page = {}
               /\ map # None /\ screen.map = None
            \/ t = stream /\ map # None /\ screen.map # None
BY DEF StreamFor, Off

LEMMA RestoredUnbroken ==
  ASSUME OInv, FInv, NEW r \in Requests, Restored(r)
  PROVE  FInv'
<1> DEFINE bare == screen'.shown = screen.shown /\ screen'.short = screen.short
                   /\ screen'.strayed = screen.strayed /\ screen'.restarted = screen.restarted
<1>1. /\ request' = [request EXCEPT ![r] = Unasked] /\ request[r].purpose = "restore"
      /\ DOMAIN screen = ScreenFields
  BY DEF Restored, OInv, Shaped
<1>2. /\ bare /\ screen'.phase \in {"failed", "paging"} /\ screen'.map \in {screen.map, None}
      /\ screen'.cursor \in Nat
      /\ \/ stream' = stream
         \/ stream'.state = "off" /\ stream'.last = 0 /\ stream'.page = {}
  <2>1. CASE Answer(r) = None
    <3>1. screen' = [screen EXCEPT !.phase = "failed", !.map = None] /\ stream' = StreamFor(None)
      BY <2>1 DEF Restored
    <3>2. bare /\ screen'.phase = "failed" /\ screen'.map = None /\ screen'.cursor = screen.cursor
      BY <1>1, <3>1 DEF ScreenFields
    <3>3. screen.cursor \in Nat
      BY DEF FInv, Unbroken, Counted
    <3>4. QED
      BY <3>1, <3>2, <3>3, StreamForIs
  <2>2. CASE Answer(r) # None
    <3>1. /\ screen' = [screen EXCEPT !.phase = "paging", !.loaded = Answer(r),
                                      !.cursor = Answer(r).position.sequence]
          /\ stream' = stream
      BY <2>2 DEF Restored
    <3>2. /\ bare /\ screen'.phase = "paging" /\ screen'.map = screen.map
          /\ screen'.cursor = Answer(r).position.sequence
      BY <1>1, <3>1 DEF ScreenFields
    <3>3. Answer(r).position.sequence \in Nat
      BY <2>2 DEF Answer, FInv, Unbroken, Counted
    <3>4. QED
      BY <3>1, <3>2, <3>3
  <2>3. QED
    BY <2>1, <2>2
<1>3. Counted(request', screen', stream')
  <2>1. stream'.last \in Nat /\ stream'.page \subseteq Nat
    BY <1>2 DEF FInv, Unbroken, Counted
  <2>2. QED
    BY <1>1, <1>2, <2>1, CountedStep, PutAway
<1>4. ASSUME FirstTime(request, screen, stream)
      PROVE  FirstTime(request', screen', stream')
  <2>1. screen.phase = "restoring" /\ Idle(screen, stream)
    BY <1>1, <1>4 DEF FirstTime, OneAsks
  <2>2. OneAsks(request', screen')
    BY <1>1, <1>4, OthersAsk DEF FirstTime
  <2>3. Idle(screen', stream') /\ screen'.phase # "shown"
    BY <1>2, <2>1 DEF Idle
  <2>4. QED
    BY <2>2, <2>3 DEF FirstTime
<1>5. Again(screen, stream) => Again(screen', stream')
  BY <1>2 DEF Again
<1>6. QED
  BY <1>2, <1>3, <1>4, <1>5 DEF FInv, Unbroken

LEMMA RefreshedUnbroken ==
  ASSUME OInv, FInv, NEW r \in Requests, Refreshed(r)
  PROVE  FInv'
<1> DEFINE map == Answer(r)
<1>1. /\ request' = [request EXCEPT ![r] = Unasked] /\ request[r].purpose = "refresh"
      /\ DOMAIN screen = ScreenFields /\ stream' = StreamFor(map)
      /\ screen' = [screen EXCEPT !.map = map, !.mapAfter = request[r].after]
  BY DEF Refreshed, OInv, Shaped
<1> HIDE DEF map
<1>2. /\ screen'.shown = screen.shown /\ screen'.short = screen.short
      /\ screen'.strayed = screen.strayed /\ screen'.restarted = screen.restarted
      /\ screen'.phase = screen.phase /\ screen'.cursor = screen.cursor
  BY <1>1 DEF ScreenFields
<1>3. \/ stream' = stream
      \/ stream'.page = {} /\ stream'.state = "off" /\ stream'.last = 0
      \/ stream'.page = {} /\ stream'.last = screen.cursor
  BY <1>1, StreamForIs
<1>4. Counted(request', screen', stream')
  <2>1. screen'.cursor \in Nat /\ stream'.last \in Nat /\ stream'.page \subseteq Nat
    BY <1>2, <1>3 DEF FInv, Unbroken, Counted
  <2>2. QED
    BY <1>1, <2>1, CountedStep, PutAway
<1>5. ASSUME FirstTime(request, screen, stream)
      PROVE  FirstTime(request', screen', stream')
  <2>1. screen.phase = "shown"
    BY <1>1, <1>5 DEF FirstTime, OneAsks
  <2>2. OneAsks(request', screen')
    <3>1. OneAsks(request', screen)
      BY <1>1, <1>5, OthersAsk DEF FirstTime
    <3>2. QED
      BY <1>2, <3>1 DEF OneAsks
  <2>3. NextRows(stream')
    BY <1>3, <1>5, <2>1 DEF FirstTime, NextRows
  <2>4. ~screen.short => Anchored(screen', stream')
    BY <1>2, <1>3, <1>5, <2>1 DEF FirstTime, Anchored
  <2>5. QED
    BY <1>2, <2>1, <2>2, <2>3, <2>4 DEF FirstTime
<1>6. Again(screen, stream) => Again(screen', stream')
  BY <1>2, <1>3 DEF Again
<1>7. QED
  BY <1>2, <1>4, <1>5, <1>6 DEF FInv, Unbroken

LEMMA LostUnbroken ==
  ASSUME OInv, FInv, NEW r \in Requests, Lost(r)
  PROVE  FInv'
<1>1. /\ request' = [request EXCEPT ![r] = Unasked] /\ stream' = stream
      /\ DOMAIN screen = ScreenFields
      /\ screen' = IF request[r].purpose = "restore" THEN [screen EXCEPT !.phase = "failed"]
                   ELSE screen
  BY DEF Lost, OInv, Shaped
<1>2. /\ screen'.shown = screen.shown /\ screen'.short = screen.short
      /\ screen'.strayed = screen.strayed /\ screen'.restarted = screen.restarted
      /\ screen'.map = screen.map /\ screen'.cursor = screen.cursor
      /\ request[r].purpose = "restore" => screen'.phase = "failed"
      /\ request[r].purpose # "restore" => screen' = screen
  BY <1>1 DEF ScreenFields
<1>3. Counted(request', screen', stream')
  <2>1. screen'.cursor \in Nat /\ stream'.last \in Nat /\ stream'.page \subseteq Nat
    BY <1>1, <1>2 DEF FInv, Unbroken, Counted
  <2>2. QED
    BY <1>1, <2>1, CountedStep, PutAway
<1>4. ASSUME FirstTime(request, screen, stream)
      PROVE  FirstTime(request', screen', stream')
  <2>1. CASE request[r].purpose = "restore"
    <3>1. screen.phase = "restoring" /\ Idle(screen, stream)
      BY <1>4, <2>1 DEF FirstTime, OneAsks
    <3>2. OneAsks(request', screen')
      BY <1>1, <1>4, <2>1, OthersAsk DEF FirstTime
    <3>3. QED
      BY <1>1, <1>2, <2>1, <3>1, <3>2 DEF FirstTime, Idle
  <2>2. CASE request[r].purpose # "restore"
    <3>1. OneAsks(request', screen)
      BY <1>1, <1>4, OthersAsk DEF FirstTime
    <3>2. QED
      BY <1>1, <1>2, <1>4, <2>2, <3>1 DEF FirstTime
  <2>3. QED
    BY <2>1, <2>2
<1>5. Again(screen, stream) => Again(screen', stream')
  BY <1>1, <1>2 DEF Again
<1>6. QED
  BY <1>2, <1>3, <1>4, <1>5 DEF FInv, Unbroken

LEMMA PageLostUnbroken ==
  ASSUME OInv, FInv, PageLost
  PROVE  FInv'
<1>1. /\ request' = request /\ stream' = stream /\ DOMAIN screen = ScreenFields
      /\ screen' = [screen EXCEPT !.phase = "failed", !.loaded = None] /\ screen.phase = "paging"
  BY DEF PageLost, OInv, Shaped
<1>2. /\ screen'.shown = screen.shown /\ screen'.short = screen.short
      /\ screen'.strayed = screen.strayed /\ screen'.restarted = screen.restarted
      /\ screen'.map = screen.map /\ screen'.cursor = screen.cursor /\ screen'.phase = "failed"
  BY <1>1 DEF ScreenFields
<1>3. Counted(request', screen', stream')
  BY <1>1, <1>2 DEF FInv, Unbroken, Counted
<1>4. FirstTime(request, screen, stream) => FirstTime(request', screen', stream')
  BY <1>1, <1>2 DEF FirstTime, OneAsks, Idle
<1>5. Again(screen, stream) => Again(screen', stream')
  BY <1>1, <1>2 DEF Again
<1>6. QED
  BY <1>2, <1>3, <1>4, <1>5 DEF FInv, Unbroken

(* The page shows rows in order, and the screen's count is among them or   *)
(* just before: unless they ended before it.                               *)
LEMMA PagedUnbroken ==
  ASSUME OInv, FInv, Paged
  PROVE  FInv'
<1> DEFINE from == IF screen.cursor > FeedLimit THEN screen.cursor - FeedLimit ELSE 0
           rows == RowsAfter(from, FeedLimit)
           brief == \A p \in rows \cup {0} : p < screen.cursor
<1>1. /\ screen.phase = "paging" /\ DOMAIN screen = ScreenFields /\ request' = request
      /\ screen.loaded # None /\ stream' = StreamFor(screen.loaded)
      /\ screen' = [screen EXCEPT !.phase = "shown", !.map = screen.loaded, !.loaded = None,
                                  !.mapAfter = 0, !.shown = InOrder(rows), !.short = brief,
                                  !.strayed = screen.strayed \/ torn]
  BY DEF Paged, OInv, Shaped, Followed
<1>2. screen.cursor \in Nat /\ from \in Nat /\ from <= screen.cursor
  BY ScreenAssumption DEF FInv, Unbroken, Counted
<1> HIDE DEF from, rows, brief
<1>3. /\ screen'.phase = "shown" /\ screen'.shown = InOrder(rows) /\ screen'.short = brief
      /\ screen'.strayed = (screen.strayed \/ torn) /\ screen'.restarted = screen.restarted
      /\ screen'.cursor = screen.cursor
  BY <1>1 DEF ScreenFields
<1>4. \/ stream' = stream /\ screen.map # None
      \/ stream'.page = {} /\ stream'.last = screen.cursor /\ screen.map = None
  BY <1>1, StreamForIs
<1>5. Counted(request', screen', stream')
  <2>1. screen'.cursor \in Nat /\ stream'.last \in Nat /\ stream'.page \subseteq Nat
    BY <1>2, <1>3, <1>4 DEF FInv, Unbroken, Counted
  <2>2. QED
    BY <1>1, <2>1, CountedStep
<1>6. ASSUME ~torn
      PROVE  \E hi \in Nat :
               Row(InOrder(rows), from, hi) /\ (~brief => screen.cursor <= hi)
  <2>1. PICK b \in Nat : from <= b /\ rows = from + 1 .. b
    BY <1>2, <1>6, RowsAreNext, ScreenAssumption DEF rows
  <2>2. Row(InOrder(rows), from, b)
    BY <1>2, <2>1, InOrderIsRow
  <2>3. ASSUME ~brief
        PROVE  screen.cursor <= b
    <3>1. PICK p \in rows \cup {0} : ~(p < screen.cursor)
      BY <2>3 DEF brief
    <3>2. QED
      BY <1>2, <2>1, <3>1
  <2>4. QED
    BY <2>1, <2>2, <2>3
<1>7. ASSUME ~torn, FirstTime(request, screen, stream)
      PROVE  FirstTime(request', screen', stream')
  <2>1. OneAsks(request', screen')
    BY <1>1, <1>3, <1>7 DEF FirstTime, OneAsks
  <2>2. stream'.page = {} /\ stream'.last = screen.cursor
    BY <1>1, <1>4, <1>7 DEF FirstTime, Idle
  <2>3. NextRows(stream')
    BY <2>2 DEF NextRows
  <2>4. ASSUME ~brief
        PROVE  Anchored(screen', stream')
    <3>1. PICK hi \in Nat : Row(InOrder(rows), from, hi) /\ screen.cursor <= hi
      BY <1>6, <1>7, <2>4
    <3>2. QED
      BY <1>2, <1>3, <2>2, <3>1 DEF Anchored
  <2>5. QED
    BY <1>3, <2>1, <2>3, <2>4 DEF FirstTime
<1>8. ASSUME ~torn, Again(screen, stream)
      PROVE  Again(screen', stream')
  <2>1. PICK hi \in Nat : Row(InOrder(rows), from, hi)
    BY <1>6, <1>8
  <2>2. stream'.page = {}
    BY <1>4, <1>8 DEF Again
  <2>3. QED
    BY <1>2, <1>3, <2>1, <2>2 DEF Again
<1>9. QED
  BY <1>3, <1>5, <1>7, <1>8 DEF FInv, Unbroken

(* Rows that are brought follow the last one that was delivered.           *)
LEMMA BringUnbroken ==
  ASSUME OInv, FInv, Bring, stream.state # "off"
  PROVE  FInv'
<1> DEFINE rows == RowsAfter(stream.last, PageLimit)
<1>1. /\ request' = request /\ DOMAIN screen = ScreenFields /\ DOMAIN stream = StreamFields
      /\ screen' = [screen EXCEPT !.strayed = screen.strayed \/ torn \/ screen.restarted]
      /\ stream' = [stream EXCEPT !.state = "open", !.page = rows]
  BY DEF Bring, OInv, Shaped
<1> HIDE DEF rows
<1>2. /\ screen'.shown = screen.shown /\ screen'.short = screen.short
      /\ screen'.strayed = (screen.strayed \/ torn \/ screen.restarted)
      /\ screen'.restarted = screen.restarted /\ screen'.phase = screen.phase
      /\ screen'.cursor = screen.cursor
      /\ stream'.state = "open" /\ stream'.page = rows /\ stream'.last = stream.last
  BY <1>1 DEF ScreenFields, StreamFields
<1>3. screen.cursor \in Nat /\ stream.last \in Nat
  BY DEF FInv, Unbroken, Counted
<1>4. rows \subseteq Nat
  <2>1. rows \subseteq DOMAIN feed
    BY RowsAreThere DEF rows
  <2>2. DOMAIN feed \subseteq Nat
    BY ProjectionAssumption DEF OInv, IInv, TypeOK
  <2>3. QED
    BY <2>1, <2>2
<1>5. Counted(request', screen', stream')
  BY <1>1, <1>2, <1>3, <1>4, CountedStep
<1>6. ASSUME ~torn, FirstTime(request, screen, stream)
      PROVE  FirstTime(request', screen', stream')
  <2>1. screen.phase = "shown"
    BY <1>6 DEF FirstTime, Idle
  <2>2. PICK b \in Nat : rows = stream.last + 1 .. b
    BY <1>3, <1>6, RowsAreNext, ScreenAssumption DEF rows
  <2>3. NextRows(stream')
    <3>1. ASSUME NEW p \in rows
          PROVE  p > stream.last /\ \A q \in stream.last + 1 .. p : q \in rows
      BY <1>3, <2>2
    <3>2. QED
      BY <1>2, <3>1 DEF NextRows
  <2>4. OneAsks(request', screen')
    BY <1>1, <1>2, <1>6 DEF FirstTime, OneAsks
  <2>5. ~screen.short => Anchored(screen', stream')
    BY <1>2, <1>6, <2>1 DEF FirstTime, Anchored
  <2>6. QED
    BY <1>2, <2>1, <2>3, <2>4, <2>5 DEF FirstTime
<1>7. QED
  BY <1>2, <1>5, <1>6 DEF FInv, Unbroken

LEMMA AskIs ==
  ASSUME OInv, NEW r \in Requests, NEW purpose, NEW after, Ask(r, purpose, after)
  PROVE  \A q \in Requests :
           /\ request'[q].purpose = IF q = r THEN purpose ELSE request[q].purpose
           /\ request'[q].position \in {request[q].position, None}
<1> DEFINE k == [Unasked EXCEPT !.step = "asked", !.purpose = purpose, !.after = after]
<1>1. k.purpose = purpose /\ k.position = None
  BY DEF Unasked
<1>2. request' = [request EXCEPT ![r] = k]
  BY DEF Ask
<1> HIDE DEF k
<1>3. \A q \in Requests : request'[q] = IF q = r THEN k ELSE request[q]
  BY <1>2, RequestBecomes
<1>4. QED
  BY <1>1, <1>3

LEMMA ConnectUnbroken ==
  ASSUME OInv, FInv, Connect
  PROVE  FInv'
<1>1. CASE ~Behind(stream.last)
  BY <1>1, BringUnbroken DEF Connect
<1>2. CASE Behind(stream.last)
  <2>1. PICK r \in Requests : Ask(r, "restore", 0)
    BY <1>2 DEF Connect
  <2>2. /\ screen' = [screen EXCEPT !.phase = "restoring", !.restarted = TRUE]
        /\ stream' = Off /\ DOMAIN screen = ScreenFields /\ stream.state # "off"
    BY <1>2 DEF Connect, OInv, Shaped
  <2>3. /\ screen'.shown = screen.shown /\ screen'.short = screen.short
        /\ screen'.strayed = screen.strayed /\ screen'.restarted
        /\ screen'.cursor = screen.cursor /\ stream'.page = {} /\ stream'.last = 0
    BY <2>2 DEF ScreenFields, Off
  <2>4. Counted(request', screen', stream')
    <3>1. screen'.cursor \in Nat /\ stream'.last \in Nat /\ stream'.page \subseteq Nat
      BY <2>3 DEF FInv, Unbroken, Counted
    <3>2. QED
      BY <2>1, <3>1, AskIs, CountedStep
  <2>5. FirstTime(request, screen, stream) => Again(screen', stream')
    <3>1. Anchored(screen, stream) => \E lo, hi \in Nat : Row(screen.shown, lo, hi)
      BY DEF Anchored
    <3>2. QED
      BY <2>2, <2>3, <3>1 DEF FirstTime, Idle, Again
  <2>6. Again(screen, stream) => Again(screen', stream')
    BY <2>3 DEF Again
  <2>7. QED
    BY <2>3, <2>4, <2>5, <2>6 DEF FInv, Unbroken
<1>3. QED
  BY <1>1, <1>2

LEMMA PollUnbroken ==
  ASSUME OInv, FInv, Poll
  PROVE  FInv'
BY BringUnbroken DEF Poll

LEMMA BreakUnbroken ==
  ASSUME OInv, FInv, Break
  PROVE  FInv'
<1>1. /\ request' = request /\ screen' = screen /\ stream.state = "open"
      /\ stream'.state = "connecting" /\ stream'.last = stream.last /\ stream'.page = {}
  BY DEF Break, LastReceived
<1>2. Counted(request', screen', stream')
  BY <1>1 DEF FInv, Unbroken, Counted
<1>3. ASSUME FirstTime(request, screen, stream)
      PROVE  FirstTime(request', screen', stream')
  <2>1. screen.phase = "shown"
    BY <1>1, <1>3 DEF FirstTime, Idle
  <2>2. ~screen.short => Anchored(screen', stream')
    BY <1>1, <1>3, <2>1 DEF FirstTime, Anchored
  <2>3. NextRows(stream')
    BY <1>1 DEF NextRows
  <2>4. QED
    BY <1>1, <1>3, <2>1, <2>2, <2>3 DEF FirstTime
<1>4. Again(screen, stream) => Again(screen', stream')
  BY <1>1 DEF Again
<1>5. QED
  BY <1>1, <1>2, <1>3, <1>4 DEF FInv, Unbroken

LEMMA DeliverUnbroken ==
  ASSUME OInv, FInv, Deliver
  PROVE  FInv'
<1>1. PICK p \in stream.page :
        /\ \A q \in stream.page : p <= q
        /\ stream' = [stream EXCEPT !.last = p, !.page = @ \ {p}]
        /\ screen' = [screen EXCEPT !.cursor = IF @ > p THEN @ ELSE p, !.shown = Appended(@, p)]
        /\ \E r \in Requests : Ask(r, "refresh", p)
  BY DEF Deliver
<1>2. PICK r \in Requests : Ask(r, "refresh", p)
  BY <1>1
<1>3. \A q \in Requests :
        /\ request'[q].purpose = IF q = r THEN "refresh" ELSE request[q].purpose
        /\ request'[q].position \in {request[q].position, None}
  BY <1>2, AskIs
<1>4. stream.state = "open" /\ DOMAIN screen = ScreenFields /\ DOMAIN stream = StreamFields
  BY DEF Deliver, OInv, Shaped
<1>5. /\ screen'.shown = Appended(screen.shown, p) /\ screen'.short = screen.short
      /\ screen'.strayed = screen.strayed /\ screen'.restarted = screen.restarted
      /\ screen'.phase = screen.phase
      /\ screen'.cursor = (IF screen.cursor > p THEN screen.cursor ELSE p)
      /\ stream'.state = "open" /\ stream'.last = p /\ stream'.page = stream.page \ {p}
  BY <1>1, <1>4 DEF ScreenFields, StreamFields
<1>6. p \in Nat /\ screen.cursor \in Nat /\ stream.last \in Nat /\ stream.page \subseteq Nat
  BY DEF FInv, Unbroken, Counted
<1>7. Counted(request', screen', stream')
  BY <1>3, <1>5, <1>6, CountedStep
<1>8. ~Again(screen, stream)
  BY <1>1 DEF Again
<1>9. ASSUME FirstTime(request, screen, stream)
      PROVE  FirstTime(request', screen', stream')
  <2>1. screen.phase = "shown" /\ NextRows(stream) /\ OneAsks(request, screen)
    BY <1>4, <1>9 DEF FirstTime, Idle
  <2>2. p = stream.last + 1
    <3>1. p > stream.last /\ \A q \in stream.last + 1 .. p : q \in stream.page
      BY <2>1 DEF NextRows
    <3>2. stream.last + 1 \in stream.page
      BY <1>6, <3>1
    <3>3. QED
      BY <1>1, <1>6, <3>1, <3>2
  <2>3. NextRows(stream')
    <3>1. ASSUME NEW q \in stream.page \ {p}
          PROVE  q > p /\ \A m \in p + 1 .. q : m \in stream.page \ {p}
      <4>1. p <= q /\ p # q /\ \A m \in stream.last + 1 .. q : m \in stream.page
        BY <1>1, <2>1, <3>1 DEF NextRows
      <4>2. \A m \in p + 1 .. q : m \in stream.last + 1 .. q /\ m # p
        BY <1>6, <2>2
      <4>3. QED
        BY <1>6, <4>1, <4>2
    <3>2. QED
      BY <1>5, <3>1 DEF NextRows
  <2>4. OneAsks(request', screen')
    BY <1>3, <1>5, <2>1 DEF OneAsks
  <2>5. ASSUME ~screen.short
        PROVE  Anchored(screen', stream')
    <3>1. PICK lo \in Nat, hi \in Nat :
            /\ Row(screen.shown, lo, hi) /\ lo <= screen.cursor /\ screen.cursor <= hi
            /\ lo <= stream.last /\ stream.last <= hi
      BY <1>4, <1>9, <2>1, <2>5 DEF FirstTime, Anchored
    <3>2. lo < p /\ p <= hi + 1
      BY <1>6, <2>2, <3>1
    <3>3. PICK low \in Nat, high \in Nat :
            Row(Appended(screen.shown, p), low, high) /\ low <= p /\ p <= high /\ hi <= high
      BY <1>6, <3>1, <3>2, RowGrows
    <3>4. low <= screen'.cursor /\ screen'.cursor <= high
      BY <1>5, <1>6, <3>1, <3>3
    <3>5. Row(screen'.shown, low, high) /\ low <= stream'.last /\ stream'.last <= high
      BY <1>5, <3>3
    <3>6. QED
      BY <3>4, <3>5 DEF Anchored
  <2>6. QED
    BY <1>5, <2>1, <2>3, <2>4, <2>5 DEF FirstTime
<1>10. QED
  BY <1>5, <1>7, <1>8, <1>9 DEF FInv, Unbroken

LEMMA InitUnbroken == ObserverInit => FInv
<1> SUFFICES ASSUME ObserverInit PROVE FInv
  OBVIOUS
<1>1. \A r \in Requests : request[r].purpose = "none" /\ request[r].position = None
  BY UnaskedCounts DEF ObserverInit
<1>2. /\ screen.phase = "closed" /\ screen.map = None /\ screen.cursor = 0
      /\ screen.shown = <<>> /\ screen.restarted = FALSE
  BY DEF ObserverInit, Blank
<1>3. stream.state = "off" /\ stream.last = 0 /\ stream.page = {}
  BY DEF ObserverInit, Off
<1>4. QED
  BY <1>1, <1>2, <1>3 DEF FInv, Unbroken, Counted, FirstTime, OneAsks, Idle

LEMMA NextUnbroken == OInv /\ FInv /\ [ObserverNext]_allVars => FInv'
<1> SUFFICES ASSUME OInv, FInv, [ObserverNext]_allVars PROVE FInv'
  OBVIOUS
<1>1. CASE UNCHANGED screenVars
  BY <1>1 DEF screenVars, FInv, Unbroken, Counted, FirstTime, OneAsks, Idle, Again
<1>2. CASE OpenPage
  BY <1>2, OpenPageUnbroken
<1>3. CASE Follow
  BY <1>3, PagedUnbroken, ConnectUnbroken, PollUnbroken, DeliverUnbroken DEF Follow
<1>4. ASSUME NEW r \in Requests, Fetch(r)
      PROVE  FInv'
  BY <1>4, ReadSnapshotUnbroken, RestoredUnbroken, RefreshedUnbroken DEF Fetch
<1>5. CASE Trouble
  BY <1>5, BreakUnbroken, PageLostUnbroken, LostUnbroken DEF Trouble
<1>6. QED
  BY <1>1, <1>2, <1>3, <1>4, <1>5 DEF ObserverNext, allVars

(* What is shown has no gap and shows nothing twice, whatever is lost and  *)
(* however often the connection breaks, if the page reached the position of*)
(* the snapshot and no rows came from a torn feed or by a stream that was  *)
(* opened anew under a screen that starts over.                            *)
THEOREM FeedHasNoGap == ObserverSpec => []FeedUnbroken
<1>1. FInv => FeedUnbroken
  <2> SUFFICES ASSUME FInv, ~screen.short, ~screen.strayed,
                      NEW i \in 1 .. Len(screen.shown) - 1
               PROVE  screen.shown[i + 1] = screen.shown[i] + 1
    BY DEF FeedUnbroken
  <2>1. \/ screen.shown = <<>>
        \/ \E lo, hi \in Nat : Row(screen.shown, lo, hi)
    BY DEF FInv, Unbroken, FirstTime, Idle, Anchored, Again
  <2>2. screen.shown # <<>>
    OBVIOUS
  <2>3. PICK lo \in Nat, hi \in Nat : Row(screen.shown, lo, hi)
    BY <2>1, <2>2
  <2>4. Len(screen.shown) = hi - lo /\ \A n \in 1 .. hi - lo : screen.shown[n] = lo + n
    BY <2>3 DEF Row
  <2>5. i \in 1 .. hi - lo /\ i + 1 \in 1 .. hi - lo
    BY <2>4
  <2>6. screen.shown[i] = lo + i /\ screen.shown[i + 1] = lo + (i + 1)
    BY <2>4, <2>5
  <2>7. QED
    BY <2>5, <2>6
<1>2. QED
  BY <1>1, InitUnbroken, NextUnbroken, InitOInv, NextOInv, PTL DEF ObserverSpec
=============================================================================
