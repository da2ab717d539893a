------------------------ MODULE RevisionStoreProofs ------------------------
(***************************************************************************)
(* Proofs about RevisionStore for any number of processes, runs, layers,   *)
(* sources and events, interrupted or not; and, for one process that is    *)
(* never interrupted, that the store implements ReviewLedger.              *)
(***************************************************************************)
EXTENDS RevisionStore, TLAPS

\* A row keeps its place: once inserted it is never absent again, and its
\* slot never changes.
RowKept(i) == events[i].phase # "absent" =>
                 /\ events'[i].phase # "absent"
                 /\ events'[i].slot = events[i].slot

\* A step that leaves the lexicon and the open confirmations alone, and
\* keeps the rows in place, keeps the invariant.
LEMMA RowStepInv ==
    ASSUME StoreInv, UNCHANGED <<lexicon, desk>>,
           runs' \in [Runs -> RunStatus], events' \in [EventId -> Event],
           \A i \in EventId : RowKept(i)
    PROVE  StoreInv'
<1>1. TypeOK'
  BY DEF StoreInv, TypeOK
<1>2. DeskHonest'
  BY DEF StoreInv, DeskHonest, Idle, L!Empty, RowKept
<1>3. EntriesHaveProposals'
  BY DEF StoreInv, EntriesHaveProposals, RowKept
<1> QED
  BY <1>1, <1>2, <1>3 DEF StoreInv

\* An insertion touches no row that was there before.
LEMMA InsertKeeps ==
    ASSUME StoreInv, NEW e \in Event, e.phase # "absent", InsertEvent(e)
    PROVE  /\ events' \in [EventId -> Event]
           /\ \A i \in EventId : events[i].phase # "absent" => events'[i] = events[i]
           /\ \A i \in EventId : RowKept(i)
<1>1. PICK i \in EventId : Fresh(i) /\ events' = [events EXCEPT ![i] = e]
  BY DEF InsertEvent
<1>2. events \in [EventId -> Event]
  BY DEF StoreInv, TypeOK
<1> QED
  BY <1>1, <1>2 DEF Fresh, RowKept

\* Recording a run or a correction keeps the invariant.
LEMMA RecordInv ==
    ASSUME StoreInv, NEW d \in Desks, RecordResult(d) \/ RecordCorrection(d)
    PROVE  /\ StoreInv'
           /\ \A i \in EventId : events[i].phase # "absent" => events'[i] = events[i]
<1>1. CASE RecordResult(d)
  <2>1. PICK r \in Runs, gated \in BOOLEAN :
          /\ \E s \in Outcomes(gated) : runs' = [runs EXCEPT ![r] = s]
          /\ \/ UNCHANGED events
             \/ \E k \in Slots :
                   InsertEvent([phase |-> IF gated THEN "pending" ELSE "confirmed",
                                slot |-> k, special |-> FALSE, run |-> r])
    BY <1>1 DEF RecordResult
  <2>2. runs' \in [Runs -> RunStatus]
    BY <2>1 DEF StoreInv, TypeOK, Outcomes, RunStatus
  <2>3. /\ events' \in [EventId -> Event]
        /\ \A i \in EventId : events[i].phase # "absent" => events'[i] = events[i]
        /\ \A i \in EventId : RowKept(i)
    <3>1. CASE UNCHANGED events
      BY <3>1 DEF StoreInv, TypeOK, RowKept
    <3>2. ASSUME NEW k \in Slots,
                 InsertEvent([phase |-> IF gated THEN "pending" ELSE "confirmed",
                              slot |-> k, special |-> FALSE, run |-> r])
          PROVE  <2>3!1 /\ <2>3!2 /\ <2>3!3
      <4> DEFINE e == [phase |-> IF gated THEN "pending" ELSE "confirmed",
                       slot |-> k, special |-> FALSE, run |-> r]
      <4>1. e \in Event /\ e.phase # "absent"
        BY DEF Event, L!Phase
      <4> QED
        BY <3>2, <4>1, InsertKeeps
    <3> QED
      BY <2>1, <3>1, <3>2
  <2> QED
    BY <1>1, <2>2, <2>3, RowStepInv DEF RecordResult
<1>2. CASE RecordCorrection(d)
  <2>1. PICK r \in Runs, k \in Slots, rewritten \in BOOLEAN :
          InsertEvent([phase |-> "pending", slot |-> k, special |-> rewritten,
                       run |-> r])
    BY <1>2 DEF RecordCorrection
  <2> DEFINE e == [phase |-> "pending", slot |-> k, special |-> rewritten,
                   run |-> r]
  <2>2. e \in Event /\ e.phase # "absent"
    BY DEF Event, L!Phase
  <2>3. /\ events' \in [EventId -> Event]
        /\ \A i \in EventId : events[i].phase # "absent" => events'[i] = events[i]
        /\ \A i \in EventId : RowKept(i)
    BY <2>1, <2>2, InsertKeeps
  <2> QED
    BY <1>2, <2>3, RowStepInv DEF RecordCorrection, StoreInv, TypeOK
<1> QED
  BY <1>1, <1>2

\* Reading an event keeps the invariant.
LEMMA ReadInv ==
    ASSUME StoreInv, NEW d \in Desks, NEW i \in EventId, Pending(i),
           ReadEvent(d, i)
    PROVE  StoreInv'
<1>1. /\ events[i].slot \in Slots /\ events[i].special \in BOOLEAN
      /\ events[i].phase # "absent"
  BY DEF StoreInv, TypeOK, Event, Pending
<1>2. TypeOK'
  BY <1>1 DEF StoreInv, TypeOK, ReadEvent
<1>3. DeskHonest'
  BY <1>1 DEF StoreInv, TypeOK, DeskHonest, Idle, ReadEvent, L!Empty
<1>4. EntriesHaveProposals'
  BY DEF StoreInv, EntriesHaveProposals, ReadEvent
<1> QED
  BY <1>2, <1>3, <1>4 DEF StoreInv

\* Writing the lexicon keeps the invariant.
LEMMA UpsertInv ==
    ASSUME StoreInv, NEW d \in Desks, Upsert(d)
    PROVE  StoreInv'
<1> DEFINE e == L!Reviewed(desk[d].id, desk[d].special)
<1>1. /\ desk[d].id \in EventId /\ events[desk[d].id].phase # "absent"
      /\ events[desk[d].id].slot = desk[d].slot /\ desk[d].slot \in Slots
      /\ desk[d].special \in BOOLEAN
  BY DEF StoreInv, TypeOK, DeskHonest, Idle, Upsert, Event
<1>2. /\ e \in [by : {"nobody", "editor", "review"}, id : EventId \cup {0},
                special : BOOLEAN]
      /\ e # L!Empty /\ e.id = desk[d].id
  BY <1>1 DEF L!Reviewed, L!Empty
<1>3. lexicon' = [lexicon EXCEPT ![desk[d].slot] = e]
  BY DEF Upsert
<1> HIDE DEF e
<1>4. TypeOK'
  BY <1>1, <1>2, <1>3 DEF StoreInv, TypeOK, Upsert
<1>5. DeskHonest'
  <2>1. \A c \in Desks : /\ desk'[c].id = desk[c].id /\ desk'[c].slot = desk[c].slot
                         /\ desk'[c].at # "rest" => desk[c].at # "rest"
                         /\ c # d => desk'[c] = desk[c]
    BY DEF Upsert, StoreInv, TypeOK
  <2>2. \A k \in Slots : lexicon[k] # L!Empty => lexicon'[k] # L!Empty
    BY <1>1, <1>2, <1>3 DEF StoreInv, TypeOK
  <2>3. lexicon'[desk[d].slot] # L!Empty
    BY <1>1, <1>2, <1>3 DEF StoreInv, TypeOK
  <2>4. L!Empty' = L!Empty
    BY DEF L!Empty
  <2>5. ASSUME NEW c \in Desks, desk[c].at # "rest"
        PROVE  desk[c].slot \in Slots
    BY <2>5 DEF StoreInv, TypeOK, DeskHonest, Idle, Event
  <2> QED
    BY <1>1, <2>1, <2>2, <2>3, <2>4, <2>5 DEF DeskHonest, Idle, StoreInv, Upsert
<1>6. EntriesHaveProposals'
  BY <1>1, <1>2, <1>3 DEF StoreInv, TypeOK, EntriesHaveProposals, Upsert
<1> QED
  BY <1>4, <1>5, <1>6 DEF StoreInv

\* Marking the event confirmed keeps the invariant.
LEMMA MarkInv ==
    ASSUME StoreInv, NEW d \in Desks, Mark(d)
    PROVE  /\ StoreInv'
           /\ \A i \in EventId : /\ events'[i].phase # events[i].phase =>
                                       /\ i = desk[d].id
                                       /\ events[i].phase # "skipped"
                                       /\ events'[i].phase = "confirmed"
                                 /\ events'[i].slot = events[i].slot
                                 /\ events'[i].special = events[i].special
<1>1. /\ desk[d].id \in EventId /\ events[desk[d].id].phase # "absent"
      /\ events \in [EventId -> Event]
  BY DEF StoreInv, TypeOK, DeskHonest, Idle, Mark
<1>2. /\ events' \in [EventId -> Event]
      /\ \A i \in EventId : /\ events'[i].phase # events[i].phase =>
                                   /\ i = desk[d].id
                                   /\ events[i].phase # "skipped"
                                   /\ events'[i].phase = "confirmed"
                            /\ events'[i].slot = events[i].slot
                            /\ events'[i].special = events[i].special
  <2>1. CASE events[desk[d].id].phase = "skipped"
    BY <1>1, <2>1 DEF Mark
  <2>2. CASE events[desk[d].id].phase # "skipped"
    <3>1. events' = [events EXCEPT ![desk[d].id] =
                        [events[desk[d].id] EXCEPT !.phase = "confirmed"]]
      BY <1>1, <2>2 DEF Mark
    <3>2. events[desk[d].id] \in Event
      BY <1>1
    <3>3. [events[desk[d].id] EXCEPT !.phase = "confirmed"] \in Event
      BY <3>2 DEF Event, L!Phase
    <3> QED
      BY <1>1, <2>2, <3>1, <3>2, <3>3 DEF Event
  <2> QED
    BY <2>1, <2>2
<1>3. TypeOK'
  BY <1>2 DEF StoreInv, TypeOK, Mark, AtRest
<1>4. DeskHonest'
  BY <1>1, <1>2 DEF StoreInv, TypeOK, DeskHonest, Idle, Mark, AtRest, L!Empty
<1>5. EntriesHaveProposals'
  BY <1>1, <1>2 DEF StoreInv, EntriesHaveProposals, Mark
<1> QED
  BY <1>2, <1>3, <1>4, <1>5 DEF StoreInv

\* A process that dies keeps the invariant.
LEMMA AbandonInv ==
    ASSUME StoreInv, NEW d \in Desks, Abandon(d)
    PROVE  StoreInv'
<1>1. TypeOK'
  BY DEF StoreInv, TypeOK, Abandon, AtRest
<1>2. DeskHonest'
  BY DEF StoreInv, TypeOK, DeskHonest, Idle, Abandon, AtRest, L!Empty
<1>3. EntriesHaveProposals'
  BY DEF StoreInv, EntriesHaveProposals, Abandon
<1> QED
  BY <1>1, <1>2, <1>3 DEF StoreInv

\* Skipping and flagging: one pending row changes its phase or its flag.
LEMMA TouchInv ==
    ASSUME StoreInv, NEW d \in Desks, NEW i \in EventId,
           SkipEvent(d, i) \/ MarkSpecial(d, i)
    PROVE  /\ StoreInv'
           /\ Pending(i)
           /\ \A j \in EventId : j # i => events'[j] = events[j]
           /\ events'[i].slot = events[i].slot
           /\ SkipEvent(d, i) => /\ events'[i].phase = "skipped"
                                 /\ events'[i].special = events[i].special
           /\ MarkSpecial(d, i) => /\ events'[i].phase = "pending"
                                   /\ events'[i].special = TRUE
<1>1. events \in [EventId -> Event] /\ events[i] \in Event
  BY DEF StoreInv, TypeOK
<1>2. CASE SkipEvent(d, i)
  <2>1. [events[i] EXCEPT !.phase = "skipped"] \in Event
    BY <1>1 DEF Event, L!Phase
  <2>2. /\ events' = [events EXCEPT ![i] = [events[i] EXCEPT !.phase = "skipped"]]
        /\ Pending(i)
    BY <1>1, <1>2 DEF SkipEvent
  <2>3. /\ events' \in [EventId -> Event] /\ \A j \in EventId : RowKept(j)
        /\ \A j \in EventId : j # i => events'[j] = events[j]
        /\ events'[i].slot = events[i].slot /\ events'[i].phase = "skipped"
        /\ events'[i].special = events[i].special
    BY <1>1, <2>1, <2>2 DEF RowKept, Event
  <2>4. StoreInv'
    BY <1>2, <2>3, RowStepInv DEF SkipEvent, StoreInv, TypeOK
  <2>5. ~MarkSpecial(d, i)
    BY <2>2, <2>3, <1>1 DEF MarkSpecial, Pending, Event
  <2> QED
    BY <2>2, <2>3, <2>4, <2>5
<1>3. CASE MarkSpecial(d, i)
  <2>1. [events[i] EXCEPT !.special = TRUE] \in Event
    BY <1>1 DEF Event
  <2>2. /\ events' = [events EXCEPT ![i] = [events[i] EXCEPT !.special = TRUE]]
        /\ Pending(i)
    BY <1>1, <1>3 DEF MarkSpecial
  <2>3. /\ events' \in [EventId -> Event] /\ \A j \in EventId : RowKept(j)
        /\ \A j \in EventId : j # i => events'[j] = events[j]
        /\ events'[i].slot = events[i].slot /\ events'[i].phase = "pending"
        /\ events'[i].special = TRUE
    BY <1>1, <2>1, <2>2 DEF RowKept, Event, Pending
  <2>4. StoreInv'
    BY <1>3, <2>3, RowStepInv DEF MarkSpecial, StoreInv, TypeOK
  <2>5. ~SkipEvent(d, i)
    <3>1. SkipEvent(d, i) => events' = [events EXCEPT ![i] =
                                [events[i] EXCEPT !.phase = "skipped"]]
      BY <1>1 DEF SkipEvent
    <3> QED
      BY <2>3, <3>1, <1>1 DEF Event
  <2> QED
    BY <2>2, <2>3, <2>4, <2>5
<1> QED
  BY <1>2, <1>3

\* Editing the lexicon by hand keeps the invariant.
LEMMA EditInv ==
    ASSUME StoreInv, NEW d \in Desks, NEW k \in Slots, EditLexicon(d, k)
    PROVE  StoreInv'
<1>1. PICK special \in BOOLEAN :
        lexicon' = [lexicon EXCEPT ![k] = L!Edited(special)]
  BY DEF EditLexicon
<1>2. /\ L!Edited(special) \in [by : {"nobody", "editor", "review"},
                                id : EventId \cup {0}, special : BOOLEAN]
      /\ L!Edited(special) # L!Empty /\ L!Edited(special).by # "review"
  BY DEF L!Edited, L!Empty
<1>3. TypeOK'
  BY <1>1, <1>2 DEF StoreInv, TypeOK, EditLexicon
<1>4. DeskHonest'
  <2>1. \A j \in Slots : lexicon[j] # L!Empty => lexicon'[j] # L!Empty
    BY <1>1, <1>2 DEF StoreInv, TypeOK
  <2>2. ASSUME NEW c \in Desks, desk[c].at # "rest"
        PROVE  desk[c].slot \in Slots
    BY <2>2 DEF StoreInv, TypeOK, DeskHonest, Idle, Event
  <2>3. L!Empty' = L!Empty
    BY DEF L!Empty
  <2> QED
    BY <2>1, <2>2, <2>3 DEF DeskHonest, Idle, StoreInv, EditLexicon
<1>5. EntriesHaveProposals'
  BY <1>1, <1>2 DEF StoreInv, TypeOK, EntriesHaveProposals, EditLexicon
<1> QED
  BY <1>3, <1>4, <1>5 DEF StoreInv

\* Confirming or rejecting a run keeps the invariant.
LEMMA RunInv ==
    ASSUME StoreInv, NEW d \in Desks, NEW r \in Runs,
           ConfirmRun(d, r) \/ RejectRun(d, r)
    PROVE  StoreInv' /\ UNCHANGED <<events, lexicon, desk>>
<1>1. UNCHANGED <<events, lexicon, desk>> /\ runs' \in [Runs -> RunStatus]
  BY DEF ConfirmRun, RejectRun, StoreInv, TypeOK, RunStatus
<1>2. \A i \in EventId : RowKept(i)
  BY <1>1 DEF RowKept
<1> QED
  BY <1>1, <1>2, RowStepInv DEF StoreInv, TypeOK

\* The steps of the store, one at a time.
LEMMA Cases ==
    ASSUME Next
    PROVE  \E d \in Desks :
              \/ RecordResult(d) \/ RecordCorrection(d)
              \/ \E i \in EventId : Idle(d) /\ Pending(i) /\ ReadEvent(d, i)
              \/ \E i \in EventId : SkipEvent(d, i) \/ MarkSpecial(d, i)
              \/ Upsert(d) \/ Mark(d) \/ Abandon(d)
              \/ \E k \in Slots : EditLexicon(d, k)
              \/ \E r \in Runs : ConfirmRun(d, r) \/ RejectRun(d, r)
BY DEF Next, ReadById, ReadBySource

\* The invariant holds of an empty store.
LEMMA StoreInit == Init => StoreInv
<1> SUFFICES ASSUME Init PROVE StoreInv
  OBVIOUS
<1>1. TypeOK
  BY DEF Init, TypeOK, RunStatus, Event, L!Phase, L!Empty, AtRest
<1>2. DeskHonest /\ EntriesHaveProposals
  BY DEF Init, DeskHonest, Idle, AtRest, EntriesHaveProposals, L!Empty
<1> QED
  BY <1>1, <1>2 DEF StoreInv

\* Every step keeps the invariant.
LEMMA StoreNext ==
    ASSUME StoreInv, [Next]_vars
    PROVE  StoreInv'
<1>1. CASE UNCHANGED vars
  BY <1>1 DEF vars, StoreInv, TypeOK, DeskHonest, Idle, EntriesHaveProposals,
              L!Empty
<1>2. CASE Next
  BY <1>2, Cases, RecordInv, ReadInv, TouchInv, UpsertInv, MarkInv,
     AbandonInv, EditInv, RunInv
<1> QED
  BY <1>1, <1>2

-----------------------------------------------------------------------------
(* The theorems about any number of processes.                             *)

\* The tables and the open confirmations keep the invariant, whatever the
\* processes do and wherever one of them dies.
THEOREM StoreInvariant == Spec => []StoreInv
  BY StoreInit, StoreNext, PTL DEF Spec

\* The tables hold rows of their columns and a confirmation what it has read.
THEOREM TypeCorrect == Spec => []TypeOK
<1>1. StoreInv => TypeOK
  BY DEF StoreInv
<1> QED
  BY <1>1, StoreInvariant, PTL

\* A lexicon entry that names an event sits in that event's slot, however
\* stale the read it was written from.
THEOREM EntriesTraceable == Spec => []EntriesHaveProposals
<1>1. StoreInv => EntriesHaveProposals
  BY DEF StoreInv
<1> QED
  BY <1>1, StoreInvariant, PTL

\* A confirmed or skipped event is decided for good.
THEOREM DecidedForGood == Spec => DecisionsAreFinal
<1>1. ASSUME StoreInv, [Next]_vars, NEW i \in EventId,
             events[i].phase \in {"confirmed", "skipped"}
      PROVE  events'[i].phase = events[i].phase
  <2>1. CASE UNCHANGED vars
    BY <2>1 DEF vars
  <2>2. CASE Next
    <3>1. PICK d \in Desks :
              \/ RecordResult(d) \/ RecordCorrection(d)
              \/ \E j \in EventId : Idle(d) /\ Pending(j) /\ ReadEvent(d, j)
              \/ \E j \in EventId : SkipEvent(d, j) \/ MarkSpecial(d, j)
              \/ Upsert(d) \/ Mark(d) \/ Abandon(d)
              \/ \E k \in Slots : EditLexicon(d, k)
              \/ \E r \in Runs : ConfirmRun(d, r) \/ RejectRun(d, r)
      BY <2>2, Cases
    <3>2. CASE RecordResult(d) \/ RecordCorrection(d)
      BY <1>1, <3>2, RecordInv
    <3>3. ASSUME NEW j \in EventId, SkipEvent(d, j) \/ MarkSpecial(d, j)
          PROVE  events'[i].phase = events[i].phase
      BY <1>1, <3>3, TouchInv DEF Pending
    <3>4. CASE Mark(d)
      BY <1>1, <3>4, MarkInv
    <3>5. CASE \/ \E j \in EventId : ReadEvent(d, j)
               \/ Upsert(d) \/ Abandon(d)
               \/ \E k \in Slots : EditLexicon(d, k)
               \/ \E r \in Runs : ConfirmRun(d, r) \/ RejectRun(d, r)
      BY <3>5 DEF ReadEvent, Upsert, Abandon, EditLexicon, ConfirmRun, RejectRun
    <3> QED
      BY <3>1, <3>2, <3>3, <3>4, <3>5
  <2> QED
    BY <1>1, <2>1, <2>2
<1>2. StoreInv /\ [Next]_vars =>
        [\A i \in EventId : events[i].phase \in {"confirmed", "skipped"} =>
                               events'[i].phase = events[i].phase]_vars
  BY <1>1
<1> QED
  BY <1>2, StoreInvariant, PTL DEF Spec, DecisionsAreFinal

\* No event turns confirmed before the lexicon holds an entry in its slot.
THEOREM WrittenBeforeConfirmed == Spec => ConfirmedAfterWritten
<1>1. ASSUME StoreInv, [Next]_vars, NEW i \in EventId,
             Pending(i), events'[i].phase = "confirmed"
      PROVE  lexicon[events[i].slot] # L!Empty
  <2>1. CASE UNCHANGED vars
    BY <1>1, <2>1 DEF vars, Pending
  <2>2. CASE Next
    <3>1. PICK d \in Desks :
              \/ RecordResult(d) \/ RecordCorrection(d)
              \/ \E j \in EventId : Idle(d) /\ Pending(j) /\ ReadEvent(d, j)
              \/ \E j \in EventId : SkipEvent(d, j) \/ MarkSpecial(d, j)
              \/ Upsert(d) \/ Mark(d) \/ Abandon(d)
              \/ \E k \in Slots : EditLexicon(d, k)
              \/ \E r \in Runs : ConfirmRun(d, r) \/ RejectRun(d, r)
      BY <2>2, Cases
    <3>2. ~(RecordResult(d) \/ RecordCorrection(d))
      BY <1>1, RecordInv DEF Pending
    <3>3. ~(\E j \in EventId : SkipEvent(d, j) \/ MarkSpecial(d, j))
      BY <1>1, TouchInv DEF Pending
    <3>4. CASE Mark(d)
      <4>1. i = desk[d].id
        BY <1>1, <3>4, MarkInv DEF Pending
      <4> QED
        BY <1>1, <3>4, <4>1 DEF Mark, StoreInv, DeskHonest, Idle
    <3>5. CASE \/ \E j \in EventId : ReadEvent(d, j)
               \/ Upsert(d) \/ Abandon(d)
               \/ \E k \in Slots : EditLexicon(d, k)
               \/ \E r \in Runs : ConfirmRun(d, r) \/ RejectRun(d, r)
      BY <1>1, <3>5 DEF ReadEvent, Upsert, Abandon, EditLexicon, ConfirmRun,
                        RejectRun, Pending
    <3> QED
      BY <3>1, <3>2, <3>3, <3>4, <3>5
  <2> QED
    BY <1>1, <2>1, <2>2
<1>2. StoreInv /\ [Next]_vars =>
        [\A i \in EventId : Pending(i) /\ events'[i].phase = "confirmed" =>
                               lexicon[events[i].slot] # L!Empty]_vars
  BY <1>1
<1> QED
  BY <1>2, StoreInvariant, PTL DEF Spec, ConfirmedAfterWritten

\* A finalized run stays finalized, and no rejected or unaffordable run ever
\* becomes so.
THEOREM RunsForward == Spec => RunsMoveForward
<1>1. ASSUME StoreInv, [Next]_vars, NEW r \in Runs
      PROVE  /\ runs[r] = "finalized" => runs'[r] = "finalized"
             /\ runs[r] \in {"rejected", "budget_exceeded"} =>
                   runs'[r] # "finalized"
  <2>1. runs \in [Runs -> RunStatus]
    BY <1>1 DEF StoreInv, TypeOK
  <2>2. CASE UNCHANGED runs
    BY <2>2
  <2>3. ASSUME NEW d \in Desks, RecordResult(d)
        PROVE  runs[r] # "absent" => runs'[r] = runs[r]
    BY <2>1, <2>3 DEF RecordResult
  <2>4. ASSUME NEW d \in Desks, NEW q \in Runs, ConfirmRun(d, q) \/ RejectRun(d, q)
        PROVE  /\ runs[r] = "finalized" => runs'[r] = "finalized"
               /\ runs[r] \in {"rejected", "budget_exceeded"} =>
                     runs'[r] # "finalized"
    BY <2>1, <2>4 DEF ConfirmRun, RejectRun, Finalizable
  <2>5. Next => \/ UNCHANGED runs
                \/ \E d \in Desks : RecordResult(d)
                \/ \E d \in Desks, q \in Runs : ConfirmRun(d, q) \/ RejectRun(d, q)
    BY DEF Next, RecordCorrection, ReadById, ReadBySource, ReadEvent,
           SkipEvent, MarkSpecial, Upsert, Mark, Abandon, EditLexicon
  <2> QED
    BY <1>1, <2>2, <2>3, <2>4, <2>5 DEF vars
<1>2. StoreInv /\ [Next]_vars =>
        [\A r \in Runs : /\ runs[r] = "finalized" => runs'[r] = "finalized"
                         /\ runs[r] \in {"rejected", "budget_exceeded"} =>
                               runs'[r] # "finalized"]_vars
  BY <1>1
<1> QED
  BY <1>2, StoreInvariant, PTL DEF Spec, RunsMoveForward

-----------------------------------------------------------------------------
(* One process, never interrupted: the store implements ReviewLedger.      *)

SoloInv == StoreInv /\ DeskCurrent

\* What the reviewer sees of a store with one process.
LEMMA ShownSolo ==
    ASSUME NEW d, Desks = {d}
    PROVE  /\ desk[d].at # "written" => Written = {}
           /\ desk[d].at = "written" => Written = {desk[d].id}
BY DEF Written

\* With one process, every step keeps what an open confirmation has read true.
LEMMA SoloNext ==
    ASSUME NEW d, Desks = {d}, ~CanAbandon, SoloInv, [Next]_vars
    PROVE  SoloInv'
<1>1. StoreInv' /\ d \in Desks
  BY StoreNext DEF SoloInv
<1>2. DeskCurrent'
  <2>1. CASE UNCHANGED vars
    BY <2>1 DEF vars, SoloInv, DeskCurrent, Idle, Pending
  <2>2. CASE /\ Idle(d) /\ UNCHANGED desk
    BY <2>2 DEF DeskCurrent, Idle
  <2>3. ASSUME NEW i \in EventId, Pending(i), ReadEvent(d, i)
        PROVE  DeskCurrent'
    BY <2>3, <1>1 DEF DeskCurrent, ReadEvent, Pending, SoloInv, StoreInv, TypeOK
  <2>4. CASE Upsert(d)
    BY <2>4, <1>1 DEF DeskCurrent, Upsert, Pending, Idle, SoloInv, StoreInv, TypeOK
  <2>5. CASE Mark(d)
    BY <2>5, <1>1 DEF DeskCurrent, Mark, Idle, AtRest, SoloInv, StoreInv, TypeOK
  <2>6. Next => \/ Idle(d) /\ UNCHANGED desk
                \/ \E i \in EventId : Pending(i) /\ ReadEvent(d, i)
                \/ Upsert(d) \/ Mark(d)
    BY Cases DEF RecordResult, RecordCorrection, SkipEvent, MarkSpecial,
                 Abandon, EditLexicon, ConfirmRun, RejectRun
  <2> QED
    BY <2>1, <2>2, <2>3, <2>4, <2>5, <2>6
<1> QED
  BY <1>1, <1>2 DEF SoloInv

\* An empty store is an empty ledger.
LEMMA LedgerInit ==
    ASSUME Init
    PROVE  L!Init
<1>1. Written = {}
  BY DEF Init, Written, AtRest
<1>2. Shown \in [EventId -> [phase : {"absent"}, slot : Slots, special : {FALSE}]]
  BY <1>1 DEF Init, Shown
<1> QED
  BY <1>2 DEF Init, L!Init

\* With one process, every step is a step of the ledger or changes nothing in it.
LEMMA LedgerStep ==
    ASSUME NEW d, Desks = {d}, ~CanAbandon, SoloInv, [Next]_vars
    PROVE  [L!Next]_<<Shown, lexicon>>
<1> USE ShownSolo DEF SoloInv
<1>1. /\ events \in [EventId -> Event] /\ d \in Desks /\ StoreInv
      /\ desk \in [Desks -> [at : {"rest", "read", "written"},
                             id : EventId \cup {0}, slot : Slots \cup {<<>>},
                             special : BOOLEAN]]
  BY DEF StoreInv, TypeOK
<1>2. /\ desk[d].at # "written" => Written = {}
      /\ desk[d].at = "written" => Written = {desk[d].id}
      /\ desk'[d].at # "written" => Written' = {}
      /\ desk'[d].at = "written" => Written' = {desk'[d].id}
  BY DEF Written
<1>3. CASE UNCHANGED vars \/ UNCHANGED <<events, desk, lexicon>>
  BY <1>3 DEF vars, Shown, Written
<1>4. ASSUME Idle(d), UNCHANGED <<lexicon, desk>>, NEW e \in Event,
             e.phase \in {"pending", "confirmed"}, InsertEvent(e)
      PROVE  L!Next
  <2>1. PICK i \in EventId : Fresh(i) /\ events' = [events EXCEPT ![i] = e]
    BY <1>4 DEF InsertEvent
  <2> DEFINE p == [phase |-> e.phase, slot |-> e.slot, special |-> e.special]
  <2>2. p \in L!Proposal /\ p.phase \in {"pending", "confirmed"}
    BY <1>4 DEF L!Proposal, L!Phase, Event
  <2>3. Shown' = [Shown EXCEPT ![i] = p]
    BY <1>1, <1>2, <1>4, <2>1 DEF Shown, Idle
  <2>4. Shown[i].phase = "absent"
    BY <1>1, <1>2, <1>4, <2>1 DEF Shown, Idle, Fresh
  <2> QED
    BY <1>4, <2>2, <2>3, <2>4 DEF L!Next, L!Propose
<1>5. CASE RecordResult(d) \/ RecordCorrection(d)
  <2>1. CASE RecordResult(d) /\ ~UNCHANGED events
    <3>1. PICK r \in Runs, gated \in BOOLEAN, k \in Slots :
            InsertEvent([phase |-> IF gated THEN "pending" ELSE "confirmed",
                         slot |-> k, special |-> FALSE, run |-> r])
      BY <2>1 DEF RecordResult
    <3> DEFINE e == [phase |-> IF gated THEN "pending" ELSE "confirmed",
                     slot |-> k, special |-> FALSE, run |-> r]
    <3>2. e \in Event /\ e.phase \in {"pending", "confirmed"}
      BY DEF Event, L!Phase
    <3>3. Idle(d) /\ UNCHANGED <<lexicon, desk>>
      BY <2>1 DEF RecordResult
    <3> QED
      BY <1>4, <3>1, <3>2, <3>3
  <2>2. CASE RecordResult(d) /\ UNCHANGED events
    BY <1>3, <2>2 DEF RecordResult
  <2>3. CASE RecordCorrection(d)
    <3>1. PICK r \in Runs, k \in Slots, rewritten \in BOOLEAN :
            InsertEvent([phase |-> "pending", slot |-> k,
                         special |-> rewritten, run |-> r])
      BY <2>3 DEF RecordCorrection
    <3> DEFINE e == [phase |-> "pending", slot |-> k, special |-> rewritten,
                     run |-> r]
    <3>2. e \in Event /\ e.phase \in {"pending", "confirmed"}
      BY DEF Event, L!Phase
    <3>3. Idle(d) /\ UNCHANGED <<lexicon, desk>>
      BY <2>3 DEF RecordCorrection
    <3> QED
      BY <1>4, <3>1, <3>2, <3>3
  <2> QED
    BY <1>5, <2>1, <2>2, <2>3
<1>6. ASSUME NEW i \in EventId, SkipEvent(d, i) \/ MarkSpecial(d, i)
      PROVE  L!Next
  <2>1. /\ Pending(i) /\ \A j \in EventId : j # i => events'[j] = events[j]
        /\ events'[i].slot = events[i].slot
    BY <1>1, <1>6, TouchInv
  <2>2. Written = {} /\ Written' = {} /\ UNCHANGED lexicon
    BY <1>2, <1>6 DEF SkipEvent, MarkSpecial, Idle
  <2>3. /\ Shown[i].phase = "pending"
        /\ \A j \in EventId : j # i => Shown'[j] = Shown[j]
        /\ Shown[i] = [phase |-> events[i].phase, slot |-> events[i].slot,
                       special |-> events[i].special]
        /\ Shown'[i] = [phase |-> events'[i].phase, slot |-> events'[i].slot,
                        special |-> events'[i].special]
    BY <2>1, <2>2 DEF Shown, Pending
  <2>4. CASE SkipEvent(d, i)
    <3>1. Shown'[i] = [phase |-> "skipped", slot |-> events[i].slot,
                      special |-> events[i].special]
      BY <1>1, <2>1, <2>3, <2>4, TouchInv
    <3>2. [Shown[i] EXCEPT !.phase = "skipped"] = Shown'[i]
      BY <2>3, <3>1
    <3>3. Shown' = [Shown EXCEPT ![i] = Shown'[i]]
      BY <2>3 DEF Shown
    <3>4. Shown' = [Shown EXCEPT ![i].phase = "skipped"]
      BY <3>2, <3>3 DEF Shown
    <3> QED
      BY <2>2, <2>3, <3>4 DEF L!Next, L!Skip
  <2>5. CASE MarkSpecial(d, i)
    <3>1. Shown'[i] = [phase |-> events[i].phase, slot |-> events[i].slot,
                      special |-> TRUE]
      BY <1>1, <2>1, <2>3, <2>5, TouchInv DEF Pending
    <3>2. L!Flagged(Shown[i]) = Shown'[i]
      <4>1. Shown[i].phase = events[i].phase /\ Shown[i].slot = events[i].slot
        BY <2>3
      <4> QED
        BY <3>1, <4>1 DEF L!Flagged
    <3>3. Shown' = [Shown EXCEPT ![i] = Shown'[i]]
      BY <2>3 DEF Shown
    <3>4. Shown' = [Shown EXCEPT ![i] = L!Flagged(Shown[i])]
      BY <3>2, <3>3
    <3> QED
      BY <2>2, <2>3, <3>4 DEF L!Next, L!Flag
  <2> QED
    BY <1>6, <2>4, <2>5
<1>7. ASSUME NEW i \in EventId, Idle(d), ReadEvent(d, i)
      PROVE  UNCHANGED <<Shown, lexicon>>
  BY <1>1, <1>2, <1>7 DEF ReadEvent, Idle, Shown
<1>8. CASE Upsert(d)
  <2> DEFINE i == desk[d].id
  <2>1. /\ i \in EventId /\ Pending(i) /\ events[i].slot = desk[d].slot
        /\ events[i].special = desk[d].special
    BY <1>1, <1>8 DEF DeskCurrent, DeskHonest, StoreInv, Idle, Upsert
  <2>2. Written = {} /\ Written' = {i} /\ events' = events
    BY <1>1, <1>2, <1>8 DEF Upsert
  <2>3. /\ Shown[i] = [phase |-> "pending", slot |-> desk[d].slot,
                       special |-> desk[d].special]
        /\ Shown'[i] = [phase |-> "confirmed", slot |-> desk[d].slot,
                        special |-> desk[d].special]
        /\ \A j \in EventId : j # i => Shown'[j] = Shown[j]
    BY <2>1, <2>2 DEF Shown, Pending
  <2> HIDE DEF i
  <2>4. [Shown[i] EXCEPT !.phase = "confirmed"] = Shown'[i]
    BY <2>3
  <2>5. Shown' = [Shown EXCEPT ![i].phase = "confirmed"]
    <3>1. Shown' = [Shown EXCEPT ![i] = Shown'[i]]
      BY <2>1, <2>3 DEF Shown
    <3> QED
      BY <2>4, <3>1 DEF Shown
  <2>6. lexicon' = [lexicon EXCEPT ![Shown[i].slot] =
                       L!Reviewed(i, Shown[i].special)]
    BY <1>8, <2>3 DEF Upsert, i
  <2>7. L!Confirm(i)
    BY <2>3, <2>5, <2>6 DEF L!Confirm
  <2> QED
    BY <2>1, <2>7 DEF L!Next
<1>9. CASE Mark(d)
  <2> DEFINE i == desk[d].id
  <2>1. i \in EventId /\ Pending(i)
    BY <1>1, <1>9 DEF DeskCurrent, DeskHonest, StoreInv, Idle, Mark
  <2>2. Written = {i} /\ Written' = {} /\ UNCHANGED lexicon
    BY <1>1, <1>2, <1>9 DEF Mark, AtRest
  <2>3. events' = [events EXCEPT ![i] = [events[i] EXCEPT !.phase = "confirmed"]]
    BY <1>1, <1>9, <2>1 DEF Mark, Pending
  <2>4. /\ events'[i].phase = "confirmed" /\ events'[i].slot = events[i].slot
        /\ events'[i].special = events[i].special
        /\ \A j \in EventId : j # i => events'[j] = events[j]
    BY <1>1, <2>1, <2>3 DEF Event
  <2>5. Shown' = Shown
    BY <2>1, <2>2, <2>4 DEF Shown
  <2> QED
    BY <2>2, <2>5
<1>10. ASSUME NEW k \in Slots, EditLexicon(d, k)
       PROVE  L!Next
  <2>1. Shown' = Shown
    BY <1>10 DEF EditLexicon, Shown, Written
  <2> QED
    BY <1>10, <2>1 DEF EditLexicon, L!Next, L!Edit
<1>11. ASSUME NEW r \in Runs, ConfirmRun(d, r) \/ RejectRun(d, r)
       PROVE  UNCHANGED <<Shown, lexicon>>
  BY <1>11 DEF ConfirmRun, RejectRun, Shown, Written
<1>12. ~Abandon(d)
  BY DEF Abandon
<1> QED
  BY <1>3, <1>5, <1>6, <1>7, <1>8, <1>9, <1>10, <1>11, <1>12, Cases

\* With one process that is never interrupted every step of the store is a
\* step of the ledger or changes nothing the reviewer sees: the confirmation
\* counts from the moment its target is in the lexicon.
THEOREM SoloKeepsLedger ==
    ASSUME NEW d, Desks = {d}, ~CanAbandon
    PROVE  Spec => LedgerKept
<1>1. Init => SoloInv /\ L!Init
  <2>1. Init => DeskCurrent
    BY DEF Init, DeskCurrent, Idle, AtRest
  <2> QED
    BY <2>1, StoreInit, LedgerInit DEF SoloInv
<1>2. SoloInv /\ [Next]_vars => SoloInv' /\ [L!Next]_<<Shown, lexicon>>
  BY SoloNext, LedgerStep
<1> QED
  BY <1>1, <1>2, PTL DEF Spec, LedgerKept, L!Spec

=============================================================================
