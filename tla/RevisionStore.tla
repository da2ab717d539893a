--------------------------- MODULE RevisionStore ---------------------------
(***************************************************************************)
(* AgentRunStore of agent_store.py: the agent_runs, revision_events and    *)
(* lexicon tables of one SQLite file, and the processes that have it open. *)
(* A method is one transaction and so one step, except the confirmation of *)
(* a revision event: it reads the event on one connection, upserts the     *)
(* lexicon on another that commits by itself, and then marks the event on  *)
(* the first.  Between these three another process may write, and this one *)
(* may die or meet a locked database.                                      *)
(***************************************************************************)
EXTENDS Integers

CONSTANTS
    Desks,      \* the processes with the store open
    Runs,       \* run ids, each recorded by one run
    Layers,     \* the lexicon tables in use
    Sources,    \* source texts of proposals
    MaxEvents,  \* bound: how many events the model inserts
    CanAbandon  \* whether a process may die, or SQLite raise, mid-way

ASSUME StoreAssumption ==
    /\ Layers \subseteq {"terms", "phrases", "style_rules"}
    /\ MaxEvents \in Nat
    /\ CanAbandon \in BOOLEAN

VARIABLES
    runs,       \* agent_runs: run id |-> status, "absent" without a row
    events,     \* revision_events: id |-> row; phase "skipped" is deleted
    lexicon,    \* the three lexicon tables as one map
    desk        \* process |-> how far its confirmation is, and the row read

vars == <<runs, events, lexicon, desk>>

Slots == Layers \X Sources
EventId == 1..MaxEvents

\* The events as the reviewer sees them.  An event whose target is already
\* in the lexicon counts as confirmed, though it is not marked yet.
Written == {desk[d].id : d \in {e \in Desks : desk[e].at = "written"}}
Shown == [i \in EventId |->
            [phase |-> IF i \in Written THEN "confirmed" ELSE events[i].phase,
             slot |-> events[i].slot, special |-> events[i].special]]

L == INSTANCE ReviewLedger WITH Ids <- EventId, proposals <- Shown

Event == [phase : L!Phase, slot : Slots, special : BOOLEAN,
          run : Runs \cup {"none"}]
RunStatus == {"absent", "awaiting_human_confirmation", "needs_review",
              "budget_exceeded", "finalized", "rejected"}
Finalizable == {"awaiting_human_confirmation", "needs_review"}
AtRest == [at |-> "rest", id |-> 0, slot |-> <<>>, special |-> FALSE]

Pending(i) == events[i].phase = "pending"
Idle(d) == desk[d].at = "rest"

-----------------------------------------------------------------------------
Init ==
    /\ runs = [r \in Runs |-> "absent"]
    /\ \E k \in Slots :
          events = [i \in EventId |-> [phase |-> "absent", slot |-> k,
                                       special |-> FALSE, run |-> "none"]]
    /\ lexicon = [k \in Slots |-> L!Empty]
    /\ desk = [d \in Desks |-> AtRest]

FaultyFresh(i) == /\ events[i].phase \in {"absent", "skipped"}
                  /\ \A j \in EventId : j < i => events[j].phase # "absent"

\* autoincrement: the id of a deleted row is not given out again.
Fresh(i) == /\ events[i].phase = "absent"
            /\ \A j \in EventId : j < i => events[j].phase # "absent"

InsertEvent(e) ==
    \E i \in EventId : Fresh(i) /\ events' = [events EXCEPT ![i] = e]

\* A gated run never ends finalized, an ungated one never awaits.
Outcomes(gated) == {"needs_review", "budget_exceeded"} \cup
    IF gated THEN {"awaiting_human_confirmation"} ELSE {"finalized"}

\* record_result: the run and its proposal, if its text gave one.
RecordResult(d) ==
    /\ Idle(d)
    /\ \E r \in Runs, gated \in BOOLEAN :
          /\ runs[r] = "absent"
          /\ \E s \in Outcomes(gated) : runs' = [runs EXCEPT ![r] = s]
          /\ \/ UNCHANGED events
             \/ \E k \in Slots :
                   InsertEvent([phase |-> IF gated THEN "pending" ELSE "confirmed",
                                slot |-> k, special |-> FALSE, run |-> r])
    /\ UNCHANGED <<lexicon, desk>>

\* record_user_correction: special when the user rewrote most of the text.
RecordCorrection(d) ==
    /\ Idle(d)
    /\ \E r \in Runs, k \in Slots, rewritten \in BOOLEAN :
          InsertEvent([phase |-> "pending", slot |-> k, special |-> rewritten,
                       run |-> r])
    /\ UNCHANGED <<runs, lexicon, desk>>

-----------------------------------------------------------------------------
(* Confirming an event.                                                    *)

FaultyReadEvent(d, i) ==
    /\ desk' = [desk EXCEPT ![d] = [at |-> "read", id |-> i,
                                    slot |-> events[i].slot,
                                    special |-> FALSE]]
    /\ UNCHANGED <<runs, events, lexicon>>

ReadEvent(d, i) ==
    /\ desk' = [desk EXCEPT ![d] = [at |-> "read", id |-> i,
                                    slot |-> events[i].slot,
                                    special |-> events[i].special]]
    /\ UNCHANGED <<runs, events, lexicon>>

\* confirm_revision_event_by_id, up to its SELECT.
ReadById(d, i) == Idle(d) /\ Pending(i) /\ ReadEvent(d, i)

\* confirm_revision_event: the oldest pending event of the run with that
\* source, in whichever layer.
ReadBySource(d, i, r, s) ==
    LET found == {j \in EventId : /\ Pending(j) /\ events[j].run = r
                                  /\ events[j].slot[2] = s}
    IN  Idle(d) /\ i \in found /\ (\A j \in found : i <= j) /\ ReadEvent(d, i)

FaultyUpsert(d) ==
    /\ desk[d].at = "read"
    /\ desk' = [desk EXCEPT ![d] = [@ EXCEPT !.at = "written"]]
    /\ UNCHANGED <<runs, events, lexicon>>

\* The first half of _confirm_revision_row, committed on its own.
Upsert(d) ==
    /\ desk[d].at = "read"
    /\ lexicon' = [lexicon EXCEPT ![desk[d].slot] =
                      L!Reviewed(desk[d].id, desk[d].special)]
    /\ desk' = [desk EXCEPT ![d] = [@ EXCEPT !.at = "written"]]
    /\ UNCHANGED <<runs, events>>

FaultyMark(d) ==
    /\ desk[d].at = "written"
    /\ events' = [events EXCEPT ![desk[d].id] = [@ EXCEPT !.phase = "confirmed"]]
    /\ desk' = [desk EXCEPT ![d] = AtRest]
    /\ UNCHANGED <<runs, lexicon>>

\* The second half: an UPDATE by id, which finds nothing if the event has
\* been skipped meanwhile, and the commit.
Mark(d) ==
    /\ desk[d].at = "written"
    /\ events' = IF events[desk[d].id].phase = "skipped" THEN events
                 ELSE [events EXCEPT ![desk[d].id] = [@ EXCEPT !.phase = "confirmed"]]
    /\ desk' = [desk EXCEPT ![d] = AtRest]
    /\ UNCHANGED <<runs, lexicon>>

\* The process dies, or SQLite raises and the open transaction rolls back.
Abandon(d) ==
    /\ CanAbandon /\ ~Idle(d)
    /\ desk' = [desk EXCEPT ![d] = AtRest]
    /\ UNCHANGED <<runs, events, lexicon>>

-----------------------------------------------------------------------------
(* The other single-transaction methods.                                   *)

SkipEvent(d, i) ==
    /\ Idle(d) /\ Pending(i)
    /\ events' = [events EXCEPT ![i] = [@ EXCEPT !.phase = "skipped"]]
    /\ UNCHANGED <<runs, lexicon, desk>>

MarkSpecial(d, i) ==
    /\ Idle(d) /\ Pending(i)
    /\ events' = [events EXCEPT ![i] = [@ EXCEPT !.special = TRUE]]
    /\ UNCHANGED <<runs, lexicon, desk>>

\* upsert_lexicon_entry from the lexicon editor or one entry of an import.
EditLexicon(d, k) ==
    /\ Idle(d)
    /\ \E special \in BOOLEAN :
          lexicon' = [lexicon EXCEPT ![k] = L!Edited(special)]
    /\ UNCHANGED <<runs, events, desk>>

ConfirmRun(d, r) ==
    /\ Idle(d) /\ runs[r] \in Finalizable
    /\ runs' = [runs EXCEPT ![r] = "finalized"]
    /\ UNCHANGED <<events, lexicon, desk>>

FaultyRejectRun(d, r) ==
    /\ Idle(d) /\ runs[r] # "absent"
    /\ runs' = [runs EXCEPT ![r] = "rejected"]
    /\ UNCHANGED <<events, lexicon, desk>>

RejectRun(d, r) ==
    /\ Idle(d) /\ runs[r] \notin {"absent", "finalized"}
    /\ runs' = [runs EXCEPT ![r] = "rejected"]
    /\ UNCHANGED <<events, lexicon, desk>>

Next == \E d \in Desks :
    \/ RecordResult(d) \/ RecordCorrection(d)
    \/ \E i \in EventId :
          \/ ReadById(d, i) \/ SkipEvent(d, i) \/ MarkSpecial(d, i)
          \/ \E r \in Runs, s \in Sources : ReadBySource(d, i, r, s)
    \/ Upsert(d) \/ Mark(d) \/ Abandon(d)
    \/ \E k \in Slots : EditLexicon(d, k)
    \/ \E r \in Runs : ConfirmRun(d, r) \/ RejectRun(d, r)

Spec == Init /\ [][Next]_vars

-----------------------------------------------------------------------------
(* Properties.                                                             *)

\* The rows of the three tables and the progress of each process keep their
\* types; no run is ever stored with a status outside the six.
TypeOK ==
    /\ runs \in [Runs -> RunStatus]
    /\ events \in [EventId -> Event]
    /\ lexicon \in [Slots -> [by : {"nobody", "editor", "review"},
                              id : EventId \cup {0}, special : BOOLEAN]]
    /\ desk \in [Desks -> [at : {"rest", "read", "written"},
                           id : EventId \cup {0}, slot : Slots \cup {<<>>},
                           special : BOOLEAN]]

\* A decided event stays decided, whoever else is deciding it: no late Mark
\* brings a skipped event back, no late skip deletes a confirmed one.
DecisionsAreFinal ==
    [][\A i \in EventId :
          events[i].phase \in {"confirmed", "skipped"} =>
              events'[i].phase = events[i].phase]_vars

\* An event turns confirmed only after its slot of the lexicon is written:
\* a process that dies between the two leaves a pending event behind, never
\* a confirmed one that the lexicon has not heard of.
ConfirmedAfterWritten ==
    [][\A i \in EventId :
          Pending(i) /\ events'[i].phase = "confirmed" =>
              lexicon[events[i].slot] # L!Empty]_vars

\* What a process has read of an event may be stale when it writes, but it is
\* never another event's: an entry that names an event sits in that event's
\* slot, though the event may have been deleted and others inserted meanwhile.
EntriesHaveProposals ==
    \A k \in Slots : lexicon[k].by = "review" =>
        /\ lexicon[k].id \in EventId
        /\ events[lexicon[k].id].phase # "absent"
        /\ events[lexicon[k].id].slot = k

\* However many windows confirm and reject the same run, a finalized run
\* stays finalized, and only a run that waits for a human becomes finalized
\* by one: neither a rejected run nor one that ran out of budget does.
RunsMoveForward ==
    [][\A r \in Runs :
          /\ runs[r] = "finalized" => runs'[r] = "finalized"
          /\ runs[r] \in {"rejected", "budget_exceeded"} =>
                runs'[r] # "finalized"]_vars

\* With one process that is never interrupted the three steps of a
\* confirmation are as good as one: the store keeps the reviewer's ledger.
LedgerKept == L!Spec

\* The inductive invariant: an open confirmation holds the identity and slot
\* of a row that was inserted, and has written the slot once it says so.
DeskHonest ==
    \A d \in Desks : ~Idle(d) =>
        /\ desk[d].id \in EventId
        /\ events[desk[d].id].phase # "absent"
        /\ events[desk[d].id].slot = desk[d].slot
        /\ desk[d].at = "written" => lexicon[desk[d].slot] # L!Empty

\* The invariant the proofs are an induction over.
StoreInv == TypeOK /\ DeskHonest /\ EntriesHaveProposals

\* With one process and no interruption, what an open confirmation has read
\* is still what the row says.
DeskCurrent ==
    \A d \in Desks : ~Idle(d) =>
        /\ Pending(desk[d].id)
        /\ events[desk[d].id].special = desk[d].special

\* desktop_agent_core_zh.md:85 says that an unconfirmed proposal is only
\* in revision_events and never in the lexicon.  A process that dies after
\* the upsert, or a skip that comes between read and upsert, leaves a lexicon
\* entry whose event is pending or skipped.
UnconfirmedStaysOut ==
    \A k \in Slots : lexicon[k].by = "review" =>
        Shown[lexicon[k].id].phase = "confirmed"

=============================================================================
