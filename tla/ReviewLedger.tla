---------------------------- MODULE ReviewLedger ----------------------------
(***************************************************************************)
(* What the audit store promises the reviewer of lexicon proposals: a      *)
(* proposal is decided once, and the lexicon takes a proposal's target in  *)
(* the very step that marks it confirmed, with the special flag it has at  *)
(* that moment.                                                            *)
(***************************************************************************)
CONSTANTS
    Ids,    \* proposal identities
    Slots   \* the places of the lexicon

VARIABLES
    proposals,  \* identity |-> its phase, slot and special flag
    lexicon     \* slot |-> the entry it holds

Phase == {"absent", "pending", "confirmed", "skipped"}
Empty == [by |-> "nobody", id |-> 0, special |-> FALSE]
Edited(special) == [by |-> "editor", id |-> 0, special |-> special]
Reviewed(i, special) == [by |-> "review", id |-> i, special |-> special]

Init == /\ proposals \in [Ids -> [phase : {"absent"}, slot : Slots,
                                  special : {FALSE}]]
        /\ lexicon = [k \in Slots |-> Empty]

Propose(i, p) ==
    /\ proposals[i].phase = "absent" /\ p.phase \in {"pending", "confirmed"}
    /\ proposals' = [proposals EXCEPT ![i] = p]
    /\ UNCHANGED lexicon

Flagged(p) == [phase |-> p.phase, slot |-> p.slot, special |-> TRUE]

Flag(i) ==
    /\ proposals[i].phase = "pending"
    /\ proposals' = [proposals EXCEPT ![i] = Flagged(proposals[i])]
    /\ UNCHANGED lexicon

Skip(i) ==
    /\ proposals[i].phase = "pending"
    /\ proposals' = [proposals EXCEPT ![i].phase = "skipped"]
    /\ UNCHANGED lexicon

Confirm(i) ==
    /\ proposals[i].phase = "pending"
    /\ proposals' = [proposals EXCEPT ![i].phase = "confirmed"]
    /\ lexicon' = [lexicon EXCEPT ![proposals[i].slot] =
                      Reviewed(i, proposals[i].special)]

Edit(k, special) ==
    /\ lexicon' = [lexicon EXCEPT ![k] = Edited(special)]
    /\ UNCHANGED proposals

Proposal == [phase : Phase, slot : Slots, special : BOOLEAN]

Next == \/ \E i \in Ids : \/ \E p \in Proposal : Propose(i, p)
                          \/ Flag(i) \/ Skip(i) \/ Confirm(i)
        \/ \E k \in Slots, special \in BOOLEAN : Edit(k, special)

Spec == Init /\ [][Next]_<<proposals, lexicon>>

=============================================================================
