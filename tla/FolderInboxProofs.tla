------------------------- MODULE FolderInboxProofs -------------------------
(***************************************************************************)
(* For any windows, names and payloads and any number of drops and         *)
(* captures: a text is returned once, no file disappears, what is archived *)
(* is accounted for, and the error folder holds only what was refused,     *)
(* each as long as none of the mishaps happened that its statement names.  *)
(***************************************************************************)
EXTENDS FolderInbox, FiniteSetTheorems, TLAPS

-----------------------------------------------------------------------------
(* The inductive invariant behind them.                                    *)

Handling(w) == pc[w] \in {"read", "target", "move"}
Sent(w, folder) == pc[w] \in {"target", "move"} /\ goal[w].folder = folder

\* Without an overlap at most one window is inside capture().
Alone ==
    ~Happened("overlap") => \A v, w \in Windows : Busy(v) /\ Busy(w) => v = w

\* A file is filed under its own name; every file comes from a producer.
FilesHonest ==
    /\ \A n \in Names : inbox[n] # NoFile =>
            inbox[n] \in dropped /\ inbox[n].name = n
    /\ \A d \in Folder : \A s \in folders[d] :
            s.file \in dropped /\ s.file.name = s.name
    /\ \A w \in Windows : Handling(w) => \E f \in dropped : f.name = at[w]

\* The target of a move is free, or there is nothing left to move onto it.
TargetsFree ==
    /\ ~Happened("reused") =>
          \A d \in Folder : \A s \in folders[d] : inbox[s.name] = NoFile
    /\ ~Happened("overlap") => \A w \in Windows : pc[w] = "move" =>
          ~Taken(goal[w].folder, at[w], goal[w].index)

\* The hashes a capture works with cover what was returned, and what it has
\* captured is new.
HashesCover ==
    ~Happened("overlap") /\ ~Happened("forgot") =>
        /\ ~torn => \A d \in delivered : d.file.payload \in state
        /\ \A w \in Windows : Busy(w) =>
              /\ \A d \in delivered : d.file.payload \in known[w]
              /\ \A f \in captured[w] :
                    f.payload \in known[w] /\ ~Returned(f.payload)
              /\ \A f, g \in captured[w] : f.payload = g.payload => f = g
              /\ pc[w] = "return" => state = known[w]

\* While a window has a file in hand, it is alone with it or the name is
\* empty for good.
FileStays ==
    ~Happened("overlap") => \A w \in Windows : Handling(w) => inbox[at[w]] # NoFile

Lossless == ~Happened("died") /\ ~Crossed /\ replaced = {}

\* Every hash stands for a text returned or in hand ...
HashesEarned ==
    Lossless =>
        /\ \A p \in state : Accounted(p)
        /\ \A w \in Windows : \A p \in known[w] : Accounted(p)

\* ... and so does every file on its way to the archive.
ArchivalEarned ==
    Lossless => \A w \in Windows :
        Sent(w, "archive") /\ inbox[at[w]] # NoFile =>
            Accounted(inbox[at[w]].payload)

\* A file on its way to the error folder cannot be used.
RefusalsEarned ==
    ~Crossed /\ ~Happened("unreadable") /\ replaced = {} =>
        \A w \in Windows : Sent(w, "error") /\ inbox[at[w]] # NoFile =>
            at[w] \in Unsupported \/ <<at[w], inbox[at[w]].payload>> \in Unparsable

\* Outside a call a window holds no text.
IdleHoldsNothing == \A w \in Windows : ~Busy(w) => captured[w] = {}

InboxInv ==
    /\ TypeOK /\ IsFiniteSet(dropped) /\ Alone /\ IdleHoldsNothing
    /\ FilesHonest /\ TargetsFree /\ Kept
    /\ HashesCover /\ DeliveredOnce
    /\ FileStays /\ HashesEarned /\ ArchivalEarned /\ NothingLost
    /\ RefusalsEarned /\ ErrorsAreRefused

-----------------------------------------------------------------------------
\* A producer writes a file.
LEMMA DropStep ==
    ASSUME InboxInv, NEW n \in Names, NEW p \in Payloads, Drop(n, p)
    PROVE  InboxInv'
<1> USE DEF InboxInv, Drop, Busy, Happened, seenFile, locals
<1> DEFINE f == [id |-> Cardinality(dropped) + 1, name |-> n, payload |-> p]
<1>a. f \in File /\ f # NoFile
  <2>1. Cardinality(dropped) \in Nat
    BY FS_CardinalityType
  <2>2. f.id # NoFile.id
    BY <2>1 DEF NoFile
  <2> QED BY <2>1, <2>2 DEF File
<1>c. \A g \in dropped : g # NoFile
  <2>1. SUFFICES ASSUME NoFile \in File PROVE FALSE
    BY DEF TypeOK
  <2> QED BY <2>1 DEF File, NoFile
<1>d. \A v \in Windows : Handling(v) /\ at[v] = n =>
         replaced' # {} \/ Crossed'
  <2>1. CASE inbox[n] # NoFile
    BY <2>1
  <2>2. CASE inbox[n] = NoFile
    BY <2>2 DEF FileStays, FilesHonest, Handling, Crossed
  <2> QED BY <2>1, <2>2
<1>b. \A q : Accounted(q) => Accounted(q)'
  BY DEF TypeOK, Accounted, Returned, InHand
<1>1. TypeOK'
  BY InboxAssumption, <1>a DEF TypeOK, File, NoFile, Mishap
<1>2. IsFiniteSet(dropped)'
  BY FS_AddElement
<1>3. Alone'
  BY <1>a DEF TypeOK, Alone
<1>4. FilesHonest'
  BY <1>a DEF TypeOK, FilesHonest, Handling
<1>5. TargetsFree'
  <2>1. ASSUME ~Happened("reused")', NEW d \in Folder, NEW s \in folders[d],
               s.name = n
        PROVE  FALSE
    <3>1. s.file \in dropped /\ s.file.name = n
      BY <2>1 DEF FilesHonest
    <3> QED BY <2>1, <3>1 DEF TargetsFree
  <2> QED BY <2>1 DEF TargetsFree, Taken, TypeOK
<1>6. Kept'
  <2> SUFFICES ASSUME ~Crossed, NEW g \in dropped'
               PROVE  g \in replaced' \/ Filed(g)' \/ Waiting(g)'
    BY DEF Kept, Crossed
  <2>1. CASE g = f
    BY <2>1 DEF Waiting, TypeOK
  <2>2. CASE Filed(g)
    BY <2>2 DEF Filed
  <2>3. ASSUME NEW m \in Names, inbox[m] = g, g \in dropped
        PROVE  g \in replaced' \/ Waiting(g)'
    <3>1. g # NoFile
      BY <1>a, <1>c, <2>3 DEF TypeOK
    <3>2. CASE m = n
      BY <2>3, <3>1, <3>2
    <3>3. CASE m # n
      BY <2>3, <3>3 DEF Waiting, TypeOK
    <3> QED BY <3>2, <3>3
  <2>4. g = f \/ (g \in dropped /\ (g \in replaced \/ Filed(g) \/ Waiting(g)))
    BY DEF Kept, Crossed
  <2> QED BY <2>1, <2>2, <2>3, <2>4 DEF Waiting
<1>7. HashesCover'
  BY <1>a DEF TypeOK, HashesCover, Returned
<1>8. DeliveredOnce'
  BY <1>a DEF TypeOK, DeliveredOnce
<1>9. FileStays'
  BY <1>a DEF TypeOK, FileStays, Handling
<1>10. HashesEarned'
  BY <1>a, <1>b DEF TypeOK, HashesEarned, Lossless, Crossed
<1>11. ArchivalEarned'
  <2> SUFFICES ASSUME Lossless', NEW v \in Windows, Sent(v, "archive"),
                      inbox'[at[v]] # NoFile
               PROVE  Accounted(inbox[at[v]].payload)'
    BY DEF ArchivalEarned, Sent
  <2>1. at[v] # n
    BY <1>d DEF Sent, Handling, Lossless
  <2> QED BY <1>b, <2>1 DEF ArchivalEarned, Sent, Lossless, Crossed, TypeOK
<1>12. NothingLost'
  BY <1>a, <1>b DEF TypeOK, NothingLost, Lossless, Crossed
<1>13. RefusalsEarned'
  <2> SUFFICES ASSUME ~Crossed', ~Happened("unreadable")', replaced' = {},
                      NEW v \in Windows, Sent(v, "error"),
                      inbox'[at[v]] # NoFile
               PROVE  \/ at[v] \in Unsupported
                      \/ <<at[v], inbox'[at[v]].payload>> \in Unparsable
    BY DEF RefusalsEarned, Sent, Crossed
  <2>1. at[v] # n
    BY <1>d DEF Sent, Handling
  <2> QED BY <2>1 DEF RefusalsEarned, Sent, Crossed, TypeOK
<1>14. ErrorsAreRefused'
  BY <1>a DEF TypeOK, ErrorsAreRefused, Crossed
<1>15. IdleHoldsNothing'
  BY DEF IdleHoldsNothing
<1> QED
  BY <1>1, <1>2, <1>3, <1>4, <1>5, <1>6, <1>7, <1>8, <1>9, <1>10, <1>11,
     <1>12, <1>13, <1>14, <1>15

\* A capture begins: the hashes it loads are those of the state file, or
\* something was forgotten.
LEMMA OpenStep ==
    ASSUME InboxInv, NEW w \in Windows, Open(w)
    PROVE  InboxInv'
<1> USE DEF InboxInv, Open, Goto, Busy, Happened, files, seenFile, locals
<1>a. ~Happened("overlap")' => \A v \in Windows : ~Busy(v)
  OBVIOUS
<1>b. \A q : Accounted(q) => Accounted(q)'
  BY DEF TypeOK, Accounted, Returned, InHand
<1>1. TypeOK'
  BY InboxAssumption DEF TypeOK, Reads, Mishap, Place
<1>2. Alone'
  BY <1>a DEF TypeOK, Alone
<1>3. IdleHoldsNothing'
  BY <1>a DEF TypeOK, IdleHoldsNothing
<1>4. FilesHonest'
  BY <1>a DEF TypeOK, FilesHonest, Handling
<1>5. TargetsFree'
  BY <1>a DEF TypeOK, TargetsFree, Taken
<1>6. Kept'
  BY <1>a DEF TypeOK, Kept, Filed, Waiting, Crossed
<1>7. HashesCover'
  <2> SUFFICES ASSUME ~Happened("overlap")', ~Happened("forgot")'
               PROVE  HashesCover'
    BY DEF HashesCover
  <2>1. known' = [known EXCEPT ![w] = state] /\ ~torn
    BY DEF TypeOK
  <2>2. \A v \in Windows : Busy(v)' => v = w
    BY <1>a DEF TypeOK
  <2>3. captured[w] = {}
    BY DEF IdleHoldsNothing
  <2> QED BY <2>1, <2>2, <2>3 DEF HashesCover, TypeOK
<1>8. DeliveredOnce'
  BY <1>a DEF TypeOK, DeliveredOnce
<1>9. FileStays'
  BY <1>a DEF TypeOK, FileStays, Handling
<1>10. HashesEarned'
  <2>1. known'[w] \subseteq state
    BY DEF Reads, TypeOK
  <2> QED BY <1>b, <2>1 DEF HashesEarned, Lossless, Crossed, TypeOK
<1>11. ArchivalEarned'
  BY <1>a, <1>b DEF TypeOK, ArchivalEarned, Lossless, Sent, Crossed
<1>12. NothingLost'
  BY <1>a, <1>b DEF TypeOK, NothingLost, Lossless, Crossed
<1>13. RefusalsEarned'
  BY <1>a DEF TypeOK, RefusalsEarned, Sent, Crossed
<1>14. ErrorsAreRefused'
  BY <1>a DEF TypeOK, ErrorsAreRefused, Crossed
<1>15. IsFiniteSet(dropped)'
  OBVIOUS
<1> QED
  BY <1>1, <1>2, <1>3, <1>4, <1>5, <1>6, <1>7, <1>8, <1>9, <1>10, <1>11,
     <1>12, <1>13, <1>14, <1>15

\* Listing the folder changes nothing but what the window has to visit.
LEMMA ListStep ==
    ASSUME InboxInv, NEW w \in Windows, List(w)
    PROVE  InboxInv'
<1> USE DEF InboxInv, List, Goto, Busy, Happened, files, seenFile, locals
<1>a. ~Happened("overlap") => \A v \in Windows : Busy(v) => v = w
  BY DEF Alone
<1>1. TypeOK'
  BY InboxAssumption DEF TypeOK, Folder, Place
<1>2. Alone'
  BY <1>a DEF TypeOK, Alone
<1>3. IdleHoldsNothing'
  BY <1>a DEF TypeOK, IdleHoldsNothing
<1>4. FilesHonest'
  BY <1>a DEF TypeOK, FilesHonest, Handling
<1>5. TargetsFree'
  BY <1>a DEF TypeOK, TargetsFree, Taken
<1>6. HashesCover'
  BY <1>a DEF TypeOK, HashesCover, Returned
<1>7. FileStays'
  BY <1>a DEF TypeOK, FileStays, Handling
<1>8. ArchivalEarned'
  <2>1. \A v \in Windows : Sent(v, "archive")' => Sent(v, "archive")
    BY DEF Sent, TypeOK
  <2>2. \A q : Accounted(q) => Accounted(q)'
    BY DEF Accounted, Returned, InHand
  <2> QED BY <2>1, <2>2 DEF ArchivalEarned, Lossless, Crossed
<1>9. RefusalsEarned'
  BY <1>a DEF TypeOK, RefusalsEarned, Sent, Crossed
<1>10. IsFiniteSet(dropped)' /\ Kept' /\ DeliveredOnce' /\ HashesEarned'
      /\ NothingLost' /\ ErrorsAreRefused'
  BY DEF Kept, Filed, Waiting, Crossed, DeliveredOnce, HashesEarned,
     Lossless, NothingLost, ErrorsAreRefused, Accounted, Returned, InHand
<1> QED
  BY <1>1, <1>2, <1>3, <1>4, <1>5, <1>6, <1>7, <1>8, <1>9, <1>10

\* A visit leaves the file where it is.
LEMMA VisitStep ==
    ASSUME InboxInv, NEW w \in Windows, Visit(w)
    PROVE  InboxInv'
<1> USE DEF InboxInv, Visit, Goto, Busy, Happened, files, seenFile, locals
<1>a. ~Happened("overlap") => \A v \in Windows : Busy(v) => v = w
  BY DEF Alone
<1>b. \A q : Accounted(q) => Accounted(q)'
  BY DEF TypeOK, Accounted, Returned, InHand
<1>1. TypeOK'
  <2>1. PICK n \in Names :
           /\ pc[w] = "visit"
           /\ at' = [at EXCEPT ![w] = n]
           /\ pc' = pc \/ pc' = [pc EXCEPT ![w] = "target"]
                       \/ pc' = [pc EXCEPT ![w] = "read"]
           /\ goal' = goal \/ goal' = [goal EXCEPT ![w].folder = "error"]
    OBVIOUS
  <2>2. at' \in [Windows -> Nat] /\ at'[w] \in Names
    BY <2>1, InboxAssumption DEF TypeOK
  <2>3. pc' \in [Windows -> Place]
    BY <2>1 DEF TypeOK, Place
  <2>4. goal[w] \in [folder : Folder, index : Nat]
    BY DEF TypeOK
  <2>5. goal' \in [Windows -> [folder : Folder, index : Nat]]
    BY <2>1, <2>4 DEF TypeOK, Folder
  <2>6. \A v \in Windows : pc'[v] \in {"read", "target", "move"} => at'[v] \in Names
    BY <2>1, <2>2 DEF TypeOK
  <2> QED BY <2>2, <2>3, <2>5, <2>6 DEF TypeOK
<1>2. Alone'
  BY <1>a DEF TypeOK, Alone
<1>3. IdleHoldsNothing'
  BY <1>a DEF TypeOK, IdleHoldsNothing
<1>4. FilesHonest'
  BY <1>a DEF TypeOK, FilesHonest, Handling
<1>5. TargetsFree'
  BY <1>a DEF TypeOK, TargetsFree, Taken
<1>6. HashesCover'
  BY <1>a DEF TypeOK, HashesCover, Returned
<1>7. FileStays'
  BY <1>a DEF TypeOK, FileStays, Handling
<1>8. ArchivalEarned'
  BY <1>a, <1>b DEF TypeOK, ArchivalEarned, Lossless, Sent, Crossed
<1>9. RefusalsEarned'
  BY <1>a DEF TypeOK, RefusalsEarned, Sent, Crossed
<1>10. IsFiniteSet(dropped)' /\ Kept' /\ DeliveredOnce' /\ HashesEarned'
      /\ NothingLost' /\ ErrorsAreRefused'
  BY DEF Kept, Filed, Waiting, Crossed, DeliveredOnce, HashesEarned,
     Lossless, NothingLost, ErrorsAreRefused, Accounted, Returned, InHand
<1> QED
  BY <1>1, <1>2, <1>3, <1>4, <1>5, <1>6, <1>7, <1>8, <1>9, <1>10

\* A new text is in hand before its file moves.
LEMMA ReadNewStep ==
    ASSUME InboxInv, NEW w \in Windows, ReadNew(w)
    PROVE  InboxInv'
<1> USE DEF InboxInv, ReadNew, Goto, SendTo, Busy, Happened, files, seenFile, locals
<1>a. ~Happened("overlap") => \A v \in Windows : Busy(v) => v = w
  BY DEF Alone
<1>b. \A q : Accounted(q) => Accounted(q)'
  BY DEF TypeOK, Accounted, Returned, InHand
<1>1. TypeOK'
  BY InboxAssumption DEF TypeOK, File, NoFile, Folder, Place
<1>2. Alone'
  BY <1>a DEF TypeOK, Alone
<1>3. IdleHoldsNothing'
  BY <1>a DEF TypeOK, IdleHoldsNothing
<1>4. FilesHonest'
  BY <1>a DEF TypeOK, FilesHonest, Handling
<1>5. TargetsFree'
  BY <1>a DEF TypeOK, TargetsFree, Taken
<1>6. HashesCover'
  BY <1>a DEF TypeOK, HashesCover, Returned
<1>7. FileStays'
  BY <1>a DEF TypeOK, FileStays, Handling
<1>8. HashesEarned'
  <2>1. inbox[at[w]] \in captured'[w]
    BY DEF TypeOK
  <2>2. Accounted(inbox[at[w]].payload)'
    BY <2>1 DEF Accounted, InHand, TypeOK
  <2> QED BY <1>b, <2>2 DEF HashesEarned, Lossless, Crossed, TypeOK
<1>9. ArchivalEarned'
  <2>1. inbox[at[w]] \in captured'[w]
    BY DEF TypeOK
  <2>2. Accounted(inbox[at[w]].payload)'
    BY <2>1 DEF Accounted, InHand, TypeOK
  <2> QED BY <1>b, <2>2 DEF ArchivalEarned, Lossless, Crossed, Sent, TypeOK
<1>10. NothingLost'
  BY <1>a, <1>b DEF TypeOK, NothingLost, Lossless, Crossed
<1>11. RefusalsEarned'
  BY <1>a DEF TypeOK, RefusalsEarned, Sent, Crossed
<1>12. IsFiniteSet(dropped)' /\ Kept' /\ DeliveredOnce' /\ ErrorsAreRefused'
  BY DEF Kept, Filed, Waiting, Crossed, DeliveredOnce, ErrorsAreRefused
<1> QED
  BY <1>1, <1>2, <1>3, <1>4, <1>5, <1>6, <1>7, <1>8, <1>9, <1>10, <1>11,
     <1>12

\* A text seen before is accounted for, since its hash is.
LEMMA ReadSeenStep ==
    ASSUME InboxInv, NEW w \in Windows, ReadSeen(w)
    PROVE  InboxInv'
<1> USE DEF InboxInv, ReadSeen, Goto, SendTo, Busy, Happened, files, seenFile, locals
<1>a. ~Happened("overlap") => \A v \in Windows : Busy(v) => v = w
  BY DEF Alone
<1>b. \A q : Accounted(q) => Accounted(q)'
  BY DEF TypeOK, Accounted, Returned, InHand
<1>1. TypeOK'
  <2>1. mishaps' \subseteq Mishap
    BY DEF TypeOK, Mishap
  <2>2. goal' \in [Windows -> [folder : Folder, index : Nat]]
    <3>1. PICK d \in Folder : goal' = [goal EXCEPT ![w].folder = d]
      BY DEF Folder
    <3> QED
      BY <3>1 DEF TypeOK
  <2>3. pc' \in [Windows -> Place]
    BY DEF TypeOK, Place
  <2>4. UNCHANGED <<files, seenFile, known, captured, todo, at, number,
                    delivered, captures>>
    OBVIOUS
  <2>5. \A v \in Windows : pc'[v] \in {"read", "target", "move"} => at'[v] \in Names
    BY DEF TypeOK
  <2> QED
    BY <2>1, <2>2, <2>3, <2>4, <2>5 DEF TypeOK
<1>2. Alone'
  BY <1>a DEF TypeOK, Alone
<1>3. IdleHoldsNothing'
  BY <1>a DEF TypeOK, IdleHoldsNothing
<1>4. FilesHonest'
  BY <1>a DEF TypeOK, FilesHonest, Handling
<1>5. TargetsFree'
  BY <1>a DEF TypeOK, TargetsFree, Taken
<1>6. HashesCover'
  BY <1>a DEF TypeOK, HashesCover, Returned
<1>7. FileStays'
  BY <1>a DEF TypeOK, FileStays, Handling
<1>8. ArchivalEarned'
  BY <1>b DEF ArchivalEarned, HashesEarned, Lossless, Crossed, Sent, TypeOK
<1>9. RefusalsEarned'
  BY <1>a DEF TypeOK, RefusalsEarned, Sent, Crossed
<1>10. Kept'
  BY <1>a DEF TypeOK, Kept, Filed, Waiting, Crossed
<1>11. DeliveredOnce'
  BY <1>a DEF TypeOK, DeliveredOnce
<1>12. HashesEarned'
  BY <1>a, <1>b DEF TypeOK, HashesEarned, Lossless, Crossed
<1>13. NothingLost'
  BY <1>a, <1>b DEF TypeOK, NothingLost, Lossless, Crossed
<1>14. ErrorsAreRefused'
  BY <1>a DEF TypeOK, ErrorsAreRefused, Crossed
<1>15. IsFiniteSet(dropped)'
  OBVIOUS
<1> QED
  BY <1>1, <1>2, <1>3, <1>4, <1>5, <1>6, <1>7, <1>8, <1>9, <1>10, <1>11,
     <1>12, <1>13, <1>14, <1>15

\* Only a file that is gone, unparsable or unreadable goes to the error folder.
LEMMA ReadRefusedStep ==
    ASSUME InboxInv, NEW w \in Windows, ReadRefused(w)
    PROVE  InboxInv'
<1> USE DEF InboxInv, ReadRefused, Goto, SendTo, Busy, Happened, files, seenFile, locals
<1>a. ~Happened("overlap") => \A v \in Windows : Busy(v) => v = w
  BY DEF Alone
<1>b. \A q : Accounted(q) => Accounted(q)'
  BY DEF TypeOK, Accounted, Returned, InHand
<1>1. TypeOK'
  BY InboxAssumption DEF TypeOK, Folder, Mishap, Place
<1>2. Alone'
  BY <1>a DEF TypeOK, Alone
<1>3. IdleHoldsNothing'
  BY <1>a DEF TypeOK, IdleHoldsNothing
<1>4. FilesHonest'
  BY <1>a DEF TypeOK, FilesHonest, Handling
<1>5. TargetsFree'
  BY <1>a DEF TypeOK, TargetsFree, Taken
<1>6. Kept'
  BY <1>a DEF TypeOK, Kept, Filed, Waiting, Crossed
<1>7. HashesCover'
  BY <1>a DEF TypeOK, HashesCover, Returned
<1>8. DeliveredOnce'
  BY <1>a DEF TypeOK, DeliveredOnce
<1>9. FileStays'
  BY <1>a DEF TypeOK, FileStays, Handling
<1>10. HashesEarned'
  BY <1>a, <1>b DEF TypeOK, HashesEarned, Lossless, Crossed
<1>11. ArchivalEarned'
  BY <1>a, <1>b DEF TypeOK, ArchivalEarned, Lossless, Sent, Crossed
<1>12. NothingLost'
  BY <1>a, <1>b DEF TypeOK, NothingLost, Lossless, Crossed
<1>13. RefusalsEarned'
  BY <1>a DEF TypeOK, RefusalsEarned, Sent, Crossed
<1>14. ErrorsAreRefused'
  BY <1>a DEF TypeOK, ErrorsAreRefused, Crossed
<1>15. IsFiniteSet(dropped)'
  OBVIOUS
<1> QED
  BY <1>1, <1>2, <1>3, <1>4, <1>5, <1>6, <1>7, <1>8, <1>9, <1>10, <1>11,
     <1>12, <1>13, <1>14, <1>15

\* The target found is free.
LEMMA TargetStep ==
    ASSUME InboxInv, NEW w \in Windows, Target(w)
    PROVE  InboxInv'
<1> USE DEF InboxInv, Target, Goto, Busy, Happened, files, seenFile, locals
<1>a. ~Happened("overlap") => \A v \in Windows : Busy(v) => v = w
  BY DEF Alone
<1>b. \A q : Accounted(q) => Accounted(q)'
  BY DEF TypeOK, Accounted, Returned, InHand
<1>1. TypeOK'
  BY InboxAssumption DEF TypeOK, Folder, Place
<1>2. Alone'
  BY <1>a DEF TypeOK, Alone
<1>3. IdleHoldsNothing'
  BY <1>a DEF TypeOK, IdleHoldsNothing
<1>4. FilesHonest'
  BY <1>a DEF TypeOK, FilesHonest, Handling
<1>5. TargetsFree'
  BY <1>a DEF TypeOK, TargetsFree, Taken
<1>6. HashesCover'
  BY <1>a DEF TypeOK, HashesCover, Returned
<1>7. FileStays'
  BY <1>a DEF TypeOK, FileStays, Handling
<1>8. ArchivalEarned'
  BY <1>a, <1>b DEF TypeOK, ArchivalEarned, Lossless, Sent, Crossed
<1>9. RefusalsEarned'
  BY <1>a DEF TypeOK, RefusalsEarned, Sent, Crossed
<1>10. IsFiniteSet(dropped)' /\ Kept' /\ DeliveredOnce' /\ HashesEarned'
      /\ NothingLost' /\ ErrorsAreRefused'
  BY DEF Kept, Filed, Waiting, Crossed, DeliveredOnce, HashesEarned,
     Lossless, NothingLost, ErrorsAreRefused, Accounted, Returned, InHand
<1> QED
  BY <1>1, <1>2, <1>3, <1>4, <1>5, <1>6, <1>7, <1>8, <1>9, <1>10

\* The move takes nothing away: its target is free, or its source is gone.
LEMMA MoveStep ==
    ASSUME InboxInv, NEW w \in Windows, Move(w)
    PROVE  InboxInv'
<1> USE DEF InboxInv, Move, Goto, Busy, Happened, files, seenFile, locals
<1>a. ~Happened("overlap") => \A v \in Windows : Busy(v) => v = w
  BY DEF Alone
<1>b. \A q : Accounted(q) => Accounted(q)'
  BY DEF TypeOK, Accounted, Returned, InHand
<1>1. TypeOK'
  BY InboxAssumption DEF TypeOK, Slot, Folder, Place
<1>2. Alone'
  BY <1>a DEF TypeOK, Alone
<1>3. IdleHoldsNothing'
  BY <1>a DEF TypeOK, IdleHoldsNothing
<1>4. FilesHonest'
  BY <1>a DEF TypeOK, FilesHonest, Handling
<1>5. TargetsFree'
  BY <1>a DEF TypeOK, TargetsFree, Taken
<1>6. Kept'
  <2> SUFFICES ASSUME ~Crossed, NEW f \in dropped,
                      f \notin replaced, ~Waiting(f)'
               PROVE  Filed(f)'
    BY DEF Kept, Crossed
  <2> DEFINE n == at[w]
  <2>1. ~Taken(goal[w].folder, n, goal[w].index)
    <3>1. CASE ~Happened("overlap")
      BY <3>1 DEF TargetsFree
    <3>2. CASE ~Happened("reused")
      BY <3>2 DEF TargetsFree, Taken, TypeOK
    <3> QED BY <3>1, <3>2 DEF Crossed
  <2>2. n \in Names /\ goal[w].folder \in Folder
    BY DEF TypeOK
  <2>3. CASE Filed(f)
    <3>1. PICK d \in Folder : \E s \in folders[d] : s.file = f
      BY <2>3 DEF Filed
    <3>2. PICK s \in folders[d] : s.file = f
      BY <3>1
    <3>3. s \in folders'[d]
      BY <3>1, <3>2, <2>1, <2>2 DEF TypeOK, Taken
    <3> QED BY <3>1, <3>2, <3>3 DEF Filed
  <2>4. CASE Waiting(f)
    <3>1. f = inbox[n]
      BY <2>2, <2>4 DEF Waiting, TypeOK
    <3>2. [name |-> n, index |-> goal[w].index, file |-> f] \in folders'[goal[w].folder]
      BY <2>2, <3>1 DEF TypeOK
    <3> QED BY <2>2, <3>2 DEF Filed
  <2> QED BY <2>3, <2>4 DEF Kept, Crossed
<1>7. HashesCover'
  BY <1>a DEF TypeOK, HashesCover, Returned
<1>8. FileStays'
  BY <1>a DEF TypeOK, FileStays, Handling
<1>9. ArchivalEarned'
  BY <1>a, <1>b DEF TypeOK, ArchivalEarned, Lossless, Sent, Crossed
<1>10. NothingLost'
  <2> SUFFICES ASSUME Lossless, NEW s \in folders'["archive"]
               PROVE  Accounted(s.file.payload)'
    BY DEF NothingLost, Lossless, Crossed
  <2>1. CASE s \in folders["archive"]
    BY <1>b, <2>1 DEF NothingLost, Lossless
  <2>2. CASE s \notin folders["archive"]
    <3>1. goal[w].folder = "archive" /\ s.file = inbox[at[w]]
      BY <2>2 DEF TypeOK, Folder
    <3> QED BY <1>b, <3>1 DEF ArchivalEarned, Sent
  <2> QED BY <2>1, <2>2
<1>11. RefusalsEarned'
  BY <1>a DEF TypeOK, RefusalsEarned, Sent, Crossed
<1>12. ErrorsAreRefused'
  <2> SUFFICES ASSUME ~Crossed, ~Happened("unreadable"), replaced = {},
                      NEW s \in folders'["error"]
               PROVE  s.name \in Unsupported \/ <<s.name, s.file.payload>> \in Unparsable
    BY DEF ErrorsAreRefused, Crossed
  <2>1. CASE s \in folders["error"]
    BY <2>1 DEF ErrorsAreRefused
  <2>2. CASE s \notin folders["error"]
    <3>1. goal[w].folder = "error" /\ s.file = inbox[at[w]] /\ s.name = at[w]
      BY <2>2 DEF TypeOK, Folder
    <3> QED BY <3>1 DEF RefusalsEarned, Sent
  <2> QED BY <2>1, <2>2
<1>13. IsFiniteSet(dropped)' /\ DeliveredOnce' /\ HashesEarned'
  BY DEF DeliveredOnce, HashesEarned, Lossless, Crossed, Accounted,
     Returned, InHand
<1> QED
  BY <1>1, <1>2, <1>3, <1>4, <1>5, <1>6, <1>7, <1>8, <1>9, <1>10, <1>11,
     <1>12, <1>13

\* While the state file is empty no hash is claimed to be in it.
LEMMA TruncateStep ==
    ASSUME InboxInv, NEW w \in Windows, Truncate(w)
    PROVE  InboxInv'
<1> USE DEF InboxInv, Truncate, Goto, Busy, Happened, files, seenFile, locals
<1>a. ~Happened("overlap") => \A v \in Windows : Busy(v) => v = w
  BY DEF Alone
<1>b. \A q : Accounted(q) => Accounted(q)'
  BY DEF TypeOK, Accounted, Returned, InHand
<1>1. TypeOK'
  BY InboxAssumption DEF TypeOK, Folder, Place
<1>2. Alone'
  BY <1>a DEF TypeOK, Alone
<1>3. IdleHoldsNothing'
  BY <1>a DEF TypeOK, IdleHoldsNothing
<1>4. FilesHonest'
  BY <1>a DEF TypeOK, FilesHonest, Handling
<1>5. TargetsFree'
  BY <1>a DEF TypeOK, TargetsFree, Taken
<1>6. HashesCover'
  BY <1>a DEF TypeOK, HashesCover, Returned
<1>7. FileStays'
  BY <1>a DEF TypeOK, FileStays, Handling
<1>8. HashesEarned'
  BY <1>a, <1>b DEF TypeOK, HashesEarned, Lossless, Crossed
<1>9. ArchivalEarned'
  BY <1>a, <1>b DEF TypeOK, ArchivalEarned, Lossless, Sent, Crossed
<1>10. RefusalsEarned'
  BY <1>a DEF TypeOK, RefusalsEarned, Sent, Crossed
<1>11. IsFiniteSet(dropped)' /\ Kept' /\ DeliveredOnce' /\ NothingLost'
      /\ ErrorsAreRefused'
  BY DEF Kept, Filed, Waiting, Crossed, DeliveredOnce, NothingLost,
     Lossless, ErrorsAreRefused, Accounted, Returned, InHand
<1> QED
  BY <1>1, <1>2, <1>3, <1>4, <1>5, <1>6, <1>7, <1>8, <1>9, <1>10, <1>11

\* The state file is filled with hashes that cover what was returned.
LEMMA WriteStep ==
    ASSUME InboxInv, NEW w \in Windows, Write(w)
    PROVE  InboxInv'
<1> USE DEF InboxInv, Write, Goto, Busy, Happened, files, seenFile, locals
<1>a. ~Happened("overlap") => \A v \in Windows : Busy(v) => v = w
  BY DEF Alone
<1>b. \A q : Accounted(q) => Accounted(q)'
  BY DEF TypeOK, Accounted, Returned, InHand
<1>1. TypeOK'
  BY InboxAssumption DEF TypeOK, Folder, Place
<1>2. Alone'
  BY <1>a DEF TypeOK, Alone
<1>3. IdleHoldsNothing'
  BY <1>a DEF TypeOK, IdleHoldsNothing
<1>4. FilesHonest'
  BY <1>a DEF TypeOK, FilesHonest, Handling
<1>5. TargetsFree'
  BY <1>a DEF TypeOK, TargetsFree, Taken
<1>6. HashesCover'
  BY <1>a DEF TypeOK, HashesCover, Returned
<1>7. FileStays'
  BY <1>a DEF TypeOK, FileStays, Handling
<1>8. HashesEarned'
  BY <1>a, <1>b DEF TypeOK, HashesEarned, Lossless, Crossed
<1>9. ArchivalEarned'
  BY <1>a, <1>b DEF TypeOK, ArchivalEarned, Lossless, Sent, Crossed
<1>10. RefusalsEarned'
  BY <1>a DEF TypeOK, RefusalsEarned, Sent, Crossed
<1>11. IsFiniteSet(dropped)' /\ Kept' /\ DeliveredOnce' /\ NothingLost'
      /\ ErrorsAreRefused'
  BY DEF Kept, Filed, Waiting, Crossed, DeliveredOnce, NothingLost,
     Lossless, ErrorsAreRefused, Accounted, Returned, InHand
<1> QED
  BY <1>1, <1>2, <1>3, <1>4, <1>5, <1>6, <1>7, <1>8, <1>9, <1>10, <1>11

\* What is returned is new, and stays accounted for.
LEMMA ReturnStep ==
    ASSUME InboxInv, NEW w \in Windows, Return(w)
    PROVE  InboxInv'
<1> USE DEF InboxInv, Return, Goto, Leave, Busy, Happened, files, seenFile, locals
<1>a. ~Happened("overlap") => \A v \in Windows : Busy(v) => v = w
  BY DEF Alone
<1>b. \A q : Accounted(q) => Accounted(q)'
  <2> SUFFICES ASSUME NEW q, Accounted(q) PROVE Accounted(q)'
    OBVIOUS
  <2>1. CASE Returned(q)
    BY <2>1 DEF Accounted, Returned
  <2>2. ASSUME NEW f \in captured[w], f.payload = q PROVE Accounted(q)'
    <3>1. [capture |-> number[w], file |-> f] \in delivered'
      OBVIOUS
    <3> QED BY <2>2, <3>1 DEF Accounted, Returned
  <2>3. ASSUME NEW v \in Windows \ {w}, NEW f \in captured[v], f.payload = q
        PROVE  Accounted(q)'
    BY <2>3 DEF Accounted, InHand, TypeOK
  <2> QED BY <2>1, <2>2, <2>3 DEF Accounted, InHand
<1>1. TypeOK'
  BY InboxAssumption DEF TypeOK, NoGoal, Folder, Place
<1>2. Alone'
  BY <1>a DEF TypeOK, Alone
<1>3. IdleHoldsNothing'
  BY <1>a DEF TypeOK, IdleHoldsNothing
<1>4. FilesHonest'
  BY <1>a DEF TypeOK, FilesHonest, Handling
<1>5. TargetsFree'
  BY <1>a DEF TypeOK, TargetsFree, Taken
<1>6. HashesCover'
  BY <1>a DEF TypeOK, HashesCover, Returned
<1>7. DeliveredOnce'
  <2> SUFFICES ASSUME ~Happened("overlap"), ~Happened("forgot"),
                      NEW d \in delivered', NEW e \in delivered',
                      d.file.payload = e.file.payload
               PROVE  d = e
    BY DEF DeliveredOnce
  <2> DEFINE New == {[capture |-> number[w], file |-> f] : f \in captured[w]}
  <2>1. ASSUME NEW x \in New
        PROVE  /\ x.file \in captured[w]
               /\ x = [capture |-> number[w], file |-> x.file]
               /\ ~Returned(x.file.payload)
    BY DEF HashesCover
  <2>2. CASE d \in delivered /\ e \in delivered
    BY <2>2 DEF DeliveredOnce
  <2>3. CASE d \in New /\ e \in New
    <3>1. d.file = e.file
      BY <2>1, <2>3 DEF HashesCover
    <3> QED BY <2>1, <2>3, <3>1
  <2>4. CASE d \in delivered /\ e \in New
    BY <2>1, <2>4 DEF Returned
  <2>5. CASE d \in New /\ e \in delivered
    BY <2>1, <2>5 DEF Returned
  <2> QED BY <2>2, <2>3, <2>4, <2>5
<1>8. FileStays'
  BY <1>a DEF TypeOK, FileStays, Handling
<1>9. HashesEarned'
  BY <1>a, <1>b DEF TypeOK, HashesEarned, Lossless, Crossed
<1>10. ArchivalEarned'
  BY <1>a, <1>b DEF TypeOK, ArchivalEarned, Lossless, Sent, Crossed
<1>11. NothingLost'
  BY <1>a, <1>b DEF TypeOK, NothingLost, Lossless, Crossed
<1>12. RefusalsEarned'
  BY <1>a DEF TypeOK, RefusalsEarned, Sent, Crossed
<1>13. IsFiniteSet(dropped)' /\ Kept' /\ ErrorsAreRefused'
  BY DEF Kept, Filed, Waiting, Crossed, ErrorsAreRefused
<1> QED
  BY <1>1, <1>2, <1>3, <1>4, <1>5, <1>6, <1>7, <1>8, <1>9, <1>10, <1>11,
     <1>12, <1>13

\* A capture cut short loses what it has in hand and nothing else.
LEMMA AbortStep ==
    ASSUME InboxInv, NEW w \in Windows, Abort(w)
    PROVE  InboxInv'
<1> USE DEF InboxInv, Abort, Goto, Leave, Busy, Happened, files, seenFile, locals
<1>a. ~Happened("overlap") => \A v \in Windows : Busy(v) => v = w
  BY DEF Alone
<1>1. TypeOK'
  BY InboxAssumption DEF TypeOK, Mishap, NoGoal, Folder, Place
<1>2. Alone'
  BY <1>a DEF TypeOK, Alone
<1>3. IdleHoldsNothing'
  BY <1>a DEF TypeOK, IdleHoldsNothing
<1>4. FilesHonest'
  BY <1>a DEF TypeOK, FilesHonest, Handling
<1>5. TargetsFree'
  BY <1>a DEF TypeOK, TargetsFree, Taken
<1>6. Kept'
  BY <1>a DEF TypeOK, Kept, Filed, Waiting, Crossed
<1>7. HashesCover'
  BY <1>a DEF TypeOK, HashesCover, Returned
<1>8. DeliveredOnce'
  BY <1>a DEF TypeOK, DeliveredOnce
<1>9. FileStays'
  BY <1>a DEF TypeOK, FileStays, Handling
<1>10. HashesEarned'
  BY <1>a DEF TypeOK, HashesEarned, Lossless, Crossed
<1>11. ArchivalEarned'
  BY <1>a DEF TypeOK, ArchivalEarned, Lossless, Sent, Crossed
<1>12. NothingLost'
  BY <1>a DEF TypeOK, NothingLost, Lossless, Crossed
<1>13. RefusalsEarned'
  BY <1>a DEF TypeOK, RefusalsEarned, Sent, Crossed
<1>14. ErrorsAreRefused'
  BY <1>a DEF TypeOK, ErrorsAreRefused, Crossed
<1>15. IsFiniteSet(dropped)'
  OBVIOUS
<1> QED
  BY <1>1, <1>2, <1>3, <1>4, <1>5, <1>6, <1>7, <1>8, <1>9, <1>10, <1>11,
     <1>12, <1>13, <1>14, <1>15

-----------------------------------------------------------------------------
\* The invariant holds for an empty folder.
LEMMA InboxInvInit == Init => InboxInv
<1> SUFFICES ASSUME Init PROVE InboxInv
  OBVIOUS
<1> USE DEF Init, Busy, Happened
<1>1. TypeOK
  BY DEF TypeOK, NoFile, NoGoal, Folder, Place
<1>2. IsFiniteSet(dropped)
  BY FS_EmptySet
<1>3. Alone /\ IdleHoldsNothing /\ FilesHonest /\ TargetsFree /\ Kept
  BY DEF Alone, IdleHoldsNothing, FilesHonest, TargetsFree, Handling, Kept,
         NoFile
<1>4. HashesCover /\ DeliveredOnce /\ FileStays
  BY DEF HashesCover, DeliveredOnce, FileStays, Handling
<1>5. HashesEarned /\ ArchivalEarned /\ NothingLost /\ RefusalsEarned
      /\ ErrorsAreRefused
  BY DEF HashesEarned, ArchivalEarned, NothingLost, RefusalsEarned,
         ErrorsAreRefused, Sent, Folder
<1> QED BY <1>1, <1>2, <1>3, <1>4, <1>5 DEF InboxInv

\* A step that changes nothing keeps it.
LEMMA InboxStutter == InboxInv /\ UNCHANGED vars => InboxInv'
<1> SUFFICES ASSUME InboxInv, UNCHANGED vars PROVE InboxInv'
  OBVIOUS
<1> USE DEF InboxInv, vars, files, seenFile, locals, Happened, Busy, Crossed
<1>1. TypeOK' /\ IsFiniteSet(dropped)' /\ Alone' /\ IdleHoldsNothing'
  BY DEF TypeOK, Alone, IdleHoldsNothing
<1>2. FilesHonest' /\ TargetsFree' /\ Kept'
  BY DEF FilesHonest, Handling, TargetsFree, Taken, Kept, Filed, Waiting
<1>3. HashesCover' /\ DeliveredOnce' /\ FileStays'
  BY DEF HashesCover, Returned, DeliveredOnce, FileStays, Handling
<1>4. HashesEarned' /\ ArchivalEarned' /\ NothingLost'
  BY DEF HashesEarned, ArchivalEarned, NothingLost, Lossless, Sent, Accounted,
         Returned, InHand
<1>5. RefusalsEarned' /\ ErrorsAreRefused'
  BY DEF RefusalsEarned, Sent, ErrorsAreRefused
<1> QED BY <1>1, <1>2, <1>3, <1>4, <1>5

\* The inductive invariant: what each window knows, holds and is about to
\* move agrees with the folders and the state file.
THEOREM InboxInvariant == Spec => []InboxInv
<1>1. InboxInv /\ [Next]_vars => InboxInv'
  <2> SUFFICES ASSUME InboxInv, [Next]_vars PROVE InboxInv'
    OBVIOUS
  <2>1. ASSUME NEW n \in Names, NEW p \in Payloads, Drop(n, p) PROVE InboxInv'
    BY <2>1, DropStep
  <2>2. ASSUME NEW w \in Windows, Capture(w) PROVE InboxInv'
    <3>1. CASE Open(w) \/ List(w) \/ Visit(w)
      BY <3>1, OpenStep, ListStep, VisitStep
    <3>2. CASE ReadNew(w) \/ ReadSeen(w) \/ ReadRefused(w)
      BY <3>2, ReadNewStep, ReadSeenStep, ReadRefusedStep
    <3>3. CASE Target(w) \/ Move(w)
      BY <3>3, TargetStep, MoveStep
    <3>4. CASE Truncate(w) \/ Write(w) \/ Return(w) \/ Abort(w)
      BY <3>4, TruncateStep, WriteStep, ReturnStep, AbortStep
    <3> QED BY <2>2, <3>1, <3>2, <3>3, <3>4 DEF Capture
  <2>3. CASE Rest \/ UNCHANGED vars
    BY <2>3, InboxStutter DEF Rest
  <2> QED BY <2>1, <2>2, <2>3 DEF Next
<1> QED BY InboxInvInit, <1>1, PTL DEF Spec

\* Every variable of the inbox stays in its domain.
THEOREM TypeCorrect == Spec => []TypeOK
<1>1. InboxInv => TypeOK
  BY DEF InboxInv
<1> QED BY InboxInvariant, <1>1, PTL

\* However often a text is dropped and captures are cut short, it is returned
\* once, as long as captures do not overlap and the seen hashes are readable.
THEOREM TextsReturnedOnce == Spec => []DeliveredOnce
<1>1. InboxInv => DeliveredOnce
  BY DEF InboxInv
<1> QED BY InboxInvariant, <1>1, PTL

\* No file that a producer wrote disappears, for any interleaving of windows
\* that do not meet a name used again.
THEOREM FilesKept == Spec => []Kept
<1>1. InboxInv => Kept
  BY DEF InboxInv
<1> QED BY InboxInvariant, <1>1, PTL

\* What is in the archive was returned or is about to be, also for windows
\* that capture at the same time.
THEOREM ArchiveAccounted == Spec => []NothingLost
<1>1. InboxInv => NothingLost
  BY DEF InboxInv
<1> QED BY InboxInvariant, <1>1, PTL

\* The error folder holds only what could not be used.
THEOREM ErrorFolderRefused == Spec => []ErrorsAreRefused
<1>1. InboxInv => ErrorsAreRefused
  BY DEF InboxInv
<1> QED BY InboxInvariant, <1>1, PTL

-----------------------------------------------------------------------------
(* Every file is returned once.                                            *)

\* A captured file whose move the window has behind it.
Settled(w, f) == f \in captured[w] /\ ~(pc[w] \in {"target", "move"} /\ at[w] = f.name)

Gone(f) == inbox[f.name] = NoFile

\* As long as no name is used again, the name of a file that was captured and
\* moved, or returned, stays empty, so that no second window gets past its
\* move of the same file.
FileInv ==
    /\ \A w \in Windows : captured[w] \subseteq dropped
    /\ \A d \in delivered : d.file \in dropped
    /\ ~Happened("reused") =>
          /\ \A d \in delivered : Gone(d.file)
          /\ \A w \in Windows : \A f \in captured[w] :
                Settled(w, f) => Gone(f) /\ \A d \in delivered : d.file # f
          /\ \A v, w \in Windows : \A f \in captured[v] :
                Settled(v, f) /\ Settled(w, f) => v = w
          /\ FileOnce

\* A producer's file takes no name of a file that is gone.
LEMMA FileDrop ==
    ASSUME InboxInv, FileInv, NEW n \in Names, NEW p \in Payloads, Drop(n, p)
    PROVE  FileInv'
<1>1. /\ dropped \subseteq dropped' /\ UNCHANGED <<captured, delivered, pc, at>>
      /\ Happened("reused") => Happened("reused")'
      /\ \A w, f : Settled(w, f)' <=> Settled(w, f)
  BY DEF Drop, locals, Happened, Settled
<1>2. ASSUME NEW f \in dropped, Gone(f), ~Happened("reused")'
      PROVE  Gone(f)'
  <2>1. f.name # n
    BY <1>2 DEF Drop, Happened, Gone
  <2>2. f.name \in Names
    BY DEF InboxInv, TypeOK, File
  <2> QED
    BY <1>2, <2>1, <2>2 DEF Drop, Gone, InboxInv, TypeOK
<1>3. ASSUME ~Happened("reused")' PROVE FileOnce'
  BY <1>1, <1>3 DEF FileInv, FileOnce
<1> QED
  BY <1>1, <1>2, <1>3 DEF FileInv

\* A step of a window that brings no file to the folder, captures nothing it
\* has still to move and returns nothing keeps the files apart.
LEMMA FileQuiet ==
    ASSUME FileInv, mishaps \subseteq mishaps',
           UNCHANGED <<inbox, dropped, delivered>>,
           \A w \in Windows : captured'[w] \subseteq dropped,
           \A w \in Windows : \A f \in captured'[w] :
              Settled(w, f)' => Settled(w, f)
    PROVE  FileInv'
<1>1. /\ Happened("reused") => Happened("reused")'
      /\ \A f : Gone(f)' <=> Gone(f)
  BY DEF Happened, Gone
<1>2. \A w \in Windows : \A f : Settled(w, f) => f \in captured[w]
  BY DEF Settled
<1>3. FileOnce' <=> (~Happened("reused")' =>
                        \A d, e \in delivered : d.file = e.file => d = e)
  BY DEF FileOnce
<1>4. /\ \A w \in Windows : captured'[w] \subseteq dropped'
      /\ \A d \in delivered' : d.file \in dropped'
  BY DEF FileInv
<1>5. ASSUME ~Happened("reused")'
      PROVE  /\ \A d \in delivered' : Gone(d.file)'
             /\ \A w \in Windows : \A f \in captured'[w] :
                   Settled(w, f)' => Gone(f)' /\ \A d \in delivered' : d.file # f
             /\ FileOnce'
  BY <1>1, <1>2, <1>3, <1>5 DEF FileInv, FileOnce
<1>6. ASSUME ~Happened("reused")', NEW v \in Windows, NEW w \in Windows,
             NEW f \in captured'[v], Settled(v, f)', Settled(w, f)'
      PROVE  v = w
  <2>1. f \in captured'[w]
    BY <1>6 DEF Settled
  <2>2. Settled(v, f) /\ Settled(w, f) /\ f \in captured[v]
    BY <1>2, <1>6, <2>1
  <2> QED
    BY <1>1, <1>6, <2>2 DEF FileInv
<1> QED
  BY <1>4, <1>5, <1>6 DEF FileInv

\* A window that opens, lists, visits or reads has nothing more behind it.
LEMMA FileRead ==
    ASSUME InboxInv, FileInv, NEW w \in Windows,
           \/ Open(w) \/ List(w) \/ Visit(w)
           \/ ReadNew(w) \/ ReadSeen(w) \/ ReadRefused(w)
    PROVE  FileInv'
<1> USE DEF Goto, SendTo, files, seenFile, locals
<1>1. TypeOK /\ FilesHonest
  BY DEF InboxInv
<1>2. mishaps \subseteq mishaps' /\ UNCHANGED <<inbox, dropped, delivered>>
  BY DEF Open, List, Visit, ReadNew, ReadSeen, ReadRefused
<1>3. \A v \in Windows : v # w =>
         captured'[v] = captured[v] /\ pc'[v] = pc[v] /\ at'[v] = at[v]
  BY <1>1 DEF Open, List, Visit, ReadNew, ReadSeen, ReadRefused, TypeOK
<1>4. pc[w] \in {"idle", "list", "visit", "read"}
  BY DEF Open, List, Visit, ReadNew, ReadSeen, ReadRefused
<1>5. \A f \in captured[w] : Settled(w, f)
  BY <1>4 DEF Settled
<1>6. CASE ReadNew(w)
  <2> PICK x : x = inbox[at[w]]
    OBVIOUS
  <2>1. /\ captured'[w] = captured[w] \cup {x} /\ pc'[w] = "target"
        /\ at'[w] = at[w] /\ at[w] \in Names /\ x # NoFile
    BY <1>1, <1>6 DEF ReadNew, TypeOK
  <2>2. x \in dropped /\ x.name = at[w]
    BY <1>1, <2>1 DEF FilesHonest
  <2>3. ~Settled(w, x)'
    BY <2>1, <2>2 DEF Settled
  <2>4. \A v \in Windows : captured'[v] \subseteq dropped
    BY <1>3, <2>1, <2>2 DEF FileInv
  <2>5. ASSUME NEW v \in Windows, NEW f \in captured'[v], Settled(v, f)'
        PROVE  Settled(v, f)
    <3>1. CASE v = w
      BY <1>5, <2>1, <2>3, <2>5, <3>1
    <3>2. CASE v # w
      BY <1>3, <2>5, <3>2 DEF Settled
    <3> QED
      BY <3>1, <3>2
  <2> QED
    BY <1>2, <2>4, <2>5, FileQuiet
<1>7. CASE ~ReadNew(w)
  <2>1. captured' = captured
    BY <1>7 DEF Open, List, Visit, ReadSeen, ReadRefused
  <2>2. \A v \in Windows : captured'[v] \subseteq dropped
    BY <2>1 DEF FileInv
  <2>3. \A v \in Windows : \A f \in captured'[v] : Settled(v, f)' => Settled(v, f)
    BY <1>3, <1>5, <2>1 DEF Settled
  <2> QED
    BY <1>2, <2>2, <2>3, FileQuiet
<1> QED
  BY <1>6, <1>7

\* So has one that looks for its target, saves its hashes or is cut short.
LEMMA FileSave ==
    ASSUME InboxInv, FileInv, NEW w \in Windows,
           Target(w) \/ Truncate(w) \/ Write(w) \/ Abort(w)
    PROVE  FileInv'
<1> USE DEF Goto, Leave, files, seenFile, locals
<1>1. TypeOK
  BY DEF InboxInv
<1>2. mishaps \subseteq mishaps' /\ UNCHANGED <<inbox, dropped, delivered>>
  BY DEF Target, Truncate, Write, Abort
<1>3. \A v \in Windows : v # w =>
         captured'[v] = captured[v] /\ pc'[v] = pc[v] /\ at'[v] = at[v]
  BY <1>1 DEF Target, Truncate, Write, Abort, TypeOK
<1>4. CASE Abort(w)
  <2>1. captured'[w] = {}
    BY <1>1, <1>4 DEF Abort, TypeOK
  <2>2. \A v \in Windows : captured'[v] \subseteq dropped
    BY <1>3, <2>1 DEF FileInv
  <2>3. \A v \in Windows : \A f \in captured'[v] : Settled(v, f)' => Settled(v, f)
    BY <1>3, <2>1 DEF Settled
  <2> QED
    BY <1>2, <2>2, <2>3, FileQuiet
<1>5. CASE Target(w) \/ Truncate(w) \/ Write(w)
  <2>1. captured' = captured /\ at' = at
    BY <1>5 DEF Target, Truncate, Write
  <2>2. pc'[w] \in {"target", "move"} <=> pc[w] \in {"target", "move"}
    BY <1>1, <1>5 DEF Target, Truncate, Write, TypeOK
  <2>3. \A v \in Windows : captured'[v] \subseteq dropped
    BY <2>1 DEF FileInv
  <2>4. \A v \in Windows : \A f \in captured'[v] : Settled(v, f)' => Settled(v, f)
    BY <1>3, <2>1, <2>2 DEF Settled
  <2> QED
    BY <1>2, <2>3, <2>4, FileQuiet
<1> QED
  BY <1>4, <1>5

\* A file moves while its name still holds one: no one else has it behind.
LEMMA FileMove ==
    ASSUME InboxInv, FileInv, NEW w \in Windows, Move(w)
    PROVE  FileInv'
<1>1. /\ TypeOK /\ at[w] \in Names /\ pc[w] = "move" /\ inbox[at[w]] # NoFile
      /\ inbox' = [inbox EXCEPT ![at[w]] = NoFile]
      /\ pc' = [pc EXCEPT ![w] = "visit"]
      /\ UNCHANGED <<captured, at, dropped, delivered, mishaps>>
  BY DEF InboxInv, TypeOK, Move, Goto, locals
<1>2. \A f \in dropped : f.name \in Names
  BY DEF InboxInv, TypeOK, File
<1>3. ASSUME NEW f \in dropped PROVE Gone(f)' <=> Gone(f) \/ f.name = at[w]
  BY <1>1, <1>2 DEF Gone, TypeOK
<1>4. \A v \in Windows : v # w => \A f : Settled(v, f)' <=> Settled(v, f)
  BY <1>1 DEF Settled, TypeOK
<1>5. ASSUME NEW f \in captured[w] PROVE Settled(w, f) \/ f.name = at[w]
  BY DEF Settled
<1>6. Happened("reused")' <=> Happened("reused")
  BY <1>1 DEF Happened
<1>7. ASSUME ~Happened("reused"), NEW f \in dropped, f.name = at[w]
      PROVE  /\ \A d \in delivered : d.file # f
             /\ \A v \in Windows : ~Settled(v, f)
  <2>1. ~Gone(f)
    BY <1>1, <1>7 DEF Gone
  <2>2. \A v \in Windows : Settled(v, f) => f \in captured[v]
    BY DEF Settled
  <2> QED
    BY <1>7, <2>1, <2>2 DEF FileInv
<1>8. ASSUME ~Happened("reused"), NEW v \in Windows, NEW f \in captured[v],
             Settled(v, f)'
      PROVE  Gone(f)' /\ \A d \in delivered : d.file # f
  <2>1. f \in dropped
    BY DEF FileInv
  <2>2. CASE Settled(v, f)
    BY <1>3, <1>8, <2>1, <2>2 DEF FileInv
  <2>3. CASE ~Settled(v, f)
    <3>1. v = w /\ f.name = at[w]
      BY <1>4, <1>5, <1>8, <2>3
    <3> QED
      BY <1>3, <1>7, <1>8, <2>1, <3>1
  <2> QED
    BY <2>2, <2>3
<1>9. ASSUME ~Happened("reused"), NEW v \in Windows, NEW u \in Windows,
             NEW f \in captured[v], Settled(v, f)', Settled(u, f)'
      PROVE  v = u
  <2>1. f \in dropped /\ f \in captured[u]
    BY <1>1, <1>9 DEF FileInv, Settled
  <2>2. CASE f.name = at[w]
    BY <1>4, <1>7, <1>9, <2>1, <2>2
  <2>3. CASE f.name # at[w]
    <3>1. Settled(v, f) /\ Settled(u, f)
      BY <1>4, <1>5, <1>9, <2>1, <2>3
    <3> QED
      BY <1>9, <3>1 DEF FileInv
  <2> QED
    BY <2>2, <2>3
<1>10. ASSUME ~Happened("reused"), NEW d \in delivered PROVE Gone(d.file)'
  BY <1>3, <1>10 DEF FileInv
<1>11. FileOnce' <=> FileOnce
  BY <1>1, <1>6 DEF FileOnce
<1>12. /\ \A v \in Windows : captured'[v] \subseteq dropped'
       /\ \A d \in delivered' : d.file \in dropped'
  BY <1>1 DEF FileInv
<1> QED
  BY <1>1, <1>6, <1>8, <1>9, <1>10, <1>11, <1>12 DEF FileInv

\* What is returned was behind this window alone.
LEMMA FileReturn ==
    ASSUME InboxInv, FileInv, NEW w \in Windows, Return(w)
    PROVE  FileInv'
<1> DEFINE New == {[capture |-> number[w], file |-> f] : f \in captured[w]}
<1>1. /\ TypeOK /\ pc[w] = "return" /\ delivered' = delivered \cup New
      /\ captured' = [captured EXCEPT ![w] = {}]
      /\ \A v \in Windows : v # w =>
            captured'[v] = captured[v] /\ pc'[v] = pc[v] /\ at'[v] = at[v]
      /\ UNCHANGED <<inbox, dropped, mishaps>>
  BY DEF InboxInv, TypeOK, Return, Leave, Goto, files
<1>2. \A f \in captured[w] : Settled(w, f)
  BY <1>1 DEF Settled
<1>3. \A d \in New : d.file \in captured[w] /\ d = [capture |-> number[w], file |-> d.file]
  OBVIOUS
<1>4. captured'[w] = {} /\ \A v \in Windows : v # w => \A f : Settled(v, f)' <=> Settled(v, f)
  BY <1>1 DEF Settled, TypeOK
<1>5. /\ Happened("reused")' <=> Happened("reused")
      /\ \A f : Gone(f)' <=> Gone(f)
  BY <1>1 DEF Happened, Gone
<1> HIDE DEF New
<1>6. /\ \A v \in Windows : captured'[v] \subseteq dropped'
      /\ \A d \in delivered' : d.file \in dropped'
  BY <1>1, <1>3, <1>4 DEF FileInv
<1>7. ASSUME ~Happened("reused"), NEW d \in delivered' PROVE Gone(d.file)'
  BY <1>1, <1>2, <1>3, <1>5, <1>7 DEF FileInv
<1>8. ASSUME ~Happened("reused"), NEW v \in Windows, NEW f \in captured'[v],
             Settled(v, f)'
      PROVE  Gone(f)' /\ \A d \in delivered' : d.file # f
  <2>1. v # w /\ Settled(v, f) /\ f \in captured[v]
    BY <1>1, <1>4, <1>8
  <2>2. Gone(f)' /\ \A d \in delivered : d.file # f
    BY <1>5, <1>8, <2>1 DEF FileInv
  <2>3. f \notin captured[w]
    BY <1>2, <1>8, <2>1 DEF FileInv
  <2> QED
    BY <1>1, <1>3, <2>2, <2>3
<1>9. ASSUME ~Happened("reused"), NEW v \in Windows, NEW u \in Windows,
             NEW f \in captured'[v], Settled(v, f)', Settled(u, f)'
      PROVE  v = u
  <2>1. f \in captured'[u]
    BY <1>9 DEF Settled
  <2>2. v # w /\ u # w /\ Settled(v, f) /\ Settled(u, f) /\ f \in captured[v]
    BY <1>1, <1>4, <1>9, <2>1
  <2> QED
    BY <1>9, <2>2 DEF FileInv
<1>10. ASSUME ~Happened("reused"), NEW d \in delivered', NEW e \in delivered',
              d.file = e.file
       PROVE  d = e
  <2>1. CASE d \in delivered /\ e \in delivered
    BY <1>10, <2>1 DEF FileInv, FileOnce
  <2>2. CASE d \in New /\ e \in New
    BY <1>3, <1>10, <2>2
  <2>3. CASE d \in New /\ e \in delivered
    BY <1>2, <1>3, <1>10, <2>3 DEF FileInv
  <2>4. CASE d \in delivered /\ e \in New
    BY <1>2, <1>3, <1>10, <2>4 DEF FileInv
  <2> QED
    BY <1>1, <2>1, <2>2, <2>3, <2>4
<1>11. FileOnce'
  BY <1>5, <1>10 DEF FileOnce
<1> QED
  BY <1>5, <1>6, <1>7, <1>8, <1>9, <1>11 DEF FileInv

\* No two captures return the same file, whatever windows do at the same
\* time, as long as no producer uses a name again.
THEOREM FilesReturnedOnce == Spec => []FileOnce
<1>1. Init => FileInv
  BY DEF Init, FileInv, FileOnce
<1>2. InboxInv /\ FileInv /\ [Next]_vars => FileInv'
  <2> SUFFICES ASSUME InboxInv, FileInv, [Next]_vars PROVE FileInv'
    OBVIOUS
  <2>1. ASSUME NEW n \in Names, NEW p \in Payloads, Drop(n, p) PROVE FileInv'
    BY <2>1, FileDrop
  <2>2. ASSUME NEW w \in Windows, Capture(w) PROVE FileInv'
    BY <2>2, FileRead, FileSave, FileMove, FileReturn DEF Capture
  <2>3. CASE Rest \/ UNCHANGED vars
    <3>1. /\ UNCHANGED <<inbox, dropped, delivered, mishaps, captured, pc, at>>
          /\ \A w \in Windows : \A f : Settled(w, f)' <=> Settled(w, f)
      BY <2>3 DEF Rest, vars, files, locals, Settled
    <3> QED
      BY <3>1, FileQuiet DEF FileInv
  <2> QED
    BY <2>1, <2>2, <2>3 DEF Next
<1>3. FileInv => FileOnce
  BY DEF FileInv, FileOnce
<1> QED
  BY <1>1, <1>2, <1>3, InboxInvariant, PTL DEF Spec

=============================================================================
