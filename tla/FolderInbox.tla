---------------------------- MODULE FolderInbox ----------------------------
(***************************************************************************)
(* FolderInboxInputPlugin.capture of agent_input_plugins.py: other         *)
(* programs drop files into a folder, the connectors page of a window      *)
(* captures them.  A capture lists the folder, reads file after file,      *)
(* moves each to the archive or the error folder and writes the hashes of  *)
(* what it has seen only at the end, so that the seen hashes, the folders  *)
(* and the texts the caller gets can part at every step.  Several windows  *)
(* may capture from one folder, and no step is protected by a lock.        *)
(*                                                                         *)
(* A file is a drop: its name and its payload, numbered to tell two drops  *)
(* of the same text apart.  The hash of a payload is the payload.          *)
(***************************************************************************)
EXTENDS Integers, FiniteSets

CONSTANTS
    Windows,        \* the windows that capture from the folder
    Names,          \* file names, in the order in which they sort
    Unsupported,    \* the names whose suffix is not supported
    Payloads,       \* what a file may hold
    TooLarge,       \* the payloads larger than max_payload_bytes
    NotUtf8,        \* those that are not UTF-8
    Json,           \* the names that end in .json
    NotObject,      \* the payloads that are not a JSON object with a text
    MaxDrops,       \* bound: the files dropped
    MaxCaptures     \* bound: the captures started

ASSUME InboxAssumption ==
    /\ Names \subseteq Nat
    /\ Unsupported \subseteq Names
    /\ Json \subseteq Names
    /\ MaxDrops \in Nat
    /\ MaxCaptures \in Nat

VARIABLES
    inbox,      \* the file under each name of inbox_dir
    folders,    \* archive_dir and error_dir: which file is under which name
    state,      \* the seen hashes state_path holds, none while it is truncated
    pc,         \* where in capture() each window is
    known,      \* seen_hashes
    captured,   \* the files captured so far, as they were read
    todo,       \* the names still to visit
    at,         \* path: the name being visited
    goal,       \* where that file goes: the folder, the index of the target
    number,     \* which capture this is
    dropped,    \* history: the files producers dropped
    replaced,   \* history: those a producer replaced in the inbox
    delivered,  \* history: the files returned, by capture
    captures,   \* history: how many captures were started
    torn,       \* history: whether state_path was truncated and not yet filled
    mishaps     \* history: what has gone wrong so far

files == <<inbox, folders, dropped, replaced>>
locals == <<known, captured, todo, at, goal, number>>
seenFile == <<state, torn>>
vars == <<files, seenFile, pc, locals, delivered, captures, mishaps>>

File == [id : Nat, name : Names, payload : Payloads]
NoFile == [id |-> 0]
Folder == {"archive", "error"}

\* _parse_payload and the size check before it: a name with a payload that
\* raises.
Unparsable ==
    {e \in Names \X Payloads :
        e[2] \in TooLarge \cup NotUtf8 \/ (e[1] \in Json /\ e[2] \in NotObject)}

\* The target stem-index.suffix of a name; index 0 is the name itself.
Slot == [name : Names, index : Nat, file : File]

Mishap == {"overlap", "reused", "forgot", "died", "unreadable"}

-----------------------------------------------------------------------------
(* Producers.                                                              *)

Busy(w) == pc[w] # "idle"

\* A producer writes a file, under a new name, under one that was captured
\* before, or over one that is still there.
Drop(n, p) ==
    /\ Cardinality(dropped) < MaxDrops
    /\ LET f == [id |-> Cardinality(dropped) + 1, name |-> n, payload |-> p]
       IN  /\ inbox' = [inbox EXCEPT ![n] = f]
           /\ dropped' = dropped \cup {f}
    /\ replaced' = replaced \cup ({inbox[n]} \ {NoFile})
    /\ mishaps' = mishaps \cup
          IF inbox[n] = NoFile /\ \E f \in dropped : f.name = n
          THEN {"reused"} ELSE {}
    /\ UNCHANGED <<folders, seenFile, pc, locals, delivered, captures>>

-----------------------------------------------------------------------------
(* capture().                                                              *)

Goto(w, l) == pc' = [pc EXCEPT ![w] = l]

NoGoal == [folder |-> "archive", index |-> 0]

\* The call ends, and its locals with it.
Leave(w) ==
    /\ Goto(w, "idle")
    /\ known' = [known EXCEPT ![w] = {}]
    /\ captured' = [captured EXCEPT ![w] = {}]
    /\ todo' = [todo EXCEPT ![w] = {}]
    /\ at' = [at EXCEPT ![w] = 0]
    /\ goal' = [goal EXCEPT ![w] = NoGoal]
    /\ number' = [number EXCEPT ![w] = 0]

\* What _load_seen_hashes may return: nothing for a file it cannot read.
Reads == {state, {}}

Open(w) ==
    /\ pc[w] = "idle"
    /\ captures < MaxCaptures
    /\ captures' = captures + 1
    /\ number' = [number EXCEPT ![w] = captures + 1]
    /\ \E seen \in Reads :
          /\ known' = [known EXCEPT ![w] = seen]
          /\ mishaps' = mishaps
                \cup (IF seen = state /\ ~torn THEN {} ELSE {"forgot"})
                \cup (IF \E v \in Windows : Busy(v) THEN {"overlap"} ELSE {})
    /\ Goto(w, "list")
    /\ UNCHANGED <<files, seenFile, captured, todo, at, goal, delivered>>

List(w) ==
    /\ pc[w] = "list"
    /\ todo' = [todo EXCEPT ![w] = {n \in Names : inbox[n] # NoFile}]
    /\ Goto(w, "visit")
    /\ UNCHANGED <<files, seenFile, known, captured, at, goal, number,
                   delivered, captures, mishaps>>

\* The next name in sorted order.
IsFirst(n, names) == n \in names /\ \A m \in names : n <= m

\* is_file() and the suffix decide before the file is read.
Visit(w) == \E n \in Names :
    /\ pc[w] = "visit"
    /\ IsFirst(n, todo[w])
    /\ todo' = [todo EXCEPT ![w] = @ \ {n}]
    /\ at' = [at EXCEPT ![w] = n]
    /\ \/ /\ inbox[n] = NoFile
          /\ UNCHANGED <<pc, goal>>
       \/ /\ inbox[n] # NoFile /\ n \in Unsupported
          /\ goal' = [goal EXCEPT ![w].folder = "error"]
          /\ Goto(w, "target")
       \/ /\ inbox[n] # NoFile /\ n \notin Unsupported
          /\ Goto(w, "read")
          /\ UNCHANGED goal
    /\ UNCHANGED <<files, seenFile, known, captured, number, delivered,
                   captures, mishaps>>

SendTo(w, folder) ==
    /\ goal' = [goal EXCEPT ![w].folder = folder]
    /\ Goto(w, "target")

\* The payload is new: it is captured and its hash noted.
ReadNew(w) ==
    LET f == inbox[at[w]] IN
    /\ pc[w] = "read"
    /\ f # NoFile
    /\ f.payload \notin known[w]
    /\ <<at[w], f.payload>> \notin Unparsable
    /\ known' = [known EXCEPT ![w] = @ \cup {f.payload}]
    /\ captured' = [captured EXCEPT ![w] = @ \cup {f}]
    /\ SendTo(w, "archive")
    /\ UNCHANGED <<files, seenFile, todo, at, number, delivered, captures,
                   mishaps>>

FaultyReadSeen(w) ==
    /\ pc[w] = "read"
    /\ inbox[at[w]] # NoFile
    /\ inbox[at[w]].payload \in known[w]
    /\ SendTo(w, "error")
    /\ UNCHANGED <<files, seenFile, known, captured, todo, at, number,
                   delivered, captures, mishaps>>

\* A payload seen before is archived and not captured again, nor parsed.  Its
\* move to the archive stands inside the try: one that raises is caught, and
\* the file goes to the error folder.
ReadSeen(w) ==
    /\ pc[w] = "read"
    /\ inbox[at[w]] # NoFile
    /\ inbox[at[w]].payload \in known[w]
    /\ \/ SendTo(w, "archive") /\ UNCHANGED mishaps
       \/ SendTo(w, "error") /\ mishaps' = mishaps \cup {"unreadable"}
    /\ UNCHANGED <<files, seenFile, known, captured, todo, at, number,
                   delivered, captures>>

FaultyReadRefused(w) ==
    LET f == inbox[at[w]] IN
    /\ pc[w] = "read"
    /\ f # NoFile
    /\ <<at[w], f.payload>> \in Unparsable /\ f.payload \notin known[w]
    /\ known' = [known EXCEPT ![w] = @ \cup {f.payload}]
    /\ SendTo(w, "error")
    /\ UNCHANGED <<files, seenFile, captured, todo, at, number, delivered,
                   captures, mishaps>>

\* A payload that cannot be used, or a file that cannot be read: one that
\* another window has just moved away is an OSError as well.
ReadRefused(w) ==
    LET f == inbox[at[w]] IN
    /\ pc[w] = "read"
    /\ \/ /\ f = NoFile
          /\ UNCHANGED mishaps
       \/ /\ f # NoFile
          /\ <<at[w], f.payload>> \in Unparsable /\ f.payload \notin known[w]
          /\ UNCHANGED mishaps
       \/ /\ f # NoFile
          /\ mishaps' = mishaps \cup {"unreadable"}
    /\ SendTo(w, "error")
    /\ UNCHANGED <<files, seenFile, known, captured, todo, at, number,
                   delivered, captures>>

Taken(folder, n, k) == \E s \in folders[folder] : s.name = n /\ s.index = k

FaultyTarget(w) ==
    /\ pc[w] = "target"
    /\ goal' = [goal EXCEPT ![w].index = 0]
    /\ Goto(w, "move")
    /\ UNCHANGED <<files, seenFile, known, captured, todo, at, number,
                   delivered, captures, mishaps>>

\* _move_unique looks for the first name that does not exist ...
Target(w) == \E k \in 0..MaxDrops :
    /\ pc[w] = "target"
    /\ ~Taken(goal[w].folder, at[w], k)
    /\ \A j \in 0..k-1 : Taken(goal[w].folder, at[w], j)
    /\ goal' = [goal EXCEPT ![w].index = k]
    /\ Goto(w, "move")
    /\ UNCHANGED <<files, seenFile, known, captured, todo, at, number,
                   delivered, captures, mishaps>>

FaultyMove(w) ==
    /\ pc[w] = "move"
    /\ folders' = [folders EXCEPT ![goal[w].folder] = @ \cup
          {[name |-> at[w], index |-> goal[w].index, file |-> inbox[at[w]]]}]
    /\ inbox' = [inbox EXCEPT ![at[w]] = NoFile]
    /\ Goto(w, "visit")
    /\ UNCHANGED <<seenFile, locals, dropped, replaced, delivered, captures,
                   mishaps>>

\* ... and shutil.move puts the file there, over whatever is there by now.
Move(w) ==
    LET f == inbox[at[w]]
        n == at[w]
        to == goal[w] IN
    /\ pc[w] = "move"
    /\ f # NoFile
    /\ folders' = [folders EXCEPT ![to.folder] =
          {s \in @ : ~(s.name = n /\ s.index = to.index)}
          \cup {[name |-> n, index |-> to.index, file |-> f]}]
    /\ inbox' = [inbox EXCEPT ![n] = NoFile]
    /\ Goto(w, "visit")
    /\ UNCHANGED <<seenFile, locals, dropped, replaced, delivered, captures,
                   mishaps>>

\* _save_seen_hashes: write_text truncates the file, then fills it.
Truncate(w) ==
    /\ pc[w] = "visit"
    /\ todo[w] = {}
    /\ state' = {}
    /\ torn' = TRUE
    /\ Goto(w, "write")
    /\ UNCHANGED <<files, locals, delivered, captures, mishaps>>

FaultyWrite(w) ==
    /\ pc[w] = "write"
    /\ state' = {f.payload : f \in captured[w]}
    /\ torn' = FALSE
    /\ Goto(w, "return")
    /\ UNCHANGED <<files, locals, delivered, captures, mishaps>>

Write(w) ==
    /\ pc[w] = "write"
    /\ state' = known[w]
    /\ torn' = FALSE
    /\ Goto(w, "return")
    /\ UNCHANGED <<files, locals, delivered, captures, mishaps>>

Return(w) ==
    /\ pc[w] = "return"
    /\ delivered' = delivered \cup {[capture |-> number[w], file |-> f] :
                                       f \in captured[w]}
    /\ Leave(w)
    /\ UNCHANGED <<files, seenFile, captures, mishaps>>

\* An exception no one catches, of a move whose file is gone or refused (but
\* for a duplicate's), of the state file, or the end of the process: what was
\* captured is lost.
Abort(w) ==
    /\ Busy(w)
    /\ mishaps' = mishaps \cup {"died"}
    /\ Leave(w)
    /\ UNCHANGED <<files, seenFile, delivered, captures>>

\* Nothing is left to do within the bounds.
Rest ==
    /\ Cardinality(dropped) = MaxDrops
    /\ captures = MaxCaptures
    /\ \A w \in Windows : ~Busy(w)
    /\ UNCHANGED vars

Capture(w) ==
    \/ Open(w) \/ List(w) \/ Visit(w)
    \/ ReadNew(w) \/ ReadSeen(w) \/ ReadRefused(w)
    \/ Target(w) \/ Move(w)
    \/ Truncate(w) \/ Write(w) \/ Return(w) \/ Abort(w)

Init ==
    /\ inbox = [n \in Names |-> NoFile]
    /\ folders = [d \in Folder |-> {}]
    /\ state = {}
    /\ pc = [w \in Windows |-> "idle"]
    /\ known = [w \in Windows |-> {}]
    /\ captured = [w \in Windows |-> {}]
    /\ todo = [w \in Windows |-> {}]
    /\ at = [w \in Windows |-> 0]
    /\ goal = [w \in Windows |-> NoGoal]
    /\ number = [w \in Windows |-> 0]
    /\ dropped = {} /\ replaced = {} /\ delivered = {}
    /\ captures = 0
    /\ torn = FALSE
    /\ mishaps = {}

Next ==
    \/ \E n \in Names, p \in Payloads : Drop(n, p)
    \/ \E w \in Windows : Capture(w)
    \/ Rest

Spec == Init /\ [][Next]_vars

-----------------------------------------------------------------------------
(* Properties.                                                             *)

Place == {"idle", "list", "visit", "read", "target", "move", "write", "return"}

\* Every variable stays in its domain; a window that reads or moves a file
\* is at a name of the folder.
TypeOK ==
    /\ inbox \in [Names -> File \cup {NoFile}]
    /\ folders \in [Folder -> SUBSET Slot]
    /\ state \subseteq Payloads
    /\ torn \in BOOLEAN
    /\ pc \in [Windows -> Place]
    /\ known \in [Windows -> SUBSET Payloads]
    /\ captured \in [Windows -> SUBSET File]
    /\ todo \in [Windows -> SUBSET Names]
    /\ at \in [Windows -> Nat]
    /\ goal \in [Windows -> [folder : Folder, index : Nat]]
    /\ number \in [Windows -> Nat]
    /\ dropped \subseteq File /\ replaced \subseteq File
    /\ delivered \subseteq [capture : Nat, file : File]
    /\ captures \in Nat
    /\ mishaps \subseteq Mishap
    /\ \A w \in Windows : pc[w] \in {"read", "target", "move"} => at[w] \in Names

Happened(m) == m \in mishaps

\* Two windows and a name used again, the one pair of events after which a
\* window may move a file it has not looked at.
Crossed == Happened("overlap") /\ Happened("reused")

\* A text dropped again, under any name and in any later capture, is not
\* returned a second time, crashes included; unless two captures overlapped
\* or the seen hashes could not be read (seen_hashes in capture()).
DeliveredOnce ==
    ~Happened("overlap") /\ ~Happened("forgot") =>
        \A d, e \in delivered : d.file.payload = e.file.payload => d = e

\* Even windows that capture at the same time do not both return a file: the
\* one that comes late fails at the move, before it returns anything.
FileOnce ==
    ~Happened("reused") => \A d, e \in delivered : d.file = e.file => d = e

Returned(p) == \E d \in delivered : d.file.payload = p
InHand(p) == \E w \in Windows : \E f \in captured[w] : f.payload = p
Accounted(p) == Returned(p) \/ InHand(p)

\* What is in the archive was returned to a caller or is about to be, also
\* when windows overlap; unless a capture was cut short, or a file was
\* exchanged between its reading and its move.
NothingLost ==
    ~Happened("died") /\ ~Crossed /\ replaced = {} =>
        \A s \in folders["archive"] : Accounted(s.file.payload)

Filed(f) == \E d \in Folder : \E s \in folders[d] : s.file = f
Waiting(f) == \E n \in Names : inbox[n] = f

\* No file disappears: all that producers dropped and have not overwritten
\* are in the inbox, the archive or the error folder, however many captures
\* were cut short (_move_unique never overwrites).
Kept ==
    ~Crossed =>
        \A f \in dropped : f \in replaced \/ Filed(f) \/ Waiting(f)

\* The error folder holds what could not be used and nothing else, as
\* docs/help/connectors.md has it; unless a file could not be read or a
\* duplicate not be moved to the archive.
ErrorsAreRefused ==
    ~Crossed /\ ~Happened("unreadable") /\ replaced = {} =>
        \A s \in folders["error"] :
            s.name \in Unsupported \/ <<s.name, s.file.payload>> \in Unparsable
=============================================================================
