----------------------------- MODULE FlowRestart -----------------------------
(***************************************************************************)
(* The flow table across restarts of the coordinator: save and load of     *)
(* engine.cpp around the operations of FlowTable, with crashes at any      *)
(* time.                                                                   *)
(*                                                                         *)
(* save holds the engine's lock (shared) from the snapshot to the last     *)
(* byte written, so no operation changes the table meanwhile; but it opens *)
(* the file first, which truncates it.  A clean exit of the coordinator is *)
(* a save followed by the end of the process.  The byte format is          *)
(* abstracted: a file is torn, and refused by its checksums, or holds what *)
(* was saved.                                                              *)
(***************************************************************************)
EXTENDS FlowTable

CONSTANTS
    NoFile,         \* nothing has been saved yet
    Torn            \* the file is empty or incomplete

ASSUME FileAssumption == NoFile # Torn

VARIABLES
    mode,           \* "up", "saving" (the lock is held), or "down"
    file,           \* the file: NoFile, Torn, or an image of the table
    kept,           \* history: what was fenced when the file was written
    restored        \* history: flows 1..restored were loaded at the last start

restartVars == <<flowVars, mode, file, kept, restored>>

-----------------------------------------------------------------------------
(* What is written and what is accepted.                                   *)

\* The fields that save writes; active_flows is not among them.
Image == [worker_boot |-> worker_boot, source_boot |-> source_boot,
          members |-> members, next_domain |-> next_domain,
          flows |-> flows, next_flow |-> next_flow]

\* Flow::accounting_valid.
AccountingValid(f) ==
    /\ f.completed <= f.admitted
    /\ f.admitted <= f.submitted
    /\ f.in_flight <= f.admitted

\* The checks of load on what the handlers compute.  The others hold of any image
\* (ids are valid and occur once, states are enumerators), except those on fields
\* that declare_flow stores as given: traffic class, provenance and fairness are
\* taken to be valid.
Accepted(image) == \A i \in DOMAIN image.flows : AccountingValid(image.flows[i])

Complete == file \notin {NoFile, Torn}

\* Mutant: running flows stay as they were.
RestoredAsSaved(f) == f

\* Conservative recovery: a live flow has to be revalidated.
Restored(f) ==
    IF f.state \in Terminal \cup StaleOrSuperseded THEN f
    ELSE [f EXCEPT !.state = "REVALIDATION_REQUIRED"]

-----------------------------------------------------------------------------
RestartInit ==
    /\ FlowInit
    /\ mode = "up" /\ file = NoFile
    /\ kept = {} /\ restored = 0

\* Any operation of the engine.
Operation ==
    /\ mode = "up"
    /\ FlowNext
    /\ UNCHANGED <<mode, file, kept, restored>>

OpenFile ==
    /\ mode = "up"
    /\ mode' = "saving"
    /\ file' = Torn
    /\ UNCHANGED <<flowVars, kept, restored>>

WriteFile ==
    /\ mode = "saving"
    /\ mode' = "up"
    /\ file' = Image
    /\ kept' = fenced
    /\ UNCHANGED <<flowVars, restored>>

\* The write or the final flush fails; nobody tries again.
WriteFails ==
    /\ mode = "saving"
    /\ mode' = "up"
    /\ UNCHANGED <<flowVars, file, kept, restored>>

\* The process ends, by itself or not, and its memory is gone.
Exit ==
    /\ mode # "down"
    /\ mode' = "down"
    /\ worker_boot' = [w \in Workers |-> 0]
    /\ source_boot' = [s \in Sources |-> 0]
    /\ members' = << >> /\ next_domain' = 1
    /\ flows' = << >> /\ next_flow' = 1
    /\ active_flows' = 0
    /\ fenced' = {} /\ restored' = 0
    /\ UNCHANGED <<file, kept>>

\* main starts with an empty engine; load replaces its table, or nothing at all.
StartEmpty ==
    /\ mode = "down"
    /\ ~(Complete /\ Accepted(file))
    /\ mode' = "up"
    /\ UNCHANGED <<flowVars, file, kept, restored>>

StartLoaded ==
    /\ mode = "down"
    /\ Complete /\ Accepted(file)
    /\ mode' = "up"
    /\ worker_boot' = file.worker_boot
    /\ source_boot' = file.source_boot
    /\ members' = file.members /\ next_domain' = file.next_domain
    /\ flows' = [i \in DOMAIN file.flows |-> Restored(file.flows[i])]
    /\ next_flow' = file.next_flow
    /\ fenced' = kept
    /\ restored' = file.next_flow - 1
    /\ UNCHANGED <<active_flows, file, kept>>

RestartNext ==
    \/ Operation
    \/ OpenFile
    \/ WriteFile
    \/ WriteFails
    \/ Exit
    \/ StartEmpty
    \/ StartLoaded

RestartSpec == RestartInit /\ [][RestartNext]_restartVars

-----------------------------------------------------------------------------
(* Invariants.                                                             *)

\* What save writes, load accepts: the accounting that the handlers maintain is
\* never one that load calls corrupt, so no sequence of calls makes load refuse a
\* completely written file for the bytes of a flow.
SavedIsLoadable == Complete => Accepted(file)

\* load, "active flow progress must NOT remain authoritative after a coordinator
\* restart": a flow that was loaded is not in service at any later time, whatever
\* its old worker or a new one does with the reference it still holds.
LoadedStaysOut ==
    \A i \in 1..restored :
        /\ i \in DOMAIN flows
        /\ flows[i].state \in Terminal \cup OutOfService

\* Fences reach over restarts: what had been fenced when the file was written is
\* dead after every start from that file, and so is what has been fenced since.
FencesSurvive == mode # "down" => FencedStaysDead
=============================================================================
