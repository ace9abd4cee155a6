------------------------------ MODULE Downloads ------------------------------
(***************************************************************************)
(* The files the program fetches for itself: kernels, the rule sets, and   *)
(* the data file that Xray reads from beside its binary.  Each kind is     *)
(* replaced in its own way, and the process may die in the middle.         *)
(*                                                                         *)
(* A file is the set of its halves; one download is under way at a time    *)
(* (see the README for two).  Its messages go through a channel to the     *)
(* request that asked for it, whose client may leave.                      *)
(***************************************************************************)
EXTENDS Naturals, FiniteSets

CONSTANTS
  Sources,   \* how many places a data file is tried from
  Slots      \* room in the channel of the messages (20 in the code)

DownloadAssumption == Sources \in Nat \ {0} /\ Slots \in Nat \ {0}

Absent == {0}
Empty == {}
Whole == {1, 2}
Contents == (SUBSET Whole) \union {Absent}
RuleSets == {"builtin", "custom"}
Files == {"kernel", "data"} \union RuleSets

VARIABLES
  dest,     \* each file
  tmp,      \* the file of its name with .tmp
  beside,   \* the copy of the data file beside the binary, and
  fresh,    \*   whether it is as new as the data file
  job,      \* the download: file, stage, its own temporary file, sources left
  queue,    \* messages in the channel
  reader    \* the client still reads them

vars == <<dest, tmp, beside, fresh, job, queue, reader>>
copy == <<beside, fresh>>

Idle == [file |-> "none", at |-> "idle", temp |-> Empty, left |-> 0, starts |-> FALSE]

Init ==
  /\ dest \in [Files -> {Absent, Whole}] /\ tmp = [f \in Files |-> Absent]
  /\ beside = Absent /\ fresh = FALSE
  /\ job = Idle /\ queue = 0 /\ reader = FALSE

Goto(stage) == job' = [job EXCEPT !.at = stage]
Report == queue < Slots /\ queue' = queue + 1
On(kind, stage) == job.file \in kind /\ job.at = stage

(* The next of a batch; a name users wrote into a rule may not exist, so   *)
(* that it is skipped.                                                     *)
End ==
  job' = IF job.starts THEN [Idle EXCEPT !.at = "beside", !.starts = TRUE]
         ELSE IF job.file = "builtin" THEN [Idle EXCEPT !.file = "custom", !.at = "ask"] ELSE Idle
Fail == job' = Idle

-----------------------------------------------------------------------------
(* DownloadKernel, DownloadData, DownloadRuleSets, by a request.           *)
Request(file) ==
  /\ job = Idle
  /\ job' = [Idle EXCEPT !.file = file, !.at = "ask", !.left = Sources]
  /\ queue' = 0 /\ reader' = TRUE
  /\ UNCHANGED <<dest, tmp, copy>>

(* No release, a refused connection, or a kernel that is up to date.       *)
AskFails ==
  /\ On({"kernel"} \union RuleSets, "ask")
  /\ Report
  /\ IF job.file = "custom" THEN End ELSE Fail
  /\ UNCHANGED <<dest, tmp, copy, reader>>

(* A kernel comes as an archive, into a temporary file of its own.         *)
Ask ==
  /\ On({"kernel"} \union RuleSets, "ask")
  /\ Report
  /\ Goto("open")
  /\ UNCHANGED <<dest, tmp, copy, reader>>

Open(f) ==
  /\ On({f}, "open") /\ f # "data"
  /\ tmp' = [tmp EXCEPT ![f] = Empty]
  /\ Goto("write")
  /\ UNCHANGED <<dest, copy, queue, reader>>

Write(f) ==
  /\ On({f}, "write") /\ tmp[f] # Whole
  /\ \E half \in Whole \ tmp[f] :
       /\ half = 2 => 1 \in tmp[f]
       /\ tmp' = [tmp EXCEPT ![f] = @ \union {half}]
  /\ UNCHANGED <<dest, copy, job, queue, reader>>

(* Variant: what has been written until the error is put in place.         *)
WriteFailsReplaces(f) ==
  /\ On({f}, "write") /\ tmp[f] # Whole
  /\ Goto("rename")
  /\ UNCHANGED <<dest, tmp, copy, queue, reader>>

WriteFails(f) ==
  /\ On({f}, "write") /\ tmp[f] # Whole
  /\ tmp' = [tmp EXCEPT ![f] = Absent]
  /\ Report
  /\ IF f = "custom" THEN End ELSE Fail
  /\ UNCHANGED <<dest, copy, reader>>

(* downloadFile removes the old file first; a kernel is renamed over it.   *)
Remove(f) ==
  /\ On({f}, "write") /\ tmp[f] = Whole
  /\ dest' = IF f \in RuleSets THEN [dest EXCEPT ![f] = Absent] ELSE dest
  /\ Goto("rename")
  /\ UNCHANGED <<tmp, copy, queue, reader>>

Rename(f) ==
  /\ On({f}, "rename")
  /\ dest' = [dest EXCEPT ![f] = tmp[f]]
  /\ tmp' = [tmp EXCEPT ![f] = Absent]
  /\ Report /\ End
  /\ UNCHANGED <<copy, reader>>

-----------------------------------------------------------------------------
(* The data file: one source after the other, each from the start, until   *)
(* one is read to its end.  What the last one gave before it failed is     *)
(* taken all the same, if it is anything.                                  *)
TrySource ==
  /\ On({"data"}, "ask") /\ job.left > 0
  /\ Report
  /\ \E got \in {Empty, {1}, Whole} :
       job' = [job EXCEPT !.temp = got, !.left = IF got = Whole THEN 0 ELSE @ - 1]
  /\ UNCHANGED <<dest, tmp, copy, reader>>

SourcesDone ==
  /\ On({"data"}, "ask") /\ job.left = 0
  /\ Report
  /\ IF job.temp = Empty THEN Fail /\ UNCHANGED <<dest, fresh>>
     ELSE Goto("copy") /\ dest' = [dest EXCEPT !["data"] = Empty] /\ fresh' = FALSE
  /\ UNCHANGED <<tmp, beside, reader>>

CopyHalf ==
  /\ On({"data"}, "copy")
  /\ IF dest["data"] = job.temp THEN Report /\ End /\ UNCHANGED dest
     ELSE /\ dest' = [dest EXCEPT !["data"] = IF @ = Empty THEN {1} ELSE job.temp]
          /\ UNCHANGED <<job, queue>>
  /\ UNCHANGED <<tmp, copy, reader>>

-----------------------------------------------------------------------------
(* ensureKernelDataFiles, when a kernel starts: the data file is fetched   *)
(* if there is none, then copied beside the binary unless size and time    *)
(* say that this has been done.                                            *)
StartKernel ==
  /\ job = Idle
  /\ job' = IF dest["data"] \in {Absent, Empty}
            THEN [file |-> "data", at |-> "ask", temp |-> Empty, left |-> Sources, starts |-> TRUE]
            ELSE [Idle EXCEPT !.at = "beside", !.starts = TRUE]
  /\ queue' = 0 /\ reader' = TRUE
  /\ UNCHANGED <<dest, tmp, copy>>

SameFile == beside = dest["data"] /\ fresh

CopyBeside ==
  /\ job.at = "beside"
  /\ \/ SameFile /\ Goto("ready") /\ UNCHANGED copy
     \/ /\ ~SameFile
        /\ beside' = Empty /\ fresh' = TRUE /\ Goto("besideHalf")
  /\ UNCHANGED <<dest, tmp, queue, reader>>

CopyBesideHalf ==
  /\ job.at = "besideHalf"
  /\ \/ beside = dest["data"] /\ Goto("ready") /\ UNCHANGED beside
     \/ beside # dest["data"] /\ beside' = (IF beside = Empty THEN {1} ELSE dest["data"]) /\ UNCHANGED job
  /\ UNCHANGED <<dest, tmp, fresh, queue, reader>>

KernelReads ==
  /\ job.at = "ready"
  /\ Fail
  /\ UNCHANGED <<dest, tmp, copy, queue, reader>>

-----------------------------------------------------------------------------
(* The handler passes the messages on, and returns when its client leaves. *)
Read ==
  /\ reader /\ queue > 0
  /\ queue' = queue - 1
  /\ UNCHANGED <<dest, tmp, copy, job, reader>>

Leave ==
  /\ reader /\ job # Idle /\ ~job.starts
  /\ reader' = FALSE
  /\ UNCHANGED <<dest, tmp, copy, job, queue>>

Crash ==
  /\ job # Idle
  /\ job' = Idle /\ queue' = 0 /\ reader' = FALSE
  /\ UNCHANGED <<dest, tmp, copy>>

Next ==
  \/ \E f \in {"kernel", "data", "builtin"} : Request(f)
  \/ AskFails \/ Ask
  \/ \E f \in Files : Open(f) \/ Write(f) \/ WriteFails(f) \/ Remove(f) \/ Rename(f)
  \/ TrySource \/ SourcesDone \/ CopyHalf
  \/ StartKernel \/ CopyBeside \/ CopyBesideHalf \/ KernelReads
  \/ Read \/ Leave \/ Crash

Spec == Init /\ [][Next]_vars

-----------------------------------------------------------------------------
TypeOK ==
  /\ dest \in [Files -> Contents] /\ tmp \in [Files -> Contents]
  /\ beside \in Contents /\ fresh \in BOOLEAN
  /\ queue \in 0 .. Slots /\ reader \in BOOLEAN

(* "written to a temporary file first, so that a failed write leaves no    *)
(* broken file" (engine.go:1094), a crash included, for rule sets and      *)
(* kernels; a kernel that was there is never missing; and what Xray reads  *)
(* is the data file as it is (an old or half-made copy is made anew).      *)
InstalledWhole ==
  /\ \A f \in Files \ {"data"} : dest'[f] \in {Absent, Whole}
  /\ dest["kernel"] = Whole => dest'["kernel"] = Whole
  /\ KernelReads => beside = dest["data"]
=============================================================================
