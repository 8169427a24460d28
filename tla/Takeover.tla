------------------------------ MODULE Takeover ------------------------------
(***************************************************************************)
(* netcfg takeover (cmd/takeover.go): the files netplan generated for      *)
(* systemd-networkd are moved to a backup directory, and moved back with   *)
(* --revert.  A file on the file system of the backup is renamed, any      *)
(* other is copied and removed, one system call after the other; a command *)
(* may fail, be killed, or be cut short by a reboot at any of them.        *)
(***************************************************************************)
EXTENDS Naturals

CONSTANTS
    Path,         \* the netplan files takeover looks for
    Local,        \* those on the file system of the backup directory
    Volatile,     \* those under /run, lost in a reboot
    Content,      \* what netplan may write to a file
    None,         \* no file
    Torn,         \* a file cut short
    MaxFaults     \* bound on failed system calls, kills and reboots

ASSUME TakeoverAssumption ==
    /\ Local \subseteq Path
    /\ Volatile \subseteq Path \ Local
    /\ None \notin Content /\ Torn \notin Content /\ None # Torn
    /\ None \notin Path
    /\ MaxFaults \in Nat

VARIABLES
    file,         \* the files in place ("orig") and in the backup ("back")
    run,          \* the command at work
    \* observations, read by no guard of the code
    image,        \* what a revert of the last takeover should put in place
    phase,        \* the last takeover or revert that was carried out in full
    faults        \* faults so far

vars == <<file, run, image, phase, faults>>

Side == {"orig", "back"}
Other(s) == IF s = "orig" THEN "back" ELSE "orig"
State == Content \cup {None, Torn}

\* No command, between two files, or in moveFile at a copy: about to truncate the
\* target, about to copy, about to remove the source.
Step == {"idle", "next", "open", "copy", "remove"}
Idle == [step |-> "idle", to |-> "orig", todo |-> {}, at |-> None, ok |-> TRUE]

TakeoverTypeOK ==
    /\ file \in [Side -> [Path -> State]]
    /\ run \in [step : Step, to : Side, todo : SUBSET Path, at : Path \cup {None},
                ok : BOOLEAN]
    /\ image \in [Path -> State]
    /\ phase \in {"none", "taken", "reverted"}
    /\ faults \in 0 .. MaxFaults

Init ==
    /\ file = [s \in Side |-> [p \in Path |-> None]]
    /\ run = Idle
    /\ image = [p \in Path |-> None]
    /\ phase = "none"
    /\ faults = 0

-----------------------------------------------------------------------------
Faulty == faults < MaxFaults /\ faults' = faults + 1

From == Other(run.to)
Put(s, p, c) == file' = [file EXCEPT ![s][p] = c]

Go(step) == run' = [run EXCEPT !.step = step]

\* The next file, whatever became of this one (its failure is only logged).
Skip ==
    /\ Faulty
    /\ run' = [run EXCEPT !.step = "next", !.ok = FALSE]
    /\ UNCHANGED <<file, image, phase>>

\* takeoverNeutralize: the files are listed before the first is moved.
Neutralize ==
    /\ run.step = "idle"
    /\ run' = [Idle EXCEPT !.step = "next", !.to = "back",
                           !.todo = {p \in Path : file["orig"][p] # None}]
    /\ image' = [p \in Path |-> IF file["orig"][p] # None THEN file["orig"][p]
                                                         ELSE file["back"][p]]
    /\ phase' = "none"
    /\ UNCHANGED <<file, faults>>

\* Mutant: what came from another file system is not put back.
RestoreRenamed ==
    /\ run.step = "idle"
    /\ run' = [Idle EXCEPT !.step = "next", !.to = "orig",
                           !.todo = {p \in Local : file["back"][p] # None}]
    /\ UNCHANGED <<file, image, phase, faults>>

\* takeoverRestore: the backup directory is walked.
Restore ==
    /\ run.step = "idle"
    /\ run' = [Idle EXCEPT !.step = "next", !.to = "orig",
                           !.todo = {p \in Path : file["back"][p] # None}]
    /\ UNCHANGED <<file, image, phase, faults>>

\* moveFile: the rename, which works within one file system only; what is not
\* renamed, for whatever reason, is copied.
Rename(p) ==
    /\ run.step = "next" /\ p \in run.todo
    /\ \/ /\ p \in Local
          /\ file' = [file EXCEPT ![run.to][p] = file[From][p], ![From][p] = None]
          /\ run' = [run EXCEPT !.todo = @ \ {p}]
          /\ UNCHANGED faults
       \/ /\ Faulty \/ (p \notin Local /\ UNCHANGED faults)
          /\ UNCHANGED file
          /\ run' = [run EXCEPT !.todo = @ \ {p}, !.at = p, !.step = "open"]
    /\ UNCHANGED <<image, phase>>

\* The directory cannot be made, or the file not be examined.
Passed(p) ==
    /\ run.step = "next" /\ p \in run.todo
    /\ Faulty
    /\ run' = [run EXCEPT !.todo = @ \ {p}, !.ok = FALSE]
    /\ UNCHANGED <<file, image, phase>>

Open ==
    /\ run.step = "open"
    /\ \/ Put(run.to, run.at, Torn) /\ Go("copy") /\ UNCHANGED <<image, phase, faults>>
       \/ Skip

\* Mutant: the result of the copy is not looked at.
CopyUnchecked ==
    /\ run.step = "copy"
    /\ \/ /\ Put(run.to, run.at, file[From][run.at])
          /\ Go("remove")
          /\ UNCHANGED <<image, phase, faults>>
       \/ Faulty /\ Go("remove") /\ UNCHANGED <<file, image, phase>>

Copy ==
    /\ run.step = "copy"
    /\ \/ /\ Put(run.to, run.at, file[From][run.at])
          /\ Go("remove")
          /\ UNCHANGED <<image, phase, faults>>
       \/ Skip

Remove ==
    /\ run.step = "remove"
    /\ \/ Put(From, run.at, None) /\ Go("next") /\ UNCHANGED <<image, phase, faults>>
       \/ Skip

Finish ==
    /\ run.step = "next" /\ run.todo = {}
    /\ run' = Idle
    /\ phase' = IF run.ok /\ run.to = "back" THEN "taken"
                ELSE IF run.ok /\ phase = "taken" THEN "reverted" ELSE phase
    /\ UNCHANGED <<file, image, faults>>

\* The command is killed.
Kill ==
    /\ run.step # "idle"
    /\ Faulty
    /\ run' = Idle
    /\ UNCHANGED <<file, image, phase>>

-----------------------------------------------------------------------------
(* External: netplan generate writes a file while no command runs, and a   *)
(* reboot empties /run.                                                    *)

Generate(p, c) ==
    /\ run.step = "idle"
    /\ Put("orig", p, c)
    /\ phase' = "none"
    /\ UNCHANGED <<run, image, faults>>

Reboot ==
    /\ Faulty
    /\ file' = [file EXCEPT !["orig"] = [p \in Path |-> IF p \in Volatile THEN None ELSE @[p]]]
    /\ run' = Idle
    /\ phase' = "none"
    /\ UNCHANGED image

Next ==
    \/ Neutralize
    \/ Restore
    \/ \E p \in Path : Rename(p) \/ Passed(p)
    \/ Open
    \/ Copy
    \/ Remove
    \/ Finish
    \/ Kill
    \/ Reboot
    \/ \E p \in Path, c \in Content : Generate(p, c)

Spec == Init /\ [][Next]_vars

-----------------------------------------------------------------------------
(* Properties.                                                             *)

Whole(p) == \E s \in Side : file[s][p] \in Content

\* No step takes the last whole copy of a file away, in place or in the backup,
\* except a reboot and moveFile when it truncates the whole target of a torn
\* source: a command that is killed or fails anywhere, and is run again any number
\* of times, loses nothing; a torn file left by it must not be moved the other way
\* (moveFile removes the source only after the copy was closed).
KeepsAWhole ==
    [][\A p \in Path : Whole(p) /\ ~Whole(p)' =>
           Reboot \/ file[From][p] = Torn]_vars

\* A takeover that reports no failure, and a revert that reports none, with
\* interrupted reverts and no other writer between them, put back what was in place
\* before: of each file the version that was in place, or else the one an earlier
\* takeover had moved.
RevertRestores ==
    phase = "reverted" => \A p \in Path : image[p] # None => file["orig"][p] = image[p]
=============================================================================
