--------------------------- MODULE TakeoverProofs ---------------------------
(***************************************************************************)
(* Takeover, for any files, contents and number of faults: no command      *)
(* takes the last whole copy of a file away unless it moves a torn one, and *)
(* a revert restores what the takeover before it moved.                    *)
(***************************************************************************)
EXTENDS Takeover, TLAPS

\* The command at work is busy with a file that is no longer on its list.
AtBusy ==
    /\ run.step \in {"open", "copy", "remove"} => run.at \in Path \ run.todo
    /\ run.step = "idle" => run = Idle

\* Where the command at work stands with file p: still to be moved, being moved.
Waiting(p) == run.step # "idle" /\ p \in run.todo
Moving(p) == run.step \in {"open", "copy", "remove"} /\ p = run.at

\* What is to be moved is there, and moveFile removes a source only when the target
\* equals it.
Sources ==
    /\ \A p \in Path : Waiting(p) \/ Moving(p) => file[From][p] # None
    /\ run.step = "remove" => file[run.to][run.at] = file[From][run.at]

\* A takeover without a failure: what it has not moved is in place, what it has
\* moved is in the backup, and neither differs from the image taken at its start.
Taking ==
    (run.step # "idle" /\ run.to = "back" /\ run.ok) =>
        \A p \in Path : image[p] # None =>
            IF Waiting(p) \/ Moving(p) THEN file["orig"][p] = image[p]
                                       ELSE file["back"][p] = image[p]

\* After a takeover without a failure each file is in the backup until it is back
\* in place, whatever became of the reverts since; the work that a revert without
\* a failure has done is done.
Taken ==
    phase = "taken" =>
        /\ run.step # "idle" => run.to = "orig"
        /\ \A p \in Path : image[p] # None =>
               \/ /\ file["back"][p] = image[p]
                  /\ (run.step # "idle" /\ run.ok) => Waiting(p) \/ Moving(p)
               \/ file["orig"][p] = image[p] /\ file["back"][p] = None

\* After the revert nothing of the image is left in the backup, so that further
\* reverts leave it alone.
Reverted ==
    phase = "reverted" =>
        /\ run.step # "idle" => run.to = "orig"
        /\ \A p \in Path : image[p] # None =>
               file["orig"][p] = image[p] /\ file["back"][p] = None

TakeoverInv ==
    /\ TakeoverTypeOK
    /\ AtBusy
    /\ Sources
    /\ Taking
    /\ Taken
    /\ Reverted

-----------------------------------------------------------------------------
\* The invariant holds before any command has run: there are no files yet.
LEMMA InitInv == Init => TakeoverInv
BY TakeoverAssumption DEF Init, Idle, TakeoverInv, TakeoverTypeOK, AtBusy, Sources, Taking,
   Taken, Reverted, Side, State, Step, Waiting, Moving

\* Every command, system call, fault and write of netplan keeps the invariant.
LEMMA StepInv == TakeoverInv /\ [Next]_vars => TakeoverInv'
<1> SUFFICES ASSUME TakeoverInv, [Next]_vars PROVE TakeoverInv'
  OBVIOUS
<1> USE TakeoverAssumption
    DEF TakeoverInv, TakeoverTypeOK, AtBusy, Sources, Taking, Taken, Reverted, Side, State,
        Step, Waiting, Moving, Idle, From, Other
<1>1. CASE Neutralize
  BY <1>1 DEF Neutralize
<1>2. CASE Restore
  BY <1>2 DEF Restore
<1>3. ASSUME NEW p \in Path, Rename(p) PROVE TakeoverInv'
  <2> DEFINE Renamed ==
        /\ file' = [file EXCEPT ![run.to][p] = file[From][p], ![From][p] = None]
        /\ run' = [run EXCEPT !.todo = @ \ {p}]
        /\ UNCHANGED <<image, phase, faults>>
      ToCopy ==
        /\ UNCHANGED <<file, image, phase>> /\ faults' \in 0 .. MaxFaults
        /\ run' = [run EXCEPT !.todo = @ \ {p}, !.at = p, !.step = "open"]
  <2>0. (Renamed \/ ToCopy) /\ run.step = "next" /\ p \in run.todo
    BY <1>3 DEF Rename, Faulty
  <2>1. CASE Renamed
    <3>1. file' = [file EXCEPT ![run.to][p] = file[From][p], ![From][p] = None]
      BY <2>1
    <3>2. run' = [run EXCEPT !.todo = @ \ {p}] /\ run.step = "next" /\ p \in run.todo
      BY <2>0, <2>1
    <3>3. UNCHANGED <<image, phase, faults>>
      BY <2>1
    <3>4. file'[run.to][p] = file[From][p] /\ file'[From][p] = None
      BY <3>1
    <3>5. \A s \in Side, q \in Path : q # p => file'[s][q] = file[s][q]
      BY <3>1
    <3>6. TakeoverTypeOK' /\ AtBusy'
      BY <3>1, <3>2, <3>3
    <3>7. Sources'
      BY <3>2, <3>5, <3>6
    <3>8. Taking'
      BY <3>2, <3>3, <3>4, <3>5, <3>6
    <3>9. Taken'
      BY <3>2, <3>3, <3>4, <3>5, <3>6
    <3>10. Reverted'
      BY <3>2, <3>3, <3>4, <3>5, <3>6
    <3> QED
      BY <3>6, <3>7, <3>8, <3>9, <3>10
  <2>2. CASE ToCopy
    <3>1. UNCHANGED <<file, image, phase>> /\ faults' \in 0 .. MaxFaults
      BY <2>2
    <3>2. run.step = "next" /\ p \in run.todo
      BY <2>0
    <3>3. run' = [run EXCEPT !.todo = @ \ {p}, !.at = p, !.step = "open"]
      BY <2>2
    <3>4. TakeoverTypeOK' /\ AtBusy'
      BY <3>1, <3>2, <3>3
    <3>5. Sources'
      BY <3>1, <3>2, <3>3
    <3>6. Taking'
      BY <3>1, <3>2, <3>3
    <3>7. Taken' /\ Reverted'
      BY <3>1, <3>2, <3>3
    <3> QED
      BY <3>4, <3>5, <3>6, <3>7
  <2> QED
    BY <2>0, <2>1, <2>2
<1>4. ASSUME NEW p \in Path, Passed(p) PROVE TakeoverInv'
  <2>1. UNCHANGED <<file, image, phase>> /\ faults' \in 0 .. MaxFaults
    BY <1>4 DEF Passed, Faulty
  <2>2. /\ run.step = "next"
        /\ run' \in [step : Step, to : Side, todo : SUBSET Path, at : Path \cup {None},
                     ok : BOOLEAN]
        /\ run'.step = "next" /\ run'.at = run.at /\ run'.todo = run.todo \ {p}
        /\ run'.to = run.to /\ run'.ok = FALSE
    BY <1>4 DEF Passed
  <2>3. TakeoverTypeOK' /\ AtBusy'
    BY <2>1, <2>2
  <2>4. Sources' /\ Taking' /\ Taken' /\ Reverted'
    BY <2>1, <2>2
  <2> QED
    BY <2>3, <2>4
<1>5. ASSUME Skip, run.step \in {"open", "copy", "remove"} PROVE TakeoverInv'
  <2>1. UNCHANGED <<file, image, phase>> /\ faults' \in 0 .. MaxFaults
    BY <1>5 DEF Skip, Faulty
  <2>2. /\ run' \in [step : Step, to : Side, todo : SUBSET Path, at : Path \cup {None},
                     ok : BOOLEAN]
        /\ run'.step = "next" /\ run'.at = run.at /\ run'.todo = run.todo
        /\ run'.to = run.to /\ run'.ok = FALSE
    BY <1>5 DEF Skip, Go
  <2>3. TakeoverTypeOK' /\ AtBusy'
    BY <2>1, <2>2
  <2>4. Sources' /\ Taking' /\ Taken' /\ Reverted'
    BY <1>5, <2>1, <2>2
  <2> QED
    BY <2>3, <2>4
<1>6. CASE Open
  <2>1. CASE ~Skip
    <3>1. run.step = "open" /\ file' = [file EXCEPT ![run.to][run.at] = Torn]
      BY <1>6, <2>1 DEF Open, Put
    <3>2. UNCHANGED <<image, phase, faults>>
      BY <1>6, <2>1 DEF Open
    <3>3. /\ run' \in [step : Step, to : Side, todo : SUBSET Path, at : Path \cup {None},
                       ok : BOOLEAN]
          /\ run'.step = "copy" /\ run'.at = run.at /\ run'.todo = run.todo
          /\ run'.to = run.to /\ run'.ok = run.ok
      BY <1>6, <2>1 DEF Open, Go
    <3>4. /\ run.at \in Path
          /\ file'[run.to][run.at] = Torn
          /\ file'[From][run.at] = file[From][run.at]
          /\ \A s \in Side, q \in Path : q # run.at => file'[s][q] = file[s][q]
      BY <3>1
    <3>5. TakeoverTypeOK' /\ AtBusy'
      BY <3>1, <3>2, <3>3, <3>4
    <3>6. Sources'
      BY <3>1, <3>3, <3>4
    <3>7. Taking'
      BY <3>1, <3>2, <3>3, <3>4
    <3>8. Taken'
      BY <3>1, <3>2, <3>3, <3>4
    <3>9. Reverted'
      BY <3>1, <3>2, <3>3, <3>4
    <3> QED
      BY <3>5, <3>6, <3>7, <3>8, <3>9
  <2> QED
    BY <1>6, <1>5, <2>1 DEF Open
<1>7. CASE Copy
  <2>1. CASE ~Skip
    <3>1. run.step = "copy" /\ file' = [file EXCEPT ![run.to][run.at] = file[From][run.at]]
      BY <1>7, <2>1 DEF Copy, Put
    <3>2. UNCHANGED <<image, phase, faults>>
      BY <1>7, <2>1 DEF Copy
    <3>3. /\ run' \in [step : Step, to : Side, todo : SUBSET Path, at : Path \cup {None},
                       ok : BOOLEAN]
          /\ run'.step = "remove" /\ run'.at = run.at /\ run'.todo = run.todo
          /\ run'.to = run.to /\ run'.ok = run.ok
      BY <1>7, <2>1 DEF Copy, Go
    <3>4. /\ run.at \in Path
          /\ file'[run.to][run.at] = file[From][run.at]
          /\ file'[From][run.at] = file[From][run.at]
          /\ \A s \in Side, q \in Path : q # run.at => file'[s][q] = file[s][q]
      BY <3>1
    <3>5. TakeoverTypeOK' /\ AtBusy'
      BY <3>1, <3>2, <3>3, <3>4
    <3>6. Sources'
      BY <3>1, <3>3, <3>4
    <3>7. Taking'
      BY <3>1, <3>2, <3>3, <3>4
    <3>8. Taken'
      BY <3>1, <3>2, <3>3, <3>4
    <3>9. Reverted'
      BY <3>1, <3>2, <3>3, <3>4
    <3> QED
      BY <3>5, <3>6, <3>7, <3>8, <3>9
  <2> QED
    BY <1>7, <1>5, <2>1 DEF Copy
<1>8. CASE Remove
  <2>1. CASE ~Skip
    <3>1. run.step = "remove" /\ file' = [file EXCEPT ![From][run.at] = None]
      BY <1>8, <2>1 DEF Remove, Put
    <3>2. UNCHANGED <<image, phase, faults>>
      BY <1>8, <2>1 DEF Remove
    <3>3. /\ run' \in [step : Step, to : Side, todo : SUBSET Path, at : Path \cup {None},
                       ok : BOOLEAN]
          /\ run'.step = "next" /\ run'.at = run.at /\ run'.todo = run.todo
          /\ run'.to = run.to /\ run'.ok = run.ok
      BY <1>8, <2>1 DEF Remove, Go
    <3>4. /\ run.at \in Path
          /\ file'[From][run.at] = None
          /\ file'[run.to][run.at] = file[run.to][run.at]
          /\ \A s \in Side, q \in Path : q # run.at => file'[s][q] = file[s][q]
      BY <3>1
    <3>5. TakeoverTypeOK' /\ AtBusy'
      BY <3>1, <3>2, <3>3, <3>4
    <3>6. Sources'
      BY <3>1, <3>3, <3>4
    <3>7. Taking'
      BY <3>1, <3>2, <3>3, <3>4
    <3>8. Taken'
      BY <3>1, <3>2, <3>3, <3>4
    <3>9. Reverted'
      BY <3>1, <3>2, <3>3, <3>4
    <3> QED
      BY <3>5, <3>6, <3>7, <3>8, <3>9
  <2> QED
    BY <1>8, <1>5, <2>1 DEF Remove
<1>9. CASE Finish
  <2>1. run.step = "next" /\ run.todo = {} /\ run' = Idle /\ UNCHANGED <<file, image, faults>>
    BY <1>9 DEF Finish
  <2>2. \A p \in Path : ~Waiting(p) /\ ~Moving(p)
    BY <2>1
  <2>3. phase' = IF run.ok /\ run.to = "back" THEN "taken"
                 ELSE IF run.ok /\ phase = "taken" THEN "reverted" ELSE phase
    BY <1>9 DEF Finish
  <2>4. TakeoverTypeOK' /\ AtBusy' /\ Sources' /\ Taking'
    BY <2>1, <2>3
  <2>5. Taken'
    <3>1. CASE run.ok /\ run.to = "back"
      BY <2>1, <2>2, <3>1
    <3>2. CASE ~(run.ok /\ run.to = "back")
      <4>1. phase' = "taken" => phase = "taken"
        BY <2>3, <3>2
      <4> QED
        BY <2>1, <4>1
    <3> QED
      BY <3>1, <3>2
  <2>6. Reverted'
    BY <2>1, <2>2, <2>3
  <2> QED
    BY <2>4, <2>5, <2>6
<1>10. CASE Kill
  BY <1>10 DEF Kill, Faulty
<1>11. CASE Reboot
  BY <1>11 DEF Reboot, Faulty
<1>12. ASSUME NEW p \in Path, NEW c \in Content, Generate(p, c) PROVE TakeoverInv'
  BY <1>12 DEF Generate, Put
<1>13. CASE UNCHANGED vars
  BY <1>13 DEF vars
<1> QED
  BY <1>1, <1>2, <1>3, <1>4, <1>6, <1>7, <1>8, <1>9, <1>10, <1>11, <1>12, <1>13 DEF Next

\* A revert without a failure puts back what the takeover before it moved
\* (takeoverNeutralize, takeoverRestore, moveFile), for any files and faults.
THEOREM Reverts == Spec => []RevertRestores
<1>1. TakeoverInv => RevertRestores
  BY DEF TakeoverInv, Reverted, RevertRestores
<1> QED
  BY InitInv, StepInv, <1>1, PTL DEF Spec

\* No step takes the last whole copy of a file away, except a reboot and a move of
\* a torn source (moveFile), for any files and faults.
THEOREM NothingLost == Spec => KeepsAWhole
<1>1. TakeoverInv /\ [Next]_vars =>
        [\A p \in Path : Whole(p) /\ ~Whole(p)' =>
             Reboot \/ file[From][p] = Torn]_vars
  <2> SUFFICES ASSUME TakeoverInv, Next, NEW p \in Path, Whole(p), ~Whole(p)', ~Reboot,
                      file[From][p] # Torn
               PROVE  FALSE
    BY DEF vars
  <2> USE TakeoverAssumption
      DEF TakeoverInv, TakeoverTypeOK, AtBusy, Sources, Whole, Side, State, From, Other,
          Waiting, Moving
  <2>1. UNCHANGED file => FALSE
    OBVIOUS
  <2>2. ASSUME NEW q \in Path, Rename(q) PROVE FALSE
    <3>1. /\ file' = [file EXCEPT ![run.to][q] = file[From][q], ![From][q] = None]
          /\ run.step = "next" /\ q \in run.todo
      BY <2>1, <2>2 DEF Rename
    <3> QED
      BY <3>1
  <2>3. CASE Open
    <3>1. file' = [file EXCEPT ![run.to][run.at] = Torn]
      BY <2>1, <2>3 DEF Open, Put, Skip
    <3>2. /\ run.at \in Path
          /\ file'[run.to][run.at] = Torn
          /\ file'[From][run.at] = file[From][run.at]
          /\ \A s \in Side : p # run.at => file'[s][p] = file[s][p]
      BY <2>3, <3>1 DEF Open
    <3> QED
      BY <2>3, <3>2 DEF Open
  <2>4. CASE Copy
    <3>1. file' = [file EXCEPT ![run.to][run.at] = file[From][run.at]]
      BY <2>1, <2>4 DEF Copy, Put, Skip
    <3>2. /\ run.at \in Path
          /\ file'[run.to][run.at] = file[From][run.at]
          /\ file'[From][run.at] = file[From][run.at]
          /\ \A s \in Side : p # run.at => file'[s][p] = file[s][p]
      BY <2>4, <3>1 DEF Copy
    <3> QED
      BY <2>4, <3>2 DEF Copy
  <2>5. CASE Remove
    <3>1. file' = [file EXCEPT ![From][run.at] = None]
      BY <2>1, <2>5 DEF Remove, Put, Skip
    <3>2. /\ run.at \in Path
          /\ file'[From][run.at] = None
          /\ file'[run.to][run.at] = file[run.to][run.at]
          /\ \A s \in Side : p # run.at => file'[s][p] = file[s][p]
      BY <2>5, <3>1 DEF Remove
    <3> QED
      BY <2>5, <3>2 DEF Remove
  <2>6. ASSUME NEW q \in Path, NEW c \in Content, Generate(q, c) PROVE FALSE
    BY <2>6 DEF Generate, Put
  <2> QED
    BY <2>1, <2>2, <2>3, <2>4, <2>5, <2>6
    DEF Next, Neutralize, Restore, Passed, Finish, Kill
<1> QED
  BY InitInv, StepInv, <1>1, PTL DEF Spec, KeepsAWhole
=============================================================================
