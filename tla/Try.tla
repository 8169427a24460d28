--------------------------------- MODULE Try ---------------------------------
(***************************************************************************)
(* netcfg try (cmd/try.go): apply a configuration, wait for the operator   *)
(* to confirm it, and undo it when they decline or say nothing.  The       *)
(* daemon or another netcfg apply may run while try waits or rolls back.   *)
(***************************************************************************)
EXTENDS Apply

VARIABLES
    tpc,          \* no try, "apply", "wait" for the operator, or "undo"
    snap,         \* rollbackState: the record when try began
    undo,         \* what the rollback has left to do
    \* observations
    before,       \* the kernel when try began
    alone,        \* nothing but try has touched the kernel since
    reverted      \* the last try was rolled back to the end

tryVars == <<tpc, snap, undo, before, alone, reverted>>
allVars == <<vars, tryVars>>

UndoType ==
    [addr : SUBSET (Link \X Rec), dev : SUBSET Link, ns : SUBSET NetNS,
     restore : SUBSET (Link \X Rec)]

NothingToUndo == [addr |-> {}, dev |-> {}, ns |-> {}, restore |-> {}]

TryTypeOK ==
    /\ TypeOK
    /\ tpc \in {"no", "apply", "wait", "undo"}
    /\ snap \in State
    /\ undo \in UndoType
    /\ before \in KernelType
    /\ alone \in BOOLEAN
    /\ reverted \in BOOLEAN

TryInit ==
    /\ Init
    /\ tpc = "no"
    /\ snap = NewState
    /\ undo = NothingToUndo
    /\ before = Boot
    /\ alone = FALSE
    /\ reverted = FALSE

\* runTry: the record is kept in memory, then Apply begins.
StartTry(c) ==
    /\ tpc = "no"
    /\ Load(c)
    /\ snap' = file
    /\ tpc' = "apply"
    /\ before' = kernel
    /\ alone' = TRUE
    /\ reverted' = FALSE
    /\ UNCHANGED undo

\* try is over and its memory with it.
Exit(done) ==
    /\ tpc' = "no"
    /\ snap' = NewState
    /\ undo' = NothingToUndo
    /\ before' = IF done THEN before ELSE Boot
    /\ alone' = (done /\ alone)
    /\ reverted' = done

\* Apply on behalf of try.  A failed save is only logged, so try goes on to
\* wait; any other failure ends it, and so does a lost machine.
TryApplies ==
    /\ tpc = "apply"
    /\ \/ /\ Step
          /\ pc' # "idle" \/ work = NoWork
          /\ tpc' = IF pc' = "idle" THEN "wait" ELSE "apply"
          /\ UNCHANGED <<snap, undo, before, alone, reverted>>
       \/ /\ Step
          /\ pc' = "idle" /\ work # NoWork
          /\ Exit(FALSE)
       \/ /\ TornSave \/ Interrupt
          /\ Exit(FALSE)

\* ENTER: the configuration stays.
Confirm ==
    /\ tpc = "wait"
    /\ Exit(FALSE)
    /\ UNCHANGED vars

\* Mutant: the default namespace is deleted like any other.
TimeoutWithDefault ==
    /\ tpc = "wait"
    /\ LET diff == ComputeDiff(file, snap)
       IN  undo' = [addr |-> diff.addrToAdd, dev |-> diff.devToAdd,
                    ns |-> diff.nsToAdd, restore |-> diff.addrToRemove]
    /\ tpc' = "undo"
    /\ UNCHANGED <<vars, snap, before, alone, reverted>>

\* Mutant: everything the kept record has is taken down, to be applied anew.
TimeoutFromScratch ==
    /\ tpc = "wait"
    /\ LET diff == ComputeDiff(file, snap)
       IN  undo' = [addr |-> diff.addrToAdd, dev |-> snap.own,
                    ns |-> diff.nsToAdd \ {Default}, restore |-> diff.addrToRemove]
    /\ tpc' = "undo"
    /\ UNCHANGED <<vars, snap, before, alone, reverted>>

\* The timer, or "revert": rollback compares the record with the kept one.
Timeout ==
    /\ tpc = "wait"
    /\ LET diff == ComputeDiff(file, snap)
       IN  undo' = [addr |-> diff.addrToAdd, dev |-> diff.devToAdd,
                    ns |-> diff.nsToAdd \ {Default}, restore |-> diff.addrToRemove]
    /\ tpc' = "undo"
    /\ UNCHANGED <<vars, snap, before, alone, reverted>>

\* The terminal or the connection of the operator goes away with try.
Hangup ==
    /\ tpc \in {"wait", "undo"}
    /\ Exit(FALSE)
    /\ UNCHANGED vars

\* One request of rollback; a failure is ignored.
Undoing(k) ==
    /\ \/ kernel' = k /\ NoFault
       \/ UNCHANGED kernel /\ Fault
    /\ Excuse({})
    /\ UNCHANGED <<file, pc, cfg, work, fresh, tpc, snap, before, alone, reverted>>

UndoAddress ==
    /\ tpc = "undo"
    /\ \E p \in undo.addr :
         /\ undo' = [undo EXCEPT !.addr = @ \ {p}]
         /\ Undoing(DeleteItems(kernel, {p}))

\* Mutant: a device that is not there is waited for.
UndoDeviceWaits ==
    /\ tpc = "undo" /\ undo.addr = {}
    /\ \E l \in undo.dev \cap kernel.links :
         /\ undo' = [undo EXCEPT !.dev = @ \ {l}]
         /\ Undoing(IF l[2] \notin Hardware THEN LinkDel(kernel, l) ELSE kernel)

UndoDevice ==
    /\ tpc = "undo" /\ undo.addr = {}
    /\ \E l \in undo.dev :
         /\ undo' = [undo EXCEPT !.dev = @ \ {l}]
         /\ Undoing(IF l \in kernel.links /\ l[2] \notin Hardware
                    THEN LinkDel(kernel, l) ELSE kernel)

UndoNetns ==
    /\ tpc = "undo" /\ undo.addr = {} /\ undo.dev = {}
    /\ \E ns \in undo.ns :
         /\ undo' = [undo EXCEPT !.ns = @ \ {ns}]
         /\ Undoing(IF ns \in kernel.netns THEN DeleteNetns(kernel, ns) ELSE kernel)

RestoreAddress ==
    /\ tpc = "undo" /\ undo.addr = {} /\ undo.dev = {} /\ undo.ns = {}
    /\ \E p \in undo.restore :
         /\ undo' = [undo EXCEPT !.restore = @ \ {p}]
         /\ Undoing(IF p[1] \in kernel.links THEN AddItems(kernel, {p}) ELSE kernel)

SaveSnapshot ==
    /\ tpc = "undo" /\ undo = NothingToUndo
    /\ \/ file' = snap /\ NoFault
       \/ UNCHANGED file /\ Fault
    /\ Exit(TRUE)
    /\ UNCHANGED <<kernel, pc, cfg, work, fresh, excused>>

TryStep ==
    \/ TryApplies \/ Timeout \/ UndoAddress \/ UndoDevice \/ UndoNetns
    \/ RestoreAddress \/ SaveSnapshot

\* Another netcfg process, and the machine.
Others ==
    \/ /\ tpc # "apply"
       /\ \/ \E c \in Config : Load(c)
          \/ Step \/ TornSave \/ Interrupt
          \/ \E ns \in NetNS : Destroy(ns)
       /\ alone' = FALSE
       /\ reverted' = FALSE
       /\ before' = Boot
       /\ UNCHANGED <<tpc, snap, undo>>
    \/ /\ Reboot
       /\ Exit(FALSE)

TryNext ==
    \/ \E c \in Config : StartTry(c)
    \/ TryStep \/ Confirm \/ Hangup
    \/ Others

\* The timer of try fires, and its requests complete.
TrySpec == TryInit /\ [][TryNext]_allVars /\ WF_allVars(TryStep)

-----------------------------------------------------------------------------
\* A rollback takes away nothing that both configurations want: neither an
\* item on a link that stays nor a link that does not go with another.
RollbackSparesShared ==
    [][tpc = "undo" /\ tpc' = "undo" /\ alone /\ alone' =>
        /\ \A p \in kernel.items \ kernel'.items :
               p[1] \in kernel'.links => Record(p) \notin file.item \cap snap.item
        /\ \A l \in kernel.links \ kernel'.links :
               l \in Devices(file) \cap Devices(snap) =>
                   \E m \in kernel.links \ kernel'.links :
                       <<l, m>> \in kernel.stack]_allVars

\* A try is always decided: confirmed, rolled back or dead.
TryDecided == tpc # "no" ~> tpc = "no"

\* "the configuration will be rolled back automatically" (try.go): when try
\* ran undisturbed and was not confirmed, the links and addresses it found
\* are there again and the ones it added are gone.
RollbackRestores ==
    tpc = "no" /\ reverted /\ alone /\ clean =>
        /\ kernel.links = before.links
        /\ \A p \in Link \X Addr : p \in kernel.items <=> p \in before.items
==============================================================================
