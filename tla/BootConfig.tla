----------------------------- MODULE BootConfig -----------------------------
(***************************************************************************)
(* The boot loader's configuration file and the two programs that edit it: *)
(* the boot control HAL (src/bootctrl), which replaces the slot suffix on  *)
(* setActiveBootSlot, and boot-mode-selection.sh, which init runs at every *)
(* shutdown and at every start of recovery and which replaces the boot     *)
(* mode.  The HAL truncates the file and writes it again; the script reads *)
(* it line by line into $CFG_PATH.tmp and moves that over the file.        *)
(* Neither knows of the other, and power may be lost between any two       *)
(* steps.                                                                  *)
(*                                                                         *)
(* A file is a function: the slot suffix after each of the texts and the   *)
(* mode after each of the keys that it contains.  Lines without any of     *)
(* them are left out.                                                      *)
(***************************************************************************)
EXTENDS Integers

CONSTANTS
    Suffixes,      \* slot suffixes
    Keys,          \* which of "androidboot.mode" and "MODE" the file has
    Lines,         \* how many lines it has
    LineOf,        \* the line on which a text or key is
    Failing,       \* what may fail, of Failures
    CallsPerBoot,  \* bound: setActiveBootSlot calls between two boots
    MaxBoots       \* bound: restarts

Failures == {"impl", "open", "write", "unwritable", "loop", "print", "mv", "klog"}

\* What a suffix is replaced after.
Texts == {"kernel", "initrd", "androidboot.slot_suffix=", "SLOT="}
Items == Texts \cup Keys

ASSUME BootAssumption ==
    /\ Suffixes # {}
    /\ Keys \subseteq {"androidboot.mode", "MODE"}
    /\ Lines \in Nat /\ LineOf \in [Items -> 1..Lines]
    /\ Failing \subseteq Failures
    /\ CallsPerBoot \in Nat /\ MaxBoots \in Nat

Modes == {"normal", "recovery"}
\* What follows the first character of sys.shutdown.requested.
Reasons == {"userrequested", "recovery", "recovery-update"}
\* The file that the truncation leaves, and a file that is not there.
Empty == << >>

VARIABLES
    slot_suffix,   \* ro.boot.slot_suffix of the running system
    system,        \* the mode it was started in
    active,        \* the active slot of the bootloader_control in misc
    cfg,           \* the file at $CFG_PATH
    tmp,           \* the file at $CFG_PATH.tmp
    hal,           \* the HAL's call: pc, slot, content, attached, result
    script,        \* the script: pc, new_mode, shutdown, pos, found, printed, result
    complete,      \* vendor.boot-mode-selection.complete
    calls, boots,  \* counters of the two bounds
    history        \* what the properties remember; no step depends on it:
                   \*   torn     the HAL wrote the file while the script read it
                   \*   spoiled  tmp is no true copy: the HAL changed the file since
                   \*            the script opened it, or a line was not written
                   \*   kept     the copy was moved, with no older one in the HAL's hands
                   \*   good     the HAL's call met a file it could switch and wrote it
                   \*   stopped  sh -e ended the script

vars == <<slot_suffix, system, active, cfg, tmp, hal, script, complete, calls, boots,
          history>>

\* One of several outcomes of a call that may fail.
Fails(call) == call \in Failing

-----------------------------------------------------------------------------
(* The boot control HAL                                                     *)

HalIdle(slot, result) ==
    [pc |-> "idle", slot |-> slot, content |-> Empty, attached |-> FALSE,
     result |-> result]

\* SetActiveBootSlot of libboot_control writes misc; GetSuffix is the identity
\* here because a slot is named by its suffix.
SetActiveBootSlot(slot) ==
    /\ hal.pc = "idle" /\ calls < CallsPerBoot
    /\ calls' = calls + 1
    /\ \/ /\ active' = slot
          /\ hal' = [HalIdle(slot, "none") EXCEPT !.pc = "read"]
       \/ /\ Fails("impl") /\ UNCHANGED active
          /\ hal' = HalIdle(slot, "failed")
    /\ UNCHANGED <<slot_suffix, system, cfg, tmp, script, complete, boots, history>>

\* Mutant of FindAndReplace: one of the texts is forgotten.
FindAndReplaceNoInitrd(c, new) ==
    [i \in DOMAIN c |-> IF i \in Texts \ {"initrd"} /\ c[i] = slot_suffix THEN new ELSE c[i]]

\* Only the suffix of the running system is replaced.
FindAndReplace(c, new) ==
    [i \in DOMAIN c |-> IF i \in Texts /\ c[i] = slot_suffix THEN new ELSE c[i]]

\* Replacing the running system's suffix makes the file name the new slot.
Switchable(c, new) == \A t \in Texts : t \in DOMAIN c /\ c[t] \in {slot_suffix, new}

\* Mutant of SetBootSlotRead: a file that cannot be opened is no failure.
SetBootSlotReadIgnored ==
    /\ hal.pc = "read"
    /\ \/ hal' = [hal EXCEPT !.pc = "truncate",
                             !.content = FindAndReplace(cfg, hal.slot)]
       \/ Fails("open") /\ hal' = HalIdle(hal.slot, "success")
    /\ history' = [history EXCEPT !.good = Switchable(cfg, hal.slot)]
    /\ UNCHANGED <<slot_suffix, system, active, cfg, tmp, script, complete, calls,
                   boots>>

\* The file is read into a string and edited there.
SetBootSlotRead ==
    /\ hal.pc = "read"
    /\ \/ hal' = [hal EXCEPT !.pc = "truncate",
                             !.content = FindAndReplace(cfg, hal.slot)]
       \/ Fails("open") /\ hal' = HalIdle(hal.slot, "failed")
    /\ history' = [history EXCEPT !.good = Switchable(cfg, hal.slot)]
    /\ UNCHANGED <<slot_suffix, system, active, cfg, tmp, script, complete, calls,
                   boots>>

\* Opening the ofstream truncates the file.
SetBootSlotTruncate ==
    /\ hal.pc = "truncate"
    /\ \/ /\ cfg' = Empty
          /\ hal' = [hal EXCEPT !.pc = "write", !.attached = TRUE]
          /\ history' = [history EXCEPT !.spoiled = TRUE]
       \/ /\ Fails("open") /\ UNCHANGED <<cfg, history>>
          /\ hal' = HalIdle(hal.slot, "failed")
    /\ UNCHANGED <<slot_suffix, system, active, tmp, script, complete, calls, boots>>

\* The first n lines of a file.
FirstLines(c, n) == [i \in {j \in DOMAIN c : LineOf[j] <= n} |-> c[i]]

Reading == script.pc \in {"loop1", "loop2"}

\* The content goes to the file that was truncated, which is no longer the one at the
\* path when the script has moved its copy there meanwhile.  A write that fails leaves
\* the lines before; success is reported whatever becomes of it.
SetBootSlotWrite ==
    /\ hal.pc = "write"
    /\ \E n \in 0..Lines :
          /\ n = Lines \/ Fails("write")
          /\ cfg' = IF hal.attached THEN FirstLines(hal.content, n) ELSE cfg
          /\ history' = [history EXCEPT !.torn = @ \/ (hal.attached /\ Reading),
                                        !.spoiled = @ \/ hal.attached,
                                        !.good = @ /\ hal.attached /\ n = Lines]
    /\ hal' = HalIdle(hal.slot, "success")
    /\ UNCHANGED <<slot_suffix, system, active, tmp, script, complete, calls, boots>>

Hal == \/ \E slot \in Suffixes : SetActiveBootSlot(slot)
       \/ SetBootSlotRead \/ SetBootSlotTruncate \/ SetBootSlotWrite

-----------------------------------------------------------------------------
(* boot-mode-selection.sh                                                   *)

\* shutdown says whether this is the run of a shutdown or of recovery's start.
ScriptAt(pc, mode, shutdown) ==
    [pc |-> pc, new_mode |-> mode, shutdown |-> shutdown, pos |-> 0, found |-> FALSE,
     printed |-> TRUE, result |-> "none"]

\* Mutant of NewMode: the reason is taken for the mode.
NewModeRaw(reason) == reason

NewMode(reason) ==
    IF reason \in {"recovery", "recovery-update"} THEN "recovery" ELSE "normal"

\* sys.shutdown.requested is set: init starts the script with the reason.
ShutdownRequested(reason) ==
    /\ script.pc \in {"idle", "exited"} /\ ~script.shutdown
    /\ script' = ScriptAt("check", NewMode(reason), TRUE)
    /\ history' = [history EXCEPT !.kept = FALSE, !.stopped = FALSE]
    /\ UNCHANGED <<slot_suffix, system, active, cfg, tmp, hal, complete, calls, boots>>

\* A command fails.  The vendor service runs the script under sh -e, which ends it
\* there; recovery runs it without.
Stops(command) ==
    /\ Fails(command) /\ system = "normal"
    /\ script' = [script EXCEPT !.pc = "exited"]
    /\ history' = [history EXCEPT !.stopped = TRUE]

\* klog, setprop and exit.
Report(result) ==
    \/ /\ script' = [script EXCEPT !.pc = "exited", !.result = result]
       /\ complete' = TRUE
       /\ UNCHANGED history
    \/ Stops("klog") /\ UNCHANGED complete

\* Is there a writable configuration file?
ScriptCheck ==
    /\ script.pc = "check"
    /\ \/ script' = [script EXCEPT !.pc = "pass1"] /\ UNCHANGED <<complete, history>>
       \/ Fails("unwritable") /\ Report("error")
    /\ UNCHANGED <<slot_suffix, system, active, cfg, tmp, hal, calls, boots>>

\* Mutant of ScriptOpen: the copy goes to the file itself.
ScriptOpenInPlace(pc, loop, end) ==
    /\ script.pc = pc
    /\ tmp' = Empty /\ cfg' = Empty
    /\ script' = [script EXCEPT !.pc = loop, !.pos = 0, !.found = FALSE, !.printed = TRUE]
    /\ history' = [history EXCEPT !.spoiled = FALSE, !.kept = FALSE]
    /\ UNCHANGED <<slot_suffix, system, active, hal, complete, calls, boots>>

\* A pass opens the file, and $CFG_PATH.tmp, which that truncates.  A loop that fails
\* is not followed by mv but by what comes after it.
ScriptOpen(pc, loop, end) ==
    /\ script.pc = pc
    /\ \/ /\ tmp' = Empty
          /\ script' = [script EXCEPT !.pc = loop, !.pos = 0, !.found = FALSE,
                                      !.printed = TRUE]
       \/ /\ Fails("loop") /\ UNCHANGED tmp
          /\ script' = [script EXCEPT !.pc = end, !.found = FALSE]
    /\ history' = [history EXCEPT !.spoiled = FALSE, !.kept = FALSE]
    /\ UNCHANGED <<slot_suffix, system, active, cfg, hal, complete, calls, boots>>

\* What is left to be read of the file as it is now, and what its next line has.
Unread == {i \in DOMAIN cfg : LineOf[i] > script.pos}
NextLine == {i \in Unread : \A j \in Unread : LineOf[i] <= LineOf[j]}

\* Mutant of Edited: the line is printed as it was read.
EditedNot(key, i) == cfg[i]

\* What follows a text or key in the line that is printed.
Edited(key, i) == IF i = key THEN script.new_mode ELSE cfg[i]

\* A line is read, edited and printed.  When printf fails the loop goes on.
ScriptLine(loop, key) ==
    /\ script.pc = loop /\ Unread # {}
    /\ \E i \in NextLine, printed \in {TRUE} \cup (IF Fails("print") THEN {FALSE} ELSE {}) :
          /\ script' = [script EXCEPT !.pos = LineOf[i], !.printed = printed,
                                      !.found = @ \/ key \in NextLine]
          /\ IF printed
             THEN /\ tmp' = [j \in DOMAIN tmp \cup NextLine |->
                                IF j \in NextLine THEN Edited(key, j) ELSE tmp[j]]
                  /\ UNCHANGED history
             ELSE /\ UNCHANGED tmp
                  /\ history' = [history EXCEPT !.spoiled = TRUE]
    /\ UNCHANGED <<slot_suffix, system, active, cfg, hal, complete, calls, boots>>

\* There is nothing left to read.  The loop's status is that of the last printf.
ScriptEndOfFile(loop, mv, end) ==
    /\ script.pc = loop /\ Unread = {}
    /\ script' = [script EXCEPT !.pc = IF script.printed THEN mv ELSE end]
    /\ UNCHANGED <<slot_suffix, system, active, cfg, tmp, hal, complete, calls, boots,
                   history>>

\* mv, the last command of its list.  A HAL that has yet to truncate the file holds an
\* older content of it.
ScriptMove(pc, end) ==
    /\ script.pc = pc
    /\ \/ /\ cfg' = tmp /\ tmp' = Empty
          /\ hal' = [hal EXCEPT !.attached = FALSE]
          /\ script' = [script EXCEPT !.pc = end]
          /\ history' = [history EXCEPT
                           !.kept = hal.pc # "truncate",
                           !.good = @ /\ (hal.pc = "idle" => ~history.spoiled)]
       \/ Stops("mv") /\ UNCHANGED <<cfg, tmp, hal>>
       \/ /\ Fails("mv") /\ system = "recovery" /\ UNCHANGED <<cfg, tmp, hal, history>>
          /\ script' = [script EXCEPT !.pc = end]
    /\ UNCHANGED <<slot_suffix, system, active, complete, calls, boots>>

\* Mutant of ScriptFirstEnd: a file without androidboot.mode is given up.
ScriptFirstEndSilent ==
    /\ script.pc = "end1"
    /\ IF script.found
       THEN Report("androidboot.mode")
       ELSE script' = [script EXCEPT !.pc = "exited"] /\ UNCHANGED <<complete, history>>
    /\ UNCHANGED <<slot_suffix, system, active, cfg, tmp, hal, calls, boots>>

\* Without androidboot.mode the second pass follows, after a notice.
ScriptFirstEnd ==
    /\ script.pc = "end1"
    /\ \/ script.found /\ Report("androidboot.mode")
       \/ /\ ~script.found /\ UNCHANGED complete
          /\ \/ script' = [script EXCEPT !.pc = "pass2"] /\ UNCHANGED history
             \/ Stops("klog")
    /\ UNCHANGED <<slot_suffix, system, active, cfg, tmp, hal, calls, boots>>

ScriptSecondEnd ==
    /\ script.pc = "end2"
    /\ Report(IF script.found THEN "MODE" ELSE "error")
    /\ UNCHANGED <<slot_suffix, system, active, cfg, tmp, hal, calls, boots>>

Script == \/ ScriptCheck
          \/ ScriptOpen("pass1", "loop1", "end1")
          \/ ScriptLine("loop1", "androidboot.mode")
          \/ ScriptEndOfFile("loop1", "mv1", "end1")
          \/ ScriptMove("mv1", "end1")
          \/ ScriptFirstEnd
          \/ ScriptOpen("pass2", "loop2", "end2")
          \/ ScriptLine("loop2", "MODE")
          \/ ScriptEndOfFile("loop2", "mv2", "end2")
          \/ ScriptMove("mv2", "end2")
          \/ ScriptSecondEnd

-----------------------------------------------------------------------------
(* Restarts                                                                 *)

\* The mode the boot loader passes on.
BootMode(c) ==
    IF "androidboot.mode" \in DOMAIN c \cap Keys THEN c["androidboot.mode"]
    ELSE IF "MODE" \in DOMAIN c \cap Keys THEN c["MODE"]
    ELSE "normal"

\* The device restarts, because it was shut down or because power was lost, with
\* the slot and in the mode that the file names.  Recovery begins with the script
\* and no reason.  Nothing starts from a file that has lost one of the texts.
Restart ==
    /\ boots < MaxBoots /\ Texts \subseteq DOMAIN cfg
    /\ boots' = boots + 1 /\ calls' = 0
    /\ slot_suffix' = cfg["androidboot.slot_suffix="]
    /\ system' = BootMode(cfg)
    /\ hal' = HalIdle(slot_suffix', "none")
    /\ script' = ScriptAt(IF system' = "recovery" THEN "check" ELSE "idle",
                          NewMode(""), FALSE)
    /\ complete' = FALSE
    /\ history' = [history EXCEPT !.kept = FALSE, !.good = FALSE, !.stopped = FALSE]
    /\ UNCHANGED <<active, cfg, tmp>>

Init ==
    /\ slot_suffix \in Suffixes
    /\ system = "normal"
    /\ active = slot_suffix
    /\ cfg = [i \in Items |-> IF i \in Texts THEN slot_suffix ELSE "normal"]
    /\ tmp = Empty
    /\ hal = HalIdle(slot_suffix, "none")
    /\ script = ScriptAt("idle", "normal", FALSE)
    /\ complete = FALSE
    /\ calls = 0 /\ boots = 0
    /\ history = [torn |-> FALSE, spoiled |-> FALSE, kept |-> FALSE, good |-> FALSE,
                  stopped |-> FALSE]

Next == \/ Hal \/ Script \/ Restart
        \/ \E reason \in Reasons : ShutdownRequested(reason)

Spec == Init /\ [][Next]_vars

\* init runs the script to its end.
FairSpec == Spec /\ WF_vars(Script)

-----------------------------------------------------------------------------
(* Properties                                                               *)

\* Some of the texts with a suffix and some of the keys with a mode.
IsFile(f) ==
    /\ DOMAIN f \subseteq Items
    /\ \A t \in DOMAIN f \cap Texts : f[t] \in Suffixes
    /\ \A k \in DOMAIN f \cap Keys : f[k] \in Modes

\* Every variable holds a value of its type.
TypeOK ==
    /\ slot_suffix \in Suffixes /\ active \in Suffixes /\ system \in Modes
    /\ IsFile(cfg) /\ IsFile(tmp) /\ IsFile(hal.content)
    /\ hal.pc \in {"idle", "read", "truncate", "write"} /\ hal.slot \in Suffixes
    /\ hal.attached \in BOOLEAN /\ hal.result \in {"none", "failed", "success"}
    /\ script \in [pc: {"idle", "check", "pass1", "loop1", "mv1", "end1", "pass2", "loop2",
                        "mv2", "end2", "exited"},
                   new_mode: Modes, shutdown: BOOLEAN, pos: 0..Lines, found: BOOLEAN,
                   printed: BOOLEAN, result: {"none", "error", "androidboot.mode", "MODE"}]
    /\ complete \in BOOLEAN
    /\ calls \in 0..CallsPerBoot /\ boots \in 0..MaxBoots
    /\ history \in [torn: BOOLEAN, spoiled: BOOLEAN, kept: BOOLEAN, good: BOOLEAN,
                    stopped: BOOLEAN]

\* Whatever is interrupted or fails, and however the HAL's and the script's steps
\* interleave, the file names one slot: a kernel is never started with the other slot's
\* initrd.  The one exception is a file that the HAL wrote while the script was reading
\* it: the script's copy may then begin with one slot and end with the other.
OneSlot == ~history.torn => \A t, u \in Texts \cap DOMAIN cfg : cfg[t] = cfg[u]

\* setActiveBootSlot answers "Success" only when the device will start from that slot,
\* and misc says so too, provided that the file that it read named the running slot or
\* the new one, that the write did not fail, and that no copy which the script began
\* before the write has been moved over it.
SuccessSwitches ==
    hal.result = "success" /\ history.good =>
        /\ active = hal.slot
        /\ \A t \in Texts : t \in DOMAIN cfg /\ cfg[t] = hal.slot

\* "Success: Updated androidboot.mode to $new_mode", or MODE: whatever the file says of
\* that key is then the new mode, and stays so until the next run of the script, through
\* later calls of the HAL and writes that fail; provided that the copy was moved (it is
\* not when the last printf fails, or mv in recovery), and that the HAL had not read the
\* file before and not yet truncated it.
ModeIsSet ==
    \A k \in Keys : script.result = k /\ history.kept /\ k \in DOMAIN cfg =>
        cfg[k] = script.new_mode

\* The file loses lines only by the HAL's own truncation.  Power lost at any step of the
\* script leaves the old file or the new one, and what the script moves over it has
\* all of its lines, unless the HAL truncated or wrote it since the script opened it or
\* a printf failed.
OnlyHalTruncates ==
    [][\/ DOMAIN cfg \subseteq DOMAIN cfg'
       \/ hal.pc = "truncate"
       \/ script.pc \in {"mv1", "mv2"} /\ history.spoiled]_vars

\* init waits for the property at every shutdown: the script, once started, comes to its
\* end and sets it, unless the device is restarted before, or klog or mv fails and sh -e
\* ends it; then init waits in vain.
ScriptReports == script.pc = "check" ~> complete \/ script.pc = "idle" \/ history.stopped
=============================================================================
