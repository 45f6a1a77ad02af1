-------------------------- MODULE BootConfigProofs --------------------------
(***************************************************************************)
(* Proofs about BootConfig: type correctness, the file that never names    *)
(* two slots unless the HAL wrote it while the script read it, what the    *)
(* answers of the HAL and of the script are worth, and the lines that only *)
(* the HAL's truncation loses.                                             *)
(***************************************************************************)
EXTENDS BootConfig, TLAPS

-----------------------------------------------------------------------------
(* Files                                                                    *)

LEMMA EmptyFile == DOMAIN Empty = {} /\ IsFile(Empty)
  BY DEF Empty, IsFile

LEMMA TextsAndKeys ==
    /\ Texts \subseteq Items /\ Keys \subseteq Items /\ Texts \cap Keys = {}
    /\ \A i \in Items : LineOf[i] \in 1..Lines
    /\ "androidboot.mode" \notin Texts /\ "MODE" \notin Texts
  BY BootAssumption DEF Items, Texts

LEMMA ReplacedFile ==
    ASSUME NEW c, IsFile(c), NEW new \in Suffixes
    PROVE  DOMAIN FindAndReplace(c, new) = DOMAIN c /\ IsFile(FindAndReplace(c, new))
  <1> DEFINE f == FindAndReplace(c, new)
  <1>1. DOMAIN f = DOMAIN c
    BY DEF FindAndReplace
  <1>2. \A i \in DOMAIN c : f[i] = IF i \in Texts /\ c[i] = slot_suffix THEN new ELSE c[i]
    BY DEF FindAndReplace
  <1> HIDE DEF f
  <1>3. \A t \in DOMAIN f \cap Texts : f[t] \in Suffixes
    BY <1>1, <1>2 DEF IsFile
  <1>4. \A k \in DOMAIN f \cap Keys : f[k] \in Modes
    BY <1>1, <1>2, TextsAndKeys DEF IsFile
  <1>5. IsFile(f)
    BY <1>1, <1>3, <1>4 DEF IsFile
  <1> QED
    BY <1>1, <1>5 DEF f

LEMMA FirstLinesFile ==
    ASSUME NEW c, IsFile(c), NEW n
    PROVE  /\ IsFile(FirstLines(c, n)) /\ DOMAIN FirstLines(c, n) \subseteq DOMAIN c
           /\ \A i \in DOMAIN FirstLines(c, n) : FirstLines(c, n)[i] = c[i]
           /\ n = Lines => DOMAIN FirstLines(c, n) = DOMAIN c
  <1>1. /\ DOMAIN FirstLines(c, n) = {j \in DOMAIN c : LineOf[j] <= n}
        /\ \A i \in DOMAIN FirstLines(c, n) : FirstLines(c, n)[i] = c[i]
    BY DEF FirstLines
  <1>2. DOMAIN FirstLines(c, n) \subseteq DOMAIN c
    BY <1>1
  <1>3. IsFile(FirstLines(c, n))
    BY <1>1, <1>2 DEF IsFile
  <1>4. ASSUME n = Lines, NEW j \in DOMAIN c PROVE LineOf[j] <= n
    <2>1. LineOf[j] \in 1..Lines /\ Lines \in Nat
      BY TextsAndKeys, BootAssumption DEF IsFile
    <2> QED
      BY <1>4, <2>1
  <1> QED
    BY <1>1, <1>2, <1>3, <1>4

-----------------------------------------------------------------------------
(* Types                                                                    *)

HalRecord ==
    hal = [pc |-> hal.pc, slot |-> hal.slot, content |-> hal.content,
           attached |-> hal.attached, result |-> hal.result]

TypeInv == TypeOK /\ HalRecord

\* What a HAL at rest is.
LEMMA IdleHal ==
    ASSUME NEW slot, NEW result, hal' = HalIdle(slot, result)
    PROVE  /\ hal'.pc = "idle" /\ hal'.slot = slot /\ hal'.content = Empty
           /\ hal'.attached = FALSE /\ hal'.result = result /\ HalRecord'
  BY DEF HalIdle, HalRecord

LEMMA TypeInit == Init => TypeInv
  <1> SUFFICES ASSUME Init PROVE TypeInv
    OBVIOUS
  <1>1. IsFile(cfg)
    BY TextsAndKeys DEF Init, IsFile, Modes
  <1>2. /\ hal.pc = "idle" /\ hal.slot = slot_suffix /\ hal.content = Empty
        /\ hal.attached = FALSE /\ hal.result = "none" /\ HalRecord
    BY DEF Init, HalIdle, HalRecord
  <1>3. 0 \in 0..Lines /\ 0 \in 0..CallsPerBoot /\ 0 \in 0..MaxBoots
    BY BootAssumption
  <1> QED
    BY <1>1, <1>2, <1>3, EmptyFile DEF Init, TypeInv, TypeOK, ScriptAt, Modes

\* What the HAL's steps do, field by field.
LEMMA CallEffect ==
    ASSUME TypeInv, NEW slot \in Suffixes, SetActiveBootSlot(slot)
    PROVE  /\ UNCHANGED <<slot_suffix, system, cfg, tmp, script, complete, boots, history>>
           /\ hal.pc = "idle" /\ calls' \in 0..CallsPerBoot /\ active' \in Suffixes
           /\ hal'.slot = slot /\ hal'.content = Empty /\ hal'.attached = FALSE /\ HalRecord'
           /\ \/ hal'.pc = "read" /\ hal'.result = "none" /\ active' = slot
              \/ hal'.pc = "idle" /\ hal'.result = "failed"
  <1>1. calls' \in 0..CallsPerBoot
    BY BootAssumption DEF SetActiveBootSlot, TypeInv, TypeOK
  <1>2. CASE active' = slot /\ hal' = [HalIdle(slot, "none") EXCEPT !.pc = "read"]
    <2>1. /\ hal'.pc = "read" /\ hal'.slot = slot /\ hal'.content = Empty
          /\ hal'.attached = FALSE /\ hal'.result = "none" /\ HalRecord'
      BY <1>2 DEF HalIdle, HalRecord
    <2> QED
      BY <1>1, <1>2, <2>1 DEF SetActiveBootSlot
  <1>3. CASE UNCHANGED active /\ hal' = HalIdle(slot, "failed")
    <2>1. /\ hal'.pc = "idle" /\ hal'.slot = slot /\ hal'.content = Empty
          /\ hal'.attached = FALSE /\ hal'.result = "failed" /\ HalRecord'
      BY <1>3, IdleHal
    <2>2. active' \in Suffixes
      BY <1>3 DEF TypeInv, TypeOK
    <2> QED
      BY <1>1, <2>1, <2>2 DEF SetActiveBootSlot
  <1> QED
    BY <1>2, <1>3 DEF SetActiveBootSlot

LEMMA ReadEffect ==
    ASSUME TypeInv, SetBootSlotRead
    PROVE  /\ UNCHANGED <<slot_suffix, system, active, cfg, tmp, script, complete, calls, boots>>
           /\ hal.pc = "read" /\ hal'.slot = hal.slot /\ HalRecord'
           /\ \/ /\ hal'.pc = "truncate" /\ hal'.content = FindAndReplace(cfg, hal.slot)
                 /\ hal'.attached = hal.attached /\ hal'.result = hal.result
              \/ /\ hal'.pc = "idle" /\ hal'.result = "failed" /\ hal'.content = Empty
                 /\ hal'.attached = FALSE
           /\ history'.torn = history.torn /\ history'.spoiled = history.spoiled
           /\ history'.kept = history.kept /\ history'.stopped = history.stopped
           /\ history'.good = Switchable(cfg, hal.slot)
           /\ history' = [history EXCEPT !.good = Switchable(cfg, hal.slot)]
  <1>1. /\ history'.torn = history.torn /\ history'.spoiled = history.spoiled
        /\ history'.kept = history.kept /\ history'.stopped = history.stopped
        /\ history'.good = Switchable(cfg, hal.slot)
    BY DEF SetBootSlotRead, TypeInv, TypeOK
  <1>2. CASE hal' = [hal EXCEPT !.pc = "truncate", !.content = FindAndReplace(cfg, hal.slot)]
    <2>1. hal' = [pc |-> "truncate", slot |-> hal.slot,
                  content |-> FindAndReplace(cfg, hal.slot), attached |-> hal.attached,
                  result |-> hal.result]
      BY <1>2, Zenon DEF TypeInv, HalRecord
    <2>2. /\ hal'.pc = "truncate" /\ hal'.slot = hal.slot /\ hal'.attached = hal.attached
          /\ hal'.content = FindAndReplace(cfg, hal.slot) /\ hal'.result = hal.result
          /\ HalRecord'
      BY <2>1 DEF HalRecord
    <2> QED
      BY <1>1, <2>2 DEF SetBootSlotRead
  <1>3. CASE hal' = HalIdle(hal.slot, "failed")
    BY <1>1, <1>3, IdleHal DEF SetBootSlotRead
  <1> QED
    BY <1>2, <1>3 DEF SetBootSlotRead

LEMMA TruncateEffect ==
    ASSUME TypeInv, SetBootSlotTruncate
    PROVE  /\ UNCHANGED <<slot_suffix, system, active, tmp, script, complete, calls, boots>>
           /\ hal.pc = "truncate" /\ hal'.slot = hal.slot /\ HalRecord'
           /\ history'.torn = history.torn /\ history'.kept = history.kept
           /\ history'.good = history.good /\ history'.stopped = history.stopped
           /\ \/ /\ cfg' = Empty /\ hal'.pc = "write" /\ hal'.content = hal.content
                 /\ hal'.attached = TRUE /\ hal'.result = hal.result /\ history'.spoiled = TRUE
              \/ /\ UNCHANGED <<cfg, history>> /\ hal'.pc = "idle" /\ hal'.result = "failed"
                 /\ hal'.content = Empty /\ hal'.attached = FALSE
           /\ history' \in [torn: BOOLEAN, spoiled: BOOLEAN, kept: BOOLEAN, good: BOOLEAN,
                            stopped: BOOLEAN]
  <1>1. CASE /\ cfg' = Empty /\ hal' = [hal EXCEPT !.pc = "write", !.attached = TRUE]
             /\ history' = [history EXCEPT !.spoiled = TRUE]
    <2>1. hal' = [pc |-> "write", slot |-> hal.slot, content |-> hal.content,
                  attached |-> TRUE, result |-> hal.result]
      BY <1>1, Zenon DEF TypeInv, HalRecord
    <2>2. /\ hal'.pc = "write" /\ hal'.slot = hal.slot /\ hal'.attached = TRUE
          /\ hal'.content = hal.content /\ hal'.result = hal.result /\ HalRecord'
      BY <2>1 DEF HalRecord
    <2>3. /\ history'.torn = history.torn /\ history'.kept = history.kept
          /\ history'.good = history.good /\ history'.spoiled = TRUE
          /\ history'.stopped = history.stopped
          /\ history' \in [torn: BOOLEAN, spoiled: BOOLEAN, kept: BOOLEAN, good: BOOLEAN,
                           stopped: BOOLEAN]
      BY <1>1 DEF TypeInv, TypeOK
    <2> QED
      BY <1>1, <2>2, <2>3 DEF SetBootSlotTruncate
  <1>2. CASE UNCHANGED <<cfg, history>> /\ hal' = HalIdle(hal.slot, "failed")
    <2>1. /\ hal'.pc = "idle" /\ hal'.slot = hal.slot /\ hal'.content = Empty
          /\ hal'.attached = FALSE /\ hal'.result = "failed" /\ HalRecord'
      BY <1>2, IdleHal
    <2>2. history' = history /\ history' \in [torn: BOOLEAN, spoiled: BOOLEAN, kept: BOOLEAN,
                                              good: BOOLEAN, stopped: BOOLEAN]
      BY <1>2 DEF TypeInv, TypeOK
    <2> QED
      BY <1>2, <2>1, <2>2 DEF SetBootSlotTruncate
  <1> QED
    BY <1>1, <1>2 DEF SetBootSlotTruncate

LEMMA WriteEffect ==
    ASSUME TypeInv, SetBootSlotWrite
    PROVE  \E n \in 0..Lines :
              /\ UNCHANGED <<slot_suffix, system, active, tmp, script, complete, calls, boots>>
              /\ hal.pc = "write" /\ hal'.slot = hal.slot /\ HalRecord'
              /\ hal'.pc = "idle" /\ hal'.content = Empty /\ hal'.attached = FALSE
              /\ hal'.result = "success"
              /\ cfg' = IF hal.attached THEN FirstLines(hal.content, n) ELSE cfg
              /\ history'.kept = history.kept
              /\ history'.torn = (history.torn \/ (hal.attached /\ Reading))
              /\ history'.spoiled = (history.spoiled \/ hal.attached)
              /\ history'.good = (history.good /\ hal.attached /\ n = Lines)
              /\ history' \in [torn: BOOLEAN, spoiled: BOOLEAN, kept: BOOLEAN, good: BOOLEAN,
                               stopped: BOOLEAN]
  <1>1. PICK n \in 0..Lines :
          /\ cfg' = IF hal.attached THEN FirstLines(hal.content, n) ELSE cfg
          /\ history' = [history EXCEPT !.torn = @ \/ (hal.attached /\ Reading),
                                        !.spoiled = @ \/ hal.attached,
                                        !.good = @ /\ hal.attached /\ n = Lines]
    BY DEF SetBootSlotWrite
  <1>2. history \in [torn: BOOLEAN, spoiled: BOOLEAN, kept: BOOLEAN, good: BOOLEAN,
                     stopped: BOOLEAN] /\ hal.attached \in BOOLEAN
    BY DEF TypeInv, TypeOK
  <1> DEFINE torn == history.torn \/ (hal.attached /\ Reading)
             spoiled == history.spoiled \/ hal.attached
             good == history.good /\ hal.attached /\ n = Lines
  <1>3. torn \in BOOLEAN /\ spoiled \in BOOLEAN /\ good \in BOOLEAN
    BY <1>2
  <1>4. history' = [history EXCEPT !.torn = torn, !.spoiled = spoiled, !.good = good]
    BY <1>1
  <1> HIDE DEF torn, spoiled, good
  <1>5. /\ history'.kept = history.kept /\ history'.torn = torn
        /\ history'.spoiled = spoiled /\ history'.good = good
        /\ history' \in [torn: BOOLEAN, spoiled: BOOLEAN, kept: BOOLEAN, good: BOOLEAN,
                         stopped: BOOLEAN]
    BY <1>2, <1>3, <1>4
  <1>6. hal' = HalIdle(hal.slot, "success")
    BY DEF SetBootSlotWrite
  <1>7. /\ hal'.pc = "idle" /\ hal'.slot = hal.slot /\ hal'.content = Empty
        /\ hal'.attached = FALSE /\ hal'.result = "success" /\ HalRecord'
    BY <1>6, IdleHal
  <1>8. /\ UNCHANGED <<slot_suffix, system, active, tmp, script, complete, calls, boots>>
        /\ hal.pc = "write"
    BY DEF SetBootSlotWrite
  <1> QED
    BY <1>1, <1>5, <1>7, <1>8 DEF torn, spoiled, good

\* The HAL's steps keep the types.
LEMMA TypeHal ==
    ASSUME TypeInv, Hal
    PROVE  TypeInv'
  <1>1. ASSUME NEW slot \in Suffixes, SetActiveBootSlot(slot) PROVE TypeInv'
    BY <1>1, CallEffect, EmptyFile DEF TypeInv, TypeOK
  <1>2. CASE SetBootSlotRead
    <2>1. IsFile(FindAndReplace(cfg, hal.slot)) /\ IsFile(cfg')
      BY <1>2, ReadEffect, ReplacedFile DEF TypeInv, TypeOK
    <2>2. history' \in [torn: BOOLEAN, spoiled: BOOLEAN, kept: BOOLEAN, good: BOOLEAN,
                        stopped: BOOLEAN]
      <3>1. Switchable(cfg, hal.slot) \in BOOLEAN
        BY DEF Switchable
      <3> QED
        BY <1>2, <3>1, ReadEffect DEF TypeInv, TypeOK
    <2> QED
      BY <1>2, <2>1, <2>2, ReadEffect, EmptyFile DEF TypeInv, TypeOK
  <1>3. CASE SetBootSlotTruncate
    BY <1>3, TruncateEffect, EmptyFile DEF TypeInv, TypeOK
  <1>4. CASE SetBootSlotWrite
    <2>1. PICK n \in 0..Lines :
              cfg' = IF hal.attached THEN FirstLines(hal.content, n) ELSE cfg
      BY <1>4, WriteEffect
    <2>2. IsFile(FirstLines(hal.content, n)) /\ IsFile(cfg)
      BY FirstLinesFile DEF TypeInv, TypeOK
    <2>3. IsFile(cfg')
      BY <2>1, <2>2
    <2> QED
      BY <1>4, <2>3, WriteEffect, EmptyFile DEF TypeInv, TypeOK
  <1> QED
    BY <1>1, <1>2, <1>3, <1>4 DEF Hal

-----------------------------------------------------------------------------
(* The script's steps                                                       *)

Copies == {"loop1", "mv1", "loop2", "mv2"}
ScriptPcs == {"idle", "check", "pass1", "loop1", "mv1", "end1", "pass2", "loop2", "mv2",
              "end2", "exited"}
ScriptType ==
    [pc: ScriptPcs, new_mode: Modes, shutdown: BOOLEAN, pos: 0..Lines, found: BOOLEAN,
     printed: BOOLEAN, result: {"none", "error", "androidboot.mode", "MODE"}]
HistoryType ==
    [torn: BOOLEAN, spoiled: BOOLEAN, kept: BOOLEAN, good: BOOLEAN, stopped: BOOLEAN]

LEMMA Types == TypeInv => script \in ScriptType /\ history \in HistoryType
  BY DEF TypeInv, TypeOK, ScriptType, ScriptPcs, HistoryType

\* A copy that is under way is not kept yet, and a result is the script's last word.
BusyInv ==
    /\ script.pc \in Copies => ~history.kept
    /\ script.result # "none" => script.pc = "exited"

\* The key that a pass looks for, by where the script is.
KeyAt(pc) == IF pc \in {"loop1", "mv1", "end1"} THEN "androidboot.mode" ELSE "MODE"

\* A step that reads and writes no file.
Control ==
    /\ UNCHANGED <<slot_suffix, active, cfg, tmp, hal>>
    /\ script' \in ScriptType /\ history' \in HistoryType
    /\ history'.torn = history.torn /\ history'.good = history.good
    /\ script'.pc \notin {"loop1", "loop2"}
    /\ script'.pc \in {"mv1", "mv2"} =>
          /\ script.pc = IF script'.pc = "mv1" THEN "loop1" ELSE "loop2"
          /\ Unread = {} /\ script'.new_mode = script.new_mode
          /\ history'.spoiled = history.spoiled
    /\ script'.pc \in Copies \cup {"end1", "end2"} => ~history'.kept
    /\ script'.result # "none" => script'.pc = "exited"
    /\ \A k \in {"androidboot.mode", "MODE"} : script'.result = k /\ history'.kept =>
          /\ history.kept /\ script'.new_mode = script.new_mode
          /\ script.pc \in {"end1", "end2"} /\ KeyAt(script.pc) = k

\* A pass begins.
Opened ==
    /\ UNCHANGED <<slot_suffix, active, cfg, hal>>
    /\ script' \in ScriptType /\ history' \in HistoryType
    /\ history'.torn = history.torn /\ history'.good = history.good
    /\ tmp' = Empty /\ script'.pc \in {"loop1", "loop2"} /\ script'.pos = 0
    /\ script'.result = "none" /\ ~history'.kept

\* A line is copied, or its printf fails.
Copied ==
    /\ UNCHANGED <<slot_suffix, active, cfg, hal>>
    /\ script.pc \in {"loop1", "loop2"} /\ script'.pc = script.pc
    /\ script' \in ScriptType /\ history' \in HistoryType
    /\ history'.torn = history.torn /\ history'.good = history.good
    /\ history'.kept = history.kept
    /\ script'.new_mode = script.new_mode /\ script'.result = script.result
    /\ \E i \in NextLine : script'.pos = LineOf[i]
    /\ \/ /\ DOMAIN tmp' = DOMAIN tmp \cup NextLine
          /\ \A j \in DOMAIN tmp' : tmp'[j] = IF j \in NextLine THEN Edited(KeyAt(script.pc), j)
                                              ELSE tmp[j]
          /\ history'.spoiled = history.spoiled
       \/ tmp' = tmp /\ history'.spoiled = TRUE

\* The copy is moved over the file.
Moved ==
    /\ UNCHANGED <<slot_suffix, active>>
    /\ script.pc \in {"mv1", "mv2"}
    /\ script'.pc = IF script.pc = "mv1" THEN "end1" ELSE "end2"
    /\ script' \in ScriptType /\ history' \in HistoryType
    /\ script'.new_mode = script.new_mode /\ script'.result = script.result
    /\ cfg' = tmp /\ tmp' = Empty
    /\ hal'.pc = hal.pc /\ hal'.slot = hal.slot /\ hal'.content = hal.content
    /\ hal'.result = hal.result /\ hal'.attached = FALSE /\ HalRecord'
    /\ history'.torn = history.torn /\ history'.kept = (hal.pc # "truncate")
    /\ history'.good = (history.good /\ (hal.pc = "idle" => ~history.spoiled))

\* sh -e ends the script.
LEMMA StopsControl ==
    ASSUME TypeInv, BusyInv, NEW c, Stops(c), script.pc # "exited",
           UNCHANGED <<slot_suffix, active, cfg, tmp, hal>>
    PROVE  Control
  <1>1. script \in ScriptType /\ history \in HistoryType
    BY Types
  <1>2. script' = [script EXCEPT !.pc = "exited"] /\ history' = [history EXCEPT !.stopped = TRUE]
    BY DEF Stops
  <1>3. /\ script' \in ScriptType /\ script'.pc = "exited" /\ script'.result = script.result
        /\ script'.new_mode = script.new_mode
    BY <1>1, <1>2 DEF ScriptType, ScriptPcs
  <1>4. /\ history' \in HistoryType /\ history'.torn = history.torn
        /\ history'.good = history.good /\ history'.kept = history.kept
    BY <1>1, <1>2 DEF HistoryType
  <1>5. script'.result = "none"
    BY <1>3 DEF BusyInv
  <1> QED
    BY <1>3, <1>4, <1>5 DEF Control, Copies

LEMMA ReportControl ==
    ASSUME TypeInv, BusyInv, NEW result \in {"error", "androidboot.mode", "MODE"},
           script.pc \in {"check", "end1", "end2"}, Report(result),
           result # "error" => script.pc \in {"end1", "end2"} /\ KeyAt(script.pc) = result,
           UNCHANGED <<slot_suffix, active, cfg, tmp, hal>>
    PROVE  Control
  <1>1. CASE Stops("klog")
    BY <1>1, StopsControl
  <1>2. CASE script' = [script EXCEPT !.pc = "exited", !.result = result] /\ UNCHANGED history
    <2>1. script \in ScriptType /\ history \in HistoryType
      BY Types
    <2>2. /\ script' \in ScriptType /\ script'.pc = "exited" /\ script'.result = result
          /\ script'.new_mode = script.new_mode
      BY <1>2, <2>1 DEF ScriptType, ScriptPcs
    <2> QED
      BY <1>2, <2>1, <2>2 DEF Control, Copies
  <1> QED
    BY <1>1, <1>2 DEF Report

LEMMA GoesOn ==
    ASSUME TypeInv, BusyInv, NEW pc \in {"pass1", "pass2", "end1", "end2"},
           script' = [script EXCEPT !.pc = pc], script.pc # "exited",
           pc \in {"end1", "end2"} => ~history.kept,
           UNCHANGED <<slot_suffix, active, cfg, tmp, hal, history>>
    PROVE  Control
  <1>1. script \in ScriptType /\ history \in HistoryType
    BY Types
  <1>2. /\ script' \in ScriptType /\ script'.pc = pc /\ script'.result = script.result
        /\ script'.new_mode = script.new_mode
    BY <1>1 DEF ScriptType, ScriptPcs
  <1>3. script'.result = "none"
    BY <1>2 DEF BusyInv
  <1> QED
    BY <1>1, <1>2, <1>3 DEF Control, Copies

LEMMA RequestEffect ==
    ASSUME TypeInv, BusyInv, NEW reason, ShutdownRequested(reason)
    PROVE  Control
  <1>1. history \in HistoryType
    BY Types
  <1>2. NewMode(reason) \in Modes
    BY DEF NewMode, Modes
  <1>3. script' = ScriptAt("check", NewMode(reason), TRUE)
    BY DEF ShutdownRequested
  <1>4. script' \in ScriptType /\ script'.pc = "check" /\ script'.result = "none"
    BY <1>2, <1>3, BootAssumption DEF ScriptAt, ScriptType, ScriptPcs
  <1>5. history' = [history EXCEPT !.kept = FALSE, !.stopped = FALSE]
    BY DEF ShutdownRequested
  <1>6. /\ history' \in HistoryType /\ history'.torn = history.torn
        /\ history'.good = history.good /\ history'.kept = FALSE
    BY <1>1, <1>5 DEF HistoryType
  <1> QED
    BY <1>4, <1>6 DEF ShutdownRequested, Control, Copies

LEMMA CheckEffect ==
    ASSUME TypeInv, BusyInv, ScriptCheck
    PROVE  Control
  <1>1. UNCHANGED <<slot_suffix, active, cfg, tmp, hal>> /\ script.pc = "check"
    BY DEF ScriptCheck
  <1>2. CASE script' = [script EXCEPT !.pc = "pass1"] /\ UNCHANGED history
    BY <1>1, <1>2, GoesOn
  <1>3. CASE Report("error")
    BY <1>1, <1>3, ReportControl
  <1> QED
    BY <1>2, <1>3 DEF ScriptCheck

LEMMA OpenEffect ==
    ASSUME TypeInv, BusyInv, NEW pc \in {"pass1", "pass2"}, NEW loop \in {"loop1", "loop2"},
           NEW end \in {"end1", "end2"}, ScriptOpen(pc, loop, end)
    PROVE  Control \/ Opened
  <1>1. script \in ScriptType /\ history \in HistoryType /\ script.result = "none"
    BY Types DEF ScriptOpen, BusyInv
  <1>2. /\ UNCHANGED <<slot_suffix, active, cfg, hal>> /\ script.pc = pc
        /\ history' = [history EXCEPT !.spoiled = FALSE, !.kept = FALSE]
    BY DEF ScriptOpen
  <1>3. /\ history' \in HistoryType /\ history'.torn = history.torn
        /\ history'.good = history.good /\ history'.kept = FALSE
    BY <1>1, <1>2 DEF HistoryType
  <1>4. CASE /\ tmp' = Empty
             /\ script' = [script EXCEPT !.pc = loop, !.pos = 0, !.found = FALSE, !.printed = TRUE]
    <2>1. /\ script' \in ScriptType /\ script'.pc = loop /\ script'.pos = 0
          /\ script'.result = script.result
      <3>1. 0 \in 0..Lines
        BY BootAssumption
      <3> QED
        BY <1>1, <1>4, <3>1 DEF ScriptType, ScriptPcs
    <2> QED
      BY <1>1, <1>2, <1>3, <1>4, <2>1 DEF Opened
  <1>5. CASE UNCHANGED tmp /\ script' = [script EXCEPT !.pc = end, !.found = FALSE]
    <2>1. /\ script' \in ScriptType /\ script'.pc = end /\ script'.result = script.result
      BY <1>1, <1>5 DEF ScriptType, ScriptPcs
    <2> QED
      BY <1>1, <1>2, <1>3, <1>5, <2>1 DEF Control
  <1> QED
    BY <1>4, <1>5 DEF ScriptOpen

LEMMA LineEffect ==
    ASSUME TypeInv, BusyInv, NEW loop \in {"loop1", "loop2"}, ScriptLine(loop, KeyAt(loop))
    PROVE  Copied
  <1>1. script \in ScriptType /\ history \in HistoryType
    BY Types
  <1>2. PICK i \in NextLine, printed \in BOOLEAN :
          /\ script' = [script EXCEPT !.pos = LineOf[i], !.printed = printed,
                                      !.found = @ \/ KeyAt(loop) \in NextLine]
          /\ IF printed
             THEN /\ tmp' = [j \in DOMAIN tmp \cup NextLine |->
                                IF j \in NextLine THEN Edited(KeyAt(loop), j) ELSE tmp[j]]
                  /\ UNCHANGED history
             ELSE /\ UNCHANGED tmp
                  /\ history' = [history EXCEPT !.spoiled = TRUE]
    BY DEF ScriptLine
  <1>3. UNCHANGED <<slot_suffix, active, cfg, hal>> /\ script.pc = loop
    BY DEF ScriptLine
  <1>4. LineOf[i] \in 0..Lines
    <2>1. i \in Items
      BY DEF NextLine, Unread, TypeInv, TypeOK, IsFile
    <2> QED
      BY <2>1, TextsAndKeys, BootAssumption
  <1> DEFINE found == script.found \/ KeyAt(loop) \in NextLine
  <1>5. found \in BOOLEAN /\ script' = [script EXCEPT !.pos = LineOf[i], !.printed = printed,
                                                      !.found = found]
    BY <1>1, <1>2 DEF ScriptType
  <1> HIDE DEF found
  <1>6. /\ script' \in ScriptType /\ script'.pc = script.pc /\ script'.pos = LineOf[i]
        /\ script'.new_mode = script.new_mode /\ script'.result = script.result
    BY <1>1, <1>4, <1>5 DEF ScriptType
  <1>7. CASE printed
    <2>1. /\ UNCHANGED history
          /\ tmp' = [j \in DOMAIN tmp \cup NextLine |->
                        IF j \in NextLine THEN Edited(KeyAt(loop), j) ELSE tmp[j]]
      BY <1>2, <1>7
    <2>2. /\ DOMAIN tmp' = DOMAIN tmp \cup NextLine
          /\ \A j \in DOMAIN tmp' : tmp'[j] = IF j \in NextLine THEN Edited(KeyAt(loop), j)
                                              ELSE tmp[j]
      BY <2>1
    <2> QED
      BY <1>1, <1>3, <1>6, <2>1, <2>2 DEF Copied
  <1>8. CASE ~printed
    <2>1. UNCHANGED tmp /\ history' = [history EXCEPT !.spoiled = TRUE]
      BY <1>2, <1>8
    <2>2. /\ history' \in HistoryType /\ history'.torn = history.torn
          /\ history'.good = history.good /\ history'.kept = history.kept
          /\ history'.spoiled = TRUE
      BY <1>1, <2>1 DEF HistoryType
    <2> QED
      BY <1>3, <1>6, <2>1, <2>2 DEF Copied
  <1> QED
    BY <1>7, <1>8

LEMMA EndOfFileEffect ==
    ASSUME TypeInv, BusyInv, NEW loop \in {"loop1", "loop2"}, NEW mv, NEW end,
           ScriptEndOfFile(loop, mv, end),
           <<loop, mv, end>> \in {<<"loop1", "mv1", "end1">>, <<"loop2", "mv2", "end2">>}
    PROVE  Control
  <1>1. script \in ScriptType /\ history \in HistoryType /\ script.result = "none" /\ ~history.kept
    BY Types DEF ScriptEndOfFile, BusyInv, Copies
  <1>2. /\ UNCHANGED <<slot_suffix, active, cfg, tmp, hal, history>>
        /\ script.pc = loop /\ Unread = {}
    BY DEF ScriptEndOfFile
  <1>3. CASE script' = [script EXCEPT !.pc = end]
    <2>1. end \in {"end1", "end2"}
      OBVIOUS
    <2> QED
      BY <1>1, <1>2, <1>3, <2>1, GoesOn
  <1>4. CASE script' = [script EXCEPT !.pc = mv]
    <2>1. /\ script' \in ScriptType /\ script'.pc = mv /\ script'.result = script.result
          /\ script'.new_mode = script.new_mode
      BY <1>1, <1>4 DEF ScriptType, ScriptPcs
    <2> QED
      BY <1>1, <1>2, <2>1 DEF Control
  <1> QED
    BY <1>3, <1>4 DEF ScriptEndOfFile

LEMMA MoveEffect ==
    ASSUME TypeInv, BusyInv, NEW mv, NEW end, ScriptMove(mv, end),
           <<mv, end>> \in {<<"mv1", "end1">>, <<"mv2", "end2">>}
    PROVE  Control \/ Moved
  <1>1. script \in ScriptType /\ history \in HistoryType /\ script.result = "none" /\ ~history.kept
    BY Types DEF ScriptMove, BusyInv, Copies
  <1>2. UNCHANGED <<slot_suffix, active>> /\ script.pc = mv
    BY DEF ScriptMove
  <1>3. CASE Stops("mv") /\ UNCHANGED <<cfg, tmp, hal>>
    BY <1>2, <1>3, StopsControl
  <1>4. CASE UNCHANGED <<cfg, tmp, hal, history>> /\ script' = [script EXCEPT !.pc = end]
    BY <1>1, <1>2, <1>4, GoesOn
  <1>5. CASE /\ cfg' = tmp /\ tmp' = Empty
             /\ hal' = [hal EXCEPT !.attached = FALSE]
             /\ script' = [script EXCEPT !.pc = end]
             /\ history' = [history EXCEPT
                              !.kept = hal.pc # "truncate",
                              !.good = @ /\ (hal.pc = "idle" => ~history.spoiled)]
    <2>1. hal' = [pc |-> hal.pc, slot |-> hal.slot, content |-> hal.content,
                  attached |-> FALSE, result |-> hal.result]
      BY <1>5, Zenon DEF TypeInv, HalRecord
    <2>2. /\ hal'.pc = hal.pc /\ hal'.slot = hal.slot /\ hal'.content = hal.content
          /\ hal'.result = hal.result /\ hal'.attached = FALSE /\ HalRecord'
      BY <2>1 DEF HalRecord
    <2>3. /\ script' \in ScriptType /\ script'.pc = end /\ script'.result = script.result
          /\ script'.new_mode = script.new_mode
      BY <1>1, <1>5 DEF ScriptType, ScriptPcs
    <2> DEFINE kept == hal.pc # "truncate"
               good == history.good /\ (hal.pc = "idle" => ~history.spoiled)
    <2>4. kept \in BOOLEAN /\ good \in BOOLEAN
          /\ history' = [history EXCEPT !.kept = kept, !.good = good]
      BY <1>1, <1>5 DEF HistoryType
    <2> HIDE DEF kept, good
    <2>5. /\ history' \in HistoryType /\ history'.torn = history.torn
          /\ history'.kept = kept /\ history'.good = good
      BY <1>1, <2>4 DEF HistoryType
    <2> QED
      BY <1>2, <1>5, <2>2, <2>3, <2>5 DEF Moved, kept, good
  <1> QED
    BY <1>3, <1>4, <1>5 DEF ScriptMove

LEMMA EndEffect ==
    ASSUME TypeInv, BusyInv, ScriptFirstEnd \/ ScriptSecondEnd
    PROVE  Control
  <1>1. UNCHANGED <<slot_suffix, active, cfg, tmp, hal>> /\ script.pc \in {"end1", "end2"}
    BY DEF ScriptFirstEnd, ScriptSecondEnd
  <1>2. CASE ScriptFirstEnd
    <2>1. CASE Report("androidboot.mode")
      BY <1>1, <1>2, <2>1, ReportControl DEF KeyAt, ScriptFirstEnd
    <2>2. CASE script' = [script EXCEPT !.pc = "pass2"] /\ UNCHANGED history
      BY <1>1, <1>2, <2>2, GoesOn
    <2>3. CASE Stops("klog")
      BY <1>1, <2>3, StopsControl
    <2> QED
      BY <1>2, <2>1, <2>2, <2>3 DEF ScriptFirstEnd
  <1>3. CASE ScriptSecondEnd
    <2>1. script.pc = "end2"
      BY <1>3 DEF ScriptSecondEnd
    <2>2. CASE Report("MODE")
      BY <1>1, <2>1, <2>2, ReportControl DEF KeyAt
    <2>3. CASE Report("error")
      BY <1>1, <2>3, ReportControl
    <2> QED
      BY <1>3, <2>2, <2>3 DEF ScriptSecondEnd
  <1> QED
    BY <1>2, <1>3

\* The four kinds of step.
LEMMA ScriptEffect ==
    ASSUME TypeInv, BusyInv, Script \/ (\E reason \in Reasons : ShutdownRequested(reason))
    PROVE  Control \/ Opened \/ Copied \/ Moved
  <1>1. KeyAt("loop1") = "androidboot.mode" /\ KeyAt("loop2") = "MODE"
    BY DEF KeyAt
  <1>2. CASE ScriptCheck
    BY <1>2, CheckEffect
  <1>3. CASE ScriptOpen("pass1", "loop1", "end1") \/ ScriptOpen("pass2", "loop2", "end2")
    BY <1>3, OpenEffect
  <1>4. CASE ScriptLine("loop1", "androidboot.mode") \/ ScriptLine("loop2", "MODE")
    BY <1>1, <1>4, LineEffect
  <1>5. CASE ScriptEndOfFile("loop1", "mv1", "end1") \/ ScriptEndOfFile("loop2", "mv2", "end2")
    BY <1>5, EndOfFileEffect
  <1>6. CASE ScriptMove("mv1", "end1") \/ ScriptMove("mv2", "end2")
    BY <1>6, MoveEffect
  <1>7. CASE ScriptFirstEnd \/ ScriptSecondEnd
    BY <1>7, EndEffect
  <1>8. CASE \E reason \in Reasons : ShutdownRequested(reason)
    BY <1>8, RequestEffect
  <1> QED
    BY <1>2, <1>3, <1>4, <1>5, <1>6, <1>7, <1>8 DEF Script

\* What none of them changes.
LEMMA ScriptKeeps ==
    ASSUME TypeInv, Script \/ (\E reason \in Reasons : ShutdownRequested(reason))
    PROVE  UNCHANGED <<system, calls, boots>> /\ complete' \in BOOLEAN
  <1>1. complete \in BOOLEAN
    BY DEF TypeInv, TypeOK
  <1>2. CASE ScriptCheck \/ ScriptFirstEnd \/ ScriptSecondEnd
    BY <1>1, <1>2 DEF ScriptCheck, ScriptFirstEnd, ScriptSecondEnd, Report
  <1>3. CASE ScriptOpen("pass1", "loop1", "end1") \/ ScriptOpen("pass2", "loop2", "end2")
    BY <1>1, <1>3 DEF ScriptOpen
  <1>4. CASE ScriptLine("loop1", "androidboot.mode") \/ ScriptLine("loop2", "MODE")
    BY <1>1, <1>4 DEF ScriptLine
  <1>5. CASE ScriptEndOfFile("loop1", "mv1", "end1") \/ ScriptEndOfFile("loop2", "mv2", "end2")
    BY <1>1, <1>5 DEF ScriptEndOfFile
  <1>6. CASE ScriptMove("mv1", "end1") \/ ScriptMove("mv2", "end2")
    BY <1>1, <1>6 DEF ScriptMove
  <1>7. CASE \E reason \in Reasons : ShutdownRequested(reason)
    BY <1>1, <1>7 DEF ShutdownRequested
  <1> QED
    BY <1>2, <1>3, <1>4, <1>5, <1>6, <1>7 DEF Script

\* A line that is copied makes a file of a file.
LEMMA CopiedFile ==
    ASSUME TypeInv, Copied
    PROVE  IsFile(tmp')
  <1>1. CASE tmp' = tmp
    BY <1>1 DEF TypeInv, TypeOK
  <1>2. CASE /\ DOMAIN tmp' = DOMAIN tmp \cup NextLine
             /\ \A j \in DOMAIN tmp' : tmp'[j] = IF j \in NextLine
                                                 THEN Edited(KeyAt(script.pc), j) ELSE tmp[j]
    <2>1. IsFile(cfg) /\ IsFile(tmp) /\ script.new_mode \in Modes /\ NextLine \subseteq DOMAIN cfg
      BY Types DEF TypeInv, TypeOK, ScriptType, NextLine, Unread
    <2>2. KeyAt(script.pc) \notin Texts
      BY TextsAndKeys DEF KeyAt
    <2>3. ASSUME NEW t \in DOMAIN tmp' \cap Texts PROVE tmp'[t] \in Suffixes
      BY <1>2, <2>1, <2>2 DEF IsFile, Edited
    <2>4. ASSUME NEW k \in DOMAIN tmp' \cap Keys PROVE tmp'[k] \in Modes
      BY <1>2, <2>1 DEF IsFile, Edited
    <2>5. DOMAIN tmp' \subseteq Items
      BY <1>2, <2>1 DEF IsFile
    <2> QED
      BY <2>3, <2>4, <2>5 DEF IsFile
  <1> QED
    BY <1>1, <1>2 DEF Copied

LEMMA TypeScript ==
    ASSUME TypeInv, BusyInv, Script \/ (\E reason \in Reasons : ShutdownRequested(reason))
    PROVE  TypeInv'
  <1>1. UNCHANGED <<system, calls, boots>> /\ complete' \in BOOLEAN
    BY ScriptKeeps
  <1>2. script' \in ScriptType /\ history' \in HistoryType /\ UNCHANGED <<slot_suffix, active>>
    BY ScriptEffect DEF Control, Opened, Copied, Moved
  <1>3. IsFile(cfg') /\ IsFile(tmp')
    <2>1. CASE Control \/ Opened
      BY <2>1, EmptyFile DEF Control, Opened, TypeInv, TypeOK
    <2>2. CASE Copied
      BY <2>2, CopiedFile DEF Copied, TypeInv, TypeOK
    <2>3. CASE Moved
      BY <2>3, EmptyFile DEF Moved, TypeInv, TypeOK
    <2> QED
      BY <2>1, <2>2, <2>3, ScriptEffect
  <1>4. /\ HalRecord' /\ IsFile(hal'.content)
        /\ hal'.pc \in {"idle", "read", "truncate", "write"} /\ hal'.slot \in Suffixes
        /\ hal'.attached \in BOOLEAN /\ hal'.result \in {"none", "failed", "success"}
    <2>1. CASE UNCHANGED hal
      BY <2>1 DEF TypeInv, TypeOK, HalRecord
    <2>2. CASE Moved
      BY <2>2 DEF Moved, TypeInv, TypeOK
    <2> QED
      BY <2>1, <2>2, ScriptEffect DEF Control, Opened, Copied
  <1> QED
    BY <1>1, <1>2, <1>3, <1>4 DEF TypeInv, TypeOK, ScriptType, ScriptPcs, HistoryType

LEMMA RestartEffect ==
    ASSUME TypeInv, Restart
    PROVE  /\ UNCHANGED <<active, cfg, tmp>>
           /\ Texts \subseteq DOMAIN cfg /\ slot_suffix' = cfg["androidboot.slot_suffix="]
           /\ hal'.pc = "idle" /\ hal'.slot = slot_suffix' /\ hal'.content = Empty
           /\ hal'.attached = FALSE /\ hal'.result = "none"
           /\ script'.pc \in {"idle", "check"} /\ script'.result = "none"
           /\ history'.torn = history.torn /\ ~history'.kept /\ ~history'.good
           /\ TypeInv'
  <1>1. history \in HistoryType /\ IsFile(cfg)
    BY Types DEF TypeInv, TypeOK
  <1>2. /\ UNCHANGED <<active, cfg, tmp>> /\ Texts \subseteq DOMAIN cfg
        /\ slot_suffix' = cfg["androidboot.slot_suffix="]
        /\ complete' = FALSE /\ calls' = 0 /\ boots' = boots + 1 /\ boots < MaxBoots
    BY DEF Restart
  <1>3. hal' = HalIdle(slot_suffix', "none")
    BY DEF Restart
  <1>4. /\ hal'.pc = "idle" /\ hal'.slot = slot_suffix' /\ hal'.content = Empty
        /\ hal'.attached = FALSE /\ hal'.result = "none" /\ HalRecord'
    BY <1>3, IdleHal
  <1>5. slot_suffix' \in Suffixes
    BY <1>1, <1>2 DEF IsFile, Texts
  <1>6. system' \in Modes
    <2>1. system' = BootMode(cfg)
      BY DEF Restart
    <2>2. BootMode(cfg) \in Modes
      BY <1>1 DEF BootMode, IsFile, Modes
    <2> QED
      BY <2>1, <2>2
  <1>7. /\ script' \in ScriptType /\ script'.pc \in {"idle", "check"}
        /\ script'.result = "none"
    <2>1. NewMode("") \in Modes /\ 0 \in 0..Lines
      BY BootAssumption DEF NewMode, Modes
    <2>2. PICK pc \in {"idle", "check"} : script' = ScriptAt(pc, NewMode(""), FALSE)
      BY DEF Restart
    <2> QED
      BY <2>1, <2>2 DEF ScriptAt, ScriptType, ScriptPcs
  <1>8. /\ history' \in HistoryType /\ history'.torn = history.torn
        /\ ~history'.kept /\ ~history'.good
    <2>1. history' = [history EXCEPT !.kept = FALSE, !.good = FALSE, !.stopped = FALSE]
      BY DEF Restart
    <2> QED
      BY <1>1, <2>1 DEF HistoryType
  <1>9. calls' \in 0..CallsPerBoot /\ boots' \in 0..MaxBoots
    BY <1>2, BootAssumption DEF TypeInv, TypeOK
  <1>10. TypeInv'
    BY <1>1, <1>2, <1>4, <1>5, <1>6, <1>7, <1>8, <1>9, EmptyFile
       DEF TypeInv, TypeOK, ScriptType, ScriptPcs, HistoryType
  <1> QED
    BY <1>2, <1>4, <1>7, <1>8, <1>10

\* How a step of the whole system is told apart below.
LEMMA Steps ==
    ASSUME TypeInv, BusyInv, [Next]_vars
    PROVE  \/ Hal
           \/ Control \/ Opened \/ Copied \/ Moved
           \/ Restart
           \/ UNCHANGED vars
  BY ScriptEffect DEF Next

LEMMA HalKeepsScript ==
    ASSUME TypeInv, Hal
    PROVE  script' = script /\ tmp' = tmp /\ history'.kept = history.kept
           /\ slot_suffix' = slot_suffix
  <1>1. ASSUME NEW slot \in Suffixes, SetActiveBootSlot(slot)
        PROVE  script' = script /\ tmp' = tmp /\ history' = history /\ slot_suffix' = slot_suffix
    BY <1>1, CallEffect
  <1> QED
    BY <1>1, ReadEffect, TruncateEffect, WriteEffect DEF Hal

LEMMA BusyStep ==
    ASSUME TypeInv, BusyInv, [Next]_vars
    PROVE  BusyInv'
  <1>1. CASE Hal
    BY <1>1, HalKeepsScript DEF BusyInv
  <1>2. CASE Control
    BY <1>2 DEF Control, BusyInv
  <1>3. CASE Opened
    BY <1>3 DEF Opened, BusyInv
  <1>4. CASE Copied
    BY <1>4 DEF Copied, BusyInv, Copies
  <1>5. CASE Moved
    BY <1>5 DEF Moved, BusyInv, Copies
  <1>6. CASE Restart
    BY <1>6, RestartEffect DEF BusyInv, Copies
  <1>7. CASE UNCHANGED vars
    BY <1>7 DEF vars, BusyInv
  <1> QED
    BY <1>1, <1>2, <1>3, <1>4, <1>5, <1>6, <1>7, Steps

LEMMA TypeStep ==
    ASSUME TypeInv, BusyInv, [Next]_vars
    PROVE  TypeInv'
  <1>1. CASE UNCHANGED vars
    BY <1>1 DEF vars, TypeInv, TypeOK, HalRecord, IsFile
  <1> QED
    BY <1>1, TypeHal, TypeScript, RestartEffect DEF Next

LEMMA TypesAlways == Spec => [](TypeInv /\ BusyInv)
  <1>1. Init => TypeInv /\ BusyInv
    <2>1. Init => BusyInv
      BY DEF Init, BusyInv, ScriptAt, Copies
    <2> QED
      BY <2>1, TypeInit
  <1>2. TypeInv /\ BusyInv /\ [Next]_vars => (TypeInv /\ BusyInv)'
    BY TypeStep, BusyStep
  <1> QED
    BY <1>1, <1>2, PTL DEF Spec

\* Every variable keeps its type: the files hold suffixes and modes only, whatever the HAL
\* and the script make of them, with every call of either allowed to fail.
THEOREM TypeCorrect == Spec => []TypeOK
  BY TypesAlways, PTL DEF TypeInv

-----------------------------------------------------------------------------
(* One slot                                                                 *)

\* The HAL has the file in its hands only between its truncation and its write.
AttachInv == hal.attached => hal.pc = "write" /\ cfg = Empty

LEMMA AttachStep ==
    ASSUME TypeInv, BusyInv, AttachInv, [Next]_vars
    PROVE  AttachInv'
  <1>1. ASSUME NEW slot \in Suffixes, SetActiveBootSlot(slot) PROVE AttachInv'
    BY <1>1, CallEffect DEF AttachInv
  <1>2. CASE SetBootSlotRead
    BY <1>2, ReadEffect DEF AttachInv
  <1>3. CASE SetBootSlotTruncate
    BY <1>3, TruncateEffect DEF AttachInv
  <1>4. CASE SetBootSlotWrite
    BY <1>4, WriteEffect DEF AttachInv
  <1>5. CASE Control \/ Opened \/ Copied
    BY <1>5 DEF Control, Opened, Copied, AttachInv
  <1>6. CASE Moved
    BY <1>6 DEF Moved, AttachInv
  <1>7. CASE Restart
    BY <1>7, RestartEffect DEF AttachInv
  <1>8. CASE UNCHANGED vars
    BY <1>8 DEF vars, AttachInv
  <1> QED
    BY <1>1, <1>2, <1>3, <1>4, <1>5, <1>6, <1>7, <1>8, Steps DEF Hal

\* The two files agree on every text that each of them has.
Agree(f, g) == \A t \in Texts \cap DOMAIN f, u \in Texts \cap DOMAIN g : f[t] = g[u]
Uniform(f) == Agree(f, f)

\* Whatever may become the file names one slot, and a copy that is being made names the
\* slot of the file it is made from.
SlotInv ==
    ~history.torn =>
        /\ Uniform(cfg) /\ Uniform(tmp) /\ Uniform(hal.content)
        /\ Reading => Agree(tmp, cfg)

LEMMA EmptyAgrees == \A f : Agree(Empty, f) /\ Agree(f, Empty)
  BY EmptyFile DEF Agree

LEMMA SlotHal ==
    ASSUME TypeInv, AttachInv, SlotInv, Hal
    PROVE  SlotInv'
  <1>1. ASSUME NEW slot \in Suffixes, SetActiveBootSlot(slot) PROVE SlotInv'
    BY <1>1, CallEffect, EmptyAgrees DEF SlotInv, Uniform, Reading
  <1>2. CASE SetBootSlotRead
    <2>1. Uniform(cfg) => Uniform(FindAndReplace(cfg, hal.slot))
      BY DEF Uniform, Agree, FindAndReplace
    <2> QED
      BY <1>2, <2>1, ReadEffect, EmptyAgrees DEF SlotInv, Reading, Uniform
  <1>3. CASE SetBootSlotTruncate
    BY <1>3, TruncateEffect, EmptyAgrees DEF SlotInv, Reading, Uniform
  <1>4. CASE SetBootSlotWrite
    <2>1. PICK n \in 0..Lines :
              /\ UNCHANGED <<tmp, script>> /\ hal'.content = Empty
              /\ cfg' = IF hal.attached THEN FirstLines(hal.content, n) ELSE cfg
              /\ history'.torn = (history.torn \/ (hal.attached /\ Reading))
      BY <1>4, WriteEffect
    <2>2. Uniform(hal.content) => Uniform(FirstLines(hal.content, n))
      BY FirstLinesFile DEF Uniform, Agree, TypeInv, TypeOK
    <2>3. CASE hal.attached
      BY <2>1, <2>2, <2>3, EmptyAgrees DEF SlotInv, Reading, Uniform
    <2>4. CASE ~hal.attached
      BY <2>1, <2>4, EmptyAgrees, ZenonT(60) DEF SlotInv, Reading, Uniform
    <2> QED
      BY <2>3, <2>4
  <1> QED
    BY <1>1, <1>2, <1>3, <1>4 DEF Hal

LEMMA SlotStep ==
    ASSUME TypeInv, BusyInv, AttachInv, SlotInv, [Next]_vars
    PROVE  SlotInv'
  <1>1. CASE Hal
    BY <1>1, SlotHal
  <1>2. CASE Control
    BY <1>2 DEF Control, SlotInv, Reading, Uniform, Agree
  <1>3. CASE Opened
    BY <1>3, EmptyAgrees DEF Opened, SlotInv, Reading, Uniform, Agree
  <1>4. CASE Copied
    <2>1. CASE tmp' = tmp
      BY <1>4, <2>1 DEF Copied, SlotInv, Reading, Uniform, Agree
    <2>2. CASE /\ DOMAIN tmp' = DOMAIN tmp \cup NextLine
               /\ \A j \in DOMAIN tmp' : tmp'[j] = IF j \in NextLine
                                                   THEN Edited(KeyAt(script.pc), j) ELSE tmp[j]
      <3>1. NextLine \subseteq DOMAIN cfg
        BY DEF NextLine, Unread
      <3>2. \A j \in NextLine \cap Texts : Edited(KeyAt(script.pc), j) = cfg[j]
        BY TextsAndKeys DEF KeyAt, Edited
      <3>3. \A t \in Texts \cap DOMAIN tmp' :
               \/ t \in DOMAIN cfg /\ tmp'[t] = cfg[t]
               \/ t \in DOMAIN tmp /\ tmp'[t] = tmp[t]
        BY <2>2, <3>1, <3>2
      <3>4. /\ cfg' = cfg /\ hal' = hal /\ history'.torn = history.torn
            /\ Reading
        BY <1>4 DEF Copied, Reading
      <3>5. ASSUME ~history.torn PROVE Agree(tmp', cfg) /\ Uniform(tmp') /\ Uniform(cfg)
                                       /\ Uniform(hal.content)
        BY <3>3, <3>4, <3>5 DEF SlotInv, Uniform, Agree
      <3> QED
        BY <3>4, <3>5 DEF SlotInv, Uniform, Agree
    <2> QED
      BY <1>4, <2>1, <2>2 DEF Copied
  <1>5. CASE Moved
    BY <1>5, EmptyAgrees DEF Moved, SlotInv, Reading, Uniform
  <1>6. CASE Restart
    BY <1>6, RestartEffect, EmptyAgrees DEF SlotInv, Reading, Uniform, Agree
  <1>7. CASE UNCHANGED vars
    BY <1>7 DEF vars, SlotInv, Reading, Uniform, Agree
  <1> QED
    BY <1>1, <1>2, <1>3, <1>4, <1>5, <1>6, <1>7, Steps

\* However the HAL and the script are interleaved, interrupted and failing, the file
\* names one slot as long as the HAL has not written it while the script was reading it.
THEOREM StartsOneSlot == Spec => []OneSlot
  <1>1. Init => AttachInv /\ SlotInv
    <2>1. Init => Uniform(cfg)
      BY TextsAndKeys DEF Init, Uniform, Agree
    <2>2. Init => Uniform(tmp) /\ Uniform(hal.content) /\ ~Reading /\ ~hal.attached
      BY EmptyAgrees DEF Init, HalIdle, ScriptAt, Reading, Uniform
    <2> QED
      BY <2>1, <2>2 DEF AttachInv, SlotInv
  <1>2. TypeInv /\ BusyInv /\ AttachInv /\ SlotInv /\ [Next]_vars => (AttachInv /\ SlotInv)'
    BY AttachStep, SlotStep
  <1>3. SlotInv => OneSlot
    BY DEF SlotInv, OneSlot, Uniform, Agree
  <1> QED
    BY <1>1, <1>2, <1>3, TypesAlways, PTL DEF Spec

-----------------------------------------------------------------------------
(* The lines of the file                                                    *)

\* tmp has the lines of cfg that S stands for, with the same suffixes.
TrueCopy(S) == DOMAIN tmp = S /\ \A t \in S \cap Texts : tmp[t] = cfg[t]

\* Unless something went wrong with it, the copy is that of what has been read.
CopyInv ==
    ~history.spoiled =>
        /\ Reading => TrueCopy({i \in DOMAIN cfg : LineOf[i] <= script.pos})
        /\ script.pc \in {"mv1", "mv2"} => TrueCopy(DOMAIN cfg)

LEMMA LineNumbers ==
    ASSUME TypeInv
    PROVE  script.pos \in Int /\ \A i \in DOMAIN cfg : LineOf[i] \in Int /\ LineOf[i] > 0
  <1>1. script.pos \in 0..Lines /\ DOMAIN cfg \subseteq Items /\ Lines \in Int
    BY Types, BootAssumption DEF ScriptType, TypeInv, TypeOK, IsFile
  <1> QED
    BY <1>1, TextsAndKeys

LEMMA CopyStep ==
    ASSUME TypeInv, BusyInv, CopyInv, [Next]_vars
    PROVE  CopyInv'
  <1>1. ASSUME UNCHANGED <<cfg, tmp, script>>, history'.spoiled = history.spoiled
        PROVE  CopyInv'
    BY <1>1 DEF CopyInv, Reading, TrueCopy
  <1>2. CASE Hal
    <2>1. ASSUME NEW slot \in Suffixes, SetActiveBootSlot(slot) PROVE CopyInv'
      BY <1>1, <2>1, CallEffect
    <2>2. CASE SetBootSlotRead
      BY <1>1, <2>2, ReadEffect
    <2>3. CASE SetBootSlotTruncate
      BY <1>1, <2>3, TruncateEffect DEF CopyInv
    <2>4. CASE SetBootSlotWrite
      <3>1. CASE hal.attached
        BY <2>4, <3>1, WriteEffect DEF CopyInv
      <3>2. CASE ~hal.attached
        <4>1. UNCHANGED <<cfg, tmp, script>> /\ history'.spoiled = (history.spoiled \/ FALSE)
          BY <2>4, <3>2, WriteEffect DEF TypeInv, TypeOK
        <4>2. history.spoiled \in BOOLEAN
          BY Types DEF HistoryType
        <4> QED
          BY <1>1, <4>1, <4>2
      <3> QED
        BY <3>1, <3>2
    <2> QED
      BY <1>2, <2>1, <2>2, <2>3, <2>4 DEF Hal
  <1>3. CASE Control
    <2>1. CASE script'.pc \in {"mv1", "mv2"}
      <3>1. UNCHANGED <<cfg, tmp>> /\ history'.spoiled = history.spoiled /\ Reading /\ Unread = {}
        BY <1>3, <2>1 DEF Control, Reading
      <3>2. \A i \in DOMAIN cfg : LineOf[i] <= script.pos
        BY <3>1, LineNumbers DEF Unread
      <3>3. {i \in DOMAIN cfg : LineOf[i] <= script.pos} = DOMAIN cfg
        BY <3>2
      <3>4. ~history.spoiled => TrueCopy(DOMAIN cfg)
        BY <3>1, <3>3 DEF CopyInv
      <3> QED
        BY <2>1, <3>1, <3>4 DEF CopyInv, Reading, TrueCopy
    <2>2. CASE script'.pc \notin {"mv1", "mv2"}
      BY <1>3, <2>2 DEF Control, CopyInv, Reading
    <2> QED
      BY <2>1, <2>2
  <1>4. CASE Opened
    <2>1. {i \in DOMAIN cfg : LineOf[i] <= 0} = {}
      BY LineNumbers
    <2>2. /\ cfg' = cfg /\ script'.pos = 0 /\ DOMAIN tmp' = {}
          /\ script'.pc \notin {"mv1", "mv2"}
      BY <1>4, EmptyFile DEF Opened
    <2> QED
      BY <2>1, <2>2 DEF CopyInv, TrueCopy
  <1>5. CASE Copied
    <2>1. CASE history'.spoiled
      BY <2>1 DEF CopyInv
    <2>2. CASE ~history'.spoiled
      <3>1. /\ cfg' = cfg /\ script'.pc = script.pc /\ Reading /\ ~history.spoiled
            /\ DOMAIN tmp' = DOMAIN tmp \cup NextLine
            /\ \A j \in DOMAIN tmp' : tmp'[j] = IF j \in NextLine
                                                THEN Edited(KeyAt(script.pc), j) ELSE tmp[j]
        BY <1>5, <2>2 DEF Copied, Reading
      <3>2. PICK i \in NextLine : script'.pos = LineOf[i]
        BY <1>5 DEF Copied
      <3> DEFINE Read == {j \in DOMAIN cfg : LineOf[j] <= script.pos}
                 ReadNow == {j \in DOMAIN cfg : LineOf[j] <= LineOf[i]}
      <3>3. TrueCopy(Read)
        BY <3>1 DEF CopyInv
      <3>4. Read \cup NextLine = ReadNow
        BY LineNumbers DEF NextLine, Unread
      <3>5. \A j \in NextLine \cap Texts : Edited(KeyAt(script.pc), j) = cfg[j]
        BY TextsAndKeys DEF KeyAt, Edited
      <3> HIDE DEF Read, ReadNow
      <3>6. DOMAIN tmp' = ReadNow /\ \A t \in ReadNow \cap Texts : tmp'[t] = cfg'[t]
        BY <3>1, <3>3, <3>4, <3>5 DEF TrueCopy
      <3>7. ReadNow = {j \in DOMAIN cfg' : LineOf[j] <= script'.pos}
        BY <3>1, <3>2 DEF ReadNow
      <3> QED
        BY <3>1, <3>6, <3>7 DEF CopyInv, TrueCopy, Reading
    <2> QED
      BY <2>1, <2>2
  <1>6. CASE Moved
    BY <1>6 DEF Moved, CopyInv, Reading
  <1>7. CASE Restart
    BY <1>7, RestartEffect DEF CopyInv, Reading
  <1>8. CASE UNCHANGED vars
    BY <1>1, <1>8 DEF vars
  <1> QED
    BY <1>2, <1>3, <1>4, <1>5, <1>6, <1>7, <1>8, Steps

LEMMA CopyAlways == Spec => [](AttachInv /\ CopyInv)
  <1>1. Init => AttachInv /\ CopyInv
    BY DEF Init, HalIdle, ScriptAt, AttachInv, CopyInv, Reading
  <1>2. TypeInv /\ BusyInv /\ AttachInv /\ CopyInv /\ [Next]_vars => (AttachInv /\ CopyInv)'
    BY AttachStep, CopyStep
  <1> QED
    BY <1>1, <1>2, TypesAlways, PTL DEF Spec

\* No step but the HAL's truncation takes a line from the file, and the script's mv only
\* when the copy was spoiled: by the HAL since it was begun, or by a printf that failed.
THEOREM ScriptKeepsTheFile == Spec => OnlyHalTruncates
  <1> DEFINE Kept == \/ DOMAIN cfg \subseteq DOMAIN cfg'
                     \/ hal.pc = "truncate"
                     \/ script.pc \in {"mv1", "mv2"} /\ history.spoiled
  <1>1. ASSUME TypeInv, BusyInv, AttachInv, CopyInv, [Next]_vars PROVE [Kept]_vars
    <2>1. ASSUME NEW slot \in Suffixes, SetActiveBootSlot(slot) PROVE Kept
      BY <1>1, <2>1, CallEffect
    <2>2. CASE SetBootSlotRead
      BY <1>1, <2>2, ReadEffect
    <2>3. CASE SetBootSlotTruncate
      BY <1>1, <2>3, TruncateEffect
    <2>4. CASE SetBootSlotWrite
      <3>1. hal.attached => DOMAIN cfg = {}
        BY <1>1, EmptyFile DEF AttachInv
      <3>2. ~hal.attached => cfg' = cfg
        BY <1>1, <2>4, WriteEffect DEF TypeInv, TypeOK
      <3> QED
        BY <3>1, <3>2
    <2>5. CASE Control \/ Opened \/ Copied \/ Restart
      BY <1>1, <2>5, RestartEffect DEF Control, Opened, Copied
    <2>6. CASE Moved
      BY <1>1, <2>6 DEF Moved, CopyInv, TrueCopy
    <2>7. CASE UNCHANGED vars
      BY <2>7
    <2> QED
      BY <1>1, <2>1, <2>2, <2>3, <2>4, <2>5, <2>6, <2>7, Steps DEF Hal
  <1>2. TypeInv /\ BusyInv /\ AttachInv /\ CopyInv /\ [Next]_vars => [Kept]_vars
    BY <1>1
  <1> QED
    BY <1>2, TypesAlways, CopyAlways, PTL DEF Spec, OnlyHalTruncates

-----------------------------------------------------------------------------
(* What "Success" of setActiveBootSlot is worth                             *)

Names(f, slot) == \A t \in Texts : t \in DOMAIN f /\ f[t] = slot

\* A call on its way to success has the slot in misc and, if it is a good one, in the
\* content that it is about to write; afterwards the file has it.
SwitchInv ==
    /\ hal.pc # "idle" \/ hal.result = "success" => active = hal.slot
    /\ hal.result = "success" => hal.pc = "idle"
    /\ history.good =>
          /\ hal.pc = "truncate" \/ hal.attached => Names(hal.content, hal.slot)
          /\ hal.result = "success" => Names(cfg, hal.slot)

LEMMA SwitchHal ==
    ASSUME TypeInv, AttachInv, SwitchInv, Hal
    PROVE  SwitchInv'
  <1>1. ASSUME NEW slot \in Suffixes, SetActiveBootSlot(slot) PROVE SwitchInv'
    BY <1>1, CallEffect DEF SwitchInv
  <1>2. CASE SetBootSlotRead
    <2>1. Switchable(cfg, hal.slot) => Names(FindAndReplace(cfg, hal.slot), hal.slot)
      BY DEF Switchable, Names, FindAndReplace
    <2>2. ~hal.attached /\ hal.result # "success"
      BY <1>2, ReadEffect DEF AttachInv, SwitchInv
    <2> QED
      BY <1>2, <2>1, <2>2, ReadEffect DEF SwitchInv
  <1>3. CASE SetBootSlotTruncate
    BY <1>3, TruncateEffect DEF SwitchInv
  <1>4. CASE SetBootSlotWrite
    <2>1. PICK n \in 0..Lines :
              /\ hal.pc = "write" /\ hal'.pc = "idle" /\ hal'.attached = FALSE
              /\ hal'.slot = hal.slot /\ active' = active
              /\ cfg' = IF hal.attached THEN FirstLines(hal.content, n) ELSE cfg
              /\ history'.good = (history.good /\ hal.attached /\ n = Lines)
      BY <1>4, WriteEffect
    <2>2. ASSUME history'.good PROVE Names(cfg', hal.slot)
      <3>1. history.good /\ hal.attached /\ n = Lines
        BY <2>1, <2>2
      <3>2. Names(hal.content, hal.slot) /\ cfg' = FirstLines(hal.content, n)
        BY <2>1, <3>1 DEF SwitchInv
      <3> QED
        BY <3>1, <3>2, FirstLinesFile DEF Names, TypeInv, TypeOK
    <2> QED
      BY <2>1, <2>2 DEF SwitchInv
  <1> QED
    BY <1>1, <1>2, <1>3, <1>4 DEF Hal

LEMMA SwitchStep ==
    ASSUME TypeInv, BusyInv, AttachInv, CopyInv, SwitchInv, [Next]_vars
    PROVE  SwitchInv'
  <1>1. CASE Hal
    BY <1>1, SwitchHal
  <1>2. CASE Control \/ Opened \/ Copied
    BY <1>2 DEF Control, Opened, Copied, SwitchInv
  <1>3. CASE Moved
    <2>1. ASSUME history'.good, hal.result = "success" PROVE Names(tmp, hal.slot)
      <3>1. hal.pc = "idle" /\ history.good /\ Names(cfg, hal.slot)
        BY <1>3, <2>1 DEF Moved, SwitchInv
      <3>2. TrueCopy(DOMAIN cfg)
        BY <1>3, <2>1, <3>1 DEF Moved, CopyInv
      <3> QED
        BY <3>1, <3>2 DEF TrueCopy, Names
    <2> QED
      BY <1>3, <2>1 DEF Moved, SwitchInv
  <1>4. CASE Restart
    BY <1>4, RestartEffect DEF SwitchInv
  <1>5. CASE UNCHANGED vars
    BY <1>5 DEF vars, SwitchInv
  <1> QED
    BY <1>1, <1>2, <1>3, <1>4, <1>5, Steps

\* A "Success" of a call that read a file it could switch and wrote all of it is true of
\* misc and of the file, and stays true through whatever the script does, unless a copy
\* begun before the write is moved over it.
THEOREM SuccessMeansSwitched == Spec => []SuccessSwitches
  <1>1. Init => SwitchInv
    BY DEF Init, HalIdle, SwitchInv
  <1>2. TypeInv /\ BusyInv /\ AttachInv /\ CopyInv /\ SwitchInv /\ [Next]_vars => SwitchInv'
    BY SwitchStep
  <1>3. SwitchInv => SuccessSwitches
    BY DEF SwitchInv, SuccessSwitches, Names
  <1> QED
    BY <1>1, <1>2, <1>3, TypesAlways, CopyAlways, PTL DEF Spec

-----------------------------------------------------------------------------
(* What "Success" of the script is worth                                    *)

SetIn(f, key) == key \in DOMAIN f => f[key] = script.new_mode

\* The mode is the new one in the file and in what the HAL is about to write.
Keep(key) ==
    /\ SetIn(cfg, key)
    /\ hal.pc = "truncate" \/ hal.attached => SetIn(hal.content, key)

ModeInv ==
    /\ script.pc \in Copies => SetIn(tmp, KeyAt(script.pc))
    /\ history.kept =>
          /\ script.pc \in {"end1", "end2"} => Keep(KeyAt(script.pc))
          /\ \A k \in {"androidboot.mode", "MODE"} : script.result = k => Keep(k)

\* The HAL does not touch the mode.
LEMMA KeepHal ==
    ASSUME TypeInv, AttachInv, Hal, NEW key \in {"androidboot.mode", "MODE"}, Keep(key)
    PROVE  Keep(key)'
  <1>1. script' = script
    BY HalKeepsScript
  <1>2. ASSUME NEW slot \in Suffixes, SetActiveBootSlot(slot) PROVE Keep(key)'
    BY <1>1, <1>2, CallEffect DEF Keep, SetIn
  <1>3. CASE SetBootSlotRead
    <2>1. SetIn(cfg, key) => SetIn(FindAndReplace(cfg, hal.slot), key)
      BY TextsAndKeys DEF SetIn, FindAndReplace
    <2>2. ~hal.attached
      BY <1>3, ReadEffect DEF AttachInv
    <2> QED
      BY <1>1, <1>3, <2>1, <2>2, ReadEffect DEF Keep, SetIn
  <1>4. CASE SetBootSlotTruncate
    BY <1>1, <1>4, TruncateEffect, EmptyFile DEF Keep, SetIn
  <1>5. CASE SetBootSlotWrite
    <2>1. PICK n \in 0..Lines :
              /\ hal'.pc = "idle" /\ hal'.attached = FALSE
              /\ cfg' = IF hal.attached THEN FirstLines(hal.content, n) ELSE cfg
      BY <1>5, WriteEffect
    <2>2. CASE hal.attached
      <3>1. SetIn(hal.content, key) => SetIn(FirstLines(hal.content, n), key)
        BY FirstLinesFile DEF SetIn, TypeInv, TypeOK
      <3> QED
        BY <1>1, <2>1, <2>2, <3>1 DEF Keep, SetIn
    <2>3. CASE ~hal.attached
      BY <1>1, <2>1, <2>3 DEF Keep, SetIn
    <2> QED
      BY <2>2, <2>3
  <1> QED
    BY <1>2, <1>3, <1>4, <1>5 DEF Hal

LEMMA ModeStep ==
    ASSUME TypeInv, BusyInv, AttachInv, ModeInv, [Next]_vars
    PROVE  ModeInv'
  <1>1. CASE Hal
    <2>1. script' = script /\ tmp' = tmp /\ history'.kept = history.kept
      BY <1>1, HalKeepsScript
    <2>2. \A pc : KeyAt(pc) \in {"androidboot.mode", "MODE"}
      BY DEF KeyAt
    <2>3. script.pc \in Copies => SetIn(tmp, KeyAt(script.pc))'
      BY <2>1 DEF ModeInv, SetIn, KeyAt
    <2>4. \A k \in {"androidboot.mode", "MODE"} : Keep(k) => Keep(k)'
      BY <1>1, KeepHal
    <2>5. ASSUME history.kept, script.pc \in {"end1", "end2"} PROVE Keep(KeyAt(script.pc))'
      <3>1. PICK k \in {"androidboot.mode", "MODE"} : k = KeyAt(script.pc)
        BY <2>2
      <3>2. Keep(k)
        BY <2>5, <3>1 DEF ModeInv
      <3>3. Keep(k)' /\ k = KeyAt(script'.pc)
        BY <2>1, <2>4, <3>1, <3>2
      <3> QED
        BY <3>3
    <2>6. ASSUME history.kept, NEW k \in {"androidboot.mode", "MODE"}, script.result = k
          PROVE  Keep(k)'
      BY <2>4, <2>6 DEF ModeInv
    <2> QED
      BY <2>1, <2>3, <2>5, <2>6 DEF ModeInv
  <1>2. CASE Control
    <2>1. script'.pc \in Copies => SetIn(tmp, KeyAt(script.pc))'
      BY <1>2 DEF Control, ModeInv, Copies, SetIn, KeyAt
    <2>2. ASSUME NEW k \in {"androidboot.mode", "MODE"}, script'.result = k, history'.kept
          PROVE  Keep(k)'
      <3>1. /\ history.kept /\ script'.new_mode = script.new_mode
            /\ script.pc \in {"end1", "end2"} /\ KeyAt(script.pc) = k
            /\ UNCHANGED <<cfg, hal>>
        BY <1>2, <2>2 DEF Control
      <3>2. Keep(k)
        BY <3>1 DEF ModeInv
      <3> QED
        BY <3>1, <3>2 DEF Keep, SetIn
    <2>3. script'.pc \in {"end1", "end2"} => ~history'.kept
      BY <1>2 DEF Control
    <2> QED
      BY <2>1, <2>2, <2>3 DEF ModeInv
  <1>3. CASE Opened
    BY <1>3, EmptyFile DEF Opened, ModeInv, SetIn
  <1>4. CASE Copied
    <2>1. ~history'.kept /\ script'.pc = script.pc /\ script.pc \in Copies
      BY <1>4 DEF Copied, BusyInv, Copies
    <2>2. SetIn(tmp, KeyAt(script.pc))
      BY <2>1 DEF ModeInv
    <2>3. SetIn(tmp, KeyAt(script.pc))'
      BY <1>4, <2>2 DEF Copied, SetIn, Edited
    <2> QED
      BY <2>1, <2>3 DEF ModeInv
  <1>5. CASE Moved
    <2>1. /\ script.pc \in Copies /\ script.result = "none" /\ script'.result = "none"
          /\ KeyAt(script'.pc) = KeyAt(script.pc) /\ script'.pc \notin Copies
      BY <1>5 DEF Moved, BusyInv, Copies, KeyAt
    <2>2. SetIn(tmp, KeyAt(script.pc))
      BY <2>1 DEF ModeInv
    <2>3. history'.kept => Keep(KeyAt(script.pc))'
      BY <1>5, <2>1, <2>2 DEF Moved, Keep, SetIn
    <2> QED
      BY <2>1, <2>3 DEF ModeInv
  <1>6. CASE Restart
    BY <1>6, RestartEffect DEF ModeInv, Copies
  <1>7. CASE UNCHANGED vars
    BY <1>7 DEF vars, ModeInv, Keep, SetIn
  <1> QED
    BY <1>1, <1>2, <1>3, <1>4, <1>5, <1>6, <1>7, Steps

\* A "Success" of the script whose copy was moved, with no older content in the HAL's
\* hands, is true of the key it names, and stays true through later calls of the HAL and
\* writes that fail.
THEOREM SuccessMeansMode == Spec => []ModeIsSet
  <1>1. Init => ModeInv
    BY DEF Init, ScriptAt, ModeInv, Copies
  <1>2. TypeInv /\ BusyInv /\ AttachInv /\ ModeInv /\ [Next]_vars => ModeInv'
    BY ModeStep
  <1>3. ModeInv => ModeIsSet
    BY BootAssumption DEF ModeInv, ModeIsSet, Keep, SetIn
  <1> QED
    BY <1>1, <1>2, <1>3, TypesAlways, CopyAlways, PTL DEF Spec
=============================================================================
