------------------------------ MODULE PowerPanic ------------------------------
(***************************************************************************)
(* power_panic.cpp: when the supply fails, an interrupt saves the print to *)
(* the EEPROM and lifts the nozzle; after the next start the print is      *)
(* recovered by queued commands, during which the power may fail again.    *)
(* The handlers run to their end on the residual power.  Heights are small *)
(* integers; X, Y, E, temperatures and speeds are left out.  `nozzle' is   *)
(* the height where the nozzle really is, `printHeight' where it was when  *)
(* the print was interrupted, `nextLine' the line that has to be next.     *)
(***************************************************************************)
EXTENDS Integers, Sequences

CONSTANTS PrintLines,       \* lines of the file; each one is a layer higher
          MeshZ,            \* mesh bed leveling offset above the print
          PausedWithMesh,   \* prints may be paused while leveling is active
          Z_PAUSE_LIFT, UVLO_Z_AXIS_SHIFT, UVLO_TINY_Z_AXIS_SHIFT

ASSUME PanicAssumption ==
  /\ PrintLines \in Nat \ {0} /\ MeshZ \in Nat \ {0} /\ PausedWithMesh \in BOOLEAN
  /\ UVLO_TINY_Z_AXIS_SHIFT \in Nat \ {0}
  /\ UVLO_Z_AXIS_SHIFT \in Nat /\ UVLO_Z_AXIS_SHIFT >= UVLO_TINY_Z_AXIS_SHIFT
  /\ Z_PAUSE_LIFT \in Nat \ {0}

VARIABLES EEPROM_UVLO, EEPROM_UVLO_Z_LIFTED,
          eepromZ,          \* EEPROM_UVLO_CURRENT_POSITION_Z: logical
          eepromTinyZ,      \* EEPROM_UVLO_TINY_CURRENT_POSITION_Z: physical
          eepromMesh,       \* EEPROM_UVLO_MESH_BED_LEVELING_FULL is not all zero
          eepromLine,       \* EEPROM_FILE_POSITION
          power,            \* "off", "asking" (before the interrupt is armed), "on"
          printing, printPaused, lifting,  \* lifting: long_pause() has to raise Z
          savedZ, sdLine, meshActive,
          steppersZ,        \* st_get_position_mm(Z_AXIS)
          currentZ,         \* current_position[Z_AXIS]
          recovery,         \* the commands of the recovery in the queue
          nozzle, printHeight, nextLine
panicEeprom == <<EEPROM_UVLO, EEPROM_UVLO_Z_LIFTED, eepromZ, eepromTinyZ, eepromMesh, eepromLine>>
panicFlow   == <<power, printing, printPaused, lifting, savedZ, sdLine>>
panicHeight == <<meshActive, steppersZ, currentZ, nozzle>>
panicGhosts == <<printHeight, nextLine>>
panicVars   == <<panicEeprom, panicFlow, recovery, panicHeight, panicGhosts>>

Mesh(active) == IF active THEN MeshZ ELSE 0
Idle == ~printing /\ ~printPaused /\ recovery = <<>>
Off  == /\ power' = "off" /\ printing' = FALSE /\ printPaused' = FALSE /\ lifting' = FALSE
        /\ savedZ' = 0 /\ sdLine' = 0 /\ recovery' = <<>>
        /\ meshActive' = FALSE /\ steppersZ' = 0 /\ currentZ' = 0

PanicInit ==
  /\ EEPROM_UVLO = "NO_PENDING" /\ EEPROM_UVLO_Z_LIFTED = FALSE
  /\ eepromZ = 0 /\ eepromTinyZ = 0 /\ eepromMesh = FALSE /\ eepromLine = 0
  /\ power = "on" /\ printing = FALSE /\ printPaused = FALSE /\ lifting = FALSE
  /\ savedZ = 0 /\ sdLine = 0 /\ recovery = <<>>
  /\ meshActive = FALSE /\ steppersZ = 0 /\ currentZ = 0 /\ nozzle = 0
  /\ printHeight = 0 /\ nextLine = 0

\* A move of Z to a logical height: the nozzle goes the way the steppers go.
MoveTo(z) ==
  /\ currentZ' = z /\ steppersZ' = z + Mesh(meshActive)
  /\ nozzle' = nozzle + steppersZ' - steppersZ

-----------------------------------------------------------------------------
(* Printing.                                                               *)

\* A print starts on an idle printer, after homing and perhaps G80.
BeginPrint ==
  /\ power = "on" /\ Idle /\ EEPROM_UVLO = "NO_PENDING"
  /\ printing' = TRUE /\ sdLine' = 0 /\ nextLine' = 0
  /\ meshActive' \in BOOLEAN
  /\ currentZ' = 1 /\ steppersZ' = 1 + Mesh(meshActive') /\ nozzle' = steppersZ'
  /\ printHeight' = nozzle'
  /\ UNCHANGED <<panicEeprom, power, printPaused, lifting, savedZ, recovery>>

PrintLine ==
  /\ power = "on" /\ printing /\ sdLine < PrintLines
  /\ MoveTo(sdLine + 2) /\ printHeight' = nozzle'
  /\ sdLine' = sdLine + 1 /\ nextLine' = nextLine + 1
  /\ UNCHANGED <<panicEeprom, power, printing, printPaused, lifting, savedZ, recovery, meshActive>>

FinishPrint ==
  /\ power = "on" /\ printing /\ sdLine = PrintLines
  /\ printing' = FALSE
  /\ UNCHANGED <<panicEeprom, power, printPaused, lifting, savedZ, sdLine, recovery,
                 panicHeight, panicGhosts>>

\* lcd_pause_print(): saved_pos is the logical position, leveling active or not.
SavePaused ==
  /\ power = "on" /\ printing /\ (meshActive => PausedWithMesh)
  /\ printing' = FALSE /\ printPaused' = TRUE /\ savedZ' = currentZ /\ lifting' = TRUE
  /\ UNCHANGED <<panicEeprom, power, sdLine, recovery, panicHeight, panicGhosts>>

\* long_pause(), from the menus of the main loop.
LiftPaused ==
  /\ power = "on" /\ lifting /\ lifting' = FALSE
  /\ MoveTo(currentZ + Z_PAUSE_LIFT)
  /\ UNCHANGED <<panicEeprom, power, printing, printPaused, savedZ, sdLine, recovery,
                 meshActive, panicGhosts>>

\* restore_print_from_ram_and_continue()
ResumePaused ==
  /\ power = "on" /\ printPaused /\ ~lifting
  /\ MoveTo(savedZ)
  /\ printing' = TRUE /\ printPaused' = FALSE
  /\ EEPROM_UVLO' = "NO_PENDING" /\ EEPROM_UVLO_Z_LIFTED' = FALSE
  /\ UNCHANGED <<eepromZ, eepromTinyZ, eepromMesh, eepromLine, power, lifting, savedZ, sdLine,
                 recovery, meshActive, panicGhosts>>

-----------------------------------------------------------------------------
(* The interrupt.                                                          *)

\* Where the axis may be stopped: before, in or after the move it makes.
StoppedAt ==
  LET command == recovery # <<>> /\ Head(recovery).c \in {"lift", "down"}
      target  == IF command THEN Head(recovery).z + Mesh(meshActive)
                 ELSE IF lifting THEN steppersZ + Z_PAUSE_LIFT
                 ELSE IF printing /\ sdLine < PrintLines THEN sdLine + 2 + Mesh(meshActive)
                 ELSE steppersZ
  IN  {z \in 0 .. steppersZ + target : \/ steppersZ <= z /\ z <= target
                                       \/ target <= z /\ z <= steppersZ}

\* The logical height of the print in uvlo_().
LogicalZ(saved) == saved - Mesh(meshActive)

\* uvlo_(): a print that is saved in RAM is taken as it was saved; another one
\* is saved where the axis has stopped.
Uvlo ==
  /\ power = "on" /\ EEPROM_UVLO = "NO_PENDING" /\ (printing \/ printPaused)
  /\ \E z \in StoppedAt :
       LET raised == nozzle + (z - steppersZ) + UVLO_Z_AXIS_SHIFT
       IN  /\ eepromZ' = LogicalZ(IF printPaused THEN savedZ ELSE z)
           /\ eepromTinyZ' = z + UVLO_Z_AXIS_SHIFT
           /\ nozzle' = raised
           /\ printHeight' = IF printPaused THEN printHeight ELSE nozzle + (z - steppersZ)
  /\ eepromLine' = sdLine /\ eepromMesh' = meshActive
  /\ EEPROM_UVLO_Z_LIFTED' = (printPaused \/ EEPROM_UVLO_Z_LIFTED)
  /\ EEPROM_UVLO' = "PENDING"
  /\ Off /\ UNCHANGED nextLine

\* Raising as it would be without the new height in the EEPROM.
TinyForgets(z) ==
  /\ nozzle' = nozzle + (z - steppersZ) + (IF z # eepromTinyZ THEN UVLO_TINY_Z_AXIS_SHIFT ELSE 0)
  /\ UNCHANGED eepromTinyZ

\* Raising as it would be for an axis that stands still only.
TinyStays(z) == nozzle' = nozzle + (z - steppersZ) /\ eepromTinyZ' = z

\* uvlo_tiny() raises an axis that the recovery has moved.
TinyRaise(z) ==
  IF z # eepromTinyZ
  THEN /\ nozzle' = nozzle + (z - steppersZ) + UVLO_TINY_Z_AXIS_SHIFT
       /\ eepromTinyZ' = z + UVLO_TINY_Z_AXIS_SHIFT
  ELSE UNCHANGED eepromTinyZ /\ nozzle' = nozzle + (z - steppersZ)

\* uvlo_tiny(): the print in the EEPROM stays as it is.
UvloTiny ==
  /\ power = "on" /\ EEPROM_UVLO # "NO_PENDING"
  /\ \E z \in StoppedAt : TinyRaise(z)
  /\ EEPROM_UVLO' = "RETRY"
  /\ Off
  /\ UNCHANGED <<EEPROM_UVLO_Z_LIFTED, eepromZ, eepromMesh, eepromLine, panicGhosts>>

\* The power fails with nothing to save, or before the interrupt is armed.
PowerLost ==
  /\ \/ power = "asking"
     \/ power = "on" /\ EEPROM_UVLO = "NO_PENDING" /\ ~printing /\ ~printPaused
  /\ Off
  /\ UNCHANGED <<panicEeprom, nozzle, panicGhosts>>

-----------------------------------------------------------------------------
(* The next start.                                                         *)

Boot ==
  /\ power = "off"
  /\ power' = IF EEPROM_UVLO = "NO_PENDING" THEN "on" ELSE "asking"
  /\ UNCHANGED <<panicEeprom, printing, printPaused, lifting, savedZ, sdLine, recovery,
                 panicHeight, panicGhosts>>

Command(c)   == [c |-> c, z |-> 0]
MoveZ(c, z)  == [c |-> c, z |-> z]

\* The last commands as they would be without M26.
RestoreNoM26 == <<MoveZ("down", eepromZ), Command("uvlo")>>

\* restore_print_from_eeprom(): the commands the model tells apart.
RestoreFromEeprom ==
  (IF eepromMesh THEN <<Command("mesh")>> ELSE <<>>)
    \o <<MoveZ("down", eepromZ), Command("m26"), Command("uvlo")>>

\* recover_print(), then setup_uvlo_interrupt().  Z_LIFTED is written when the
\* lift is queued.
RecoverPrint ==
  /\ power = "asking" /\ power' = "on"
  /\ steppersZ' = eepromTinyZ
  /\ currentZ' = IF EEPROM_UVLO_Z_LIFTED THEN eepromTinyZ + Z_PAUSE_LIFT ELSE eepromTinyZ
  /\ recovery' = (IF EEPROM_UVLO_Z_LIFTED THEN <<>>
                  ELSE <<MoveZ("lift", eepromTinyZ + Z_PAUSE_LIFT)>>)
                 \o (<<Command("home")>> \o RestoreFromEeprom)
  /\ EEPROM_UVLO_Z_LIFTED' = TRUE
  /\ UNCHANGED <<EEPROM_UVLO, eepromZ, eepromTinyZ, eepromMesh, eepromLine, printing,
                 printPaused, lifting, savedZ, sdLine, meshActive, nozzle, panicGhosts>>

\* The user declines: cancel_saved_printing().
CancelRecovery ==
  /\ power = "asking" /\ power' = "on"
  /\ EEPROM_UVLO' = "NO_PENDING" /\ EEPROM_UVLO_Z_LIFTED' = FALSE
  /\ UNCHANGED <<eepromZ, eepromTinyZ, eepromMesh, eepromLine, printing, printPaused, lifting,
                 savedZ, sdLine, recovery, panicHeight, panicGhosts>>

NextCommandIs(c) == power = "on" /\ recovery # <<>> /\ Head(recovery).c = c

\* G1 Z: the lift, and the way down to the print.
RecoveryMove ==
  /\ NextCommandIs("lift") \/ NextCommandIs("down")
  /\ MoveTo(Head(recovery).z) /\ recovery' = Tail(recovery)
  /\ UNCHANGED <<panicEeprom, panicFlow, meshActive, panicGhosts>>

\* G28 X Y takes the height from the steppers.
RecoveryHome ==
  /\ NextCommandIs("home") /\ recovery' = Tail(recovery)
  /\ currentZ' = steppersZ
  /\ UNCHANGED <<panicEeprom, panicFlow, meshActive, steppersZ, nozzle, panicGhosts>>

\* PRUSA MBL V1: the steppers take the logical height.
RecoveryMesh ==
  /\ NextCommandIs("mesh") /\ recovery' = Tail(recovery)
  /\ meshActive' = TRUE /\ steppersZ' = currentZ
  /\ UNCHANGED <<panicEeprom, panicFlow, currentZ, nozzle, panicGhosts>>

\* M26
RecoverySetLine ==
  /\ NextCommandIs("m26") /\ recovery' = Tail(recovery)
  /\ sdLine' = eepromLine
  /\ UNCHANGED <<panicEeprom, power, printing, printPaused, lifting, savedZ, panicHeight,
                 panicGhosts>>

\* PRUSA uvlo: the print counts as recovered, M24 is queued.
RecoveryEnds ==
  /\ NextCommandIs("uvlo") /\ recovery' = Append(Tail(recovery), Command("m24"))
  /\ EEPROM_UVLO' = "NO_PENDING" /\ EEPROM_UVLO_Z_LIFTED' = FALSE
  /\ UNCHANGED <<eepromZ, eepromTinyZ, eepromMesh, eepromLine, panicFlow, panicHeight,
                 panicGhosts>>

\* M24
RecoveryContinues ==
  /\ NextCommandIs("m24") /\ recovery' = Tail(recovery)
  /\ printing' = TRUE
  /\ UNCHANGED <<panicEeprom, power, printPaused, lifting, savedZ, sdLine, panicHeight,
                 panicGhosts>>

PanicNext ==
  \/ BeginPrint \/ PrintLine \/ FinishPrint \/ SavePaused \/ LiftPaused \/ ResumePaused
  \/ Uvlo \/ UvloTiny \/ PowerLost \/ Boot \/ RecoverPrint \/ CancelRecovery
  \/ RecoveryMove \/ RecoveryHome \/ RecoveryMesh \/ RecoverySetLine \/ RecoveryEnds
  \/ RecoveryContinues
PanicSpec == PanicInit /\ [][PanicNext]_panicVars

-----------------------------------------------------------------------------
PanicTypeOK ==
  /\ EEPROM_UVLO \in {"NO_PENDING", "PENDING", "RETRY"} /\ EEPROM_UVLO_Z_LIFTED \in BOOLEAN
  /\ eepromZ \in Int /\ eepromTinyZ \in Nat /\ eepromMesh \in BOOLEAN
  /\ eepromLine \in 0 .. PrintLines /\ power \in {"off", "asking", "on"}
  /\ printing \in BOOLEAN /\ printPaused \in BOOLEAN /\ lifting \in BOOLEAN
  /\ savedZ \in Nat /\ sdLine \in 0 .. PrintLines /\ meshActive \in BOOLEAN
  /\ steppersZ \in Nat /\ currentZ \in Int /\ nozzle \in Int
  /\ \A i \in DOMAIN recovery :
       recovery[i].c \in {"lift", "home", "mesh", "down", "m26", "uvlo", "m24"}
  /\ printHeight \in Nat /\ nextLine \in 0 .. PrintLines

\* A print that goes on goes on with the line it was interrupted in, however
\* often the power fails while it is being recovered.
ResumesAtLine == printing => sdLine = nextLine

\* The axes are homed clear of the print, wherever in an earlier recovery the
\* power failed: lifted, on the way down, or at the print again.
HomesClear ==
  NextCommandIs("home") \/ NextCommandIs("lift") => nozzle >= printHeight + UVLO_TINY_Z_AXIS_SHIFT

\* "Z [...] should be controlled precisely": when the print goes on, the nozzle
\* is at the height where the print was interrupted.
NozzleAtPrint == printing => nozzle = printHeight

-----------------------------------------------------------------------------
(* Inductive invariants.                                                   *)

RecoveryCommands == {"lift", "home", "mesh", "down", "m26", "uvlo", "m24"}
\* The command that is next, or "none".
Stage == IF recovery = <<>> THEN "none" ELSE Head(recovery).c
\* The command queued behind another one.
Follower(c) ==
  IF c = "lift" THEN "home"
  ELSE IF c = "home" /\ eepromMesh THEN "mesh"
  ELSE IF c \in {"home", "mesh"} THEN "down"
  ELSE IF c = "down" THEN "m26"
  ELSE IF c = "m26" THEN "uvlo" ELSE "none"

RecoveryEntry == [c : RecoveryCommands, z : Int]
\* What is queued is an end of the sequence of commands of one recovery.
RecoveryInOrder ==
  /\ recovery \in Seq(RecoveryEntry)
  /\ \A i \in 1 .. Len(recovery) :
       /\ i < Len(recovery) => recovery[i + 1].c = Follower(recovery[i].c)
       /\ i = Len(recovery) => Follower(recovery[i].c) = "none"
       /\ recovery[i].c = "down" => recovery[i].z = eepromZ
       /\ recovery[i].c = "lift" => recovery[i].z = eepromTinyZ + Z_PAUSE_LIFT

\* Heights are numbers, whatever they are.
PanicHeightTypes == /\ eepromZ \in Int /\ eepromTinyZ \in Int /\ savedZ \in Int
                    /\ steppersZ \in Int /\ currentZ \in Int

\* Which of printing, pausing and recovering goes on, and with which line.
PanicFlowInv ==
  /\ EEPROM_UVLO \in {"NO_PENDING", "PENDING", "RETRY"} /\ power \in {"off", "asking", "on"}
  /\ EEPROM_UVLO_Z_LIFTED \in BOOLEAN /\ eepromMesh \in BOOLEAN /\ meshActive \in BOOLEAN
  /\ printing \in BOOLEAN /\ printPaused \in BOOLEAN /\ lifting \in BOOLEAN
  /\ nextLine \in 0 .. PrintLines /\ sdLine \in 0 .. PrintLines /\ eepromLine \in 0 .. PrintLines
  /\ RecoveryInOrder /\ PanicHeightTypes
  /\ power # "on" => Idle
  /\ power = "asking" => EEPROM_UVLO # "NO_PENDING"
  /\ power = "on" => IF EEPROM_UVLO = "NO_PENDING" THEN Stage \in {"none", "m24"}
                     ELSE Stage \in RecoveryCommands \ {"m24"}
  /\ printing \/ printPaused => recovery = <<>> /\ EEPROM_UVLO = "NO_PENDING" /\ sdLine = nextLine
  /\ ~(printing /\ printPaused) /\ (lifting => printPaused)
  /\ EEPROM_UVLO # "NO_PENDING" => eepromLine = nextLine
  /\ Stage \in {"uvlo", "m24"} => sdLine = nextLine

\* Where the nozzle, the steppers and the EEPROM believe to be, in each stage.
PanicHeightInv ==
  /\ eepromZ \in Int /\ eepromTinyZ \in Nat /\ savedZ \in Nat /\ steppersZ \in Nat
  /\ currentZ \in Int /\ nozzle \in Int /\ printHeight \in Nat
  /\ EEPROM_UVLO # "NO_PENDING" => /\ eepromZ + Mesh(eepromMesh) = printHeight
                                   /\ eepromTinyZ >= printHeight + UVLO_TINY_Z_AXIS_SHIFT
                                   /\ power # "on" => nozzle = eepromTinyZ
  /\ power # "on" => ~meshActive
  /\ power = "on" /\ ~Idle => nozzle = steppersZ
  /\ printing \/ Stage \in {"m26", "uvlo", "m24"} =>
       nozzle = printHeight /\ steppersZ = currentZ + Mesh(meshActive)
  /\ printPaused => ~meshActive /\ savedZ = printHeight /\ nozzle >= printHeight
                    /\ currentZ = steppersZ
  /\ Stage \in {"lift", "home", "mesh", "down"} => nozzle >= printHeight + UVLO_TINY_Z_AXIS_SHIFT
  /\ Stage = "lift" => nozzle = eepromTinyZ
  /\ Stage \in {"lift", "home", "mesh"} => ~meshActive
  /\ Stage = "mesh" => eepromMesh /\ currentZ = steppersZ
  /\ Stage \in {"down", "m26", "uvlo"} => meshActive = eepromMesh
=============================================================================
