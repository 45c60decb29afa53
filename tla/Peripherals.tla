------------------------------ MODULE Peripherals ------------------------------
(* The drives and the ULA, one at a time: each has ports of its own and they *)
(* share nothing, so what one does is independent of the others.             *)
EXTENDS BetaDisk, UlaPicture

CONSTANTS
    Units, Heads, Cylinders, Ids,                   \* of Plus3Fdc
    SizeCodes, DataLengths, Counts, Fills,
    SectorUnit, WholeSector, Plus3Disks, Plus3Bytes,
    BlockSize, ArgumentBytes, LastBlock, Addresses, \* of both cards
    CardBytes, MmcImages, SdImages,
    RegisterBytes, StopDelay                        \* of NextSdCard

VARIABLES
    attached,       \* the device that is looked at
    fdc, mmc, sd

Plus3 == INSTANCE Plus3Fdc WITH Disks <- Plus3Disks, Bytes <- Plus3Bytes

DivMmc == INSTANCE DivMmcCard WITH Images <- MmcImages, Bytes <- CardBytes

NextSd == INSTANCE NextSdCard WITH Images <- SdImages, Bytes <- CardBytes

ASSUME PeripheralsAssumption ==
    /\ BetaConstants /\ Plus3!Plus3Constants
    /\ DivMmc!MmcConstants /\ NextSd!SdConstants
    /\ PictureConstants

-----------------------------------------------------------------------------
BoardInit ==
    /\ attached \in {"beta", "plus3", "divMmc", "nextSd", "ula"}
    /\ Init /\ Plus3!Init /\ DivMmc!Init /\ NextSd!Init /\ PictureInit

BoardNext ==
    /\ \/ attached = "beta" /\ Next /\ UNCHANGED <<fdc, mmc, sd, pictureVars>>
       \/ attached = "plus3" /\ Plus3!Next /\ UNCHANGED <<vg93, mmc, sd, pictureVars>>
       \/ attached = "divMmc" /\ DivMmc!Next /\ UNCHANGED <<vg93, fdc, sd, pictureVars>>
       \/ attached = "nextSd" /\ NextSd!Next /\ UNCHANGED <<vg93, fdc, mmc, pictureVars>>
       \/ attached = "ula" /\ PictureNext /\ UNCHANGED <<vg93, fdc, mmc, sd>>
    /\ UNCHANGED attached

board == <<attached, vg93, fdc, mmc, sd, pictureVars>>

BoardSpec == BoardInit /\ [][BoardNext]_board

-----------------------------------------------------------------------------
(* Whatever a guest writes, selects and resets, and whatever the host        *)
(* inserts in the middle of it, the bytes that a drive hands out are those   *)
(* of the sector it was asked for, and a sector on the medium changes only   *)
(* to the bytes that were sent for it (load_sector and commit_write of the   *)
(* Beta Disk, cmd_read_data and commit_write of the +3, the read and write   *)
(* phases of both cards).                                                    *)
DrivesKeepTheirMedia ==
    /\ Drive!Spec /\ Plus3!Drive!Spec
    /\ DivMmc!Drive!Spec /\ NextSd!Drive!Spec

(* What a driver polls (BUSY and DRQ, the main status register, the phase of *)
(* a card) asks for a byte only while the interface has one to give or room  *)
(* for one, and a card that was not initialised transfers none.              *)
StatusIsTrue ==
    /\ StatusOK(vg93) /\ Plus3!StatusOK(fdc)
    /\ DivMmc!StatusOK(mmc) /\ NextSd!StatusOK(sd)

(* A driver that does what the status asks for comes to the end of its       *)
(* command: every such access leaves fewer of them to go (read_data and      *)
(* write_data, write_command_byte and read_data_byte, clock, exchange_at).   *)
ServedCommandsEnd ==
    [][/\ Serve => Nearer
       /\ Plus3!Serve => Plus3!Nearer
       /\ DivMmc!Serve => DivMmc!Nearer
       /\ NextSd!Serve => NextSd!Nearer]_board

================================================================================
