------------------------------ MODULE BetaDisk -------------------------------
(* The Beta Disk interface of crates/bus/src/beta_disk.rs: a VG93 controller *)
(* behind the system latch, over an image of crates/formats/src/trd.rs.      *)
(*                                                                           *)
(* The controller answers at once: a command runs to its first byte or to    *)
(* its end while it is written.  A command byte is kept as what it decodes   *)
(* to, a status as the set of its bits, a word to the system latch as its    *)
(* drive, /RES line, side and whether it is zero.  The index pulse that a    *)
(* status read shows in the place of DRQ after a seek is left out.           *)
EXTENDS Integers, Sequences

CONSTANTS
    SectorsPerTrack,    \* TRD_SECTORS_PER_TRACK
    SectorSize,         \* TRD_SECTOR_SIZE
    LastTrack,          \* the innermost track a step in reaches: 79
    IdMark, DataMark,   \* the address marks in a track to write: FEh and FBh
    Fill,               \* what a short sector is filled with: E5h
    CheckBytes,         \* what ends an identification: F3h, FCh
    Disks,              \* the images to insert: sides and sectors by place
    Registers,          \* the values written to the track and sector registers
    Words,              \* the words written to the system latch
    HostBytes           \* the values written to the data register, by what is due

(* What a byte stands for: a track to write says it with its place.          *)
DueNames == {"any", "hunt", "data", "cylinder", "head", "record", "size"}

(* A disk image: its sides, and its sectors by track, side and index.        *)
IsDisk(disk) ==
    /\ disk = [sides |-> disk.sides, sectors |-> disk.sectors]
    /\ disk.sides \in Nat
    /\ DOMAIN disk.sectors \subseteq Nat \X {0, 1} \X (0 .. SectorsPerTrack - 1)
    /\ disk.sectors \in [DOMAIN disk.sectors -> [1 .. SectorSize -> Nat]]

BetaConstants ==
    /\ SectorsPerTrack \in Nat \ {0}
    /\ SectorSize \in Nat \ {0, 1}
    /\ LastTrack \in Nat
    /\ IdMark # DataMark
    /\ Registers \subseteq Nat
    /\ Words \subseteq [drive : 0 .. 3, run : BOOLEAN, side : {0, 1}, zero : BOOLEAN]
    /\ Fill \in 0 .. 255
    /\ CheckBytes \in Seq(0 .. 255)
    /\ HostBytes \in [DueNames -> SUBSET (0 .. 255)]
    /\ \A disk \in Disks : IsDisk(disk)

VARIABLE vg93

NoDisk == [sides |-> 2, sectors |-> <<>>]

Hunt == [in |-> "hunt"]

NoId == <<>>

NewController ==
    [track |-> 0, sector |-> 1, dataReg |-> 0,
     drive |-> 0, run |-> TRUE, side |-> 0, paged |-> FALSE,
     image |-> NoDisk, buffer |-> <<>>, at |-> 0,
     drq |-> FALSE, intrq |-> FALSE, status |-> {"track0", "head"},
     xfer |-> "idle", multiple |-> FALSE, stepIn |-> TRUE, typeI |-> TRUE,
     parse |-> Hunt, id |-> NoId, done |-> 0]

-----------------------------------------------------------------------------
Ready(c) == c.image # NoDisk /\ c.drive = 0

EffectiveSide(c) == IF c.image.sides <= 1 THEN 0 ELSE c.side

(* Sector 0 names the first sector; one past the last names no sector.       *)
SectorIndex(c) ==
    IF c.sector > SectorsPerTrack THEN SectorsPerTrack
    ELSE IF c.sector = 0 THEN 0 ELSE c.sector - 1

Place(c) == <<c.track, EffectiveSide(c), SectorIndex(c)>>

Has(c, p) == p \in DOMAIN c.image.sectors

TypeIStatus(c) ==
    {IF Ready(c) THEN "head" ELSE "notReady"}
        \cup (IF c.track = 0 THEN {"track0"} ELSE {})

(* The end of a command without data, and of one that failed.                *)
Finish(c, status) ==
    [c EXCEPT !.xfer = "idle", !.drq = FALSE, !.intrq = TRUE, !.status = status]

FinishFailed(c, status) ==
    [Finish(c, status) EXCEPT !.buffer = <<>>, !.at = 0, !.typeI = FALSE]

NotReady(c) == FinishFailed(c, {"notReady"})

NotFound(c) == FinishFailed(c, {"rnf"})

(* set_type_i_status.                                                        *)
FinishTypeI(c) == [Finish(c, TypeIStatus(c)) EXCEPT !.typeI = TRUE]

(* Asks for the next byte.                                                   *)
Request(c) == [c EXCEPT !.drq = TRUE, !.status = {"busy", "drq"}]

Start(c, xfer, buffer) ==
    [Request(c) EXCEPT !.xfer = xfer, !.buffer = buffer, !.at = 0, !.intrq = FALSE]

ResetVg93(c) ==
    [c EXCEPT !.xfer = "idle", !.drq = FALSE, !.intrq = FALSE, !.buffer = <<>>,
              !.at = 0, !.multiple = FALSE, !.typeI = TRUE, !.parse = Hunt,
              !.id = NoId, !.done = 0, !.status = TypeIStatus(c)]

-----------------------------------------------------------------------------
(* Sectors.                                                                  *)

LoadSector(c) ==
    IF Has(c, Place(c)) THEN Start(c, "read", c.image.sectors[Place(c)]) ELSE NotFound(c)

StartWriteSector(c) ==
    IF Has(c, Place(c))
    THEN Start(c, "write", [i \in 1 .. SectorSize |-> 0])
    ELSE NotFound(c)

(* The identification that passes next: its size and two check bytes end it. *)
StartReadAddress(c) ==
    LET p == Place(c)
    IN  IF Has(c, p)
        THEN Start(c, "address", <<c.track, EffectiveSide(c), p[3] + 1, 1>> \o CheckBytes)
        ELSE NotFound(c)

(* Ends at once: nobody drains it.                                           *)
StartReadTrack(c) ==
    IF Has(c, <<c.track, EffectiveSide(c), 0>>)
    THEN [Finish(c, TypeIStatus(c)) EXCEPT !.typeI = TRUE, !.buffer = <<>>, !.at = 0]
    ELSE NotFound(c)

(* advance_multi: beyond the last sector the transfer is over.               *)
HasNext(c) == c.multiple /\ c.sector < SectorsPerTrack

Advance(c) == [c EXCEPT !.sector = @ + 1]

(* Mutated form of CompleteRead: the sector read first is read again.        *)
CompleteReadAgain(c) ==
    IF c.xfer = "read" /\ HasNext(c) THEN LoadSector(c)
    ELSE [Finish(c, {}) EXCEPT !.at = Len(c.buffer)]

CompleteRead(c) ==
    IF c.xfer = "read" /\ HasNext(c) THEN LoadSector(Advance(c))
    ELSE [Finish(c, {}) EXCEPT !.at = Len(c.buffer)]

ReadData(c) ==
    IF c.xfer \notin {"read", "address"} THEN c
    ELSE IF c.at >= Len(c.buffer) THEN CompleteRead(c)
    ELSE LET d == [c EXCEPT !.at = @ + 1, !.dataReg = c.buffer[c.at + 1]]
         IN  IF d.at >= Len(d.buffer) THEN CompleteRead(d) ELSE Request(d)

Put(c, p, data) ==
    IF Has(c, p) THEN [c EXCEPT !.image.sectors[p] = data] ELSE c

(* Mutated form of CommitWrite: the sector register goes on before the       *)
(* sector is stored.                                                         *)
CommitWriteLate(c) ==
    LET d == IF HasNext(c) THEN Advance(c) ELSE c
    IN  IF ~Has(d, Place(d)) THEN NotFound(d)
        ELSE IF HasNext(c)
        THEN Start(Put(d, Place(d), c.buffer), "write", [i \in 1 .. SectorSize |-> 0])
        ELSE [Finish(Put(d, Place(d), c.buffer), {}) EXCEPT !.buffer = <<>>, !.at = 0]

(* The registers say where the sector goes when it is complete.              *)
CommitWrite(c) ==
    LET d == Put(c, Place(c), c.buffer)
    IN  IF ~Has(c, Place(c)) THEN NotFound(c)
        ELSE IF HasNext(d)
        THEN Start(Advance(d), "write", [i \in 1 .. SectorSize |-> 0])
        ELSE [Finish(d, {}) EXCEPT !.buffer = <<>>, !.at = 0]

-----------------------------------------------------------------------------
(* Write track: identifications and data are picked out of the stream.       *)

StartWriteTrack(c) ==
    [Start(c, "writeTrack", <<>>) EXCEPT !.parse = Hunt, !.id = NoId, !.done = 0]

FinishWriteTrack(c) ==
    [Finish(c, {}) EXCEPT !.parse = Hunt, !.id = NoId, !.buffer = <<>>, !.at = 0,
                          !.done = 0]

SizeOf(code) ==
    CASE code = 0 -> SectorSize \div 2
      [] code = 2 -> 2 * SectorSize
      [] code = 3 -> 4 * SectorSize
      [] OTHER -> SectorSize

Padded(bytes) ==
    [i \in 1 .. SectorSize |-> IF i <= Len(bytes) THEN bytes[i] ELSE Fill]

CommitTrackSector(c, parse, data) ==
    LET p == <<parse.id[1], parse.id[2], parse.id[3] - 1>>
        known == parse.id[3] \in 1 .. SectorsPerTrack /\ Has(c, p)
    IN  [(IF known THEN Put(c, p, Padded(data)) ELSE c) EXCEPT
            !.done = IF known THEN @ + 1 ELSE @,
            !.buffer = <<>>, !.parse = Hunt]

(* Without an identification the data is for the sector in the registers.    *)
StartData(c) ==
    LET id == IF c.id # NoId THEN c.id
              ELSE <<c.track, c.side, IF c.sector = 0 THEN 1 ELSE c.sector, 1>>
    IN  [c EXCEPT !.id = NoId, !.buffer = <<>>,
                  !.parse = [in |-> "data", size |-> SizeOf(id[4]), id |-> id]]

Parse(c, byte) ==
    CASE c.parse.in = "hunt" /\ byte = IdMark ->
            [c EXCEPT !.parse = [in |-> "id", got |-> <<>>]]
      [] c.parse.in = "hunt" /\ byte = DataMark -> StartData(c)
      [] c.parse.in = "hunt" /\ byte \notin {IdMark, DataMark} -> c
      [] c.parse.in = "id" ->
            LET got == Append(c.parse.got, byte)
            IN  IF Len(got) < 4 THEN [c EXCEPT !.parse.got = got]
                ELSE [c EXCEPT !.parse = Hunt, !.id = got]
      [] c.parse.in = "data" ->
            LET data == Append(c.buffer, byte)
            IN  IF Len(data) < c.parse.size THEN [c EXCEPT !.buffer = data]
                ELSE CommitTrackSector(c, c.parse, data)

WriteTrackByte(c, byte) ==
    LET d == Parse(c, byte)
    IN  IF d.done >= SectorsPerTrack THEN FinishWriteTrack(d) ELSE Request(d)

Due(c) ==
    CASE c.xfer = "writeTrack" /\ c.parse.in = "id" ->
            <<"cylinder", "head", "record", "size">>[Len(c.parse.got) + 1]
      [] c.xfer = "writeTrack" /\ c.parse.in # "id" -> c.parse.in
      [] OTHER -> "any"

WriteData(c, byte) ==
    CASE c.xfer = "writeTrack" -> [WriteTrackByte(c, byte) EXCEPT !.dataReg = byte]
      [] c.xfer = "write" ->
            LET d == [c EXCEPT !.buffer[c.at + 1] = byte, !.at = @ + 1, !.dataReg = byte]
            IN  IF d.at >= Len(d.buffer) THEN CommitWrite(d) ELSE Request(d)
      [] OTHER -> [c EXCEPT !.dataReg = byte]

-----------------------------------------------------------------------------
(* Commands.                                                                 *)

Steps == {"step", "stepIn", "stepOut"}

Commands ==
    [kind : {"restore", "seek", "readAddress", "readTrack", "writeTrack",
             "readAddressOrForce"}]
        \cup [kind : Steps, update : BOOLEAN]
        \cup [kind : {"readSector", "writeSector"}, multiple : BOOLEAN]
        \cup [kind : {"force"}, immediate : BOOLEAN]

Step(c, cmd) ==
    LET d == [c EXCEPT !.stepIn = IF cmd.kind = "step" THEN @ ELSE cmd.kind = "stepIn"]
    IN  FinishTypeI(
            IF ~cmd.update THEN d
            ELSE IF d.stepIn
            THEN [d EXCEPT !.track = IF @ < LastTrack THEN @ + 1 ELSE @]
            ELSE [d EXCEPT !.track = IF @ > 0 THEN @ - 1 ELSE @])

ForceInterrupt(c, immediate) ==
    LET d == [c EXCEPT !.xfer = "idle", !.buffer = <<>>, !.at = 0]
        e == IF c.xfer = "writeTrack" THEN FinishWriteTrack(d)
             ELSE IF c.typeI THEN FinishTypeI(d)
             ELSE [d EXCEPT !.status = @ \ {"busy", "drq"}]
    IN  [e EXCEPT !.intrq = immediate]

(* D8h is Read Address, unless a track is being written.                     *)
IsForce(c, cmd) ==
    cmd.kind = "force" \/ (cmd.kind = "readAddressOrForce" /\ c.xfer = "writeTrack")

Immediate(cmd) == cmd.kind = "force" => cmd.immediate

Execute(c, cmd) ==
    LET d == [c EXCEPT !.typeI = FALSE]
    IN  CASE cmd.kind = "restore" -> FinishTypeI([c EXCEPT !.track = 0, !.stepIn = FALSE])
          [] cmd.kind = "seek" -> FinishTypeI([c EXCEPT !.track = c.dataReg])
          [] cmd.kind \in Steps -> Step(c, cmd)
          [] cmd.kind = "readSector" -> LoadSector([d EXCEPT !.multiple = cmd.multiple])
          [] cmd.kind = "writeSector" ->
                StartWriteSector([d EXCEPT !.multiple = cmd.multiple])
          [] cmd.kind \in {"readAddress", "readAddressOrForce"} -> StartReadAddress(d)
          [] cmd.kind = "readTrack" -> StartReadTrack(d)
          [] cmd.kind = "writeTrack" -> StartWriteTrack(d)

WriteCommand(c, cmd) ==
    LET d == [c EXCEPT !.intrq = FALSE, !.drq = FALSE]
    IN  IF IsForce(c, cmd) THEN ForceInterrupt(d, Immediate(cmd))
        ELSE IF Ready(d) THEN Execute(d, cmd)
        ELSE NotReady(d)

-----------------------------------------------------------------------------
Init == vg93 = NewController

(* Ports are decoded while the TR-DOS ROM is paged in.                       *)
OutCommand(cmd) ==
    /\ vg93.paged
    /\ vg93.run
    /\ vg93' = WriteCommand(vg93, cmd)

OutTrack(value) ==
    /\ vg93.paged
    /\ vg93' = [vg93 EXCEPT !.track = value, !.dataReg = value]

OutSector(value) ==
    /\ vg93.paged
    /\ vg93' = [vg93 EXCEPT !.sector = value]

OutData(byte) ==
    /\ vg93.paged
    /\ vg93' = WriteData(vg93, byte)

(* On a one-sided disk only the word 0 resets.                               *)
OutSystem(word) ==
    /\ vg93.paged
    /\ LET run == word.run \/ (vg93.image.sides <= 1 /\ ~word.zero)
           c == [vg93 EXCEPT !.drive = word.drive, !.run = run, !.side = word.side]
       IN  vg93' = IF run THEN c ELSE ResetVg93(c)

InStatus ==
    /\ vg93.paged
    /\ vg93' = [vg93 EXCEPT !.intrq = FALSE]

InData ==
    /\ vg93.paged
    /\ vg93' = ReadData(vg93)

(* notify_m1 pages the ROM in; leaving DOS and a reset of the machine page   *)
(* it out.  The controller is not told.                                      *)
Page(on) == vg93' = [vg93 EXCEPT !.paged = on]

InsertDisk(disk) == vg93' = [vg93 EXCEPT !.image = disk]

(* The driver's next access to a transfer: what DRQ asks for.                *)
Serve ==
    IF vg93.xfer = "write" THEN \E byte \in HostBytes[Due(vg93)] : OutData(byte)
    ELSE vg93.xfer # "idle" /\ InData

Next ==
    \/ \E cmd \in Commands : OutCommand(cmd)
    \/ \E value \in Registers : OutTrack(value) \/ OutSector(value)
    \/ \E byte \in HostBytes[Due(vg93)] : OutData(byte)
    \/ \E word \in Words : OutSystem(word)
    \/ InStatus \/ InData
    \/ \E on \in BOOLEAN : Page(on)
    \/ \E disk \in Disks : InsertDisk(disk)

vars == vg93

Spec == Init /\ [][Next]_vars

-----------------------------------------------------------------------------
(* What the interface is to its medium.                                      *)

Job ==
    CASE vg93.xfer = "read" ->
            [op |-> "read", at |-> Place(vg93),
             bytes |-> SubSeq(vg93.buffer, vg93.at + 1, Len(vg93.buffer))]
      [] vg93.xfer = "write" ->
            [op |-> "write", at |-> Place(vg93), want |-> SectorSize, keep |-> TRUE,
             bytes |-> SubSeq(vg93.buffer, 1, vg93.at)]
      [] vg93.xfer = "writeTrack" /\ vg93.parse.in = "data" ->
            LET id == vg93.parse.id
            IN  [op |-> "write", at |-> <<id[1], id[2], id[3] - 1>>,
                 want |-> vg93.parse.size, keep |-> FALSE, bytes |-> vg93.buffer]
      [] OTHER -> [op |-> "none"]

(* Sector 0 and sector 1 are one sector.                                     *)
Follows(p, q) ==
    p[1] = q[1] /\ p[2] = q[2] /\ (q[3] = p[3] + 1 \/ (p[3] = 0 /\ q[3] = 0))

Media == {disk.sectors : disk \in Disks \cup {NoDisk}}

Drive == INSTANCE SectorDrive WITH
    medium <- vg93.image.sectors, job <- Job, Lenient <- FALSE, InPlace <- FALSE

-----------------------------------------------------------------------------
(* What the guest polls agrees with what the controller can do: BUSY and DRQ *)
(* are there while and only while there is a byte to hand out or room for    *)
(* one, whatever commands, registers and disks came in between.              *)
StatusOK(c) ==
    /\ c.drq <=> c.xfer # "idle"
    /\ "drq" \in c.status <=> c.drq
    /\ "busy" \in c.status <=> c.drq
    /\ c.xfer \in {"read", "address"} => c.at < Len(c.buffer)
    /\ c.xfer = "write" => Len(c.buffer) = SectorSize /\ c.at < SectorSize
    /\ c.xfer = "writeTrack" =>
         /\ c.done < SectorsPerTrack
         /\ c.parse.in = "id" => Len(c.parse.got) < 4
         /\ c.parse.in = "data" => Len(c.buffer) < c.parse.size
    /\ c.intrq => c.xfer = "idle"

(* The accesses a command still asks for, where they are bounded: a track to *)
(* write goes on until its sectors are there or the driver gives it up.      *)
Bounded(c) == c.xfer \in {"read", "address", "write"}

Left(c) ==
    IF c.xfer = "idle" THEN 0
    ELSE Len(c.buffer) - c.at
         + (IF c.xfer # "address" /\ HasNext(c)
            THEN (SectorsPerTrack - c.sector) * SectorSize ELSE 0)

Nearer == Bounded(vg93) => Left(vg93') < Left(vg93)

=============================================================================
