------------------------------ MODULE Plus3Fdc -------------------------------
(* The disk controller of the +3: the uPD765 of crates/formats/src/fdc over  *)
(* an image of crates/formats/src/dsk.                                       *)
(*                                                                           *)
(* A command is kept as its name while its bytes arrive, and what they say   *)
(* (its request) is taken with the last of them.  A result is the number of  *)
(* bytes left to collect and the errors it reports.                          *)
EXTENDS Integers, Sequences, SequencesExt

CONSTANTS
    Units,              \* the drives a command can name: 0 .. 3
    Heads,              \* the heads a command can name: 0 .. 1
    Cylinders,          \* the cylinders somebody seeks
    Ids,                \* the sector numbers in commands and formats
    SizeCodes,          \* the size codes in commands and formats
    DataLengths,        \* the lengths (DTL) given with size code 0
    Counts,             \* the numbers of sectors in a format
    Fills,              \* the bytes a format fills sectors with
    SectorUnit,         \* the sector of size code 0, and half of size code 1: 128
    WholeSector,        \* the DTL that asks for all of it: FFh
    Disks,              \* the images to insert: sides, and sectors by track
    Bytes               \* the bytes written

(* A sector with the name it carries.                                        *)
Sector == [id : 0 .. 255, side : 0 .. 255, data : Seq(0 .. 255)]

IsImage(disk) ==
    /\ disk = [sides |-> disk.sides, tracks |-> disk.tracks]
    /\ disk.tracks = [t \in DOMAIN disk.tracks |-> disk.tracks[t]]
    /\ \A t \in DOMAIN disk.tracks : t \in Nat \X Heads /\ disk.tracks[t] \in Seq(Sector)

Plus3Constants ==
    /\ 0 \in Units /\ Heads = {0, 1} /\ Cylinders \subseteq Nat
    /\ Ids \subseteq 0 .. 255 /\ Fills \subseteq 0 .. 255 /\ Bytes \subseteq 0 .. 255
    /\ SizeCodes \subseteq Nat /\ DataLengths \subseteq Nat /\ Counts \subseteq Nat
    /\ SectorUnit \in Nat \ {0}
    /\ \A disk \in Disks : IsImage(disk)

VARIABLE fdc

NoDisk == [sides |-> 0, tracks |-> <<>>]

NoInterrupt == [why |-> "none"]

ReadyChange(unit) == [why |-> "readyChange", unit |-> unit]

SeekEnd(unit) == [why |-> "seekEnd", unit |-> unit]

(* command_len: the operation code is one of the bytes.                      *)
CommandLength ==
    [specify |-> 3, senseDrive |-> 2, senseInterrupt |-> 1, recalibrate |-> 2,
     seek |-> 3, readId |-> 2, read |-> 9, write |-> 9, format |-> 6, invalid |-> 1]

Operations == DOMAIN CommandLength

NoExec == [data |-> <<>>]

NewController ==
    [disk |-> NoDisk, protect |-> FALSE, motor |-> FALSE,
     cylinder |-> [u \in Units |-> 0],
     phase |-> "idle", op |-> "invalid", got |-> 0,
     exec |-> NoExec, at |-> 0, left |-> 0, errors |-> {},
     interrupt |-> ReadyChange(0)]

-----------------------------------------------------------------------------
(* The image: a track is a sequence of sectors that carry their names.       *)

OnTrack(c, t, h) == <<t, h>> \in DOMAIN c.disk.tracks

SectorsAt(c, t, h) == IF OnTrack(c, t, h) THEN c.disk.tracks[<<t, h>>] ELSE <<>>

(* find_id: the first sector of that name and side, or else of that name;    *)
(* 0 when there is none.                                                     *)
FindId(c, t, h, id) ==
    LET secs == SectorsAt(c, t, h)
        sided == SelectInSeq(secs, LAMBDA s : s.id = id /\ s.side = h)
    IN  IF sided # 0 THEN sided ELSE SelectInSeq(secs, LAMBDA s : s.id = id)

Find(c, t, h, id) == <<t, h, FindId(c, t, h, id)>>

(* The sector a transfer is for: looked up by the head, then by H.           *)
Found(c, t, q) ==
    IF FindId(c, t, q.head, q.id) # 0 THEN Find(c, t, q.head, q.id)
    ELSE Find(c, t, q.h, q.id)

IsSector(place) == place[3] # 0

DataAt(c, p) == c.disk.tracks[<<p[1], p[2]>>][p[3]].data

TransferLength(n, dtl) ==
    IF n = 0
    THEN IF dtl = WholeSector THEN SectorUnit ELSE IF dtl = 0 THEN 1 ELSE dtl
    ELSE SectorUnit * <<2, 4, 8, 16, 32, 64>>[IF n > 6 THEN 6 ELSE n]

Transferred(data, n) == [i \in 1 .. n |-> IF i <= Len(data) THEN data[i] ELSE 0]

-----------------------------------------------------------------------------
Result(c, bytes, errors) ==
    [c EXCEPT !.phase = "result", !.left = bytes, !.errors = errors,
              !.exec = NoExec, !.at = 0]

Idle(c) == [c EXCEPT !.phase = "idle"]

(* The sector at the end of a cylinder ends the command abnormally.          *)
EndOfCylinder(q) == IF q.last THEN {"endOfCylinder"} ELSE {}

Specify(c) == Idle(c)

SenseDrive(c) == Result(c, 1, {})

SenseInterrupt(c) ==
    IF c.interrupt = NoInterrupt THEN Result(c, 1, {"invalid"})
    ELSE Result([c EXCEPT !.interrupt = NoInterrupt], 2, {})

(* An interrupt that nobody has sensed yet is lost.                          *)
Seek(c, unit, cylinder) ==
    Idle([c EXCEPT !.cylinder[unit] = cylinder, !.interrupt = SeekEnd(unit)])

ReadId(c, q) ==
    Result(c, 7, IF SectorsAt(c, c.cylinder[q.unit], q.head) = <<>>
                 THEN {"noData"} ELSE {})

Start(c, phase, exec, errors) ==
    [c EXCEPT !.phase = phase, !.exec = exec, !.at = 0, !.errors = errors]

(* Neither the unit nor its readiness is looked at.                          *)
ReadData(c, q) ==
    LET place == Found(c, c.cylinder[q.unit], q)
    IN  IF ~IsSector(place) THEN Result(c, 7, {"noData"})
        ELSE Start(c, "read",
                   [place |-> place,
                    data |-> Transferred(DataAt(c, place), TransferLength(q.n, q.dtl))],
                   EndOfCylinder(q))

(* The sector is looked for by head and by H, and will be written by head.   *)
WriteData(c, q) ==
    LET t == c.cylinder[q.unit]
    IN  IF c.protect THEN Result(c, 7, {"notWritable"})
        ELSE IF ~IsSector(Found(c, t, q)) THEN Result(c, 7, {"noData"})
        ELSE Start(c, "write",
                   [track |-> t, head |-> q.head, id |-> q.id,
                    data |-> [i \in 1 .. TransferLength(q.n, q.dtl) |-> 0]],
                   EndOfCylinder(q))

FormatTrack(c, q) ==
    IF c.protect THEN Result(c, 7, {"notWritable"})
    ELSE IF q.sc = 0 THEN Result(c, 7, {})
    ELSE Start(c, "format",
               [track |-> <<c.cylinder[q.unit], q.head>>, fill |-> q.fill,
                data |-> [i \in 1 .. 4 * q.sc |-> 0]], {})

Transfers ==
    [unit : Units, head : Heads, h : Heads, id : Ids, n : SizeCodes,
     dtl : DataLengths, last : BOOLEAN]

Requests(op) ==
    CASE op \in {"recalibrate", "senseDrive"} -> [unit : Units]
      [] op = "seek" -> [unit : Units, cylinder : Cylinders]
      [] op = "readId" -> [unit : Units, head : Heads]
      [] op \in {"read", "write"} -> Transfers
      [] op = "format" -> [unit : Units, head : Heads, sc : Counts, fill : Fills]
      [] OTHER -> {[unit |-> 0]}

Execute(c, op, q) ==
    CASE op = "specify" -> Specify(c)
      [] op = "senseDrive" -> SenseDrive(c)
      [] op = "senseInterrupt" -> SenseInterrupt(c)
      [] op = "recalibrate" -> Seek(c, q.unit, 0)
      [] op = "seek" -> Seek(c, q.unit, q.cylinder)
      [] op = "readId" -> ReadId(c, q)
      [] op = "read" -> ReadData(c, q)
      [] op = "write" -> WriteData(c, q)
      [] op = "format" -> FormatTrack(c, q)
      [] op = "invalid" -> Result(c, 1, {"invalid"})

-----------------------------------------------------------------------------
Target(c) == Find(c, c.exec.track, c.exec.head, c.exec.id)

(* A transfer shorter than the sector leaves the rest of it.                 *)
Overlaid(old, new) == [i \in DOMAIN old |-> IF i <= Len(new) THEN new[i] ELSE old[i]]

CommitWrite(c) ==
    LET p == Target(c)
    IN  IF ~IsSector(p) THEN c
        ELSE [c EXCEPT !.disk.tracks[<<p[1], p[2]>>][p[3]].data =
                Overlaid(@, c.exec.data)]

Formatted(entries, fill) ==
    [i \in DOMAIN entries |->
        [id |-> entries[i].id, side |-> entries[i].side,
         data |-> [k \in 1 .. TransferLength(entries[i].n, WholeSector) |-> fill]]]

CommitFormat(c, entries) ==
    IF c.exec.track \notin DOMAIN c.disk.tracks THEN Result(c, 7, {"noData"})
    ELSE Result([c EXCEPT !.disk.tracks[c.exec.track] = Formatted(entries, c.exec.fill)],
                7, {})

ExecWrite(c, byte) ==
    LET d == [c EXCEPT !.exec.data[c.at + 1] = byte, !.at = @ + 1]
    IN  IF d.at < Len(d.exec.data) THEN d ELSE Result(CommitWrite(d), 7, d.errors)

ExecFormat(c, entries) ==
    LET d == [c EXCEPT !.at = @ + 1]
    IN  IF d.at < Len(d.exec.data) THEN d ELSE CommitFormat(d, entries)

ExecRead(c) ==
    LET d == [c EXCEPT !.at = @ + 1]
    IN  IF d.at < Len(d.exec.data) THEN d ELSE Result(d, 7, d.errors)

CollectResult(c) ==
    IF c.left > 1 THEN [c EXCEPT !.left = @ - 1]
    ELSE Idle([c EXCEPT !.left = 0, !.errors = {}])

-----------------------------------------------------------------------------
Init == fdc = NewController

(* The first byte of a command, which for two of them is the last.           *)
OutOpcode(op) ==
    /\ fdc.phase = "idle"
    /\ fdc' = IF CommandLength[op] = 1
              THEN Execute(fdc, op, [unit |-> 0])
              ELSE [fdc EXCEPT !.phase = "command", !.op = op, !.got = 1]

OutParameter ==
    /\ fdc.phase = "command"
    /\ fdc.got + 1 < CommandLength[fdc.op]
    /\ fdc' = [fdc EXCEPT !.got = @ + 1]

OutLastParameter ==
    /\ fdc.phase = "command"
    /\ fdc.got + 1 = CommandLength[fdc.op]
    /\ \E q \in Requests(fdc.op) :
           fdc' = Execute([fdc EXCEPT !.op = "invalid", !.got = 0], fdc.op, q)

OutData(byte) ==
    /\ fdc.phase = "write"
    /\ fdc' = ExecWrite(fdc, byte)

(* What the bytes of a format say is told with the last of them.             *)
Entries(n) == [1 .. n \div 4 -> [id : Ids, side : Heads, n : SizeCodes]]

OutSectorId ==
    /\ fdc.phase = "format"
    /\ IF fdc.at + 1 < Len(fdc.exec.data)
       THEN fdc' = ExecFormat(fdc, <<>>)
       ELSE \E entries \in Entries(Len(fdc.exec.data)) : fdc' = ExecFormat(fdc, entries)

InData ==
    \/ fdc.phase = "read" /\ fdc' = ExecRead(fdc)
    \/ fdc.phase = "result" /\ fdc' = CollectResult(fdc)

SetMotor(on) ==
    /\ fdc.motor # on
    /\ fdc' = [fdc EXCEPT
                !.motor = on,
                !.interrupt = IF @ = NoInterrupt THEN ReadyChange(0) ELSE @]

SetWriteProtect(on) == fdc' = [fdc EXCEPT !.protect = on]

(* Mutated form of Insert: the phase is left as it was.                      *)
InsertOnly(disk) ==
    fdc' = [fdc EXCEPT !.disk = disk, !.op = "invalid", !.got = 0,
                       !.exec = NoExec, !.at = 0, !.left = 0, !.errors = {}]

(* A command under way is forgotten; an interrupt is not.                    *)
Insert(disk) ==
    fdc' = [fdc EXCEPT !.disk = disk, !.phase = "idle", !.op = "invalid", !.got = 0,
                       !.exec = NoExec, !.at = 0, !.left = 0, !.errors = {}]

ResetController ==
    fdc' = [NewController EXCEPT !.disk = fdc.disk, !.protect = fdc.protect]

(* The driver's next access while a command runs: what the status asks for.  *)
Serve ==
    \/ InData
    \/ \E byte \in Bytes : OutData(byte)
    \/ OutSectorId
    \/ OutParameter
    \/ OutLastParameter

Next ==
    \/ \E op \in Operations : OutOpcode(op)
    \/ Serve
    \/ \E on \in BOOLEAN : SetMotor(on) \/ SetWriteProtect(on)
    \/ \E disk \in Disks : Insert(disk)
    \/ ResetController

vars == fdc

Spec == Init /\ [][Next]_vars

-----------------------------------------------------------------------------
(* What the controller is to its medium.  A write whose head does not carry  *)
(* the sector goes nowhere, and says so to nobody.                           *)

SectorsOf(disk) ==
    [p \in UNION {{<<t[1], t[2], i>> : i \in DOMAIN disk.tracks[t]} : t \in DOMAIN disk.tracks}
        |-> disk.tracks[<<p[1], p[2]>>][p[3]].data]

Job ==
    CASE fdc.phase = "read" ->
            [op |-> "read", at |-> fdc.exec.place,
             bytes |-> SubSeq(fdc.exec.data, fdc.at + 1, Len(fdc.exec.data))]
      [] fdc.phase = "write" ->
            [op |-> "write", at |-> Target(fdc), want |-> Len(fdc.exec.data),
             keep |-> TRUE, bytes |-> SubSeq(fdc.exec.data, 1, fdc.at)]
      [] fdc.phase = "format" -> [op |-> "format", at |-> fdc.exec.track]
      [] OTHER -> [op |-> "none"]

NoneFollows(p, q) == FALSE

Media == {SectorsOf(disk) : disk \in Disks \cup {NoDisk}}

Drive == INSTANCE SectorDrive WITH
    medium <- SectorsOf(fdc.disk), job <- Job, Follows <- NoneFollows,
    Lenient <- TRUE, InPlace <- FALSE, Fill <- 0

-----------------------------------------------------------------------------
(* What the guest reads in the main status register agrees with what the     *)
(* controller can do: it asks for a byte only while one is due.              *)
StatusOK(c) ==
    /\ c.phase = "command" => c.got < CommandLength[c.op]
    /\ c.phase \in {"read", "write", "format"} => c.at < Len(c.exec.data)
    /\ c.phase = "result" <=> c.left > 0
    /\ c.phase \notin {"read", "write", "format"} => c.exec = NoExec /\ c.at = 0

(* A command goes from its bytes to its execution to its result, and in each *)
(* it asks for a number of bytes.                                            *)
Stage(c) ==
    CASE c.phase = "idle" -> 0
      [] c.phase = "result" -> 1
      [] c.phase \in {"read", "write", "format"} -> 2
      [] c.phase = "command" -> 3

Left(c) ==
    CASE c.phase = "result" -> c.left
      [] c.phase = "command" -> CommandLength[c.op] - c.got
      [] OTHER -> Len(c.exec.data) - c.at

Nearer ==
    \/ Stage(fdc') < Stage(fdc)
    \/ Stage(fdc') = Stage(fdc) /\ Left(fdc') < Left(fdc)

=============================================================================
