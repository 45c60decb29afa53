----------------------------- MODULE DivMmcCard ------------------------------
(* One SD card slot of the DivMMC of crates/bus/src/divmmc.rs.  Every access *)
(* to the data port exchanges one byte with the card whose select bit is the *)
(* only one that is low.                                                     *)
(*                                                                           *)
(* A command is its number; its argument, which the card looks at when it    *)
(* answers, is told with the answer.                                         *)
EXTENDS Integers, Sequences

CONSTANTS
    BlockSize,          \* SD_SECTOR_SIZE
    ArgumentBytes,      \* the bytes of an argument: 4
    LastBlock,          \* where a block number saturates: 2^32 - 1
    Addresses,          \* the arguments of reads and writes
    Images,             \* the images to attach: sequences of blocks
    Bytes               \* the bytes written

VARIABLE mmc

(* A block of an image.                                                      *)
Block == [1 .. BlockSize -> 0 .. 255]

MmcConstants ==
    /\ BlockSize \in Nat \ {0} /\ ArgumentBytes \in Nat \ {0}
    /\ LastBlock \in Nat /\ Addresses \subseteq Nat
    /\ Images \subseteq Seq(Block) /\ Bytes \subseteq 0 .. 255

Commands == {0, 8, 12, 16, 17, 18, 24, 25, 41, 55, 58, 63}

Multi(cmd) == cmd \in {18, 25}

NewCard(image) ==
    [image |-> image, own |-> FALSE, other |-> FALSE,
     idle |-> TRUE, app |-> FALSE, highCapacity |-> FALSE,
     phase |-> "idle", at |-> 0, cmd |-> 0, lba |-> 0]

Has(c, lba) == lba + 1 \in DOMAIN c.image

Enter(c, phase) == [c EXCEPT !.phase = phase, !.at = 0]

(* The end of a transaction, the card's registers aside.                     *)
Idle(c) == [Enter(c, "idle") EXCEPT !.cmd = 0, !.lba = 0]

More(c) == [c EXCEPT !.at = @ + 1]

NextBlock(c, phase) ==
    [Enter(c, phase) EXCEPT !.lba = IF @ < LastBlock THEN @ + 1 ELSE @]

-----------------------------------------------------------------------------
Address(c, arg) == IF c.highCapacity THEN arg ELSE arg \div BlockSize

SoftReset(c) ==
    [Idle(c) EXCEPT !.idle = TRUE, !.app = FALSE, !.highCapacity = FALSE]

(* begin_response; an argument is a block or byte address, or asks for high  *)
(* capacity.                                                                 *)
Respond(c, arg, hcs) ==
    LET d == [c EXCEPT !.app = FALSE]
        data(next) ==
            IF c.idle THEN Idle(d)
            ELSE [Enter(d, next) EXCEPT !.lba = Address(c, arg)]
    IN  CASE c.cmd = 41 /\ c.app -> [Idle(d) EXCEPT !.idle = FALSE, !.highCapacity = hcs]
          [] c.cmd = 41 /\ ~c.app -> Idle(d)
          [] c.cmd = 0 -> SoftReset(d)
          [] c.cmd \in {8, 58} -> Enter(d, "extra")
          [] c.cmd = 12 -> IF c.idle THEN Idle(d) ELSE Enter(d, "busy")
          [] c.cmd \in {17, 18} -> data("token")
          [] c.cmd \in {24, 25} -> data("writeToken")
          [] c.cmd = 55 -> [Idle(d) EXCEPT !.app = TRUE]
          [] c.cmd \in {16, 63} -> Idle(d)

(* A byte reaches the image as soon as it is there; off it, it is dropped.   *)
Write(c, byte) ==
    IF Has(c, c.lba) THEN [c EXCEPT !.image[c.lba + 1][c.at + 1] = byte] ELSE c

-----------------------------------------------------------------------------
Init == \E image \in Images : mmc = NewCard(image)

(* exchange_active.                                                          *)
Exchange(phase) ==
    /\ mmc.own /\ ~mmc.other
    /\ mmc.phase = phase

(* Also a transfer that waits for its token takes a command.                 *)
StartCommand(cmd) ==
    /\ Exchange("idle") \/ Exchange("token")
    /\ mmc' = [Enter(mmc, "arg") EXCEPT !.cmd = cmd, !.lba = 0]

(* The argument and a checksum.                                              *)
TakeArgument ==
    /\ Exchange("arg")
    /\ mmc' = IF mmc.at < ArgumentBytes THEN More(mmc) ELSE Enter(mmc, "wait")

(* One byte passes before the answer.                                        *)
Answer ==
    /\ Exchange("wait")
    /\ IF mmc.at < 1 THEN mmc' = More(mmc)
       ELSE \E arg \in Addresses, hcs \in BOOLEAN : mmc' = Respond(mmc, arg, hcs)

SendExtra ==
    /\ Exchange("extra")
    /\ mmc' = IF mmc.at + 1 < 4 THEN More(mmc) ELSE Idle(mmc)

SendToken ==
    /\ Exchange("token")
    /\ mmc' = IF mmc.at < 1 THEN More(mmc) ELSE Enter(mmc, "read")

(* The block and two bytes of checksum.                                      *)
SendByte ==
    /\ Exchange("read")
    /\ mmc' = IF mmc.at + 1 < BlockSize + 2 THEN More(mmc)
              ELSE IF Multi(mmc.cmd) THEN NextBlock(mmc, "token")
              ELSE Idle(mmc)

TakeToken(token) ==
    /\ Exchange("writeToken")
    /\ \/ /\ token = "stop" /\ Multi(mmc.cmd)
          /\ mmc' = Idle(mmc)
       \/ /\ token = "single" \/ (token = "multi" /\ Multi(mmc.cmd))
          /\ mmc' = Enter(mmc, "write")

TakeByte(byte) ==
    /\ Exchange("write")
    /\ mmc' = IF mmc.at < BlockSize THEN More(Write(mmc, byte))
              ELSE IF mmc.at < BlockSize + 2 THEN More(mmc)
              ELSE Enter(mmc, "busy")

(* The next block of a write that goes on, or the end of the command.        *)
Busy ==
    /\ Exchange("busy")
    /\ mmc' = IF mmc.at = 0 /\ mmc.cmd = 25 THEN NextBlock(mmc, "writeToken")
              ELSE IF mmc.at = 0 THEN More(mmc)
              ELSE Idle(mmc)

(* A card that is no longer selected forgets its transaction.                *)
OutSelect(own, other) ==
    LET c == [mmc EXCEPT !.own = own, !.other = other]
    IN  mmc' = IF mmc.own /\ ~own THEN Idle(c) ELSE c

Attach(image) == mmc' = [SoftReset(mmc) EXCEPT !.image = image]

(* A reset of the machine; what the card was initialised to stays.           *)
ResetSoft == mmc' = [Idle(mmc) EXCEPT !.own = FALSE, !.other = FALSE]

(* The next byte of a transaction, as its state asks for it.                 *)
Serve ==
    \/ TakeArgument \/ Answer \/ SendExtra
    \/ SendToken \/ SendByte
    \/ \E token \in {"single", "multi", "stop"} : TakeToken(token)
    \/ \E byte \in Bytes : TakeByte(byte)
    \/ Busy

Next ==
    \/ \E cmd \in Commands : StartCommand(cmd)
    \/ Serve
    \/ \E own, other \in BOOLEAN : OutSelect(own, other)
    \/ \E image \in Images : Attach(image)
    \/ ResetSoft

vars == mmc

Spec == Init /\ [][Next]_vars

-----------------------------------------------------------------------------
(* What the card is to its medium: a read off the image sees only FFh, a     *)
(* write off it goes nowhere, and what was written before a transaction was  *)
(* given up stays.                                                           *)

Blocks(image) == [lba \in {<<i - 1>> : i \in DOMAIN image} |-> image[lba[1] + 1]]

BlockAt(c, lba) ==
    IF Has(c, lba) THEN c.image[lba + 1] ELSE [i \in 1 .. BlockSize |-> 255]

Job ==
    CASE mmc.phase = "read" /\ mmc.at < BlockSize ->
            [op |-> "read", at |-> <<mmc.lba>>,
             bytes |-> SubSeq(BlockAt(mmc, mmc.lba), mmc.at + 1, BlockSize)]
      [] mmc.phase = "write" /\ mmc.at <= BlockSize ->
            [op |-> "write", at |-> <<mmc.lba>>, want |-> BlockSize, keep |-> TRUE,
             bytes |-> SubSeq(BlockAt(mmc, mmc.lba), 1, mmc.at)]
      [] OTHER -> [op |-> "none"]

Media == {Blocks(image) : image \in Images}

NoneFollows(p, q) == FALSE

Drive == INSTANCE SectorDrive WITH
    medium <- Blocks(mmc.image), job <- Job, Follows <- NoneFollows,
    Lenient <- TRUE, InPlace <- TRUE, Fill <- 0

-----------------------------------------------------------------------------
(* Only a card that was selected and initialised transfers blocks, whatever  *)
(* resets, selections and images came in between.                            *)
StatusOK(c) ==
    /\ c.phase \in {"token", "read", "writeToken", "write", "busy"} => ~c.idle
    /\ c.phase # "idle" => c.own
    /\ c.phase = "write" => c.cmd \in {24, 25}
    /\ c.phase = "read" => c.cmd \in {17, 18}
    /\ c.phase = "write" => c.at <= BlockSize + 2
    /\ c.phase = "read" => c.at < BlockSize + 2

(* A command goes forward through its phases and their bytes, one that goes  *)
(* on with the next block aside.                                             *)
Phases == <<"idle", "busy", "write", "writeToken", "read", "token", "extra", "wait", "arg">>

Stage(c) == CHOOSE i \in DOMAIN Phases : Phases[i] = c.phase

Nearer ==
    \/ Multi(mmc.cmd) /\ mmc.phase \in {"read", "busy"}
    \/ Stage(mmc') < Stage(mmc)
    \/ mmc'.phase = mmc.phase /\ mmc'.at > mmc.at

=============================================================================
