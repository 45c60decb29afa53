----------------------------- MODULE NextSdCard ------------------------------
(* The file-backed SD card of the Spectrum Next, crates/bus/src/next_sd.rs.  *)
(*                                                                           *)
(* A command is its number; its argument is told with the answer.  A read    *)
(* fills a buffer when its token goes out, and a write leaves its own when   *)
(* the second checksum byte arrives.  The wait for a read token may shrink   *)
(* by the time since the byte before it.                                     *)
EXTENDS Integers, Sequences

CONSTANTS
    BlockSize,          \* SECTOR_SIZE
    ArgumentBytes,      \* the bytes of an argument: 4
    RegisterBytes,      \* the bytes of the card register and its checksum: 18
    StopDelay,          \* the bytes that pass after CMD12 in a read: 8
    LastBlock,          \* where the number of a block to write saturates: 2^32 - 1
    Addresses,          \* the arguments of reads and writes
    Images,             \* the images to open: sequences of blocks
    Bytes               \* the bytes written

VARIABLE sd

(* A block of an image.                                                      *)
Block == [1 .. BlockSize -> 0 .. 255]

SdConstants ==
    /\ BlockSize \in Nat \ {0} /\ ArgumentBytes \in Nat \ {0}
    /\ RegisterBytes \in Nat \ {0} /\ StopDelay \in Nat
    /\ LastBlock \in Nat /\ Addresses \subseteq Nat
    /\ Images \subseteq Seq(Block) /\ Bytes \subseteq 0 .. 255

Commands == {0, 8, 9, 12, 13, 16, 17, 18, 24, 25, 41, 55, 58, 63}

Multi(cmd) == cmd \in {18, 25}

NewCard(image) ==
    [image |-> image, selected |-> FALSE,
     idle |-> TRUE, app |-> FALSE, highCapacity |-> FALSE,
     phase |-> "idle", left |-> 0, cmd |-> 0, lba |-> 0, buffer |-> <<>>]

Has(c, lba) == lba + 1 \in DOMAIN c.image

(* Waits for left more bytes in a phase before the one that ends it.         *)
Enter(c, phase, left) == [c EXCEPT !.phase = phase, !.left = left]

Idle(c) == [Enter(c, "idle", 0) EXCEPT !.cmd = 0, !.lba = 0, !.buffer = <<>>]

Less(c) == [c EXCEPT !.left = @ - 1]

-----------------------------------------------------------------------------
Address(c, arg) == IF c.highCapacity THEN arg ELSE arg \div BlockSize

(* A transfer that names no block of the image is refused in the answer.     *)
StartTransfer(c, lba) ==
    IF ~Has(c, lba) THEN Idle(c)
    ELSE [(IF c.cmd \in {17, 18} THEN Enter(c, "readToken", 1) ELSE Enter(c, "writeToken", 0))
            EXCEPT !.lba = lba]

Respond(c, arg, hcs) ==
    LET d == [c EXCEPT !.app = FALSE]
    IN  CASE c.cmd = 41 /\ c.app -> [Idle(d) EXCEPT !.idle = FALSE, !.highCapacity = hcs]
          [] c.cmd = 0 -> [Idle(d) EXCEPT !.idle = TRUE, !.highCapacity = FALSE]
          [] c.cmd \in {8, 58} -> Enter(d, "extra", 3)
          [] c.cmd = 55 -> [Idle(d) EXCEPT !.app = TRUE]
          [] c.cmd = 12 /\ ~c.idle -> Enter(d, "stop", 1)
          [] c.cmd = 13 /\ ~c.idle -> Enter(d, "status", 0)
          [] c.cmd = 9 /\ ~c.idle -> Enter(d, "register", RegisterBytes)
          [] c.cmd \in {17, 18, 24, 25} /\ ~c.idle -> StartTransfer(d, Address(c, arg))
          [] OTHER -> Idle(d)

(* The token goes out with the block behind it, or an error and no block.    *)
ReadBlock(c) ==
    IF Has(c, c.lba)
    THEN [Enter(c, "read", BlockSize + 1) EXCEPT !.buffer = c.image[c.lba + 1]]
    ELSE Idle(c)

(* write_sector; a block that is not on the image is refused.                *)
Commit(c) ==
    IF Has(c, c.lba) THEN [c EXCEPT !.image[c.lba + 1] = c.buffer] ELSE c

-----------------------------------------------------------------------------
Init == \E image \in Images : sd = NewCard(image)

Exchange(phase) ==
    /\ sd.selected
    /\ sd.phase = phase

StartCommand(cmd) ==
    /\ Exchange("idle")
    /\ sd' = [Enter(sd, "arg", ArgumentBytes) EXCEPT !.cmd = cmd]

(* A multiple read that waits for its next token takes CMD12 and no other.   *)
StopCommand ==
    /\ Exchange("readToken")
    /\ Multi(sd.cmd)
    /\ sd' = Enter(Idle(sd), "stopArg", ArgumentBytes)

TakeArgument ==
    \/ /\ Exchange("arg")
       /\ sd' = IF sd.left > 0 THEN Less(sd) ELSE Enter(sd, "wait", 1)
    \/ /\ Exchange("stopArg")
       /\ sd' = IF sd.left > 0 THEN Less(sd) ELSE Enter(sd, "stop", StopDelay)

Answer ==
    /\ Exchange("wait")
    /\ IF sd.left > 0 THEN sd' = Less(sd)
       ELSE \E arg \in Addresses, hcs \in BOOLEAN : sd' = Respond(sd, arg, hcs)

(* The bytes of an answer beyond its first, and those after a stop.          *)
SendExtra ==
    /\ \E phase \in {"extra", "status", "register", "stop"} : Exchange(phase)
    /\ sd' = IF sd.left > 0 THEN Less(sd) ELSE Idle(sd)

(* The time since the last byte is taken off the wait.                       *)
SendToken ==
    /\ Exchange("readToken")
    /\ \E elapsed \in 0 .. sd.left :
           LET left == sd.left - elapsed
           IN  sd' = IF left > 0 THEN [sd EXCEPT !.left = left - 1] ELSE ReadBlock(sd)

(* The block and two bytes of checksum.                                      *)
SendByte ==
    /\ Exchange("read")
    /\ sd' = IF sd.left > 0 THEN Less(sd)
             ELSE IF Multi(sd.cmd)
             THEN [Enter(sd, "readToken", 0) EXCEPT !.lba = @ + 1, !.buffer = <<>>]
             ELSE Idle(sd)

TakeToken(token) ==
    /\ Exchange("writeToken")
    /\ \/ /\ token = "stop" /\ Multi(sd.cmd)
          /\ sd' = Enter(Idle(sd), "stop", 0)
       \/ /\ token = (IF Multi(sd.cmd) THEN "multi" ELSE "single")
          /\ sd' = Enter(sd, "write", BlockSize + 1)

TakeByte(byte) ==
    /\ Exchange("write")
    /\ sd' = IF Len(sd.buffer) < BlockSize
             THEN [Less(sd) EXCEPT !.buffer = Append(@, byte)]
             ELSE IF sd.left > 0 THEN Less(sd)
             ELSE [Enter(Commit(sd), "busy", 2) EXCEPT !.buffer = <<>>]

(* The answer to the block, one busy byte, and the byte that ends it.        *)
Busy ==
    /\ Exchange("busy")
    /\ sd' = IF sd.left > 0 THEN Less(sd)
             ELSE IF Multi(sd.cmd)
             THEN [Enter(sd, "writeToken", 0) EXCEPT
                    !.lba = IF @ < LastBlock THEN @ + 1 ELSE @]
             ELSE Idle(sd)

Select(on) ==
    sd' = IF sd.selected = on THEN sd ELSE [Idle(sd) EXCEPT !.selected = on]

Reset ==
    sd' = [Idle(sd) EXCEPT !.selected = FALSE, !.idle = TRUE, !.app = FALSE,
                           !.highCapacity = FALSE]

(* A card that is attached is opened anew.                                   *)
Attach(image) == sd' = NewCard(image)

(* The next byte of a transaction, as its state asks for it.                 *)
Serve ==
    \/ TakeArgument \/ Answer \/ SendExtra
    \/ SendToken \/ SendByte
    \/ \E token \in {"single", "multi", "stop"} : TakeToken(token)
    \/ \E byte \in Bytes : TakeByte(byte)
    \/ Busy

Next ==
    \/ \E cmd \in Commands : StartCommand(cmd)
    \/ StopCommand
    \/ Serve
    \/ \E on \in BOOLEAN : Select(on)
    \/ Reset
    \/ \E image \in Images : Attach(image)

vars == sd

Spec == Init /\ [][Next]_vars

-----------------------------------------------------------------------------
(* What the card is to its medium.                                           *)

Blocks(image) == [lba \in {<<i - 1>> : i \in DOMAIN image} |-> image[lba[1] + 1]]

Job ==
    CASE sd.phase = "read" /\ sd.left > 1 ->
            [op |-> "read", at |-> <<sd.lba>>,
             bytes |-> SubSeq(sd.buffer, BlockSize + 2 - sd.left, BlockSize)]
      [] sd.phase = "write" ->
            [op |-> "write", at |-> <<sd.lba>>, want |-> BlockSize, keep |-> TRUE,
             bytes |-> sd.buffer]
      [] OTHER -> [op |-> "none"]

NoneFollows(p, q) == FALSE

Media == {Blocks(image) : image \in Images}

(* A write that goes on may leave the image and is refused there.            *)
Drive == INSTANCE SectorDrive WITH
    medium <- Blocks(sd.image), job <- Job, Follows <- NoneFollows,
    Lenient <- TRUE, InPlace <- FALSE, Fill <- 0

-----------------------------------------------------------------------------
(* Only a card that was selected and initialised transfers blocks, one that  *)
(* it has, unless a write went on beyond the last.                           *)
StatusOK(c) ==
    /\ c.phase \in {"readToken", "read", "writeToken", "write", "busy"} => ~c.idle
    /\ c.phase # "idle" => c.selected
    /\ c.phase = "read" => Has(c, c.lba) /\ Len(c.buffer) = BlockSize
    /\ c.phase \in {"writeToken", "write", "busy"} /\ ~Multi(c.cmd) => Has(c, c.lba)
    /\ c.phase = "write" => Len(c.buffer) <= BlockSize
    /\ c.left \in Nat

(* A command goes forward through its phases and their bytes, one that goes  *)
(* on with the next block aside.                                             *)
Phases ==
    <<"idle", "stop", "stopArg", "busy", "write", "writeToken", "read", "readToken",
      "register", "status", "extra", "wait", "arg">>

Stage(c) == CHOOSE i \in DOMAIN Phases : Phases[i] = c.phase

Nearer ==
    \/ Multi(sd.cmd) /\ sd.phase \in {"read", "busy"}
    \/ Stage(sd') < Stage(sd)
    \/ sd'.phase = sd.phase /\ sd'.left < sd.left

=============================================================================
