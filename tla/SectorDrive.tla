----------------------------- MODULE SectorDrive -----------------------------
(* What a disk or card interface promises about the medium in it.  A medium  *)
(* is a function from places to sectors, and a sector a sequence of bytes.   *)
(* A read hands out the bytes of one sector as they were when it began.  A   *)
(* write takes bytes, and the sector it names changes when it has them all,  *)
(* to just these bytes; nothing else on the medium ever changes, a format of *)
(* the track aside.  A transfer may go on with the sector that follows, may  *)
(* be given up, and may be moved to another place between two bytes.         *)
EXTENDS Naturals, Sequences

CONSTANTS
    Media,          \* the media somebody may insert
    Follows(_, _),  \* the places at which a transfer may go on
    Lenient,        \* places that are not on the medium can be transferred
    InPlace,        \* a byte of a write is on the medium at once
    Fill            \* what completes a sector that a format left short

VARIABLES
    medium,         \* sectors by place
    job             \* the transfer that is under way

NoJob == [op |-> "none"]

On(p) == p \in DOMAIN medium

(* A sector as a transfer of n bytes sees it.                                *)
Resized(sector, n) ==
    [i \in 1 .. n |-> IF i <= Len(sector) THEN sector[i] ELSE 0]

Stored(bytes) ==
    IF ~On(job.at) THEN medium
    ELSE [medium EXCEPT ![job.at] =
            [i \in DOMAIN @ |-> IF i <= Len(bytes) THEN bytes[i]
                                ELSE IF job.keep THEN @[i] ELSE Fill]]

-----------------------------------------------------------------------------
Init == medium \in Media /\ job = NoJob

(* job' reads the sector at its place from the start.                        *)
Reads ==
    /\ job'.op = "read"
    /\ IF On(job'.at)
       THEN job'.bytes = Resized(medium[job'.at], Len(job'.bytes))
       ELSE Lenient

Writes == job'.op = "write" /\ job'.bytes = <<>>

Formats == job'.op = "format"

Begin ==
    /\ \/ Reads \/ Formats
       \/ Writes /\ (On(job'.at) \/ Lenient \/ ~job'.keep)
    /\ UNCHANGED medium

GiveUp ==
    /\ job' = NoJob
    /\ UNCHANGED medium

Moved == job # NoJob /\ job' # NoJob /\ job' = [job EXCEPT !.at = job'.at]

Move ==
    /\ Moved
    /\ UNCHANGED medium

Give ==
    /\ job.op = "read"
    /\ job.bytes # <<>>
    /\ job' = [job EXCEPT !.bytes = Tail(@)]
    /\ UNCHANGED medium

(* With the last byte a read may go on with the sector that follows.         *)
GiveLast ==
    /\ job.op = "read"
    /\ Len(job.bytes) = 1
    /\ Reads
    /\ Follows(job.at, job'.at)
    /\ UNCHANGED medium

Take ==
    /\ job.op = "write"
    /\ Len(job.bytes) < job.want
    /\ job'.op = "write"
    /\ Len(job'.bytes) = Len(job.bytes) + 1
    /\ job' = [job EXCEPT !.bytes = Append(@, job'.bytes[Len(job'.bytes)])]
    /\ medium' = IF InPlace THEN Stored(job'.bytes) ELSE medium

(* The sector changes with the last byte or some time after it.              *)
Finish ==
    /\ job.op = "write"
    /\ \/ /\ Len(job.bytes) = job.want
          /\ medium' = Stored(job.bytes)
       \/ /\ Len(job.bytes) = job.want - 1
          /\ \E b \in 0 .. 255 : medium' = Stored(Append(job.bytes, b))
    /\ job' = NoJob \/ (Writes /\ Follows(job.at, job'.at))

(* The sectors of one track are replaced by blank ones.                      *)
Format ==
    /\ job.op = "format"
    /\ \A p \in DOMAIN medium \cup DOMAIN medium' :
           IF <<p[1], p[2]>> = job.at
           THEN On(p)' => \A i, k \in DOMAIN medium'[p] : medium'[p][i] = medium'[p][k]
           ELSE On(p) /\ On(p)' /\ medium'[p] = medium[p]
    /\ job' = NoJob

(* Whether a change of media ends the transfer is the interface's choice.    *)
Insert ==
    /\ medium' \in Media
    /\ job' \in {job, NoJob} \/ Moved

Next ==
    \/ GiveUp \/ Move \/ Begin
    \/ Give \/ GiveLast
    \/ Take \/ Finish \/ Format
    \/ Insert

Spec == Init /\ [][Next]_<<medium, job>>

=============================================================================
