-------------------------------- MODULE Ahci --------------------------------
(***************************************************************************)
(* ahcid: the scheme disk: over one SATA disk.  A request is cut into DMA  *)
(* commands of at most Chunk sectors (255 in the code) through one buffer  *)
(* of the driver; for each the driver fills a command slot, starts the     *)
(* port, polls until the disk is done or reports an error, and stops the   *)
(* port.  What the port and the disk do (dma, fault, and the fall of CR)   *)
(* is how the driver uses them.                                            *)
(*                                                                         *)
(* Positions and lengths count units, Unit to a sector (512 bytes).        *)
(***************************************************************************)
EXTENDS Integers, Sequences, FiniteSets, TLC

CONSTANTS
    Sectors,     \* the size of the disk
    Unit,        \* units of a sector
    Chunk,       \* the most sectors of a command
    Slots,       \* command slots of the port
    Lengths,     \* lengths of requests, in units
    Seeks,       \* offsets given to seek, in units
    MaxHandles, MaxWrites, MaxFaults

VARIABLES
    media,       \* the sectors: who wrote each last, 0 at first
    handles,     \* the position of each handle
    next_id,
    request,     \* what the driver works on: none, or [op, id, len, block, by]
    sector,      \* sectors done
    buf,         \* the DMA buffer
    data,        \* the sectors copied to or from the client
    port,        \* [ci, st, cr, err]: commands issued, ST, CR, an error in IS
    slot, pc,
    writes, faults,
    before,      \* the media when the request began
    result       \* the last answer, [op, ok, block, sectors, data, by]

diskvars == <<media, port, buf>>
vars == <<media, handles, next_id, request, sector, buf, data, port, slot, pc, writes, faults, before, result>>

none == [op |-> "none", id |-> 0, len |-> 0, block |-> 0, by |-> 0]
least(m, n) == IF m < n THEN m ELSE n
most(m, n) == IF m < n THEN n ELSE m
Size == Sectors * Unit

(* Disk::new: HbaPort::init has stopped the port.                          *)
Init ==
    /\ media = [s \in 0 .. Sectors - 1 |-> 0]
    /\ handles = <<>> /\ next_id = 0
    /\ request = none /\ sector = 0 /\ buf = <<>> /\ data = <<>>
    /\ port = [ci |-> {}, st |-> FALSE, cr |-> FALSE, err |-> FALSE]
    /\ slot = 0 /\ pc = "idle" /\ writes = 0 /\ faults = 0
    /\ before = media /\ result = none
-----------------------------------------------------------------------------
(* The requests that only change handles.  Handles are few.                *)
quiet ==
    /\ pc = "idle" /\ result' = none /\ before' = media
    /\ UNCHANGED <<media, request, sector, buf, data, port, slot, pc, writes, faults>>

open ==
    /\ quiet /\ next_id < MaxHandles
    /\ handles' = (next_id :> 0) @@ handles
    /\ next_id' = next_id + 1

dup(id) ==
    /\ quiet /\ next_id < MaxHandles
    /\ handles' = (next_id :> handles[id]) @@ handles
    /\ next_id' = next_id + 1

(* SEEK_SET, SEEK_CUR and SEEK_END, each held to the disk.                 *)
seek(id) ==
    /\ quiet
    /\ \/ \E pos \in Seeks \cap Nat : handles' = [handles EXCEPT ![id] = least(Size, pos)]
       \/ \E pos \in Seeks, from \in {handles[id], Size} :
             handles' = [handles EXCEPT ![id] = most(0, least(Size, from + pos))]
    /\ UNCHANGED next_id

close(id) ==
    /\ quiet
    /\ handles' = [i \in DOMAIN handles \ {id} |-> handles[i]]
    /\ UNCHANGED next_id

(* read or write: the request begins at the sector of the position.        *)
begin(id, op, len) ==
    /\ pc = "idle"
    /\ op = "write" => writes < MaxWrites
    /\ writes' = IF op = "write" THEN writes + 1 ELSE writes
    /\ request' = [op |-> op, id |-> id, len |-> len \div Unit, block |-> handles[id] \div Unit, by |-> writes']
    /\ sector' = 0 /\ data' = <<>> /\ pc' = "chunk" /\ before' = media /\ result' = none
    /\ UNCHANGED <<media, handles, next_id, buf, port, slot, faults>>

(* The loops of Disk::read and Disk::write: commands of Chunk sectors      *)
(* while as many are left, then one of the rest.                           *)
count == least(Chunk, request.len - sector)

finish(ok) ==
    /\ result' = [op |-> request.op, ok |-> ok, block |-> request.block, sectors |-> request.len,
                  data |-> data, by |-> request.by]
    /\ handles' = IF ok THEN [handles EXCEPT ![request.id] = @ + request.len * Unit] ELSE handles
    /\ request' = none /\ pc' = "idle" /\ sector' = 0 /\ data' = <<>>

done ==
    /\ pc = "chunk" /\ sector >= request.len
    /\ finish(TRUE)
    /\ UNCHANGED <<diskvars, next_id, slot, writes, faults, before>>

(* HbaPort::slot, as a set: the first slot without a command.              *)
free_slot == {i \in 0 .. Slots - 1 : i \notin port.ci /\ \A j \in 0 .. i - 1 : j \in port.ci}

(* ata_dma up to start: IS is cleared, a slot is filled, the command       *)
(* issued, and the port started.  The data to write is in the buffer.      *)
(* Without a free slot the request fails.                                  *)
ata_dma ==
    /\ pc = "chunk" /\ sector < request.len /\ ~port.cr
    /\ IF free_slot = {}
       THEN finish(FALSE) /\ UNCHANGED <<slot, port, buf>>
       ELSE /\ \E i \in free_slot :
                 /\ slot' = i
                 /\ port' = [ci |-> port.ci \cup {i}, st |-> TRUE, cr |-> TRUE, err |-> FALSE]
            /\ buf' = IF request.op = "write" THEN [k \in 1 .. count |-> request.by] ELSE buf
            /\ pc' = "poll"
            /\ UNCHANGED <<handles, request, sector, data, result>>
    /\ UNCHANGED <<media, next_id, writes, faults, before>>

(* The disk carries out the command.  One past its end is an error.        *)
lba_first == request.block
lba == request.block + sector
inside == lba + count <= Sectors
moved(n) ==
    IF request.op = "write"
    THEN /\ media' = [s \in DOMAIN media |-> IF s \in lba .. lba + n - 1 THEN buf[s - lba + 1] ELSE media[s]]
         /\ UNCHANGED buf
    ELSE buf' = [k \in 1 .. count |-> IF k <= n THEN media[lba + k - 1] ELSE 0] /\ UNCHANGED media

dma ==
    /\ pc = "poll" /\ slot \in port.ci /\ port.st /\ ~port.err /\ inside
    /\ moved(count)
    /\ port' = [port EXCEPT !.ci = @ \ {slot}]
    /\ UNCHANGED <<handles, next_id, request, sector, data, slot, pc, writes, faults, before, result>>

(* The disk fails, after some of the sectors.                              *)
fault ==
    /\ pc = "poll" /\ slot \in port.ci /\ port.st /\ ~port.err
    /\ inside => faults < MaxFaults
    /\ faults' = IF inside THEN faults + 1 ELSE faults
    /\ \E n \in 0 .. (IF inside THEN count ELSE 0) : moved(n)
    /\ port' = [port EXCEPT !.err = TRUE]
    /\ UNCHANGED <<handles, next_id, request, sector, data, slot, pc, writes, before, result>>

(* The end of the poll, and stop: ST is cleared.                           *)
stop_deaf ==
    /\ pc = "poll" /\ slot \notin port.ci
    /\ port' = [port EXCEPT !.st = FALSE]
    /\ pc' = "stop"
    /\ UNCHANGED <<media, handles, next_id, request, sector, buf, data, slot, writes, faults, before, result>>
stop ==
    /\ pc = "poll" /\ (slot \notin port.ci \/ port.err)
    /\ port' = [port EXCEPT !.st = FALSE]
    /\ pc' = "stop"
    /\ UNCHANGED <<media, handles, next_id, request, sector, buf, data, slot, writes, faults, before, result>>

(* The port stops and drops the commands that it holds.                    *)
stopped ==
    /\ pc = "stop" /\ port.cr
    /\ port' = [port EXCEPT !.cr = FALSE, !.ci = {}]
    /\ UNCHANGED <<media, handles, next_id, request, sector, buf, data, slot, pc, writes, faults, before, result>>

(* After the port has stopped: EIO, or the next command.                   *)
failed ==
    /\ pc = "stop" /\ ~port.cr /\ port.err
    /\ port' = [port EXCEPT !.err = FALSE]
    /\ finish(FALSE)
    /\ UNCHANGED <<media, buf, next_id, slot, writes, faults, before>>

copied ==
    /\ pc = "stop" /\ ~port.cr /\ ~port.err
    /\ data' = IF request.op = "read" THEN data \o SubSeq(buf, 1, count) ELSE data
    /\ sector' = sector + count
    /\ pc' = "chunk"
    /\ UNCHANGED <<diskvars, handles, next_id, request, slot, writes, faults, before, result>>

driver == done \/ ata_dma \/ stop \/ failed \/ copied
hardware == dma \/ fault \/ stopped

Next ==
    \/ open \/ driver \/ hardware
    \/ \E id \in DOMAIN handles :
          \/ dup(id) \/ seek(id) \/ close(id)
          \/ \E op \in {"read", "write"}, len \in Lengths : begin(id, op, len)

(* The loops of the driver run on, and a disk answers.                     *)
Fairness == WF_vars(driver) /\ WF_vars(dma \/ fault) /\ WF_vars(stopped)

Spec == Init /\ [][Next]_vars /\ Fairness
-----------------------------------------------------------------------------
span == result.block .. result.block + result.sectors - 1
after(n) == [s \in DOMAIN media |-> IF s \in span /\ s < result.block + n THEN result.by ELSE before[s]]

(* An answer says what happened on the disk, whatever the length of the    *)
(* request against that of a command, its place against the end of the     *)
(* disk, and the command that failed: a read that succeeds gives the       *)
(* sectors at the position and changes none; a write that succeeds has     *)
(* written all of them and no other; one that fails has written some from  *)
(* the first on.  No command is left on the port.                          *)
DiskExact ==
    (pc = "idle" /\ result.op # "none") =>
        /\ result.op = "read" => media = before
        /\ result.op = "read" /\ result.ok =>
              result.data = [k \in 1 .. result.sectors |-> media[result.block + k - 1]]
        /\ result.op = "write" => \E n \in 0 .. result.sectors : media = after(n)
        /\ result.op = "write" /\ result.ok => media = after(result.sectors)
        /\ port.ci = {} /\ ~port.st /\ ~port.cr

(* The driver answers every request, as its loops over chunks and its      *)
(* polls end: a disk that is done or failed ends the poll.                 *)
DiskAnswers == (pc # "idle") ~> (pc = "idle")
=============================================================================
