------------------------------ MODULE CDBuffer ------------------------------
(***************************************************************************)
(* The CD block's sector buffer: partitions, the filters that route        *)
(* sectors into them, and the host's transfers (src/core/cdblock.go,       *)
(* cdblock_cmd_sector.go, _selector.go, _status.go).  CDDrive has when the *)
(* drive reads and when commands run; every action here is one of them.    *)
(*                                                                         *)
(* A sector is the number it was made with, a copy has its original's.  A  *)
(* filter's conditions are the set of sectors they accept.  The position   *)
(* forms 0xFFFF stand for positions the other forms reach too; a command   *)
(* that answers WAIT or REJECT changes nothing here.                       *)
(***************************************************************************)
EXTENDS Integers, Sequences, FiniteSets, SequencesExt, FiniteSetsExt

CONSTANTS
  Partitions, Filters,   \* 24 of each, numbered alike
  Off,                   \* 0xFF: not connected
  Room,                  \* cdMaxSectors
  Depth,                 \* filters a sector tries at most
  MaxSectors,            \* bound on the sectors read and put
  MaxCommands,           \* bound on the commands the host issues
  Accepts                \* the conditions the host gives filters

ASSUME CDBufferAssumption ==
  /\ Partitions = Filters /\ Filters # {} /\ IsFiniteSet(Filters)
  /\ Off \notin Partitions
  /\ Room \in Nat \ {0} /\ Depth = Cardinality(Filters) /\ MaxSectors \in Nat /\ MaxCommands \in Nat
  /\ Accepts \subseteq SUBSET (1 .. MaxSectors)

Sectors == 1 .. MaxSectors

VARIABLES
  partitions,            \* a sequence of sectors each
  filters, device,       \* conditions and connections; cdDeviceFilter
  \* the host's transfer: the flag of the status byte, the command it began
  \* with
  transferActive, dataTransferType,
  del,                   \* delPart, delStart, delCount: what its end is to delete
  putBufNum, putSectorsRemaining,
  made, issued,          \* sectors made; commands issued
  \* history: the sectors a deletion was deferred for; that partition lost
  \* sectors since; something else came into the buffer during a put
  sent, shrunk, overlapped

transfer == <<transferActive, dataTransferType, del, putBufNum, putSectorsRemaining>>
selectors == <<filters, device>>
vars == <<partitions, selectors, transfer, made, issued, sent, shrunk, overlapped>>

NoFilters == [f \in Filters |-> [accept |-> Sectors, trueConn |-> f, falseConn |-> Off]]
Empty == [p \in Partitions |-> <<>>]
NoDeletion == [part |-> Off, start |-> 0, count |-> 0]

totalSectors == SumFunction([p \in Partitions |-> Len(partitions[p])])

Init ==
  /\ partitions = Empty /\ filters = NoFilters /\ device = Off
  /\ transferActive = FALSE /\ dataTransferType = "none" /\ del = NoDeletion
  /\ putBufNum = Off /\ putSectorsRemaining = 0
  /\ made = 0 /\ issued = 0 /\ sent = <<>> /\ shrunk = FALSE /\ overlapped = FALSE

-----------------------------------------------------------------------------
(* Routing                                                                   *)

(* The connection a sector leaves the filters by when it enters at f and may *)
(* still try n of them.                                                      *)
Route(s) ==
  LET leave[n \in 0 .. Depth] ==
        [f \in Filters \cup {Off} |->
          IF n = 0 \/ f = Off THEN Off
          ELSE IF s \in filters[f].accept THEN filters[f].trueConn
          ELSE leave[n - 1][filters[f].falseConn]]
  IN leave[Depth]

(* Mutant: a sector tries one filter only.                                   *)
routeSector_Short(s, f) == IF s \in filters[f].accept THEN filters[f].trueConn ELSE Off

routeSector(s, f) == Route(s)[f]

(* The partitions with a sector more in one of them, unless it is dropped.   *)
Into(parts, s, p) == IF p \in Partitions THEN [parts EXCEPT ![p] = Append(@, s)] ELSE parts

(* The partitions with the sectors ss routed from filter f on, in order.     *)
Routed(parts, ss, f) ==
  LET after[i \in 0 .. Len(ss)] ==
        IF i = 0 THEN parts ELSE Into(after[i - 1], ss[i], routeSector(ss[i], f))
  IN after[Len(ss)]

(* deleteSectors: what lies past the end is not there to delete.             *)
Cut(ss, start, count) ==
  SubSeq(ss, 1, IF start > Len(ss) THEN Len(ss) ELSE start - 1) \o SubSeq(ss, start + count, Len(ss))

-----------------------------------------------------------------------------
(* The drive and the MPEG card                                               *)

ReadSector ==
  /\ device \in Filters
  /\ totalSectors < Room /\ made < MaxSectors
  /\ made' = made + 1
  /\ partitions' = Routed(partitions, <<made'>>, device)
  /\ UNCHANGED <<selectors, transfer, issued>>

(* The card takes sectors from the head of the partition it is connected to. *)
MpegFeed(p, n) ==
  /\ n \in 1 .. Len(partitions[p])
  /\ partitions' = [partitions EXCEPT ![p] = SubSeq(@, n + 1, Len(@))]
  /\ UNCHANGED <<selectors, transfer, made, issued>>

-----------------------------------------------------------------------------
(* The selector commands                                                     *)

Issue == issued < MaxCommands /\ issued' = issued + 1 /\ UNCHANGED made
Setup == Issue /\ UNCHANGED transfer

cmdSetCDDeviceConnection ==
  /\ Setup
  /\ device' \in Filters \cup {Off}
  /\ UNCHANGED <<partitions, filters>>

(* Range, subheader conditions and mode together decide what is accepted.    *)
cmdSetFilterConditions(f) ==
  /\ Setup
  /\ \E a \in Accepts : filters' = [filters EXCEPT ![f].accept = a]
  /\ UNCHANGED <<partitions, device>>

cmdSetFilterConnection(f) ==
  /\ Setup
  /\ \E p \in Partitions \cup {Off}, g \in Filters \cup {Off} :
       filters' = [filters EXCEPT ![f] = [@ EXCEPT !.trueConn = p, !.falseConn = g]]
  /\ UNCHANGED <<partitions, device>>

(* One partition is cleared, or what the flags say is reset.                 *)
cmdResetSelector ==
  /\ Setup
  /\ \/ /\ \E p \in Partitions : partitions' = [partitions EXCEPT ![p] = <<>>]
        /\ UNCHANGED selectors
     \/ \E flags \in SUBSET {"partitions", "conditions", "device", "true", "false"} :
          /\ flags # {}
          /\ partitions' = IF "partitions" \in flags THEN Empty ELSE partitions
          /\ device' = IF "device" \in flags THEN Off ELSE device
          /\ filters' = [f \in Filters |->
               [accept |-> IF "conditions" \in flags THEN Sectors ELSE filters[f].accept,
                trueConn |-> IF "true" \in flags THEN f ELSE filters[f].trueConn,
                falseConn |-> IF "false" \in flags THEN Off ELSE filters[f].falseConn]]

cmdInitCDSystem ==
  /\ Issue
  /\ partitions' = Empty /\ filters' = NoFilters /\ device' = Off
  /\ transferActive' = FALSE /\ dataTransferType' = "none" /\ del' = NoDeletion
  /\ putSectorsRemaining' = 0
  /\ UNCHANGED putBufNum

-----------------------------------------------------------------------------
(* The sector commands                                                       *)

validateSectorRange(p, start, count) ==
  start >= 1 /\ count >= 1 /\ start + count - 1 <= Len(partitions[p])

cmdGetSectorData(p, start, count) ==
  /\ Issue
  /\ ~transferActive
  /\ validateSectorRange(p, start, count)
  /\ transferActive' = TRUE /\ dataTransferType' = "get"
  /\ UNCHANGED <<partitions, selectors, del, putBufNum, putSectorsRemaining>>

cmdDeleteSectorData(p, start, count) ==
  /\ Issue
  /\ validateSectorRange(p, start, count)
  /\ partitions' = [partitions EXCEPT ![p] = Cut(@, start, count)]
  /\ UNCHANGED <<selectors, transfer>>

(* The deletion waits for EndDataTransfer.                                   *)
cmdGetThenDelete(p, start, count) ==
  /\ Issue
  /\ ~transferActive
  /\ validateSectorRange(p, start, count)
  /\ del' = [part |-> p, start |-> start, count |-> count]
  /\ transferActive' = TRUE /\ dataTransferType' = "getThenDelete"
  /\ UNCHANGED <<partitions, selectors, putBufNum, putSectorsRemaining>>

cmdPutSectorData(p, count) ==
  /\ Issue
  /\ ~transferActive
  /\ totalSectors + count <= Room
  /\ putBufNum' = p /\ putSectorsRemaining' = count
  /\ transferActive' = TRUE /\ dataTransferType' = "put"
  /\ UNCHANGED <<partitions, selectors, del>>

(* The host has written the words of a sector.                               *)
checkPutSector ==
  /\ putSectorsRemaining > 0 /\ made < MaxSectors
  /\ made' = made + 1
  /\ partitions' = [partitions EXCEPT ![putBufNum] = Append(@, made')]
  /\ putSectorsRemaining' = putSectorsRemaining - 1
  /\ UNCHANGED <<selectors, transferActive, dataTransferType, del, putBufNum, issued>>

(* Mutant: a copy does not look whether there is room for it.                *)
cmdCopySectorData_NoRoom(f, p, start, count) ==
  /\ Issue
  /\ validateSectorRange(p, start, count)
  /\ partitions' = Routed(partitions, SubSeq(partitions[p], start, start + count - 1), f)
  /\ UNCHANGED <<selectors, transfer>>

cmdCopySectorData(f, p, start, count) ==
  /\ Issue
  /\ validateSectorRange(p, start, count)
  /\ totalSectors + count <= Room
  /\ partitions' = Routed(partitions, SubSeq(partitions[p], start, start + count - 1), f)
  /\ UNCHANGED <<selectors, transfer>>

(* Mutant: the sectors are routed before they are taken out.                 *)
cmdMoveSectorData_RouteFirst(f, p, start, count) ==
  /\ Issue
  /\ validateSectorRange(p, start, count)
  /\ LET parts == Routed(partitions, SubSeq(partitions[p], start, start + count - 1), f) IN
     partitions' = [parts EXCEPT ![p] = SubSeq(@, 1, start - 1) \o SubSeq(@, start + count, Len(partitions[p]))]
  /\ UNCHANGED <<selectors, transfer>>

(* The sectors are taken out first: a filter may lead back to where they     *)
(* came from.                                                                *)
cmdMoveSectorData(f, p, start, count) ==
  /\ Issue
  /\ validateSectorRange(p, start, count)
  /\ partitions' = Routed([partitions EXCEPT ![p] = Cut(@, start, count)],
                          SubSeq(partitions[p], start, start + count - 1), f)
  /\ UNCHANGED <<selectors, transfer>>

(* The table of contents and file records come through the data buffer, and  *)
(* whatever transfer is under way makes room for them; a subcode frame does  *)
(* so without marking a transfer.                                            *)
OtherData ==
  /\ Issue
  /\ dataTransferType' = "other"
  /\ transferActive' \in {TRUE, transferActive}
  /\ UNCHANGED <<partitions, selectors, del, putBufNum, putSectorsRemaining>>

(* Mutant: the deletion is taken from the head of the partition.             *)
cmdEndDataTransfer_Head ==
  /\ transferActive' = FALSE /\ dataTransferType' = "none"
  /\ putSectorsRemaining' = 0
  /\ IF dataTransferType = "getThenDelete" /\ del.part \in Partitions
     THEN partitions' = [partitions EXCEPT ![del.part] = Cut(@, 1, del.count)] /\ del' = NoDeletion
     ELSE UNCHANGED <<partitions, del>>
  /\ UNCHANGED <<selectors, putBufNum, made, issued>>

(* Ends a put and what is left of one: whatever took over from it has set    *)
(* dataBuf, so that the code's case of nothing to end finds no put either.   *)
cmdEndDataTransfer ==
  /\ transferActive' = FALSE /\ dataTransferType' = "none"
  /\ putSectorsRemaining' = 0
  /\ IF dataTransferType = "getThenDelete" /\ del.part \in Partitions
     THEN partitions' = [partitions EXCEPT ![del.part] = Cut(@, del.start, del.count)] /\ del' = NoDeletion
     ELSE UNCHANGED <<partitions, del>>
  /\ UNCHANGED <<selectors, putBufNum, made, issued>>

Positions == 1 .. 2 * Room

Drive == ReadSector \/ \E p \in Partitions, n \in Positions : MpegFeed(p, n)
Selector ==
  \/ cmdSetCDDeviceConnection \/ cmdResetSelector \/ cmdInitCDSystem
  \/ \E f \in Filters : cmdSetFilterConditions(f) \/ cmdSetFilterConnection(f)
Sector ==
  \/ \E p \in Partitions, start, count \in Positions :
       \/ cmdGetSectorData(p, start, count) \/ cmdDeleteSectorData(p, start, count)
       \/ cmdGetThenDelete(p, start, count)
       \/ \E f \in Filters : cmdCopySectorData(f, p, start, count) \/ cmdMoveSectorData(f, p, start, count)
  \/ \E p \in Partitions, count \in 1 .. Room : cmdPutSectorData(p, count)
  \/ checkPutSector \/ OtherData \/ cmdEndDataTransfer

(* History: what happens to the partition a deletion is deferred in, and     *)
(* what comes into the buffer while a put is under way.                      *)
History ==
  /\ IF del'.part = Off THEN sent' = <<>> /\ shrunk' = FALSE
     ELSE IF dataTransferType # "getThenDelete" /\ dataTransferType' = "getThenDelete"
     THEN sent' = SubSeq(partitions[del'.part], del'.start, del'.start + del'.count - 1) /\ shrunk' = FALSE
     ELSE UNCHANGED sent /\ shrunk' = (shrunk \/ ~IsPrefix(partitions[del.part], partitions'[del.part]))
  /\ overlapped' = (/\ (putSectorsRemaining' > 0 \/ totalSectors' > Room)
                    /\ \/ overlapped
                       \/ putSectorsRemaining' > 0 /\ putSectorsRemaining' = putSectorsRemaining
                          /\ totalSectors' > totalSectors)

Next == (Drive \/ Selector \/ Sector) /\ History

Spec == Init /\ [][Next]_vars

-----------------------------------------------------------------------------
(* Properties                                                                *)

(* Filters                                                                   *)

(* The filters a sector can come to from f by false connections.             *)
ChainFrom(f) ==
  LET reach[n \in 0 .. Depth] ==
        IF n = 0 THEN {f} ELSE reach[n - 1] \cup ({filters[g].falseConn : g \in reach[n - 1]} \ {Off})
  IN reach[Depth]

(* A sector is dropped only when no filter it can come to accepts it, or one *)
(* that does is not connected: the number of filters a sector tries is       *)
(* enough however long the chain is, and a loop of filters ends              *)
(* (routeSector).                                                            *)
RoutedIfAccepted ==
  \A s \in Sectors, f \in Filters :
    LET accepting == {g \in ChainFrom(f) : s \in filters[g].accept} IN
    /\ routeSector(s, f) \in Partitions => \E g \in accepting : filters[g].trueConn = routeSector(s, f)
    /\ accepting # {} /\ (\A g \in accepting : filters[g].trueConn # Off) => routeSector(s, f) # Off

(* What EndDataTransfer deletes is what the host was sent, once, as long as  *)
(* the partition only grew in between, whatever other transfers took over    *)
(* and ended (cmdEndDataTransfer).                                           *)
EndDeletesWhatWasSent ==
  [][cmdEndDataTransfer /\ partitions' # partitions /\ ~shrunk
       => \E p \in Partitions : \E n \in 0 .. Len(partitions[p]) - Len(sent) :
            /\ SubSeq(partitions[p], n + 1, n + Len(sent)) = sent
            /\ partitions' = [partitions EXCEPT ![p] = Cut(@, n + 1, Len(sent))]]_vars

(* The buffer never holds more than its 200 sectors, unless the drive or a   *)
(* copy took the room a put under way was promised (checkPutSector).         *)
RoomKept == totalSectors <= Room \/ overlapped

(* A move keeps every sector it does not drop, once, also when the filters   *)
(* lead back into the partition it came from (cmdMoveSectorData).            *)
Times(s, ss) == Cardinality({i \in DOMAIN ss : ss[i] = s})
Count(s) == SumFunction([p \in Partitions |-> Times(s, partitions[p])])
MovedOnce ==
  [][\A f \in Filters, p \in Partitions, start, count \in Positions :
       cmdMoveSectorData(f, p, start, count)
         => \A s \in Sectors :
              Count(s)' = Count(s) - IF routeSector(s, f) # Off THEN 0
                                     ELSE Times(s, SubSeq(partitions[p], start, start + count - 1))]_vars
=============================================================================
