----------------------------- MODULE BackupRAM -----------------------------
(***************************************************************************)
(* The backup library of the built-in BIOS (src/core/hlebios_bup.go): save *)
(* files in the blocks of the backup RAM.  A service is one step: it runs  *)
(* in the place of one instruction.                                        *)
(*                                                                         *)
(* The unit is the 16-bit word.  A block is its status bit, the name and   *)
(* the size of a directory entry, and words that are a block list, payload *)
(* or both; a directory entry has fewer of them.  Payload words take the   *)
(* same values as block numbers.  Names, pointers that are null, comment,  *)
(* language and date are left out.  The memory is one these services wrote.*)
(***************************************************************************)
EXTENDS Integers, Sequences, FiniteSets, SequencesExt, FiniteSetsExt

CONSTANTS
  Blocks,                \* bupTotalBlocks, the first two in use
  Slots,                 \* bupDirListWordSlots
  Names, None,           \* None: no name, no file
  Contents,              \* what games write, sequences of words
  Records, RecordBlocks  \* of the driver's working buffer: files, blocks of each

Page == 2 * Slots        \* bupContWordSlots, and the payload of a block
FirstBlock == 2
FileBlocks == FirstBlock .. Blocks - 1
Words == 0 .. Blocks - 1

ASSUME BackupRAMAssumption ==
  /\ Blocks \in Nat /\ Blocks > FirstBlock
  /\ Slots \in Nat \ {0}
  /\ IsFiniteSet(Names) /\ None \notin Names \cup Contents
  /\ Contents \subseteq Seq(Words)
  /\ {Records, RecordBlocks} \subseteq Nat \ {0}

VARIABLES
  ram, formatted,
  perEntry,              \* the working buffer of the driver: block lists
  reply                  \* R0 and what the service left for the game

backupVars == <<ram, formatted, perEntry, reply>>

(* A set of numbers in their order.                                          *)
Ascending(S) == [i \in 1 .. Cardinality(S) |-> CHOOSE x \in S : Cardinality({y \in S : y < x}) = i - 1]

(* n words from the i-th, or what there is of them.                          *)
From(ws, i, n) == SubSeq(ws, i, IF i + n - 1 > Len(ws) THEN Len(ws) ELSE i + n - 1)

Zeros(n) == [i \in 1 .. n |-> 0]
Zero == [used |-> FALSE, name |-> None, size |-> 0, words |-> Zeros(Page)]
Formatted == [b \in FileBlocks |-> Zero]

-----------------------------------------------------------------------------
(* Reading the block lists                                                   *)

(* The words up to the first zero; whether there is one.                     *)
Terminated(ws) == \E i \in DOMAIN ws : ws[i] = 0
ListLength(ws) == IF Terminated(ws) THEN Min({i \in DOMAIN ws : ws[i] = 0}) - 1 ELSE Len(ws)
bupParseExtentList(ws) == SubSeq(ws, 1, ListLength(ws))
Tail1(ws) == SubSeq(ws, ListLength(ws) + 2, Len(ws))

bupEntryInUse(b) == ram[b].used
InEntry(e) == SubSeq(ram[e].words, 1, Slots)

(* A list without a terminator is continued: its blocks are continuation     *)
(* pages, each of which lists more, up to the page whose list ends; the rest *)
(* are data.  Only the place in the walk tells which.  BUP_Write keeps all   *)
(* pages in the entry's own list.                                            *)
bupWalkOverflow(seed) ==
  LET last == {i \in DOMAIN seed : Terminated(ram[seed[i]].words)}
      pages == IF last = {} THEN Len(seed) ELSE Min(last) IN
  [claimed |-> seed \o FlattenSeq([i \in 1 .. pages |-> bupParseExtentList(ram[seed[i]].words)]),
   pages |-> pages]

(* Mutant: a page is told by its words, as one that lists blocks.            *)
bupEntryBlocks_ByContent(e) ==
  LET seed == bupParseExtentList(InEntry(e))
      w == bupWalkOverflow(seed)
      listing(b) == ToSet(ram[b].words) \subseteq FileBlocks \cup {0} IN
  IF Terminated(InEntry(e)) THEN [claimed |-> seed, pages |-> 0]
  ELSE [w EXCEPT !.pages = Cardinality({i \in DOMAIN w.claimed : listing(w.claimed[i])})]

(* All the blocks of an entry in their order, and how many are pages.        *)
bupEntryBlocks(e) ==
  LET seed == bupParseExtentList(InEntry(e)) IN
  IF Terminated(InEntry(e)) THEN [claimed |-> seed, pages |-> 0] ELSE bupWalkOverflow(seed)

(* The payload: the words behind the terminator, then the data blocks.       *)
bupBuildReadChain(e) ==
  LET b == bupEntryBlocks(e) IN
  Tail1(IF b.pages = 0 THEN InEntry(e) ELSE ram[b.claimed[b.pages]].words)
    \o FlattenSeq([i \in 1 .. Len(b.claimed) - b.pages |-> ram[b.claimed[b.pages + i]].words])

Payload(e) == From(bupBuildReadChain(e), 1, ram[e].size)

Entries == {b \in FileBlocks : bupEntryInUse(b)}
bupFindEntry(n) == {e \in Entries : ram[e].name = n}
Entry(n) == Min(bupFindEntry(n))

Claimed(e) == ToSet(bupEntryBlocks(e).claimed)

(* Mutant: the blocks that only the continuation pages list are left out.    *)
bupUsedBlocks_InEntry == Entries \cup UNION {ToSet(bupParseExtentList(InEntry(e))) : e \in Entries}

(* The blocks of the entries and all they claim.                             *)
bupUsedBlocks == Entries \cup UNION {Claimed(e) : e \in Entries}
FreeBlocks == FileBlocks \ bupUsedBlocks

-----------------------------------------------------------------------------
(* Writing a file                                                            *)

BlocksFor(size) == (size + Slots - 1) \div (Page - 1)
Pages(m) == IF m <= Slots - 1 THEN 0 ELSE (m - (Slots - 1) + Page - 1) \div Page

(* The first n of the free blocks.                                           *)
bupAllocBlocks(free, n) == SubSeq(Ascending(free), 1, n)

Fill(ws, n) == ws \o Zeros(n - Len(ws))

(* What goes into the blocks: the entry's list names the pages and the first *)
(* data blocks; each page but the last is full of further data blocks; the   *)
(* list that ends has the first words of the file behind its terminator.     *)
Layout(blocks, n, d) ==
  LET m == Len(blocks) - 1
      c == Pages(m)
      list(j) == From(Tail(blocks), Slots + (j - 1) * Page + 1, Page)
      lead == IF c = 0 THEN Slots - m - 1 ELSE Page - Len(list(c)) - 1
      chunk(i) == From(d, lead + (i - 1) * Page + 1, Page)
  IN [i \in 1 .. Len(blocks) |->
       IF i = 1
       THEN [used |-> TRUE, name |-> n, size |-> Len(d),
             words |-> Fill(IF c = 0 THEN Tail(blocks) \o <<0>> \o From(d, 1, lead)
                                     ELSE From(Tail(blocks), 1, Slots), Page)]
       ELSE IF i - 1 < c THEN [Zero EXCEPT !.words = list(i - 1)]
       ELSE IF i - 1 = c THEN [Zero EXCEPT !.words = Fill(list(c) \o <<0>> \o From(d, 1, lead), Page)]
       ELSE [Zero EXCEPT !.words = Fill(chunk(i - 1 - c), Page)]]

-----------------------------------------------------------------------------
(* The services                                                              *)

Reply(code) == reply' = <<code>>

(* bupPopulatePerEntryBuffer: the entries as they are when a service begins, *)
(* as many and as much of each as the buffer has room for.                   *)
bupSetInternalDriverState ==
  perEntry' = LET order == From(Ascending(Entries), 1, Records) IN
              [i \in 1 .. Len(order) |-> From(<<order[i]>> \o bupEntryBlocks(order[i]).claimed, 1, RecordBlocks)]

BackupInit ==
  /\ ram = Formatted /\ formatted \in BOOLEAN
  /\ perEntry = <<>> /\ reply = <<"none">>

(* What most services begin with; without the format they do nothing.        *)
Checked == bupSetInternalDriverState /\ formatted /\ UNCHANGED formatted

(* BUP_Stat looks for the format first, the others fill the buffer first.    *)
Unformatted ==
  /\ bupSetInternalDriverState \/ UNCHANGED perEntry
  /\ ~formatted
  /\ Reply("unformatted")
  /\ UNCHANGED <<ram, formatted>>

(* Another device than the internal one, of which BUP_Dir says that it holds *)
(* nothing; BUP_SelPart is content with all but the cartridge.               *)
NoDevice ==
  /\ reply' \in {<<"no device">>, <<"count", 0>>, <<"ok">>}
  /\ UNCHANGED <<ram, formatted, perEntry>>

BUP_Format ==
  /\ ram' = Formatted /\ formatted' = TRUE
  /\ Reply("ok")
  /\ UNCHANGED perEntry

bupFillStat(size) ==
  LET f == Cardinality(FreeBlocks) IN
  <<IF f * (Page - 1) - Slots < 0 THEN 0 ELSE f * (Page - 1) - Slots, f, f \div (1 + BlocksFor(size))>>

BUP_Stat(size) ==
  /\ Checked
  /\ reply' = <<"ok">> \o bupFillStat(size)
  /\ UNCHANGED ram

(* A file that may be replaced is erased before the blocks are counted.      *)
BUP_Write(n, d, keep) ==
  /\ Checked
  /\ LET m == BlocksFor(Len(d))
         there == IF bupFindEntry(n) = {} THEN {} ELSE {Entry(n)}
         erased == [b \in FileBlocks |-> IF b \in there THEN Zero ELSE ram[b]]
         free == FreeBlocks \cup there \cup UNION {Claimed(e) : e \in there} IN
     IF Pages(m) > Slots THEN Reply("not enough memory") /\ UNCHANGED ram
     ELSE IF there # {} /\ keep THEN Reply("found") /\ UNCHANGED ram
     ELSE IF Cardinality(free) < 1 + m THEN Reply("not enough memory") /\ ram' = erased
     ELSE LET blocks == bupAllocBlocks(free, 1 + m)
              new == Layout(blocks, n, d) IN
          /\ ram' = [b \in FileBlocks |->
                      IF b \in ToSet(blocks) THEN new[CHOOSE i \in DOMAIN blocks : blocks[i] = b] ELSE erased[b]]
          /\ Reply("ok")

BUP_Read(n) ==
  /\ Checked
  /\ reply' = IF bupFindEntry(n) = {} THEN <<"not found">> ELSE <<"ok", Payload(Entry(n))>>
  /\ UNCHANGED ram

(* Only the entry is erased: no entry claims its blocks then.                *)
BUP_Delete(n) ==
  /\ Checked
  /\ IF bupFindEntry(n) = {} THEN Reply("not found") /\ UNCHANGED ram
     ELSE Reply("ok") /\ ram' = [ram EXCEPT ![Entry(n)] = Zero]

BUP_Verify(n, d) ==
  /\ Checked
  /\ Reply(IF bupFindEntry(n) = {} THEN "not found"
           ELSE IF /\ Len(bupBuildReadChain(Entry(n))) >= ram[Entry(n)].size
                   /\ IsPrefix(Payload(Entry(n)), d)
           THEN "ok" ELSE "no match")
  /\ UNCHANGED ram

(* None stands for no name given, or one that matches all.                   *)
Matches(pattern) == IF pattern = None THEN Entries ELSE bupFindEntry(pattern)

BUP_Dir(pattern, limit) ==
  /\ Checked
  /\ reply' = LET total == Cardinality(Matches(pattern)) IN <<"count", IF total > limit THEN -total ELSE total>>
  /\ UNCHANGED ram

BackupNext ==
  \/ Unformatted \/ NoDevice \/ BUP_Format
  \/ \E n \in Names :
       \/ BUP_Delete(n) \/ BUP_Read(n)
       \/ \E d \in Contents : BUP_Verify(n, d) \/ \E keep \in BOOLEAN : BUP_Write(n, d, keep)
  \/ \E pattern \in Names \cup {None}, limit \in 0 .. Cardinality(Names) : BUP_Dir(pattern, limit)
  \/ \E d \in Contents : BUP_Stat(Len(d))

BackupSpec == BackupInit /\ [][BackupNext]_backupVars

-----------------------------------------------------------------------------
(* Properties                                                                *)

(* No block belongs to two files, or to a file and the directory, and none   *)
(* twice to one: a block that were would be written under both.              *)
BlocksDisjoint ==
  \A e \in Entries :
    /\ Claimed(e) \subseteq FileBlocks
    /\ Cardinality(Claimed(e)) = Len(bupEntryBlocks(e).claimed)
    /\ Claimed(e) \cap Entries = {}
    /\ \A f \in Entries \ {e} : Claimed(e) \cap Claimed(f) = {} /\ ram[e].name # ram[f].name

(* What a game reads back under a name.                                      *)
Held(n) == IF bupFindEntry(n) = {} THEN None ELSE Payload(Entry(n))
=============================================================================
