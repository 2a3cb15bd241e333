----------------------------- MODULE SaveFiles -----------------------------
(***************************************************************************)
(* What the backup library promises a game: named files in a memory of so  *)
(* many blocks.  BackupRAM shows how the blocks hold them.                 *)
(***************************************************************************)
EXTENDS Integers, Sequences, FiniteSets, SequencesExt, FiniteSetsExt

CONSTANTS
  Names, Contents,       \* of files; contents are sequences of words
  NoFile,
  Capacity,              \* blocks for files
  Slots                  \* words of a directory entry's block list

VARIABLES files, reply

vars == <<files, reply>>

(* The blocks a file of size words takes beside its directory entry: a block *)
(* gives its words less one, the entry its list's less one.                  *)
Page == 2 * Slots
BlocksFor(size) == (size + Slots - 1) \div (Page - 1)
TooLong(size) == BlocksFor(size) > Slots - 1 + Slots * Page

Free(fs) ==
  Capacity - SumFunction([n \in Names |-> IF fs[n] = NoFile THEN 0 ELSE 1 + BlocksFor(Len(fs[n]))])
Files == {n \in Names : files[n] # NoFile}
Erased(n) == [files EXCEPT ![n] = NoFile]

Reply(code) == reply' = <<code>>

Init == files = [n \in Names |-> NoFile] /\ reply = <<"none">>

(* A file is replaced only if the game lets it be; what it held is gone even *)
(* when there is no room for the new contents.                               *)
Write(n, d, keep) ==
  \/ TooLong(Len(d)) /\ Reply("not enough memory") /\ UNCHANGED files
  \/ ~TooLong(Len(d)) /\ n \in Files /\ keep /\ Reply("found") /\ UNCHANGED files
  \/ /\ ~TooLong(Len(d)) /\ ~(n \in Files /\ keep)
     /\ IF 1 + BlocksFor(Len(d)) <= Free(Erased(n))
        THEN files' = [files EXCEPT ![n] = d] /\ Reply("ok")
        ELSE files' = Erased(n) /\ Reply("not enough memory")

Delete(n) ==
  /\ files' = Erased(n)
  /\ Reply(IF n \in Files THEN "ok" ELSE "not found")

Read(n) ==
  /\ reply' = IF n \in Files THEN <<"ok", files[n]>> ELSE <<"not found">>
  /\ UNCHANGED files

Verify(n, d) ==
  /\ Reply(IF n \notin Files THEN "not found"
           ELSE IF IsPrefix(files[n], d) THEN "ok" ELSE "no match")
  /\ UNCHANGED files

(* The files of a name, or all: NoFile stands for no name.                   *)
Named(pattern) == IF pattern = NoFile THEN Files ELSE Files \cap {pattern}

Dir(pattern, limit) ==
  /\ reply' = LET total == Cardinality(Named(pattern)) IN <<"count", IF total > limit THEN -total ELSE total>>
  /\ UNCHANGED files

Stat(size) ==
  /\ reply' = LET f == Free(files) IN
              <<"ok", IF f = 0 THEN 0 ELSE (Page - 1) * f - Slots, f, f \div (1 + BlocksFor(size))>>
  /\ UNCHANGED files

Format == files' = [n \in Names |-> NoFile] /\ Reply("ok")

(* A device that holds no format yet; one that is not there.                 *)
Unformatted == Files = {} /\ Reply("unformatted") /\ UNCHANGED files
NoDevice == reply' \in {<<"no device">>, <<"count", 0>>, <<"ok">>} /\ UNCHANGED files

Next ==
  \/ \E n \in Names :
       \/ Delete(n) \/ Read(n)
       \/ \E d \in Contents : Verify(n, d) \/ \E keep \in BOOLEAN : Write(n, d, keep)
  \/ \E pattern \in Names \cup {NoFile}, limit \in 0 .. Cardinality(Names) : Dir(pattern, limit)
  \/ \E d \in Contents : Stat(Len(d))
  \/ Format \/ NoDevice \/ Unformatted

Spec == Init /\ [][Next]_vars
=============================================================================
