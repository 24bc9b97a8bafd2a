------------------------------ MODULE QbftWal ------------------------------
(***************************************************************************)
(* qbft.WAL (internal/consensus/qbft/wal.go): the append-only file of vote *)
(* intents.  The file is the sequence of its newline-terminated lines and  *)
(* the bytes after the last newline.  A line is the intent it unmarshals   *)
(* to, or Corrupt.  O_APPEND never starts a new line by itself: what is    *)
(* written after an unterminated tail continues that tail's line.          *)
(***************************************************************************)
EXTENDS QbftMessage, Sequences

CONSTANTS
    Corrupt,    \* bytes that do not unmarshal to a walEntry
    NoTail      \* the file is empty or ends with a newline

VARIABLES walLines, walTail

walVars == <<walLines, walTail>>

\* walEntry: the fields of a message that are written.
WalEntry(m) == [type |-> m.type, height |-> m.height, round |-> m.round,
                id |-> m.id, from |-> m.from]

WalEntries ==
    [type : {"prepare", "commit"}, height : Heights, round : Rounds,
     id : IDs \cup {NoID}, from : Senders \cup {NoSender}]

ASSUME WalAssumption ==
    /\ Corrupt # NoTail
    /\ Corrupt \notin WalEntries /\ NoTail \notin WalEntries

WalTypeOK ==
    /\ walLines \in Seq(WalEntries \cup {Corrupt})
    /\ walTail \in WalEntries \cup {Corrupt, NoTail}

WalInit == walLines = <<>> /\ walTail = NoTail
----------------------------------------------------------------------------
(* AppendIntent *)

\* What a line becomes when an intent's bytes follow the tail: two JSON
\* texts, or a prefix of one and a whole one, do not unmarshal.
Joined(e) == IF walTail = NoTail THEN e ELSE Corrupt

\* Faulty variant: the file is truncated when it is opened.
AppendTruncates(e) == walLines' = <<e>> /\ walTail' = NoTail

\* Write and Sync succeed: AppendIntent returns nil.
AppendWrites(e) ==
    /\ walLines' = Append(walLines, Joined(e))
    /\ walTail' = NoTail

\* An error return, or a crash inside AppendIntent: the file was not opened
\* or nothing was written, part of the line was, all of it but the newline,
\* or the whole line and then Sync failed.
AppendBreaks(e) ==
    \/ UNCHANGED walVars
    \/ walTail' = Corrupt /\ UNCHANGED walLines
    \/ walTail' = Joined(e) /\ UNCHANGED walLines
    \/ AppendWrites(e)
----------------------------------------------------------------------------
(* LastIntent *)

\* Every line the scanner returns, the unterminated one included.
Scanned == IF walTail = NoTail THEN walLines ELSE Append(walLines, walTail)

\* The lines that unmarshal, by position.
ReadableAt == {i \in DOMAIN Scanned : Scanned[i] # Corrupt}

HasIntent == ReadableAt # {}

\* The last entry that unmarshals.
LastIntent == Scanned[CHOOSE i \in ReadableAt : \A j \in ReadableAt : j <= i]
=============================================================================
