------------------------------ MODULE LogRead ------------------------------
(***************************************************************************)
(* LogCollector::ReadLog: the last lines of a log, with or without a keyword, *)
(* found by reading blocks from the end of the file towards its start, while  *)
(* another process appends to the file or cuts it.                          *)
(*                                                                         *)
(* A file is a sequence of bytes.  The file is opened once, so a rotation by  *)
(* rename does not change what is read, but a truncation does.              *)
(*                                                                         *)
(* An operator X_Y beside X is X with the defect Y: it is not part of the    *)
(* specification, and shows that a property is sensitive to it.             *)
(***************************************************************************)
EXTENDS Integers, Sequences, Selection, Utf8

CONSTANTS Files,        \* what a log may hold when it is opened
          Keywords,     \* <<>> is no keyword
          MaximumLines, \* kMaximumLines
          LineCap,      \* kMaximumLineLength
          BlockSize,    \* kReadBlockSize
          ScanCap,      \* kMaximumScanBytes
          Appended      \* a byte another process may add

ASSUME LogReadAssumption ==
    /\ MaximumLines \in Nat \ {0} /\ LineCap \in Nat \ {0}
    /\ BlockSize \in Nat \ {0} /\ ScanCap \in Nat \ {0}
    /\ Files \subseteq Seq(Byte) /\ Keywords \subseteq Seq(Byte) /\ Appended \in Byte

Newline == 10
CarriageReturn == 13

VARIABLES
    file,       \* the bytes of the log
    opened,     \* what they were when the log was opened
    cut,        \* the log has been truncated since
    phase,      \* "request", "scan", "done"
    max, keyword,               \* of the request
    position, scanned, newlines, contents,
    lines, truncated,           \* result
    error       \* "none" or an error code

readVars == <<file, opened, cut, phase, max, keyword, position, scanned, newlines,
              contents, lines, truncated, error>>
request == <<max, keyword>>
result  == <<lines, truncated>>
scan    == <<position, scanned, newlines, contents>>

ReadInit ==
    /\ file \in Files /\ opened = <<>> /\ cut = FALSE /\ phase = "request"
    /\ max \in 0..(MaximumLines + 1) /\ keyword \in Keywords
    /\ position = 0 /\ scanned = 0 /\ newlines = 0 /\ contents = <<>>
    /\ lines = <<>> /\ truncated = FALSE /\ error = "none"

-----------------------------------------------------------------------------
Fail(e) == phase' = "done" /\ error' = e

\* An unknown log or a keyword that is too long fails like a bad line count.
Refuse ==
    /\ phase = "request" /\ max \notin 1..MaximumLines
    /\ Fail("INVALID_ARGUMENT")
    /\ UNCHANGED <<file, opened, cut, request, scan, result>>

OpenFails ==
    /\ phase = "request" /\ max \in 1..MaximumLines
    /\ \E e \in {"NOT_FOUND", "PERMISSION_DENIED", "INTERNAL"} : Fail(e)
    /\ UNCHANGED <<file, opened, cut, request, scan, result>>

OpenLog ==
    /\ phase = "request" /\ max \in 1..MaximumLines
    /\ phase' = "scan" /\ opened' = file /\ position' = Len(file)
    /\ UNCHANGED <<file, cut, request, scanned, newlines, contents, result, error>>

-----------------------------------------------------------------------------
EnoughLines_OffByOne == newlines >= max

\* More newlines than lines: the first line of the contents may be a piece.
EnoughLines == newlines > max

Scanning == position > 0 /\ scanned < ScanCap /\ ~(keyword = <<>> /\ EnoughLines)

Newlines(chunk) == Len(At(chunk, {i \in 1..Len(chunk) : chunk[i] = Newline}))

ReadBlock_Uncounted ==
    LET size  == IF position < BlockSize THEN position ELSE BlockSize
        chunk == SubSeq(file, position - size + 1, position)
    IN /\ phase = "scan" /\ Scanning /\ position <= Len(file)
       /\ position' = position - size
       /\ newlines' = newlines + Newlines(chunk) /\ contents' = chunk \o contents
       /\ UNCHANGED <<phase, error, scanned, file, opened, cut, request, result>>

ReadBlock ==
    LET size  == IF position < BlockSize THEN position ELSE BlockSize
        chunk == SubSeq(file, position - size + 1, position)
    IN /\ phase = "scan" /\ Scanning
       /\ IF position <= Len(file)
          THEN /\ position' = position - size /\ scanned' = scanned + size
               /\ newlines' = newlines + Newlines(chunk) /\ contents' = chunk \o contents
               /\ UNCHANGED <<phase, error>>
          ELSE Fail("INTERNAL") /\ UNCHANGED scan
       /\ UNCHANGED <<file, opened, cut, request, result>>

-----------------------------------------------------------------------------
(* getline: a line ends at each newline, and at the end of a text that goes    *)
(* on after its last one.                                                   *)
Ends(text) ==
    {i \in 1..Len(text) : text[i] = Newline}
    \cup {i \in {Len(text) + 1} : text # <<>> /\ text[Len(text)] # Newline}

Begin(text, end) ==
    CHOOSE i \in 1..end : /\ i = 1 \/ text[i - 1] = Newline
                         /\ \A j \in i..(end - 1) : text[j] # Newline
LineAt(text, end) == SubSeq(text, Begin(text, end), end - 1)

WithoutReturn(l) ==
    IF l # <<>> /\ l[Len(l)] = CarriageReturn THEN SubSeq(l, 1, Len(l) - 1) ELSE l

Contained(word, l) ==
    \E i \in 0..(Len(l) - Len(word)) : SubSeq(l, i + 1, i + Len(word)) = word

Matching(text) ==
    LET line == [end \in 1..(Len(text) + 1) |-> WithoutReturn(LineAt(text, end))]
    IN At(line, {end \in Ends(text) : keyword = <<>> \/ Contained(keyword, line[end])})

Clip(l) == SubSeq(l, 1, IF Len(l) > LineCap THEN LineCap ELSE Len(l))
LastOf(n, s) == IF Len(s) > n THEN SubSeq(s, Len(s) - n + 1, Len(s)) ELSE s

Truncated_ForgettingCutLines(all) == Len(all) > max \/ position > 0

Truncated(all) ==
    \/ Len(all) > max
    \/ \E k \in 1..Len(all) : Len(all[k]) > LineCap
    \/ position > 0

Select ==
    LET all == Matching(contents)
    IN /\ phase = "scan" /\ ~Scanning
       /\ phase' = "done" /\ truncated' = Truncated(all)
       /\ lines' = LastOf(max, [k \in 1..Len(all) |-> SanitizeUtf8(Clip(all[k]))])
       /\ UNCHANGED <<file, opened, cut, request, scan, error>>

-----------------------------------------------------------------------------
(* The program that writes the log.                                         *)
Grow ==
    /\ phase = "scan" /\ Len(file) = Len(opened) /\ ~cut
    /\ file' = Append(file, Appended)
    /\ UNCHANGED <<opened, cut, phase, request, scan, result, error>>

Cut ==
    /\ phase = "scan" /\ ~cut
    /\ file' = <<>> /\ cut' = TRUE
    /\ UNCHANGED <<opened, phase, request, scan, result, error>>

Done == phase = "done" /\ UNCHANGED readVars

ReadNext == Refuse \/ OpenFails \/ OpenLog \/ ReadBlock \/ Select \/ Grow \/ Cut \/ Done
ReadSpec == ReadInit /\ [][ReadNext]_readVars
-----------------------------------------------------------------------------
(* Every variable has its type, and the scan stays within its bounds.        *)
ReadTypeOK ==
    /\ phase \in {"request", "scan", "done"} /\ cut \in BOOLEAN
    /\ max \in 0..(MaximumLines + 1) /\ keyword \in Keywords
    /\ opened \in Seq(Byte) /\ position \in 0..Len(opened) /\ position + scanned = Len(opened)
    /\ scanned < ScanCap + BlockSize /\ Len(contents) = scanned /\ newlines \in 0..scanned
    /\ Len(lines) <= MaximumLines /\ truncated \in BOOLEAN
    /\ error \in {"none", "INVALID_ARGUMENT", "NOT_FOUND", "PERMISSION_DENIED", "INTERNAL"}

(* The reference: the last lines of the whole file, each cut and repaired.    *)
Whole     == Matching(opened)
Reference == LastOf(max, [k \in 1..Len(Whole) |-> Repaired(Clip(Whole[k]))])

Answered == phase = "done" /\ error = "none" /\ ~cut
Capped   == position > 0 /\ ~(keyword = <<>> /\ EnoughLines)

EndsWith(s, t) == \E n \in 0..Len(s) : t = SubSeq(s, n + 1, Len(s))

(* The answer is the last lines of the file as it was when it was opened,     *)
(* wherever the blocks were cut and whatever was appended meanwhile.  Only   *)
(* when the scan gave up at its cap may there be fewer of them and the first *)
(* be a piece of one, and then the client is told that something is missing. *)
AnswerIsTheTail ==
    Answered =>
        /\ ~Capped => lines = Reference
        /\ Capped  => truncated /\ (lines # <<>> => EndsWith(Reference, Tail(lines)))

(* An answer that is not marked truncated is everything the log has to say:   *)
(* all its (matching) lines, none of them cut.                              *)
UnmarkedIsComplete ==
    Answered /\ ~truncated => lines = [k \in 1..Len(Whole) |-> Repaired(Whole[k])]

=============================================================================
